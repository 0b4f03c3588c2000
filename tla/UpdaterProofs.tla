--------------------------- MODULE UpdaterProofs ---------------------------
(***************************************************************************)
(* What the updater serves, for any report of a provider, any order of the *)
(* walks over its maps and any number of nodes, services and endpoints.    *)
(* The first parts are about the pure functions, parsing and transform;    *)
(* the last one is about the rounds of Updater.Run.                        *)
(***************************************************************************)
EXTENDS Updater, ListLemmas

(* Whatever the annotation says, Envoy is given a weight it accepts.       *)
LEMMA WeightInRange ==
    ASSUME NEW ep, \A key \in DOMAIN ep.annotations : ep.annotations[key] \in Value
    PROVE  weightOf(ep) \in 1..128
<1> DEFINE key == "endpoint.weight"
           num == IF key \in DOMAIN ep.annotations
                  THEN parseIntWithFallback(ep.annotations[key], -1) ELSE -1
<1>1. ASSUME NEW val \in Value PROVE parseIntWithFallback(val, -1) \in Int
  <2>1. Len(val) \in Nat /\ \A i \in 1..Len(val) : val[i] \in Int
    BY DEF Value, Field, Text, Empty
  <2> QED
    BY <2>1 DEF parseIntWithFallback
<1>2. num \in Int
  BY <1>1
<1> HIDE DEF num
<1>3. num > 0 => num % UInt32Size \in Nat
  BY <1>2, UInt32Assumption
<1>4. getUInt32(ep.annotations, "endpoint.weight", 64)
         = IF num > 0 THEN num % UInt32Size ELSE 64
  BY DEF getUInt32, num
<1> QED
  BY <1>2, <1>3, <1>4 DEF weightOf

-----------------------------------------------------------------------------
(* AddRoute leaves out a virtual host whose name the route has: the loop   *)
(* ends with every name once.                                              *)
LEMMA VHostsAdded ==
    ASSUME NEW T, NEW new \in Seq(T)
    PROVE  LET vhosts == addVHosts(<<>>, new)
           IN  /\ vhosts \in Seq(T)
               /\ ToSet(vhosts) \subseteq ToSet(new)
               /\ \A i, j \in DOMAIN vhosts : vhosts[i].host = vhosts[j].host => i = j
               /\ {v.host : v \in ToSet(vhosts)} = {v.host : v \in ToSet(new)}
<1> DEFINE n == Len(new)
           Q == Seq(T)
           has(s, v) == \E i \in DOMAIN s : s[i].host = v.host
           next(s, v) == IF has(s, v) THEN s ELSE Append(s, v)
           step == [x \in (1..n) \X Q |-> next(x[2], new[x[1]])]
           Added(g) == g = [k \in 0..n |->
                          IF k = 0 THEN <<>>
                          ELSE IF \E i \in DOMAIN g[k - 1] : g[k - 1][i].host = new[k].host
                               THEN g[k - 1]
                               ELSE Append(g[k - 1], new[k])]
           added == CHOOSE g : Added(g)
<1>1. n \in Nat /\ DOMAIN new = 1..n /\ (\A k \in 1..n : new[k] \in T) /\ <<>> \in Q
  OBVIOUS
<1>2. addVHosts(<<>>, new) = added[n]
  BY DEF addVHosts
<1>3. \A k \in 1..n, v \in Q : step[<<k, v>>] = next(v, new[k])
  OBVIOUS
<1>4. \A s \in Q, v \in T : next(s, v) \in Q
  OBVIOUS
<1> HIDE DEF Added, step, n
<1>5. IsStep(step, n, Q)
  <2> HIDE DEF next, Q
  <2> QED
    BY <1>1, <1>3, <1>4 DEF IsStep
<1>6. PICK base : base = <<>>
  OBVIOUS
<1>7. base \in Q
  BY <1>6
<1> HIDE DEF Q
<1>8. PICK f : IsLoop(f, n, Q, base, step)
  BY <1>1, <1>5, <1>7, LoopExists
<1>9. Added(f)
  <2>1. f \in [0..n -> Q] /\ f[0] = <<>>
    BY <1>6, <1>8 DEF IsLoop
  <2>2. ASSUME NEW k \in 1..n PROVE f[k] = next(f[k - 1], new[k])
    <3>1. k - 1 \in 0..n
      BY <1>1
    <3>2. f[k - 1] \in Q
      BY <2>1, <3>1
    <3> QED
      BY <1>3, <1>8, <3>2 DEF IsLoop
  <2>3. \A k \in 0..n : k # 0 => k \in 1..n
    BY <1>1
  <2>4. f = [k \in 0..n |-> f[k]]
    BY <2>1
  <2>5. \A k \in 0..n : f[k] = IF k = 0 THEN <<>> ELSE next(f[k - 1], new[k])
    BY <2>1, <2>2, <2>3
  <2>6. f = [k \in 0..n |-> IF k = 0 THEN <<>> ELSE next(f[k - 1], new[k])]
    BY <2>4, <2>5
  <2> QED
    BY <2>6 DEF Added
<1>10. Added(added)
  BY <1>9
<1> HIDE DEF added
<1>11. added[0] = <<>> /\ \A k \in 1..n : added[k] = next(added[k - 1], new[k])
  <2>1. 0 \in 0..n /\ \A k \in 1..n : k \in 0..n /\ k # 0
    BY <1>1
  <2> QED
    BY <1>10, <2>1 DEF Added
<1> DEFINE hosts(s) == {s[i].host : i \in DOMAIN s}
           first(k) == {new[j] : j \in 1..k}
           Good(s, k) == /\ s \in Seq(T)
                         /\ ToSet(s) \subseteq first(k)
                         /\ \A i, j \in DOMAIN s : s[i].host = s[j].host => i = j
                         /\ \A j \in 1..k : has(s, new[j])
           I == {k \in 0..n : Good(added[k], k)}
<1>12. 0 \in I
  <2>1. Good(<<>>, 0)
    BY DEF ToSet
  <2> HIDE DEF Good
  <2> QED
    BY <1>1, <1>11, <2>1
<1>13. ASSUME NEW k \in 1..n, k - 1 \in I PROVE k \in I
  <2>1. PICK s : s = added[k - 1]
    OBVIOUS
  <2>2. Good(s, k - 1) /\ k \in 0..n /\ added[k] = next(s, new[k]) /\ new[k] \in T
    BY <1>1, <1>11, <1>13, <2>1
  <2>3. 1..k = 1..(k - 1) \cup {k}
    BY <1>1
  <2>4. CASE has(s, new[k])
    <3>1. Good(s, k)
      BY <2>2, <2>3, <2>4
    <3> QED
      BY <2>2, <2>4, <3>1, SMTT(30)
  <2>5. CASE ~ has(s, new[k])
    <3>1. PICK t : t = Append(s, new[k])
      OBVIOUS
    <3>2. /\ s \in Seq(T) /\ Len(s) \in Nat /\ DOMAIN s = 1..Len(s)
          /\ t \in Seq(T) /\ DOMAIN t = 1..(Len(s) + 1)
          /\ \A i \in 1..Len(s) : t[i] = s[i]
          /\ t[Len(s) + 1] = new[k]
      BY <2>2, <3>1
    <3>3. \A i \in DOMAIN t : i \in DOMAIN s \/ i = Len(s) + 1
      BY <3>2
    <3>4. \A i \in DOMAIN s : i \in DOMAIN t
      BY <3>2
    <3>5. ToSet(t) \subseteq first(k)
      <4>1. \A m \in 1..(k - 1) : m \in 1..k
        BY <2>3
      <4>2. ASSUME NEW m \in DOMAIN s PROVE s[m] \in first(k)
        <5>1. s[m] \in first(k - 1)
          BY <2>2 DEF ToSet
        <5> QED
          BY <4>1, <5>1
      <4>3. new[k] \in first(k)
        BY <2>3
      <4> QED
        BY <3>2, <3>3, <4>2, <4>3 DEF ToSet
    <3>6. ASSUME NEW i \in DOMAIN t, NEW j \in DOMAIN t, t[i].host = t[j].host PROVE i = j
      <4>1. \A m \in DOMAIN s : s[m].host # new[k].host
        BY <2>5
      <4>2. \A m \in DOMAIN s : t[m] = s[m]
        BY <3>2
      <4>3. \A a, b \in DOMAIN s : s[a].host = s[b].host => a = b
        BY <2>2
      <4>4. CASE i \in DOMAIN s /\ j \in DOMAIN s
        BY <3>6, <4>2, <4>3, <4>4
      <4>5. CASE i \in DOMAIN s /\ j = Len(s) + 1
        BY <3>2, <3>6, <4>1, <4>2, <4>5
      <4>6. CASE i = Len(s) + 1 /\ j \in DOMAIN s
        BY <3>2, <3>6, <4>1, <4>2, <4>6
      <4> QED
        BY <3>3, <4>4, <4>5, <4>6
    <3>7. \A j \in 1..k : has(t, new[j])
      <4>1. has(t, new[k])
        <5>1. Len(s) + 1 \in DOMAIN t
          BY <3>2
        <5> QED
          BY <3>2, <5>1
      <4>2. \A j \in 1..(k - 1) : has(t, new[j])
        BY <2>2, <3>2, <3>4, SMTT(30)
      <4> QED
        BY <2>3, <4>1, <4>2
    <3>8. Good(t, k)
      BY <3>2, <3>5, <3>6, <3>7
    <3> HIDE DEF Good
    <3> QED
      BY <2>2, <2>5, <3>1, <3>8
  <2> QED
    BY <2>4, <2>5
<1> HIDE DEF I
<1>14. \A k \in 1..n : k - 1 \in I => k \in I
  BY <1>13
<1>15. Good(added[n], n)
  <2>1. 0..n \subseteq I
    BY <1>1, <1>12, <1>14, IndexInduction
  <2>2. n \in I
    BY <1>1, <2>1
  <2> HIDE DEF Good
  <2> QED
    BY <2>2 DEF I
<1>16. PICK s : s = added[n]
  OBVIOUS
<1>17. /\ s \in Seq(T) /\ ToSet(s) \subseteq ToSet(new)
       /\ \A i, j \in DOMAIN s : s[i].host = s[j].host => i = j
       /\ \A j \in 1..n : has(s, new[j])
  <2>1. ToSet(new) = first(n)
    BY <1>1 DEF ToSet
  <2>2. Good(s, n)
    <3> HIDE DEF Good
    <3> QED
      BY <1>15, <1>16
  <2> HIDE DEF first
  <2> QED
    BY <2>1, <2>2
<1>18. {v.host : v \in ToSet(s)} = {v.host : v \in ToSet(new)}
  <2>1. {v.host : v \in ToSet(s)} \subseteq {v.host : v \in ToSet(new)}
    BY <1>17
  <2>2. ASSUME NEW v \in ToSet(new) PROVE \E w \in ToSet(s) : w.host = v.host
    <3>1. PICK j \in 1..n : v = new[j]
      BY <1>1 DEF ToSet
    <3>2. PICK i \in DOMAIN s : s[i].host = new[j].host
      BY <1>17
    <3> QED
      BY <3>1, <3>2 DEF ToSet
  <2> QED
    BY <2>1, <2>2
<1> QED
  BY <1>2, <1>16, <1>17, <1>18
-----------------------------------------------------------------------------
(* Slices: what is built index by index of one is one.                     *)
LEMMA SliceShape ==
    ASSUME NEW s, IsSlice(s), NEW t, t = [i \in DOMAIN s |-> t[i]]
    PROVE  IsSlice(t) /\ DOMAIN t = DOMAIN s
<1>1. s \in Seq(ToSet(s))
  BY DEF IsSlice
<1>2. PICK n \in Nat : DOMAIN s = 1..n
  BY <1>1
<1>3. DOMAIN t = 1..n
  BY <1>2
<1>4. t \in [1..n -> ToSet(t)]
  BY <1>2, <1>3 DEF ToSet
<1> QED
  BY <1>2, <1>3, <1>4 DEF IsSlice

(* The keys of a map made of a slice are finitely many.                    *)
LEMMA NamesAreFinite ==
    ASSUME NEW s, IsSlice(s)
    PROVE  IsFiniteSet({s[i].name : i \in DOMAIN s})
<1> DEFINE names == {s[i].name : i \in DOMAIN s}
           f == [i \in DOMAIN s |-> s[i].name]
<1>1. s \in Seq(ToSet(s))
  BY DEF IsSlice
<1>2. PICK n \in Nat : DOMAIN s = 1..n
  BY <1>1
<1>3. f \in Surjection(1..n, names)
  BY <1>2 DEF Surjection
<1>4. IsFiniteSet(1..n)
  BY <1>2, FS_Interval
<1> HIDE DEF f, names
<1>5. IsFiniteSet(names)
  BY <1>3, <1>4, FS_Surjection
<1> QED
  BY <1>5 DEF names

(* Through its sidecar an endpoint has the ingress port, and its weight.   *)
LEMMA EgressEndpoints ==
    ASSUME NEW eps, IsSlice(eps), \A ep \in ToSet(eps) : IsEndpoint(ep)
    PROVE  LET out == makeEgressEndpoints(eps)
           IN  /\ IsSlice(out) /\ DOMAIN out = DOMAIN eps
               /\ \A i \in DOMAIN eps :
                     /\ IsEndpoint(out[i])
                     /\ Reachable(out[i], out[i].port) = Reachable(eps[i], IngressPort)
<1> DEFINE out == makeEgressEndpoints(eps)
<1>1. out = [i \in DOMAIN eps |-> out[i]]
  BY DEF makeEgressEndpoints
<1>2. ASSUME NEW i \in DOMAIN eps
      PROVE  /\ IsEndpoint(out[i])
             /\ Reachable(out[i], out[i].port) = Reachable(eps[i], IngressPort)
  <2>1. PICK ep : ep = eps[i]
    OBVIOUS
  <2>2. IsEndpoint(ep)
    BY <2>1 DEF ToSet
  <2>3. out[i] = [ep EXCEPT !.port = IngressPort]
    BY <2>1 DEF makeEgressEndpoints
  <2> HIDE DEF out
  <2>4. PICK a, q, ann : ep = [address |-> a, port |-> q, annotations |-> ann]
    BY <2>2 DEF IsEndpoint
  <2>5. out[i] = [address |-> a, port |-> IngressPort, annotations |-> ann]
    BY <2>3, <2>4
  <2>6. ep.annotations = ann /\ ep.address = a
    BY <2>4
  <2>7. out[i].annotations = ann /\ out[i].address = a /\ out[i].port = IngressPort
    BY <2>5
  <2>8. IsEndpoint(out[i])
    BY <2>2, <2>5, <2>6, <2>7 DEF IsEndpoint
  <2>9. weightOf(out[i]) = weightOf(ep)
    BY <2>6, <2>7 DEF weightOf
  <2> QED
    BY <2>1, <2>6, <2>7, <2>8, <2>9 DEF Reachable
<1> HIDE DEF out
<1>3. IsSlice(out) /\ DOMAIN out = DOMAIN eps
  BY <1>1, SliceShape
<1> QED
  BY <1>2, <1>3 DEF out

-----------------------------------------------------------------------------
(* A list of clusters with well-formed endpoints.                          *)
IsClusters(cs) == IsSlice(cs) /\ \A c \in ToSet(cs) : IsCluster(c)

(* What AddCluster gives an Envoy cluster: the endpoints of all clusters   *)
(* of its name.                                                            *)
Gathered(C, name) ==
    UNION {{Reachable(ep, ep.port) : ep \in ToSet(c.endpoints)} :
              c \in {d \in C : d.name = name}}

LEMMA EndpointsGathered ==
    ASSUME NEW cs, IsClusters(cs)
    PROVE  LET map == endpointMap(cs)
           IN  /\ IsMap(map)
               /\ DOMAIN map = {c.name : c \in ToSet(cs)}
               /\ \A name \in DOMAIN map : ToSet(map[name]) = Gathered(ToSet(cs), name)
<1> DEFINE map == endpointMap(cs)
           names == {cs[i].name : i \in DOMAIN cs}
           one(name, i) == IF cs[i].name = name THEN createEnvoyEndpoint(cs[i].endpoints)
                           ELSE <<>>
           lists(name) == [i \in DOMAIN cs |-> one(name, i)]
<1>1. map = [name \in names |-> FlattenSeq(lists(name))]
  BY DEF endpointMap
<1>2. IsFiniteSet(names)
  BY NamesAreFinite DEF IsClusters
<1>3. IsMap(map) /\ DOMAIN map = names
  <2> HIDE DEF lists, names, map
  <2> QED
    BY <1>1, <1>2 DEF IsMap
<1>4. ASSUME NEW name \in names PROVE ToSet(map[name]) = Gathered(ToSet(cs), name)
  <2> DEFINE S == UNION {{Reachable(ep, ep.port) : ep \in ToSet(cs[i].endpoints)} :
                            i \in DOMAIN cs}
             at(i) == {Reachable(ep, ep.port) : ep \in ToSet(cs[i].endpoints)}
  <2>1. ASSUME NEW i \in DOMAIN cs
        PROVE  /\ one(name, i) \in Seq(S)
               /\ ToSet(one(name, i)) = IF cs[i].name = name THEN at(i) ELSE {}
    <3>1. CASE cs[i].name # name
      BY <3>1 DEF ToSet
    <3>2. CASE cs[i].name = name
      <4>1. PICK eps : eps = cs[i].endpoints
        OBVIOUS
      <4>2. eps \in Seq(ToSet(eps))
        BY <4>1, SMTT(30) DEF IsClusters, IsCluster, IsSlice, ToSet
      <4>3. PICK n \in Nat : DOMAIN eps = 1..n
        BY <4>2
      <4>4. PICK out : out = createEnvoyEndpoint(eps)
        OBVIOUS
      <4>5. DOMAIN out = 1..n /\ \A k \in 1..n : out[k] = Reachable(eps[k], eps[k].port)
        BY <4>3, <4>4 DEF createEnvoyEndpoint, Reachable
      <4>6. out = [k \in 1..n |-> out[k]]
        BY <4>3, <4>4 DEF createEnvoyEndpoint
      <4>7. \A k \in 1..n : eps[k] \in ToSet(eps)
        BY <4>3 DEF ToSet
      <4>8. \A k \in 1..n : out[k] \in S
        BY <4>1, <4>5, <4>7
      <4>9. out \in Seq(S)
        <5> HIDE DEF S
        <5> QED
          BY <4>3, <4>6, <4>8
      <4>10. ToSet(out) = at(i)
        BY <4>1, <4>3, <4>5 DEF ToSet
      <4> QED
        BY <3>2, <4>1, <4>4, <4>9, <4>10
    <3> QED
      BY <3>1, <3>2
  <2>2. PICK ls : ls = lists(name)
    OBVIOUS
  <2>3. DOMAIN ls = DOMAIN cs /\ \A i \in DOMAIN cs : ls[i] = one(name, i)
    BY <2>2
  <2>4. IsSlice(ls)
    BY <2>2, SliceShape DEF IsClusters
  <2>5. ls \in Seq(Seq(S))
    <3>1. PICK n \in Nat : DOMAIN ls = 1..n
      BY <2>4 DEF IsSlice
    <3>2. ls = [i \in 1..n |-> ls[i]]
      BY <2>2, <2>3, <3>1
    <3>3. \A i \in 1..n : ls[i] \in Seq(S)
      BY <2>1, <2>3, <3>1
    <3> HIDE DEF S
    <3> QED
      BY <3>1, <3>2, <3>3
  <2> HIDE DEF S
  <2>6. ToSet(FlattenSeq(ls)) = UNION {ToSet(ls[i]) : i \in DOMAIN ls}
    BY <2>5, FlattenHolds
  <2>7. map[name] = FlattenSeq(ls)
    BY <1>1, <2>2
  <2>8. \A i \in DOMAIN cs : ToSet(ls[i]) = IF cs[i].name = name THEN at(i) ELSE {}
    BY <2>1, <2>3
  <2>9. Gathered(ToSet(cs), name) = UNION {at(i) : i \in {j \in DOMAIN cs : cs[j].name = name}}
    BY DEF Gathered, ToSet
  <2> HIDE DEF at, map, one, lists
  <2>10. UNION {ToSet(ls[i]) : i \in DOMAIN ls} = Gathered(ToSet(cs), name)
    <3>1. ASSUME NEW x \in UNION {ToSet(ls[i]) : i \in DOMAIN ls}
          PROVE  x \in Gathered(ToSet(cs), name)
      <4>1. PICK i \in DOMAIN cs : x \in ToSet(ls[i])
        BY <2>3
      <4>2. cs[i].name = name /\ x \in at(i)
        BY <2>8, <4>1
      <4> QED
        BY <2>9, <4>2
    <3>2. ASSUME NEW x \in Gathered(ToSet(cs), name)
          PROVE  x \in UNION {ToSet(ls[i]) : i \in DOMAIN ls}
      <4>1. PICK i \in DOMAIN cs : cs[i].name = name /\ x \in at(i)
        BY <2>9
      <4>2. x \in ToSet(ls[i])
        BY <2>8, <4>1
      <4> QED
        BY <2>3, <4>2
    <3> QED
      BY <3>1, <3>2
  <2> QED
    BY <2>6, <2>7, <2>10
<1>5. names = {c.name : c \in ToSet(cs)}
  BY DEF ToSet
<1> HIDE DEF map
<1> QED
  BY <1>3, <1>4, <1>5 DEF map

-----------------------------------------------------------------------------
(* All clusters of a report, and one as the other nodes are told of it.    *)
Reported(p) == UNION {ToSet(p[n]) : n \in DOMAIN p}

Egress(c) == [name |-> Global(c.name), endpoints |-> makeEgressEndpoints(c.endpoints)]

LEMMA ReportedClusters ==
    ASSUME NEW p, IsReport(p)
    PROVE  /\ \A n \in DOMAIN p : IsClusters(p[n])
           /\ \A c \in Reported(p) : IsCluster(c)
           /\ Services(p) = {c.name : c \in Reported(p)}
           /\ \A n \in DOMAIN p : ServicesOf(p, n) = {c.name : c \in ToSet(p[n])}
<1>1. \A n \in DOMAIN p : IsClusters(p[n])
  BY DEF IsReport, IsClusters
<1>2. \A c \in Reported(p) : IsCluster(c)
  BY <1>1 DEF Reported, IsClusters
<1>3. \A n \in DOMAIN p : ServicesOf(p, n) = {c.name : c \in ToSet(p[n])}
  BY DEF ServicesOf, ToSet
<1>4. Services(p) = {c.name : c \in Reported(p)}
  <2>1. ASSUME NEW x \in Services(p) PROVE x \in {c.name : c \in Reported(p)}
    <3>1. PICK n \in DOMAIN p : x \in ServicesOf(p, n)
      BY DEF Services
    <3>2. PICK c \in ToSet(p[n]) : x = c.name
      BY <1>3, <3>1
    <3> QED
      BY <3>2 DEF Reported
  <2>2. ASSUME NEW c \in Reported(p) PROVE c.name \in Services(p)
    <3>1. PICK n \in DOMAIN p : c \in ToSet(p[n])
      BY DEF Reported
    <3>2. c.name \in ServicesOf(p, n)
      BY <1>3, <3>1
    <3> QED
      BY <3>2 DEF Services
  <2> QED
    BY <2>1, <2>2
<1> QED
  BY <1>1, <1>2, <1>3, <1>4

LEMMA EgressClusters ==
    ASSUME NEW cs, IsClusters(cs)
    PROVE  LET out == makeEgressClusters(cs)
           IN  IsSlice(out) /\ ToSet(out) = {Egress(c) : c \in ToSet(cs)}
<1> DEFINE out == makeEgressClusters(cs)
<1>1. out = [i \in DOMAIN cs |-> Egress(cs[i])]
  BY DEF makeEgressClusters, Egress
<1>2. out = [i \in DOMAIN cs |-> out[i]] /\ \A i \in DOMAIN cs : out[i] = Egress(cs[i])
  BY <1>1
<1> HIDE DEF out
<1>3. IsSlice(out) /\ DOMAIN out = DOMAIN cs
  BY <1>2, SliceShape DEF IsClusters
<1>4. ToSet(out) = {Egress(c) : c \in ToSet(cs)}
  BY <1>2, <1>3 DEF ToSet
<1> QED
  BY <1>3, <1>4 DEF out

LEMMA EgressIsCluster ==
    ASSUME NEW c, IsCluster(c)
    PROVE  IsCluster(Egress(c))
<1>1. PICK eps : eps = c.endpoints
  OBVIOUS
<1>2. IsSlice(eps) /\ \A ep \in ToSet(eps) : IsEndpoint(ep)
  BY <1>1 DEF IsCluster
<1>3. PICK out : out = makeEgressEndpoints(eps)
  OBVIOUS
<1>4. IsSlice(out) /\ DOMAIN out = DOMAIN eps /\ \A i \in DOMAIN eps : IsEndpoint(out[i])
  BY <1>2, <1>3, EgressEndpoints
<1>5. Egress(c).endpoints = out
  BY <1>1, <1>3 DEF Egress
<1> QED
  BY <1>4, <1>5 DEF IsCluster, ToSet

(* The global list has every reported cluster, whatever the order.         *)
LEMMA GlobalClusters ==
    ASSUME NEW p, IsReport(p), NEW order \in SetToSeqs(DOMAIN p)
    PROVE  LET all == globalCluster(p, order)
           IN  IsClusters(all) /\ ToSet(all) = {Egress(c) : c \in Reported(p)}
<1> DEFINE S == {Egress(c) : c \in Reported(p)}
           lists == [i \in DOMAIN order |-> makeEgressClusters(p[order[i]])]
           all == globalCluster(p, order)
<1>1. order \in Seq(DOMAIN p) /\ ToSet(order) = DOMAIN p
  BY OrderIsComplete DEF IsReport
<1>2. PICK m \in Nat : DOMAIN order = 1..m /\ \A i \in 1..m : order[i] \in DOMAIN p
  BY <1>1
<1>3. ASSUME NEW i \in 1..m
      PROVE  /\ lists[i] \in Seq(S)
             /\ ToSet(lists[i]) = {Egress(c) : c \in ToSet(p[order[i]])}
  <2>1. PICK n \in DOMAIN p : n = order[i]
    BY <1>2
  <2>2. lists[i] = makeEgressClusters(p[n])
    BY <1>2, <2>1
  <2>3. IsClusters(p[n])
    BY ReportedClusters
  <2> HIDE DEF lists
  <2>4. IsSlice(lists[i]) /\ ToSet(lists[i]) = {Egress(c) : c \in ToSet(p[n])}
    BY <2>2, <2>3, EgressClusters
  <2>5. ToSet(lists[i]) \subseteq S
    BY <2>4 DEF Reported
  <2>6. lists[i] \in Seq(S)
    <3> HIDE DEF S
    <3> QED
      BY <2>4, <2>5 DEF IsSlice
  <2> QED
    BY <2>1, <2>4, <2>6
<1>4. all = FlattenSeq(lists)
  BY DEF globalCluster
<1>5. DOMAIN lists = 1..m /\ lists = [i \in 1..m |-> lists[i]]
  BY <1>2
<1>6. lists \in Seq(Seq(S))
  <2> HIDE DEF lists, S
  <2> QED
    BY <1>3, <1>5
<1> HIDE DEF lists, S, all
<1>7. all \in Seq(S) /\ ToSet(all) = UNION {ToSet(lists[k]) : k \in DOMAIN lists}
  BY <1>4, <1>6, FlattenHolds
<1>8. ToSet(all) \subseteq S
  BY <1>7 DEF ToSet
<1>9. ASSUME NEW c \in Reported(p) PROVE Egress(c) \in ToSet(all)
  <2>1. PICK n \in DOMAIN p : c \in ToSet(p[n])
    BY DEF Reported
  <2>2. PICK i \in 1..m : n = order[i]
    BY <1>1, <1>2 DEF ToSet
  <2>3. Egress(c) \in ToSet(lists[i])
    BY <1>3, <2>1, <2>2
  <2> QED
    BY <1>5, <1>7, <2>3
<1>10. ToSet(all) = S
  BY <1>8, <1>9 DEF S
<1>11. IsSlice(all)
  BY <1>7, <1>10 DEF IsSlice
<1>12. \A x \in S : IsCluster(x)
  BY ReportedClusters, EgressIsCluster DEF S
<1> QED
  BY <1>10, <1>11, <1>12 DEF IsClusters, S, all

LEMMA LocalClusters ==
    ASSUME NEW cs, IsClusters(cs)
    PROVE  LET out == [i \in DOMAIN cs |-> localCluster(cs[i])]
           IN  IsClusters(out) /\ ToSet(out) = {localCluster(c) : c \in ToSet(cs)}
<1> DEFINE out == [i \in DOMAIN cs |-> localCluster(cs[i])]
<1>1. out = [i \in DOMAIN cs |-> out[i]] /\ \A i \in DOMAIN cs : out[i] = localCluster(cs[i])
  OBVIOUS
<1> HIDE DEF out
<1>2. IsSlice(out) /\ DOMAIN out = DOMAIN cs
  BY <1>1, SliceShape DEF IsClusters
<1>3. ToSet(out) = {localCluster(c) : c \in ToSet(cs)}
  BY <1>1, <1>2 DEF ToSet
<1>4. \A c \in ToSet(cs) : IsCluster(localCluster(c))
  BY DEF IsClusters, IsCluster, localCluster
<1>5. \A x \in ToSet(out) : IsCluster(x)
  BY <1>3, <1>4
<1> QED
  BY <1>2, <1>3, <1>5 DEF IsClusters, out

-----------------------------------------------------------------------------
(* The load assignments are what the report means.                         *)
LEMMA EndpointsOnNodes ==
    ASSUME NEW p, NEW nodes, NEW service, NEW ep
    PROVE  ep \in EndpointsOn(p, nodes, service) <=>
              \E n \in nodes : \E c \in ToSet(p[n]) :
                 c.name = service /\ ep \in ToSet(c.endpoints)
<1> DEFINE at(n) == UNION {ToSet(p[n][i].endpoints) :
                              i \in {j \in DOMAIN p[n] : p[n][j].name = service}}
<1>1. EndpointsOn(p, nodes, service) = UNION {at(n) : n \in nodes}
  BY DEF EndpointsOn
<1>2. ASSUME NEW n
      PROVE  ep \in at(n) <=> \E c \in ToSet(p[n]) : c.name = service /\ ep \in ToSet(c.endpoints)
  <2>1. ASSUME ep \in at(n)
        PROVE  \E c \in ToSet(p[n]) : c.name = service /\ ep \in ToSet(c.endpoints)
    <3>1. PICK i \in DOMAIN p[n] : p[n][i].name = service /\ ep \in ToSet(p[n][i].endpoints)
      BY <2>1
    <3>2. p[n][i] \in ToSet(p[n])
      BY DEF ToSet
    <3> QED
      BY <3>1, <3>2
  <2>2. ASSUME NEW c \in ToSet(p[n]), c.name = service, ep \in ToSet(c.endpoints)
        PROVE  ep \in at(n)
    <3>1. PICK i \in DOMAIN p[n] : c = p[n][i]
      BY DEF ToSet
    <3> QED
      BY <2>2, <3>1
  <2> QED
    BY <2>1, <2>2
<1> HIDE DEF at
<1> QED
  BY <1>1, <1>2

LEMMA GatheredFrom ==
    ASSUME NEW C, NEW name, NEW x
    PROVE  x \in Gathered(C, name) <=>
              \E c \in C : c.name = name /\ \E ep \in ToSet(c.endpoints) :
                 x = Reachable(ep, ep.port)
BY DEF Gathered

LEMMA EgressReaches ==
    ASSUME NEW c, IsCluster(c), NEW x
    PROVE  (\E ep \in ToSet(Egress(c).endpoints) : x = Reachable(ep, ep.port))
              <=> \E ep \in ToSet(c.endpoints) : x = Reachable(ep, IngressPort)
<1>1. PICK eps : eps = c.endpoints
  OBVIOUS
<1>2. IsSlice(eps) /\ \A ep \in ToSet(eps) : IsEndpoint(ep)
  BY <1>1 DEF IsCluster
<1>3. PICK out : out = makeEgressEndpoints(eps)
  OBVIOUS
<1>4. /\ DOMAIN out = DOMAIN eps
      /\ \A i \in DOMAIN eps :
            Reachable(out[i], out[i].port) = Reachable(eps[i], IngressPort)
  BY <1>2, <1>3, EgressEndpoints
<1>5. Egress(c).endpoints = out
  BY <1>1, <1>3 DEF Egress
<1>6. ASSUME NEW ep \in ToSet(out), x = Reachable(ep, ep.port)
      PROVE  \E e \in ToSet(eps) : x = Reachable(e, IngressPort)
  <2>1. PICK i \in DOMAIN eps : ep = out[i]
    BY <1>4 DEF ToSet
  <2>2. eps[i] \in ToSet(eps)
    BY DEF ToSet
  <2> QED
    BY <1>4, <1>6, <2>1, <2>2
<1>7. ASSUME NEW ep \in ToSet(eps), x = Reachable(ep, IngressPort)
      PROVE  \E e \in ToSet(out) : x = Reachable(e, e.port)
  <2>1. PICK i \in DOMAIN eps : ep = eps[i]
    BY DEF ToSet
  <2>2. out[i] \in ToSet(out)
    BY <1>4 DEF ToSet
  <2> QED
    BY <1>4, <1>7, <2>1, <2>2
<1> QED
  BY <1>1, <1>5, <1>6, <1>7

LEMMA GlobalExpected ==
    ASSUME NEW p, IsReport(p), NEW n, NEW service
    PROVE  /\ Gathered({Egress(c) : c \in Reported(p)}, Global(service))
                = Expected(p, n, Global(service))
           /\ Gathered({Egress(c) : c \in Reported(p)}, Local(service)) = {}
<1> DEFINE C == {Egress(c) : c \in Reported(p)}
<1>1. \A c : Egress(c).name = Global(c.name)
  BY DEF Egress
<1>2. \A s, t : (Global(s) = Global(t) => s = t) /\ Global(s) # Local(t)
  BY DEF Global, Local
<1>3. Expected(p, n, Global(service))
        = {Reachable(ep, IngressPort) : ep \in EndpointsOn(p, DOMAIN p, service)}
  BY DEF Expected, Global
<1>4. ASSUME NEW x \in Gathered(C, Global(service))
      PROVE  x \in Expected(p, n, Global(service))
  <2>1. PICK d \in C : d.name = Global(service) /\ \E ep \in ToSet(d.endpoints) :
                         x = Reachable(ep, ep.port)
    BY GatheredFrom
  <2>2. PICK c \in Reported(p) : d = Egress(c)
    OBVIOUS
  <2>3. c.name = service
    BY <1>1, <1>2, <2>1, <2>2
  <2>4. PICK ep \in ToSet(c.endpoints) : x = Reachable(ep, IngressPort)
    BY <2>1, <2>2, ReportedClusters, EgressReaches
  <2>5. PICK m \in DOMAIN p : c \in ToSet(p[m])
    BY DEF Reported
  <2>6. ep \in EndpointsOn(p, DOMAIN p, service)
    BY <2>3, <2>5, EndpointsOnNodes
  <2> QED
    BY <1>3, <2>4, <2>6
<1>5. ASSUME NEW x \in Expected(p, n, Global(service))
      PROVE  x \in Gathered(C, Global(service))
  <2>1. PICK ep \in EndpointsOn(p, DOMAIN p, service) : x = Reachable(ep, IngressPort)
    BY <1>3
  <2>2. PICK c : /\ \E m \in DOMAIN p : c \in ToSet(p[m])
                 /\ c.name = service /\ ep \in ToSet(c.endpoints)
    BY EndpointsOnNodes
  <2>3. c \in Reported(p)
    BY <2>2 DEF Reported
  <2>4. \E e \in ToSet(Egress(c).endpoints) : x = Reachable(e, e.port)
    BY <2>1, <2>2, <2>3, ReportedClusters, EgressReaches
  <2>5. Egress(c) \in C /\ Egress(c).name = Global(service)
    BY <1>1, <2>2, <2>3
  <2> HIDE DEF C
  <2> QED
    BY <2>4, <2>5, GatheredFrom
<1>6. \A d \in C : d.name # Local(service)
  BY <1>1, <1>2
<1>7. Gathered(C, Local(service)) = {}
  BY <1>6 DEF Gathered
<1> QED
  BY <1>4, <1>5, <1>7

LEMMA LocalExpected ==
    ASSUME NEW p, NEW n, NEW service
    PROVE  /\ Gathered({localCluster(c) : c \in ToSet(p[n])}, Local(service))
                = Expected(p, n, Local(service))
           /\ Gathered({localCluster(c) : c \in ToSet(p[n])}, Global(service)) = {}
<1> DEFINE C == {localCluster(c) : c \in ToSet(p[n])}
<1>1. \A c : localCluster(c).name = Local(c.name) /\ localCluster(c).endpoints = c.endpoints
  BY DEF localCluster
<1>2. \A s, t : (Local(s) = Local(t) => s = t) /\ Global(s) # Local(t)
  BY DEF Global, Local
<1>3. Expected(p, n, Local(service))
        = {Reachable(ep, ep.port) : ep \in EndpointsOn(p, {n}, service)}
  BY DEF Expected, Local
<1>4. ASSUME NEW x \in Gathered(C, Local(service))
      PROVE  x \in Expected(p, n, Local(service))
  <2>1. PICK d \in C : d.name = Local(service) /\ \E ep \in ToSet(d.endpoints) :
                         x = Reachable(ep, ep.port)
    BY GatheredFrom
  <2>2. PICK c \in ToSet(p[n]) : d = localCluster(c)
    OBVIOUS
  <2>3. c.name = service
    BY <1>1, <1>2, <2>1, <2>2
  <2>4. PICK ep \in ToSet(c.endpoints) : x = Reachable(ep, ep.port)
    BY <1>1, <2>1, <2>2
  <2>5. ep \in EndpointsOn(p, {n}, service)
    BY <2>3, EndpointsOnNodes
  <2> QED
    BY <1>3, <2>4, <2>5
<1>5. ASSUME NEW x \in Expected(p, n, Local(service))
      PROVE  x \in Gathered(C, Local(service))
  <2>1. PICK ep \in EndpointsOn(p, {n}, service) : x = Reachable(ep, ep.port)
    BY <1>3
  <2>2. PICK c \in ToSet(p[n]) : c.name = service /\ ep \in ToSet(c.endpoints)
    BY EndpointsOnNodes
  <2>3. /\ localCluster(c) \in C /\ localCluster(c).name = Local(service)
        /\ ep \in ToSet(localCluster(c).endpoints)
    BY <1>1, <2>2
  <2> HIDE DEF C
  <2> QED
    BY <2>1, <2>3, GatheredFrom
<1>6. \A d \in C : d.name # Global(service)
  BY <1>1, <1>2
<1>7. Gathered(C, Global(service)) = {}
  BY <1>6 DEF Gathered
<1> QED
  BY <1>4, <1>5, <1>7

(* The clusters of a node's snapshot and of the front proxy's.             *)
LEMMA NodeClusters ==
    ASSUME NEW p, IsReport(p), NEW order \in SetToSeqs(DOMAIN p), NEW n \in DOMAIN p
    PROVE  LET own == p[n]
               clusters == globalCluster(p, order)
                             \o [i \in DOMAIN own |-> localCluster(own[i])]
           IN  /\ IsClusters(clusters)
               /\ ToSet(clusters) = {Egress(c) : c \in Reported(p)}
                                      \cup {localCluster(c) : c \in ToSet(own)}
<1>1. PICK all : all = globalCluster(p, order)
  OBVIOUS
<1>2. PICK own : own = p[n]
  OBVIOUS
<1>3. PICK mine : mine = [i \in DOMAIN own |-> localCluster(own[i])]
  OBVIOUS
<1>4. IsClusters(all) /\ ToSet(all) = {Egress(c) : c \in Reported(p)}
  BY <1>1, GlobalClusters
<1>5. IsClusters(own)
  BY <1>2, ReportedClusters
<1>6. IsClusters(mine) /\ ToSet(mine) = {localCluster(c) : c \in ToSet(own)}
  BY <1>3, <1>5, LocalClusters
<1> DEFINE S == ToSet(all) \cup ToSet(mine)
<1>7. all \in Seq(S) /\ mine \in Seq(S)
  <2>1. all \in Seq(ToSet(all)) /\ mine \in Seq(ToSet(mine))
    BY <1>4, <1>6 DEF IsClusters, IsSlice
  <2> QED
    BY <2>1
<1>8. all \o mine \in Seq(S) /\ ToSet(all \o mine) = S
  <2> HIDE DEF S
  <2>1. all \o mine \in Seq(S) /\ ToSet(all \o mine) = ToSet(all) \cup ToSet(mine)
    BY <1>7, ConcatHolds
  <2> QED
    BY <2>1 DEF S
<1>9. IsClusters(all \o mine)
  <2>1. \A c \in S : IsCluster(c)
    BY <1>4, <1>6 DEF IsClusters
  <2> HIDE DEF S
  <2> QED
    BY <1>8, <2>1 DEF IsClusters, IsSlice
<1> QED
  BY <1>1, <1>2, <1>3, <1>4, <1>6, <1>8, <1>9

LEMMA ClusterNames ==
    ASSUME NEW cs
    PROVE  DOMAIN clusterMap(cs) = {c.name : c \in ToSet(cs)}
BY DEF clusterMap, ToSet

LEMMA NamesGiven ==
    ASSUME NEW R
    PROVE  /\ {d.name : d \in {Egress(c) : c \in R}} = {Global(s) : s \in {c.name : c \in R}}
           /\ {d.name : d \in {localCluster(c) : c \in R}}
                = {Local(s) : s \in {c.name : c \in R}}
<1>1. \A c : Egress(c).name = Global(c.name)
  BY DEF Egress
<1>2. \A c : localCluster(c).name = Local(c.name)
  BY DEF localCluster
<1>3. {d.name : d \in {Egress(c) : c \in R}} = {Global(s) : s \in {c.name : c \in R}}
  BY <1>1
<1>4. {d.name : d \in {localCluster(c) : c \in R}} = {Local(s) : s \in {c.name : c \in R}}
  BY <1>2
<1> QED
  BY <1>3, <1>4

LEMMA NodeAssignments ==
    ASSUME NEW p, IsReport(p), NEW order \in SetToSeqs(DOMAIN p),
           NEW n \in DOMAIN p, n # Ingress
    PROVE  LET node == transformNode(p, order, n)
           IN  /\ IsMap(node.endpoints)
               /\ DOMAIN node.clusters = DOMAIN node.endpoints
               /\ AssignmentsMatch(node, p, n)
<1>1. PICK node : node = transformNode(p, order, n)
  OBVIOUS
<1>2. PICK own : own = p[n]
  OBVIOUS
<1>3. PICK cs : cs = globalCluster(p, order) \o [i \in DOMAIN own |-> localCluster(own[i])]
  OBVIOUS
<1> DEFINE C == {Egress(c) : c \in Reported(p)}
           D == {localCluster(c) : c \in ToSet(p[n])}
<1>4. IsClusters(cs) /\ ToSet(cs) = C \cup D
  BY <1>2, <1>3, NodeClusters
<1>5. node.endpoints = endpointMap(cs) /\ node.clusters = clusterMap(cs)
  BY <1>1, <1>2, <1>3 DEF transformNode
<1> HIDE DEF C, D
<1>6. /\ IsMap(node.endpoints)
      /\ DOMAIN node.endpoints = {c.name : c \in ToSet(cs)}
      /\ \A name \in DOMAIN node.endpoints :
            ToSet(node.endpoints[name]) = Gathered(ToSet(cs), name)
  BY <1>4, <1>5, EndpointsGathered
<1>7. DOMAIN node.clusters = DOMAIN node.endpoints
  BY <1>5, <1>6, ClusterNames
<1>8. {c.name : c \in ToSet(cs)} = ExpectedNames(p, n)
  <2>1. {c.name : c \in C} = {Global(s) : s \in Services(p)}
    BY ReportedClusters, NamesGiven DEF C
  <2>2. {c.name : c \in D} = {Local(s) : s \in ServicesOf(p, n)}
    BY ReportedClusters, NamesGiven, ZenonT(60) DEF D
  <2>3. ExpectedNames(p, n)
          = {Global(s) : s \in Services(p)} \cup {Local(s) : s \in ServicesOf(p, n)}
    BY DEF ExpectedNames
  <2> QED
    BY <1>4, <2>1, <2>2, <2>3
<1>9. ASSUME NEW name \in ExpectedNames(p, n)
      PROVE  Gathered(ToSet(cs), name) = Expected(p, n, name)
  <2>1. Gathered(ToSet(cs), name) = Gathered(C, name) \cup Gathered(D, name)
    BY <1>4 DEF Gathered
  <2>2. CASE \E s : name = Global(s)
    <3>1. Gathered(C, name) = Expected(p, n, name) /\ Gathered(D, name) = {}
      BY <2>2, GlobalExpected, LocalExpected DEF C, D
    <3> QED
      BY <2>1, <3>1
  <2>3. CASE \E s : name = Local(s)
    <3>1. Gathered(C, name) = {} /\ Gathered(D, name) = Expected(p, n, name)
      BY <2>3, GlobalExpected, LocalExpected DEF C, D
    <3> QED
      BY <2>1, <3>1
  <2> QED
    BY <2>2, <2>3 DEF ExpectedNames
<1>10. AssignmentsMatch(node, p, n)
  BY <1>6, <1>8, <1>9 DEF AssignmentsMatch
<1> QED
  BY <1>1, <1>6, <1>7, <1>10

LEMMA IngressAssignments ==
    ASSUME NEW p, IsReport(p), NEW order \in SetToSeqs(DOMAIN p)
    PROVE  LET node == transformIngress(p, order)
           IN  /\ IsMap(node.endpoints)
               /\ DOMAIN node.clusters = DOMAIN node.endpoints
               /\ AssignmentsMatch(node, p, Ingress)
<1>1. PICK node : node = transformIngress(p, order)
  OBVIOUS
<1>2. PICK cs : cs = globalCluster(p, order)
  OBVIOUS
<1> DEFINE C == {Egress(c) : c \in Reported(p)}
<1>3. IsClusters(cs) /\ ToSet(cs) = C
  BY <1>2, GlobalClusters
<1>4. node.endpoints = endpointMap(cs) /\ node.clusters = clusterMap(cs)
  BY <1>1, <1>2 DEF transformIngress
<1> HIDE DEF C
<1>5. /\ IsMap(node.endpoints)
      /\ DOMAIN node.endpoints = {c.name : c \in ToSet(cs)}
      /\ \A name \in DOMAIN node.endpoints :
            ToSet(node.endpoints[name]) = Gathered(ToSet(cs), name)
  BY <1>3, <1>4, EndpointsGathered
<1>6. DOMAIN node.clusters = DOMAIN node.endpoints
  BY <1>4, <1>5, ClusterNames
<1>7. {c.name : c \in ToSet(cs)} = ExpectedNames(p, Ingress)
  <2>1. {c.name : c \in C} = {Global(s) : s \in Services(p)}
    BY ReportedClusters, NamesGiven DEF C
  <2>2. ExpectedNames(p, Ingress) = {Global(s) : s \in Services(p)}
    BY DEF ExpectedNames
  <2> QED
    BY <1>3, <2>1, <2>2
<1>8. ASSUME NEW name \in ExpectedNames(p, Ingress)
      PROVE  Gathered(ToSet(cs), name) = Expected(p, Ingress, name)
  <2>1. \E s : name = Global(s)
    BY DEF ExpectedNames
  <2> QED
    BY <1>3, <2>1, GlobalExpected DEF C
<1>9. AssignmentsMatch(node, p, Ingress)
  BY <1>5, <1>7, <1>8 DEF AssignmentsMatch
<1> QED
  BY <1>1, <1>5, <1>6, <1>9

(* Every endpoint of an assignment has a weight that Envoy accepts.        *)
LEMMA AssignedWeights ==
    ASSUME NEW p, IsReport(p), NEW n \in DOMAIN p \cup {Ingress},
           NEW node, AssignmentsMatch(node, p, n)
    PROVE  ValidWeights(node)
<1> SUFFICES ASSUME NEW name \in DOMAIN node.endpoints,
                    NEW x \in ToSet(node.endpoints[name])
             PROVE  x.weight \in 1..128
  BY DEF ValidWeights
<1>1. name \in ExpectedNames(p, n) /\ x \in Expected(p, n, name)
  BY DEF AssignmentsMatch
<1>2. PICK nodes, ep, port :
         /\ nodes \in SUBSET DOMAIN p
         /\ ep \in EndpointsOn(p, nodes, name.service)
         /\ x = Reachable(ep, port)
  <2>1. CASE name.scope = "global"
    BY <1>1, <2>1 DEF Expected
  <2>2. CASE name.scope # "global"
    <3>1. n \in DOMAIN p
      BY <1>1, <2>2 DEF ExpectedNames, Global
    <3>2. {n} \in SUBSET DOMAIN p
      BY <3>1
    <3> QED
      BY <1>1, <2>2, <3>2 DEF Expected
  <2> QED
    BY <2>1, <2>2
<1>3. PICK c : (\E m \in nodes : c \in ToSet(p[m])) /\ ep \in ToSet(c.endpoints)
  BY <1>2, EndpointsOnNodes
<1>4. IsEndpoint(ep)
  BY <1>2, <1>3 DEF IsReport, IsCluster
<1>5. weightOf(ep) \in 1..128
  BY <1>4, WeightInRange DEF IsEndpoint
<1> QED
  BY <1>2, <1>5 DEF Reachable

-----------------------------------------------------------------------------
(* A route has one virtual host for each of the services, which leads to   *)
(* the Envoy cluster of its service.                                       *)
IsRoute(vhosts, services, scope) ==
    /\ \A i, j \in DOMAIN vhosts : vhosts[i].host = vhosts[j].host => i = j
    /\ {vhosts[i].host : i \in DOMAIN vhosts} = services
    /\ \A i \in DOMAIN vhosts :
          \E s \in services : vhosts[i].cluster = [scope |-> scope, service |-> s]

LEMMA RouteBuilt ==
    ASSUME NEW new, IsSlice(new), NEW services, NEW scope,
           \A v \in ToSet(new) : \E s \in services :
              v = [host |-> s, cluster |-> [scope |-> scope, service |-> s]],
           \A s \in services :
              [host |-> s, cluster |-> [scope |-> scope, service |-> s]] \in ToSet(new)
    PROVE  IsRoute(addVHosts(<<>>, new), services, scope)
<1>1. PICK vhosts : vhosts = addVHosts(<<>>, new)
  OBVIOUS
<1>2. PICK T : T = ToSet(new)
  OBVIOUS
<1>3. new \in Seq(T)
  BY <1>2 DEF IsSlice
<1>4. /\ ToSet(vhosts) \subseteq T
      /\ \A i, j \in DOMAIN vhosts : vhosts[i].host = vhosts[j].host => i = j
      /\ {v.host : v \in ToSet(vhosts)} = {v.host : v \in T}
  BY <1>1, <1>2, <1>3, VHostsAdded
<1>5. {v.host : v \in T} = services
  <2>1. \A v \in T : v.host \in services
    BY <1>2
  <2>2. ASSUME NEW s \in services PROVE \E v \in T : v.host = s
    BY <1>2
  <2> QED
    BY <2>1, <2>2
<1>6. {vhosts[i].host : i \in DOMAIN vhosts} = {v.host : v \in ToSet(vhosts)}
  BY DEF ToSet
<1>7. ASSUME NEW i \in DOMAIN vhosts
      PROVE  \E s \in services : vhosts[i].cluster = [scope |-> scope, service |-> s]
  <2>1. vhosts[i] \in T
    BY <1>4 DEF ToSet
  <2>2. PICK s \in services :
           vhosts[i] = [host |-> s, cluster |-> [scope |-> scope, service |-> s]]
    BY <1>2, <2>1
  <2> QED
    BY <2>2
<1>8. IsRoute(vhosts, services, scope)
  BY <1>4, <1>5, <1>6, <1>7 DEF IsRoute
<1> QED
  BY <1>1, <1>8

LEMMA GlobalRoute ==
    ASSUME NEW p, IsReport(p), NEW order \in SetToSeqs(DOMAIN p)
    PROVE  IsRoute(addVHosts(<<>>, globalVHosts(p, order)), Services(p), "global")
<1>1. PICK cs : cs = globalCluster(p, order)
  OBVIOUS
<1>2. IsClusters(cs) /\ ToSet(cs) = {Egress(c) : c \in Reported(p)}
  BY <1>1, GlobalClusters
<1>3. PICK new : new = globalVHosts(p, order)
  OBVIOUS
<1>4. /\ new = [i \in DOMAIN cs |-> new[i]]
      /\ \A i \in DOMAIN cs : new[i] = [host |-> cs[i].name.service, cluster |-> cs[i].name]
  BY <1>1, <1>3 DEF globalVHosts, createEnvoyVHost
<1>5. IsSlice(new) /\ DOMAIN new = DOMAIN cs
  BY <1>2, <1>4, SliceShape DEF IsClusters
<1> DEFINE vhost(s) == [host |-> s, cluster |-> [scope |-> "global", service |-> s]]
<1>6. ASSUME NEW c, NEW i \in DOMAIN cs, cs[i] = Egress(c) PROVE new[i] = vhost(c.name)
  <2>1. cs[i].name = [scope |-> "global", service |-> c.name]
    BY <1>6 DEF Egress, Global
  <2> QED
    BY <1>4, <2>1
<1>7. ASSUME NEW v \in ToSet(new) PROVE \E s \in Services(p) : v = vhost(s)
  <2>1. PICK i \in DOMAIN cs : v = new[i]
    BY <1>5 DEF ToSet
  <2>2. PICK c \in Reported(p) : cs[i] = Egress(c)
    BY <1>2 DEF ToSet
  <2>3. c.name \in Services(p)
    BY ReportedClusters
  <2> QED
    BY <1>6, <2>1, <2>2, <2>3
<1>8. ASSUME NEW s \in Services(p) PROVE vhost(s) \in ToSet(new)
  <2>1. PICK c \in Reported(p) : s = c.name
    BY ReportedClusters
  <2>2. PICK i \in DOMAIN cs : cs[i] = Egress(c)
    BY <1>2 DEF ToSet
  <2>3. new[i] = vhost(s)
    BY <1>6, <2>1, <2>2
  <2> HIDE DEF vhost
  <2> QED
    BY <1>5, <2>3 DEF ToSet
<1> QED
  BY <1>3, <1>5, <1>7, <1>8, RouteBuilt

LEMMA OwnRoute ==
    ASSUME NEW p, IsReport(p), NEW n \in DOMAIN p
    PROVE  LET own == p[n]
           IN  IsRoute(addVHosts(<<>>, [i \in DOMAIN own |->
                          createEnvoyVHost(own[i].name, Local(own[i].name))]),
                       ServicesOf(p, n), "local")
<1>1. PICK own : own = p[n]
  OBVIOUS
<1>2. PICK new : new = [i \in DOMAIN own |-> createEnvoyVHost(own[i].name, Local(own[i].name))]
  OBVIOUS
<1> DEFINE vhost(s) == [host |-> s, cluster |-> [scope |-> "local", service |-> s]]
<1>3. new = [i \in DOMAIN own |-> new[i]] /\ \A i \in DOMAIN own : new[i] = vhost(own[i].name)
  BY <1>2 DEF createEnvoyVHost, Local
<1>4. IsSlice(new) /\ DOMAIN new = DOMAIN own
  BY <1>1, <1>3, SliceShape DEF IsReport
<1>5. ServicesOf(p, n) = {own[i].name : i \in DOMAIN own}
  BY <1>1 DEF ServicesOf
<1>6. ASSUME NEW v \in ToSet(new) PROVE \E s \in ServicesOf(p, n) : v = vhost(s)
  BY <1>3, <1>4, <1>5 DEF ToSet
<1>7. ASSUME NEW s \in ServicesOf(p, n) PROVE vhost(s) \in ToSet(new)
  <2>1. PICK i \in DOMAIN own : s = own[i].name
    BY <1>5
  <2>2. new[i] = vhost(s)
    BY <1>3, <2>1
  <2> HIDE DEF vhost
  <2> QED
    BY <1>4, <2>2 DEF ToSet
<1> QED
  BY <1>1, <1>2, <1>4, <1>6, <1>7, RouteBuilt

-----------------------------------------------------------------------------
(* The router is the last filter and the only one of its kind.             *)
RouterLast(filters) ==
    \A i \in DOMAIN filters : filters[i].filter = "router" <=> i = Len(filters)

LEMMA Prepended ==
    ASSUME NEW S, NEW filters \in Seq(S), filters # <<>>, RouterLast(filters),
           NEW f \in S, f.filter # "router"
    PROVE  LET out == <<f>> \o filters
           IN  out \in Seq(S) /\ out # <<>> /\ RouterLast(out) /\ out[1] = f
<1> DEFINE out == <<f>> \o filters
           n == Len(filters)
<1>1. /\ n \in Nat /\ n > 0 /\ DOMAIN filters = 1..n
      /\ out \in Seq(S) /\ Len(out) = n + 1 /\ DOMAIN out = 1..(n + 1)
      /\ out[1] = f /\ \A i \in 2..(n + 1) : out[i] = filters[i - 1]
  OBVIOUS
<1> HIDE DEF out, n
<1>2. ASSUME NEW i \in 1..(n + 1) PROVE out[i].filter = "router" <=> i = n + 1
  <2>1. CASE i = 1
    BY <1>1, <2>1
  <2>2. CASE i # 1
    <3>1. i \in 2..(n + 1) /\ i - 1 \in 1..n /\ (i - 1 = n <=> i = n + 1)
      BY <1>1, <2>2
    <3>2. filters[i - 1].filter = "router" <=> i - 1 = n
      BY <1>1, <3>1 DEF RouterLast, n
    <3> QED
      BY <1>1, <3>1, <3>2
  <2> QED
    BY <2>1, <2>2
<1>3. RouterLast(out)
  BY <1>1, <1>2 DEF RouterLast
<1>4. out # <<>>
  BY <1>1
<1> QED
  BY <1>1, <1>3, <1>4 DEF out

LEMMA FiltersInjected ==
    ASSUME NEW cs, IsSlice(cs)
    PROVE  RouterLast(ingressFilters(cs))
<1> DEFINE n == Len(cs)
           cfg(k) == ClusterConfig(cs[k])
           cache(k) == [filter |-> "health_check",
                        config |-> <<<<cfg(k).healthCheck.cacheDuration>>, cfg(k).healthCheck.path>>]
           fault(k) == [filter |-> "fault",
                        config |-> <<IF cfg(k).fault.abortChance > 0 /\ cfg(k).fault.abortCode > 0
                                     THEN <<cfg(k).fault.abortCode, cfg(k).fault.abortChance>>
                                     ELSE <<>>,
                                     IF cfg(k).fault.delayChance > 0 /\ cfg(k).fault.delayDuration > 0
                                     THEN <<cfg(k).fault.delayDuration, cfg(k).fault.delayChance>>
                                     ELSE <<>>>>]
           router == [filter |-> "router", config |-> <<>>]
           S == {router} \cup {cache(k) : k \in 1..n} \cup {fault(k) : k \in 1..n}
           Q == {filters \in Seq(S) : filters # <<>> /\ RouterLast(filters)}
           next(filters, k) == InjectFault(InjectHealthCheckCache(filters, cfg(k)), cfg(k).fault)
           step == [x \in (1..n) \X Q |-> next(x[2], x[1])]
           Injected(g) == g = [k \in 0..n |-> IF k = 0 THEN routerFilter ELSE next(g[k - 1], k)]
           injected == CHOOSE g : Injected(g)
<1>1. n \in Nat
  BY DEF IsSlice
<1>2. ingressFilters(cs) = injected[n]
  BY DEF ingressFilters
<1>3. \A k \in 1..n, v \in Q : step[<<k, v>>] = next(v, k)
  OBVIOUS
<1>4. routerFilter \in Q
  <2>1. routerFilter = <<router>> /\ router \in S /\ router.filter = "router"
    BY DEF routerFilter
  <2> HIDE DEF S, router
  <2>2. /\ routerFilter \in Seq(S) /\ routerFilter # <<>>
        /\ DOMAIN routerFilter = {1} /\ Len(routerFilter) = 1 /\ routerFilter[1] = router
    BY <2>1
  <2> QED
    BY <2>1, <2>2 DEF RouterLast
<1>5. ASSUME NEW k \in 1..n, NEW v \in Q PROVE next(v, k) \in Q
  <2>1. PICK c : c = cache(k)
    OBVIOUS
  <2>2. PICK f : f = fault(k)
    OBVIOUS
  <2>3. PICK one : one = <<c>> \o v
    OBVIOUS
  <2>4. PICK both : both = <<f>> \o one
    OBVIOUS
  <2>5. InjectHealthCheckCache(v, cfg(k)) = one
    BY <2>1, <2>3 DEF InjectHealthCheckCache
  <2>6. InjectFault(one, cfg(k).fault) = IF ~ cfg(k).fault.enabled THEN one ELSE both
    BY <2>2, <2>4 DEF InjectFault
  <2>7. c \in S /\ f \in S /\ c.filter # "router" /\ f.filter # "router"
    BY <2>1, <2>2
  <2>8. v \in Seq(S) /\ v # <<>> /\ RouterLast(v)
    OBVIOUS
  <2> HIDE DEF cfg, cache, fault, S
  <2>9. one \in Seq(S) /\ one # <<>> /\ RouterLast(one)
    BY <2>3, <2>7, <2>8, Prepended
  <2>10. both \in Seq(S) /\ both # <<>> /\ RouterLast(both)
    BY <2>4, <2>7, <2>9, Prepended
  <2> QED
    BY <2>5, <2>6, <2>9, <2>10
<1> HIDE DEF Injected, step, n, next
<1>6. IsStep(step, n, Q)
  <2> HIDE DEF Q
  <2> QED
    BY <1>3, <1>5 DEF IsStep
<1>7. PICK base : base = routerFilter
  OBVIOUS
<1> HIDE DEF Q
<1>8. PICK g : IsLoop(g, n, Q, base, step)
  BY <1>1, <1>4, <1>6, <1>7, LoopExists
<1>9. Injected(g)
  <2>1. g \in [0..n -> Q] /\ g[0] = routerFilter
    BY <1>7, <1>8 DEF IsLoop
  <2>2. ASSUME NEW k \in 1..n PROVE g[k] = next(g[k - 1], k)
    <3>1. k - 1 \in 0..n
      BY <1>1
    <3>2. g[k - 1] \in Q
      BY <2>1, <3>1
    <3> QED
      BY <1>3, <1>8, <3>2 DEF IsLoop
  <2>3. \A k \in 0..n : k # 0 => k \in 1..n
    BY <1>1
  <2>4. g = [k \in 0..n |-> g[k]]
    BY <2>1
  <2>5. \A k \in 0..n : g[k] = IF k = 0 THEN routerFilter ELSE next(g[k - 1], k)
    BY <2>1, <2>2, <2>3
  <2>6. g = [k \in 0..n |-> IF k = 0 THEN routerFilter ELSE next(g[k - 1], k)]
    BY <2>4, <2>5
  <2> QED
    BY <2>6 DEF Injected
<1>10. Injected(injected)
  BY <1>9
<1> HIDE DEF injected
<1>11. injected[0] = routerFilter /\ \A k \in 1..n : injected[k] = next(injected[k - 1], k)
  <2>1. 0 \in 0..n /\ \A k \in 1..n : k \in 0..n /\ k # 0
    BY <1>1
  <2> QED
    BY <1>10, <2>1 DEF Injected
<1> DEFINE I == {k \in 0..n : injected[k] \in Q}
<1>12. 0 \in I
  BY <1>1, <1>4, <1>11
<1>13. \A k \in 1..n : k - 1 \in I => k \in I
  BY <1>1, <1>5, <1>11
<1> HIDE DEF I
<1>14. 0..n \subseteq I
  BY <1>1, <1>12, <1>13, IndexInduction
<1>15. injected[n] \in Q
  BY <1>1, <1>14 DEF I
<1> QED
  BY <1>2, <1>15 DEF Q

-----------------------------------------------------------------------------
(* What NewSnapshot keeps of a Node.                                       *)
LEMMA IndexedOnce ==
    ASSUME NEW rs, DOMAIN rs \subseteq Int,
           \A i, j \in DOMAIN rs : rs[i].name = rs[j].name => i = j
    PROVE  LET map == IndexResourcesByName(rs)
           IN  /\ DOMAIN map = {rs[i].name : i \in DOMAIN rs}
               /\ \A i \in DOMAIN rs : map[rs[i].name] = rs[i]
<1>1. PICK map : map = IndexResourcesByName(rs)
  OBVIOUS
<1> DEFINE Holds(name, i) ==
              rs[i].name = name /\ \A j \in DOMAIN rs : rs[j].name = name => j <= i
<1>2. map = [name \in {rs[i].name : i \in DOMAIN rs} |->
                rs[CHOOSE i \in DOMAIN rs : Holds(name, i)]]
  BY <1>1 DEF IndexResourcesByName, GetResourceName
<1>3. ASSUME NEW i \in DOMAIN rs PROVE map[rs[i].name] = rs[i]
  <2>1. Holds(rs[i].name, i)
    OBVIOUS
  <2>2. \A j \in DOMAIN rs : Holds(rs[i].name, j) => j = i
    OBVIOUS
  <2> HIDE DEF Holds
  <2>3. (CHOOSE j \in DOMAIN rs : Holds(rs[i].name, j)) = i
    BY <2>1, <2>2
  <2> QED
    BY <1>2, <2>3
<1> QED
  BY <1>1, <1>2, <1>3

(* The snapshot of a node has what transform made of it.                   *)
LEMMA SnapshotKeeps ==
    ASSUME NEW version, NEW node
    PROVE  LET snapshot == NewSnapshot(version, node)
           IN  /\ snapshot.version = version
               /\ snapshot.endpoints = node.endpoints
               /\ snapshot.clusters = node.clusters
               /\ snapshot.routes = node.routes
               /\ snapshot.listeners = IndexResourcesByName(node.listeners)
BY DEF NewSnapshot

LEMMA NodeUsable ==
    ASSUME NEW p, IsReport(p), NEW order \in SetToSeqs(DOMAIN p),
           NEW n \in DOMAIN p, n # Ingress, NEW version
    PROVE  Usable(n, NewSnapshot(version, transformNode(p, order, n)))
<1>1. PICK node : node = transformNode(p, order, n)
  OBVIOUS
<1>2. PICK snapshot : snapshot = NewSnapshot(version, node)
  OBVIOUS
<1>3. PICK egress : egress = addVHosts(<<>>, globalVHosts(p, order))
  OBVIOUS
<1>4. PICK own : own = p[n]
  OBVIOUS
<1>5. PICK ingress : ingress = addVHosts(<<>>, [i \in DOMAIN own |->
                                  createEnvoyVHost(own[i].name, Local(own[i].name))])
  OBVIOUS
<1>6. IsRoute(egress, Services(p), "global")
  BY <1>3, GlobalRoute
<1>7. IsRoute(ingress, ServicesOf(p, n), "local")
  BY <1>4, <1>5, OwnRoute
<1>8. /\ snapshot.endpoints = node.endpoints /\ snapshot.clusters = node.clusters
      /\ snapshot.routes = node.routes
      /\ snapshot.listeners = IndexResourcesByName(node.listeners)
  BY <1>2, SnapshotKeeps
<1>9. AssignmentsMatch(node, p, n) /\ DOMAIN node.clusters = DOMAIN node.endpoints
  BY <1>1, NodeAssignments
<1>10. /\ DOMAIN snapshot.clusters
            = {Global(s) : s \in Services(p)} \cup {Local(s) : s \in ServicesOf(p, n)}
       /\ DOMAIN snapshot.endpoints = DOMAIN snapshot.clusters
  BY <1>8, <1>9 DEF AssignmentsMatch, ExpectedNames
<1>11. node.routes = IF own = <<>> THEN [egress_route |-> egress]
                     ELSE [egress_route |-> egress, ingress_route |-> ingress]
  BY <1>1, <1>3, <1>4, <1>5 DEF transformNode
<1>12. /\ snapshot.routes["egress_route"] = egress
       /\ own # <<>> => /\ snapshot.routes["ingress_route"] = ingress
                        /\ DOMAIN snapshot.routes = {"egress_route", "ingress_route"}
       /\ own = <<>> => DOMAIN snapshot.routes = {"egress_route"}
  BY <1>8, <1>11
<1>13. PICK in, out : /\ in = NewListener("default-ingress", "ingress_route", ingressFilters(own))
                      /\ out = NewListener("default-egress", "egress_route", routerFilter)
  OBVIOUS
<1>14. /\ in.name = "default-ingress" /\ in.route = "ingress_route"
       /\ in.filters = ingressFilters(own)
       /\ out.name = "default-egress" /\ out.route = "egress_route"
       /\ out.filters = routerFilter
  BY <1>13 DEF NewListener
<1>15. node.listeners = <<in, out>>
  BY <1>1, <1>4, <1>13 DEF transformNode
<1>16. /\ DOMAIN snapshot.listeners = {"default-ingress", "default-egress"}
       /\ snapshot.listeners["default-ingress"] = in
       /\ snapshot.listeners["default-egress"] = out
  <2>1. PICK rs : rs = <<in, out>>
    OBVIOUS
  <2>2. DOMAIN rs = {1, 2} /\ rs[1] = in /\ rs[2] = out
    BY <2>1
  <2>3. \A i, j \in DOMAIN rs : rs[i].name = rs[j].name => i = j
    BY <1>14, <2>2
  <2>4. /\ DOMAIN snapshot.listeners = {rs[i].name : i \in DOMAIN rs}
        /\ \A i \in DOMAIN rs : snapshot.listeners[rs[i].name] = rs[i]
    <3>1. DOMAIN rs \subseteq Int
      BY <2>2
    <3>2. snapshot.listeners = IndexResourcesByName(rs)
      BY <1>8, <1>15, <2>1
    <3> QED
      BY <2>3, <3>1, <3>2, IndexedOnce
  <2>5. {rs[i].name : i \in DOMAIN rs} = {"default-ingress", "default-egress"}
    BY <1>14, <2>2
  <2> QED
    BY <1>14, <2>2, <2>4, <2>5
<1>17. UniqueVHosts(n, snapshot)
  <2>1. {Global(egress[i].host) : i \in DOMAIN egress} = {Global(s) : s \in Services(p)}
    BY <1>6 DEF IsRoute
  <2>2. {name \in DOMAIN snapshot.clusters : name.scope = "global"}
          = {Global(s) : s \in Services(p)}
    BY <1>10 DEF Global, Local
  <2> QED
    BY <1>6, <1>12, <2>1, <2>2 DEF UniqueVHosts, IsRoute
<1>18. ResolvedRoutes(n, snapshot)
  <2>1. ASSUME NEW i \in DOMAIN egress
        PROVE  egress[i].cluster \in DOMAIN snapshot.clusters /\ egress[i].cluster.scope = "global"
    <3>1. PICK s \in Services(p) : egress[i].cluster = [scope |-> "global", service |-> s]
      BY <1>6 DEF IsRoute
    <3>2. egress[i].cluster = Global(s)
      BY <3>1 DEF Global
    <3> QED
      BY <1>10, <3>1, <3>2
  <2>2. ASSUME NEW i \in DOMAIN ingress
        PROVE  ingress[i].cluster \in DOMAIN snapshot.clusters /\ ingress[i].cluster.scope = "local"
    <3>1. PICK s \in ServicesOf(p, n) : ingress[i].cluster = [scope |-> "local", service |-> s]
      BY <1>7 DEF IsRoute
    <3>2. ingress[i].cluster = Local(s)
      BY <3>1 DEF Local
    <3> QED
      BY <1>10, <3>1, <3>2
  <2>3. ASSUME NEW r \in DOMAIN snapshot.routes, NEW i \in DOMAIN snapshot.routes[r]
        PROVE  /\ snapshot.routes[r][i].cluster \in DOMAIN snapshot.clusters
               /\ snapshot.routes[r][i].cluster.scope
                    = IF n # Ingress /\ r = "ingress_route" THEN "local" ELSE "global"
    <3>1. CASE r = "egress_route"
      BY <1>12, <2>1, <3>1
    <3>2. CASE r = "ingress_route" /\ own # <<>>
      BY <1>12, <2>2, <3>2
    <3> QED
      BY <1>12, <3>1, <3>2
  <2> QED
    BY <2>3 DEF ResolvedRoutes
<1>19. ConsistentIfExposing(n, snapshot)
  <2> SUFFICES ASSUME NEW name \in DOMAIN snapshot.clusters, name.scope = "local"
               PROVE  Consistent(snapshot)
    BY DEF ConsistentIfExposing
  <2>1. PICK s \in ServicesOf(p, n) : name = Local(s)
    BY <1>10 DEF Global
  <2>2. own # <<>>
    BY <1>4, <2>1 DEF ServicesOf
  <2>3. GetResourceReferences("clusters", snapshot.clusters) = DOMAIN snapshot.endpoints
    BY <1>10 DEF GetResourceReferences
  <2>4. GetResourceReferences("listeners", snapshot.listeners) = DOMAIN snapshot.routes
    BY <1>12, <1>14, <1>16, <2>2 DEF GetResourceReferences
  <2> QED
    BY <2>3, <2>4 DEF Consistent
<1>20. OrderedFilters(n, snapshot)
  <2>1. RouterLast(ingressFilters(own))
    BY <1>4, FiltersInjected DEF IsReport
  <2>2. RouterLast(routerFilter)
    BY DEF RouterLast, routerFilter
  <2> QED
    BY <1>14, <1>16, <2>1, <2>2 DEF OrderedFilters, RouterLast
<1>21. ValidWeights(snapshot)
  <2>1. ValidWeights(node)
    BY <1>9, AssignedWeights
  <2> QED
    BY <1>8, <2>1 DEF ValidWeights
<1> QED
  BY <1>1, <1>2, <1>17, <1>18, <1>19, <1>20, <1>21 DEF Usable

LEMMA IngressUsable ==
    ASSUME NEW p, IsReport(p), NEW order \in SetToSeqs(DOMAIN p), NEW version
    PROVE  Usable(Ingress, NewSnapshot(version, transformIngress(p, order)))
<1>1. PICK node : node = transformIngress(p, order)
  OBVIOUS
<1>2. PICK snapshot : snapshot = NewSnapshot(version, node)
  OBVIOUS
<1>3. PICK vhosts : vhosts = addVHosts(<<>>, globalVHosts(p, order))
  OBVIOUS
<1>4. IsRoute(vhosts, Services(p), "global")
  BY <1>3, GlobalRoute
<1>5. /\ snapshot.endpoints = node.endpoints /\ snapshot.clusters = node.clusters
      /\ snapshot.routes = node.routes
      /\ snapshot.listeners = IndexResourcesByName(node.listeners)
  BY <1>2, SnapshotKeeps
<1>6. AssignmentsMatch(node, p, Ingress) /\ DOMAIN node.clusters = DOMAIN node.endpoints
  BY <1>1, IngressAssignments
<1>7. /\ DOMAIN snapshot.clusters = {Global(s) : s \in Services(p)}
      /\ DOMAIN snapshot.endpoints = DOMAIN snapshot.clusters
  BY <1>5, <1>6 DEF AssignmentsMatch, ExpectedNames
<1>8. snapshot.routes = [ingress_route |-> vhosts]
  BY <1>1, <1>3, <1>5 DEF transformIngress
<1>9. DOMAIN snapshot.routes = {"ingress_route"} /\ snapshot.routes["ingress_route"] = vhosts
  BY <1>8
<1>10. PICK in : in = NewListener("", "ingress_route", InjectAuthz(routerFilter))
  OBVIOUS
<1>11. in.name = "" /\ in.route = "ingress_route" /\ in.filters = InjectAuthz(routerFilter)
  BY <1>10 DEF NewListener
<1>12. node.listeners = <<in>>
  BY <1>1, <1>10 DEF transformIngress
<1>13. DOMAIN snapshot.listeners = {""} /\ snapshot.listeners[""] = in
  <2>1. PICK rs : rs = <<in>>
    OBVIOUS
  <2>2. DOMAIN rs = {1} /\ rs[1] = in
    BY <2>1
  <2>3. /\ DOMAIN snapshot.listeners = {rs[i].name : i \in DOMAIN rs}
        /\ \A i \in DOMAIN rs : snapshot.listeners[rs[i].name] = rs[i]
    <3>1. DOMAIN rs \subseteq Int /\ \A i, j \in DOMAIN rs : rs[i].name = rs[j].name => i = j
      BY <2>2
    <3>2. snapshot.listeners = IndexResourcesByName(rs)
      BY <1>5, <1>12, <2>1
    <3> QED
      BY <3>1, <3>2, IndexedOnce
  <2>4. {rs[i].name : i \in DOMAIN rs} = {""}
    BY <1>11, <2>2
  <2> QED
    BY <1>11, <2>2, <2>3, <2>4
<1>14. UniqueVHosts(Ingress, snapshot)
  <2>1. {Global(vhosts[i].host) : i \in DOMAIN vhosts} = {Global(s) : s \in Services(p)}
    BY <1>4 DEF IsRoute
  <2>2. {name \in DOMAIN snapshot.clusters : name.scope = "global"}
          = {Global(s) : s \in Services(p)}
    BY <1>7 DEF Global
  <2> QED
    BY <1>4, <1>9, <2>1, <2>2 DEF UniqueVHosts, IsRoute
<1>15. ResolvedRoutes(Ingress, snapshot)
  <2>1. ASSUME NEW i \in DOMAIN vhosts
        PROVE  vhosts[i].cluster \in DOMAIN snapshot.clusters /\ vhosts[i].cluster.scope = "global"
    <3>1. PICK s \in Services(p) : vhosts[i].cluster = [scope |-> "global", service |-> s]
      BY <1>4 DEF IsRoute
    <3>2. vhosts[i].cluster = Global(s)
      BY <3>1 DEF Global
    <3> QED
      BY <1>7, <3>1, <3>2
  <2> QED
    BY <1>9, <2>1 DEF ResolvedRoutes
<1>16. ConsistentIfExposing(Ingress, snapshot)
  <2>1. GetResourceReferences("clusters", snapshot.clusters) = DOMAIN snapshot.endpoints
    BY <1>7 DEF GetResourceReferences
  <2>2. GetResourceReferences("listeners", snapshot.listeners) = DOMAIN snapshot.routes
    BY <1>9, <1>11, <1>13 DEF GetResourceReferences
  <2> QED
    BY <2>1, <2>2 DEF ConsistentIfExposing, Consistent
<1>17. OrderedFilters(Ingress, snapshot)
  <2>1. RouterLast(InjectAuthz(routerFilter)) /\ InjectAuthz(routerFilter)[1].filter = "ext_authz"
    <3> DEFINE f == [filter |-> "ext_authz", config |-> <<>>]
               r == [filter |-> "router", config |-> <<>>]
    <3>1. InjectAuthz(routerFilter) = <<f>> \o routerFilter /\ routerFilter = <<r>>
      BY DEF InjectAuthz, routerFilter
    <3>2. f.filter = "ext_authz" /\ r.filter = "router"
      OBVIOUS
    <3> HIDE DEF f, r
    <3>3. PICK S : S = {f, r}
      OBVIOUS
    <3>4. routerFilter \in Seq(S) /\ routerFilter # <<>> /\ f \in S
      BY <3>1, <3>3
    <3>5. RouterLast(routerFilter)
      BY <3>1, <3>2 DEF RouterLast
    <3> QED
      BY <3>1, <3>2, <3>4, <3>5, Prepended
  <2>2. ASSUME NEW l \in DOMAIN snapshot.listeners
        PROVE  snapshot.listeners[l].filters = InjectAuthz(routerFilter)
    BY <1>11, <1>13
  <2> QED
    BY <2>1, <2>2 DEF OrderedFilters, RouterLast
<1>18. ValidWeights(snapshot)
  <2>1. ValidWeights(node)
    BY <1>6, AssignedWeights
  <2> QED
    BY <1>5, <2>1 DEF ValidWeights
<1> QED
  BY <1>1, <1>2, <1>14, <1>15, <1>16, <1>17, <1>18 DEF Usable

(* What makes a snapshot usable does not depend on its version.            *)
LEMMA AnyVersionUsable ==
    ASSUME NEW n, NEW node, NEW v, NEW w, Usable(n, NewSnapshot(v, node))
    PROVE  Usable(n, NewSnapshot(w, node))
<1>1. PICK a, b : a = NewSnapshot(v, node) /\ b = NewSnapshot(w, node)
  OBVIOUS
<1>2. /\ a.endpoints = b.endpoints /\ a.clusters = b.clusters
      /\ a.routes = b.routes /\ a.listeners = b.listeners
  BY <1>1 DEF NewSnapshot
<1>3. Usable(n, a)
  BY <1>1
<1>4. Usable(n, b)
  BY <1>2, <1>3
     DEF Usable, UniqueVHosts, ResolvedRoutes, ConsistentIfExposing, Consistent,
         OrderedFilters, ValidWeights
<1> QED
  BY <1>1, <1>4

(* Snapshots of one version have the same load assignments, although the   *)
(* version depends on the order of a walk over a map.                      *)
LEMMA VersionIdentifies ==
    ASSUME NEW a, NEW b, Versioned(a), Versioned(b), a.version = b.version
    PROVE  a.endpoints = b.endpoints
<1>1. PICK E, F : E = a.endpoints /\ F = b.endpoints
  OBVIOUS
<1>2. IsMap(E) /\ IsMap(F)
  BY <1>1 DEF Versioned
<1>3. PICK s \in SetToSeqs(DOMAIN E) : a.version = computeVersion(E, s)
  BY <1>1 DEF Versioned
<1>4. PICK t \in SetToSeqs(DOMAIN F) : b.version = computeVersion(F, t)
  BY <1>1 DEF Versioned
<1>5. ToSet(s) = DOMAIN E /\ ToSet(t) = DOMAIN F
  BY <1>2, OrderIsComplete DEF IsMap
<1>6. computeVersion(E, s) = computeVersion(F, t)
  BY <1>3, <1>4
<1>7. DOMAIN s = DOMAIN t /\ \A i \in DOMAIN s : s[i] = t[i] /\ E[s[i]] = F[t[i]]
  <2>1. PICK x : x = computeVersion(E, s)
    OBVIOUS
  <2>2. DOMAIN x = DOMAIN s /\ \A i \in DOMAIN s : x[i] = <<s[i], E[s[i]]>>
    BY <2>1 DEF computeVersion
  <2>3. DOMAIN x = DOMAIN t /\ \A i \in DOMAIN t : x[i] = <<t[i], F[t[i]]>>
    BY <1>6, <2>1 DEF computeVersion
  <2>4. ASSUME NEW i \in DOMAIN s PROVE s[i] = t[i] /\ E[s[i]] = F[t[i]]
    <3>1. <<s[i], E[s[i]]>> = <<t[i], F[t[i]]>>
      BY <2>2, <2>3
    <3> QED
      BY <3>1
  <2> QED
    BY <2>2, <2>3, <2>4
<1>8. DOMAIN E = DOMAIN F
  BY <1>5, <1>7 DEF ToSet
<1>9. \A x \in DOMAIN E : E[x] = F[x]
  BY <1>5, <1>7 DEF ToSet
<1>10. E = F
  BY <1>2, <1>8, <1>9 DEF IsMap
<1> QED
  BY <1>1, <1>10

-----------------------------------------------------------------------------
(* transform prepares every node that was reported, and the front proxy.   *)
LEMMA TransformPrepares ==
    ASSUME NEW p, IsReport(p), Ingress \notin DOMAIN p,
           NEW order \in SetToSeqs(DOMAIN p), NEW nodeOrder \in SetToSeqs(DOMAIN p)
    PROVE  LET nodes == transform(p, order, nodeOrder)
           IN  /\ IsSlice(nodes)
               /\ \A i \in DOMAIN nodes : Prepared(nodes[i], p)
               /\ \A n \in Targets(p) : \E i \in DOMAIN nodes : nodes[i].name = n
<1>1. PICK nodes : nodes = transform(p, order, nodeOrder)
  OBVIOUS
<1>2. PICK last : last = transformIngress(p, order)
  OBVIOUS
<1>3. PICK first : first = [i \in DOMAIN nodeOrder |-> transformNode(p, order, nodeOrder[i])]
  OBVIOUS
<1>4. nodeOrder \in Seq(DOMAIN p) /\ ToSet(nodeOrder) = DOMAIN p
  BY OrderIsComplete DEF IsReport
<1>5. PICK m \in Nat : DOMAIN nodeOrder = 1..m /\ \A i \in 1..m : nodeOrder[i] \in DOMAIN p
  BY <1>4
<1>6. /\ first = [i \in 1..m |-> first[i]] /\ DOMAIN first = 1..m
      /\ \A i \in 1..m : first[i] = transformNode(p, order, nodeOrder[i])
  BY <1>3, <1>5
<1>7. Prepared(last, p) /\ last.name = Ingress
  <2>1. last.name = Ingress
    BY <1>2 DEF transformIngress
  <2> QED
    BY <1>2, <2>1, IngressAssignments, IngressUsable DEF Prepared, Targets
<1>8. ASSUME NEW i \in 1..m PROVE Prepared(first[i], p) /\ first[i].name = nodeOrder[i]
  <2>1. PICK n \in DOMAIN p : n = nodeOrder[i]
    BY <1>5
  <2>2. n # Ingress
    BY <2>1
  <2>3. PICK node : node = transformNode(p, order, n)
    OBVIOUS
  <2>4. node.name = n
    BY <2>3 DEF transformNode
  <2>5. Prepared(node, p)
    BY <2>2, <2>3, <2>4, NodeAssignments, NodeUsable DEF Prepared, Targets
  <2> QED
    BY <1>6, <2>1, <2>3, <2>4, <2>5
<1> DEFINE S == ToSet(first) \cup {last}
<1>9. first \in Seq(S) /\ <<last>> \in Seq(S)
  <2>1. \A i \in 1..m : first[i] \in S
    BY <1>6 DEF ToSet
  <2>2. last \in S
    OBVIOUS
  <2> HIDE DEF S
  <2> QED
    BY <1>6, <2>1, <2>2
<1>10. nodes = first \o <<last>>
  BY <1>1, <1>2, <1>3 DEF transform
<1>11. nodes \in Seq(S) /\ ToSet(nodes) = S
  <2>1. ToSet(<<last>>) = {last}
    BY DEF ToSet
  <2>2. PICK end : end = <<last>>
    OBVIOUS
  <2>3. nodes \in Seq(S) /\ ToSet(nodes) = ToSet(first) \cup ToSet(end)
    <3> HIDE DEF S
    <3>1. first \in Seq(S) /\ end \in Seq(S)
      BY <1>9, <2>2
    <3>2. first \o end \in Seq(S) /\ ToSet(first \o end) = ToSet(first) \cup ToSet(end)
      BY ONLY <3>1, ConcatHolds, SMTT(30)
    <3> QED
      BY <1>10, <2>2, <3>2
  <2> QED
    BY <2>1, <2>2, <2>3
<1>12. \A x \in S : Prepared(x, p)
  BY <1>6, <1>7, <1>8 DEF ToSet
<1>13. ASSUME NEW n \in Targets(p) PROVE \E x \in S : x.name = n
  <2>1. CASE n = Ingress
    BY <1>7, <2>1
  <2>2. CASE n \in DOMAIN p
    <3>1. PICK i \in 1..m : n = nodeOrder[i]
      BY <1>4, <1>5, <2>2 DEF ToSet
    <3>2. first[i] \in S
      BY <1>6 DEF ToSet
    <3> QED
      BY <1>8, <3>1, <3>2
  <2> QED
    BY <2>1, <2>2 DEF Targets
<1> HIDE DEF S
<1>14. IsSlice(nodes)
  BY <1>11 DEF IsSlice
<1>15. \A i \in DOMAIN nodes : Prepared(nodes[i], p)
  BY <1>11, <1>12 DEF ToSet
<1>16. \A n \in Targets(p) : \E i \in DOMAIN nodes : nodes[i].name = n
  BY <1>11, <1>13 DEF ToSet
<1> QED
  BY <1>1, <1>14, <1>15, <1>16

-----------------------------------------------------------------------------
(* The rounds of Updater.Run.                                              *)
LEMMA UpdaterInvInit == UpdaterInit => UpdaterInv
<1> SUFFICES ASSUME UpdaterInit PROVE UpdaterInv
  OBVIOUS
<1>1. todo = <<>> /\ DOMAIN todo = {} /\ polled = Nil
  BY DEF UpdaterInit
<1>2. UpdaterTypeOK
  <2>1. IsSlice(todo)
    BY <1>1 DEF IsSlice
  <2> QED
    BY <1>1, <2>1, UpdaterAssumption DEF UpdaterInit, UpdaterTypeOK
<1>3. \A n \in AnyNode : served[n] = Nil /\ received[n] = Nil
  BY DEF UpdaterInit
<1> QED
  BY <1>1, <1>2, <1>3 DEF UpdaterInv, EndpointsDelivered

LEMMA PollStep == UpdaterInv /\ Poll => UpdaterInv'
<1> SUFFICES ASSUME UpdaterInv, Poll PROVE UpdaterInv'
  OBVIOUS
<1>1. PICK p \in Providers : p = provider
  BY DEF UpdaterInv, UpdaterTypeOK
<1>2. PICK order \in SetToSeqs(DOMAIN p), nodeOrder \in SetToSeqs(DOMAIN p) :
         todo' = transform(p, order, nodeOrder)
  BY <1>1 DEF Poll
<1>3. PICK nodes : nodes = transform(p, order, nodeOrder)
  OBVIOUS
<1>4. IsReport(p) /\ Ingress \notin DOMAIN p
  BY UpdaterAssumption DEF IsReport
<1>5. /\ IsSlice(nodes)
      /\ \A i \in DOMAIN nodes : Prepared(nodes[i], p)
      /\ \A n \in Targets(p) : \E i \in DOMAIN nodes : nodes[i].name = n
  BY <1>3, <1>4, TransformPrepares
<1>6. todo' = nodes /\ polled' = p /\ pc' = "publish"
      /\ UNCHANGED <<provider, changes, served, received>>
  BY <1>1, <1>2, <1>3 DEF Poll
<1>7. UpdaterTypeOK'
  BY <1>5, <1>6 DEF UpdaterInv, UpdaterTypeOK
<1>8. (\A i \in DOMAIN todo : Prepared(todo[i], polled))'
  BY <1>5, <1>6
<1>9. (\A n \in Targets(polled) : \E i \in DOMAIN todo : todo[i].name = n)'
  BY <1>5, <1>6
<1>10. (\A n \in AnyNode : /\ served[n] # Nil => Usable(n, served[n])
                           /\ received[n] # Nil => Versioned(received[n]))'
  BY <1>6 DEF UpdaterInv
<1>11. EndpointsDelivered'
  BY <1>6 DEF UpdaterInv, EndpointsDelivered
<1> QED
  BY <1>7, <1>8, <1>9, <1>10, <1>11 DEF UpdaterInv

(* One node more is served: its sidecar has its load assignments, skipped  *)
(* or not.                                                                 *)
LEMMA PublishStep == UpdaterInv /\ Publish => UpdaterInv'
<1> SUFFICES ASSUME UpdaterInv, Publish PROVE UpdaterInv'
  OBVIOUS
<1>1. PICK t : t = todo
  OBVIOUS
<1>2. PICK p : p = polled
  OBVIOUS
<1>3. PICK node : node = Head(t)
  OBVIOUS
<1>4. /\ t # <<>> /\ IsSlice(t) /\ todo' = Tail(t) /\ pc = "publish"
      /\ UNCHANGED <<provider, changes, pc, polled>>
  BY <1>1 DEF Publish, UpdaterInv, UpdaterTypeOK
<1>5. PICK order \in SetToSeqs(DOMAIN node.endpoints) :
         LET snapshot == NewSnapshot(computeVersion(node.endpoints, order), node)
             last     == received[node.name]
         IN  /\ served' = [served EXCEPT ![node.name] = snapshot]
             /\ received' = [received EXCEPT ![node.name] =
                   IF last # Nil /\ last.version = snapshot.version THEN last ELSE snapshot]
  BY <1>1, <1>3 DEF Publish
<1>6. PICK version : version = computeVersion(node.endpoints, order)
  OBVIOUS
<1>7. PICK snapshot : snapshot = NewSnapshot(version, node)
  OBVIOUS
<1>8. PICK n : n = node.name
  OBVIOUS
<1>9. PICK last : last = received[n]
  OBVIOUS
<1>10. PICK got : got = IF last # Nil /\ last.version = snapshot.version THEN last ELSE snapshot
  OBVIOUS
<1>11. /\ served' = [served EXCEPT ![n] = snapshot]
       /\ received' = [received EXCEPT ![n] = got]
  BY <1>5, <1>6, <1>7, <1>8, <1>9, <1>10
<1>12. /\ t \in Seq(ToSet(t)) /\ 1 \in DOMAIN t /\ node = t[1]
       /\ Tail(t) \in Seq(ToSet(t))
       /\ \A i \in DOMAIN t : i # 1 => i - 1 \in DOMAIN Tail(t) /\ Tail(t)[i - 1] = t[i]
       /\ \A i \in DOMAIN Tail(t) : i + 1 \in DOMAIN t /\ Tail(t)[i] = t[i + 1]
  BY <1>3, <1>4 DEF IsSlice
<1>13. Prepared(node, p)
  BY <1>1, <1>2, <1>12 DEF UpdaterInv
<1>14. n \in AnyNode
  <2>1. p \in Providers
    BY <1>2, <1>4 DEF UpdaterInv, UpdaterTypeOK
  <2> QED
    BY <1>8, <1>13, <2>1, UpdaterAssumption DEF Prepared, Targets, AnyNode, IsReport
<1>15. Usable(n, snapshot)
  BY <1>7, <1>8, <1>13, AnyVersionUsable DEF Prepared
<1>16. snapshot.version = version /\ snapshot.endpoints = node.endpoints
  BY <1>7, SnapshotKeeps
<1>17. Versioned(snapshot)
  BY <1>6, <1>13, <1>16 DEF Versioned, Prepared
<1>18. AssignmentsMatch(snapshot, p, n)
  BY <1>8, <1>13, <1>16 DEF Prepared, AssignmentsMatch
<1>19. /\ got # Nil => Versioned(got)
       /\ snapshot # Nil => got # Nil
       /\ got.endpoints = snapshot.endpoints
  <2>1. last # Nil => Versioned(last)
    BY <1>9, <1>14 DEF UpdaterInv
  <2>2. CASE last # Nil /\ last.version = snapshot.version
    BY <1>10, <1>17, <2>1, <2>2, VersionIdentifies
  <2>3. CASE ~ (last # Nil /\ last.version = snapshot.version)
    BY <1>10, <1>17, <2>3
  <2> QED
    BY <2>2, <2>3
<1>20. DOMAIN served = AnyNode /\ DOMAIN received = AnyNode
  BY DEF UpdaterInv, UpdaterTypeOK
<1>21. /\ served'[n] = snapshot /\ received'[n] = got
       /\ \A m \in AnyNode : m # n => served'[m] = served[m] /\ received'[m] = received[m]
       /\ DOMAIN served' = AnyNode /\ DOMAIN received' = AnyNode
  BY <1>11, <1>14, <1>20
<1>22. UpdaterTypeOK'
  <2>1. IsSlice(todo)'
    <3>1. PICK u : u = Tail(t)
      OBVIOUS
    <3>2. u \in Seq(ToSet(t))
      BY <1>12, <3>1
    <3>3. IsSlice(u)
      BY <3>2 DEF IsSlice, ToSet
    <3> QED
      BY <1>4, <3>1, <3>3
  <2> QED
    BY <1>4, <1>21, <2>1 DEF UpdaterInv, UpdaterTypeOK
<1>23. (\A i \in DOMAIN todo : Prepared(todo[i], polled))'
  <2>1. \A i \in DOMAIN Tail(t) : Prepared(Tail(t)[i], p)
    BY <1>1, <1>2, <1>12 DEF UpdaterInv
  <2> QED
    BY <1>2, <1>4, <2>1
<1>24. ASSUME polled # Nil, NEW m \in Targets(p)
       PROVE  \/ \E i \in DOMAIN Tail(t) : Tail(t)[i].name = m
              \/ AssignmentsMatch(served'[m], p, m)
  <2>1. CASE m = n
    BY <1>18, <1>21, <2>1
  <2>2. CASE m # n
    <3>1. m \in AnyNode
      <4>1. p \in Providers
        BY <1>2, <1>24 DEF UpdaterInv, UpdaterTypeOK
      <4> QED
        BY <4>1, UpdaterAssumption DEF Targets, AnyNode, IsReport
    <3>2. \/ \E i \in DOMAIN t : t[i].name = m
          \/ AssignmentsMatch(served[m], p, m)
      BY <1>1, <1>2, <1>4, <1>24 DEF UpdaterInv
    <3>3. CASE \E i \in DOMAIN t : t[i].name = m
      <4>1. PICK i \in DOMAIN t : t[i].name = m
        BY <3>3
      <4>2. i # 1
        BY <1>8, <1>12, <2>2, <4>1
      <4> QED
        BY <1>12, <4>1, <4>2
    <3>4. CASE AssignmentsMatch(served[m], p, m)
      BY <1>21, <2>2, <3>1, <3>4
    <3> QED
      BY <3>2, <3>3, <3>4
  <2> QED
    BY <2>1, <2>2
<1>25. (polled # Nil /\ pc # "panicked" =>
          \A m \in Targets(polled) : \/ \E i \in DOMAIN todo : todo[i].name = m
                                     \/ AssignmentsMatch(served[m], polled, m))'
  BY <1>2, <1>4, <1>24
<1>26. (\A m \in AnyNode : /\ served[m] # Nil => Usable(m, served[m])
                           /\ received[m] # Nil => Versioned(received[m]))'
  BY <1>15, <1>19, <1>21 DEF UpdaterInv
<1>27. EndpointsDelivered'
  BY <1>19, <1>21 DEF UpdaterInv, EndpointsDelivered
<1> QED
  BY <1>22, <1>23, <1>25, <1>26, <1>27 DEF UpdaterInv

(* The other steps leave the nodes of the round and their snapshots alone. *)
LEMMA QuietStep ==
    ASSUME UpdaterInv,
           \/ ProviderChanges \/ PollFails \/ PollPanics \/ RoundEnds \/ WaitEnds
           \/ UNCHANGED updaterVars
    PROVE  UpdaterInv'
<1>1. /\ UNCHANGED <<todo, served, received>>
      /\ \/ UNCHANGED polled
         \/ pc' = "panicked" /\ todo = <<>> /\ polled' = provider
  BY DEF ProviderChanges, PollFails, PollPanics, RoundEnds, WaitEnds, updaterVars,
         UpdaterInv, UpdaterTypeOK
<1>2. UpdaterTypeOK'
  <2>1. changes < MaxChanges => changes + 1 \in 0..MaxChanges
    BY UpdaterAssumption DEF UpdaterInv, UpdaterTypeOK
  <2>2. /\ provider' \in Providers /\ changes' \in 0..MaxChanges
        /\ polled' \in Providers \cup {Nil} /\ (pc' = "publish" => polled' \in Providers)
    BY <2>1 DEF ProviderChanges, PollFails, PollPanics, RoundEnds, WaitEnds, updaterVars,
                UpdaterInv, UpdaterTypeOK
  <2>3. pc' \in {"poll", "publish", "wait", "panicked"} /\ (pc' # "publish" => todo = <<>>)
    BY DEF ProviderChanges, PollFails, PollPanics, RoundEnds, WaitEnds, updaterVars,
           UpdaterInv, UpdaterTypeOK
  <2> QED
    BY <1>1, <2>2, <2>3 DEF UpdaterInv, UpdaterTypeOK
<1>3. (\A i \in DOMAIN todo : Prepared(todo[i], polled))'
  <2>1. CASE UNCHANGED polled
    BY <1>1, <2>1 DEF UpdaterInv
  <2>2. CASE todo = <<>>
    BY <1>1, <2>2
  <2> QED
    BY <1>1, <2>1, <2>2
<1>4. (polled # Nil /\ pc # "panicked" =>
         \A m \in Targets(polled) : \/ \E i \in DOMAIN todo : todo[i].name = m
                                    \/ AssignmentsMatch(served[m], polled, m))'
  <2>1. UNCHANGED polled /\ pc' # "panicked" => pc # "panicked"
    BY DEF ProviderChanges, PollFails, PollPanics, RoundEnds, WaitEnds, updaterVars
  <2> QED
    BY <1>1, <2>1 DEF UpdaterInv
<1>5. (\A m \in AnyNode : /\ served[m] # Nil => Usable(m, served[m])
                          /\ received[m] # Nil => Versioned(received[m]))'
  BY <1>1 DEF UpdaterInv
<1>6. EndpointsDelivered'
  BY <1>1 DEF UpdaterInv, EndpointsDelivered
<1> QED
  BY <1>2, <1>3, <1>4, <1>5, <1>6 DEF UpdaterInv

(* Every round, on any report and with any interleaving of changes, polls  *)
(* that fail and nodes still to be published: UpdaterInv, the inductive    *)
(* invariant of Updater.Run.                                               *)
THEOREM UpdaterInvariant == UpdaterSpec => []UpdaterInv
<1>1. UpdaterInit => UpdaterInv
  BY UpdaterInvInit
<1>2. UpdaterInv /\ [UpdaterNext]_updaterVars => UpdaterInv'
  BY PollStep, PublishStep, QuietStep DEF UpdaterNext
<1> QED
  BY <1>1, <1>2, PTL DEF UpdaterSpec

(* After a round of Updater.Run every node of the report, and the front    *)
(* proxy, is served all endpoints of all services and no other.            *)
THEOREM MeshIsComplete == UpdaterSpec => []MeshComplete
<1>1. UpdaterInv => MeshComplete
  <2> SUFFICES ASSUME UpdaterInv, pc = "wait", polled # Nil, NEW n \in Targets(polled)
               PROVE  AssignmentsMatch(served[n], polled, n)
    BY DEF MeshComplete
  <2>1. todo = <<>>
    BY DEF UpdaterInv, UpdaterTypeOK
  <2>2. DOMAIN todo = {}
    BY <2>1
  <2> QED
    BY <2>2 DEF UpdaterInv
<1> QED
  BY <1>1, UpdaterInvariant, PTL

(* AddRoute: whatever the report and the order of the walks, a service has *)
(* exactly one virtual host in a route, however many nodes expose it.      *)
THEOREM VHostsAreUnique == UpdaterSpec => []OneVHostPerService
<1>1. UpdaterInv => OneVHostPerService
  BY DEF UpdaterInv, Usable, OneVHostPerService
<1> QED
  BY <1>1, UpdaterInvariant, PTL

(* Every virtual host that transform makes leads to a cluster of the same  *)
(* snapshot, and out of a sidecar's ingress route only to a local one.     *)
THEOREM RoutesAreResolved == UpdaterSpec => []RoutesResolve
<1>1. UpdaterInv => RoutesResolve
  BY DEF UpdaterInv, Usable, RoutesResolve
<1> QED
  BY <1>1, UpdaterInvariant, PTL

(* Snapshot.Consistent accepts what the front proxy and every node that    *)
(* exposes a service are served.                                           *)
THEOREM ExposingSnapshotsConsistent == UpdaterSpec => []ExposingConsistent
<1>1. UpdaterInv => ExposingConsistent
  BY DEF UpdaterInv, Usable, ExposingConsistent
<1> QED
  BY <1>1, UpdaterInvariant, PTL

(* "order matters!": after any number of injected filters the router is    *)
(* last and the only one, and the front proxy authorizes first.            *)
THEOREM FiltersAreOrdered == UpdaterSpec => []FiltersOrdered
<1>1. UpdaterInv => FiltersOrdered
  BY DEF UpdaterInv, Usable, FiltersOrdered
<1> QED
  BY <1>1, UpdaterInvariant, PTL

(* Whatever an endpoint.weight annotation says, truncated to 32 bits or    *)
(* not, Envoy is given a weight it accepts.                                *)
THEOREM WeightsAreValid == UpdaterSpec => []WeightsValid
<1>1. UpdaterInv => WeightsValid
  BY DEF UpdaterInv, Usable, WeightsValid
<1> QED
  BY <1>1, UpdaterInvariant, PTL

(* computeVersion: a sidecar that is not sent a snapshot, for it has the   *)
(* version, has its load assignments, and every other one is sent it.      *)
THEOREM EndpointsAreDelivered == UpdaterSpec => []EndpointsDelivered
<1>1. UpdaterInv => EndpointsDelivered
  BY DEF UpdaterInv
<1> QED
  BY <1>1, UpdaterInvariant, PTL
=============================================================================
