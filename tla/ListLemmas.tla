----------------------------- MODULE ListLemmas -----------------------------
(***************************************************************************)
(* Facts about sequences, as the loops of the Go code build them, that the *)
(* proofs about the Fargate provider and the updater share.                *)
(*                                                                         *)
(* Loops are recursive functions.  That such a function exists, and what   *)
(* it returns, is proved by induction over sets of indices: a set with 0   *)
(* that is closed under the successor has all of 0..n in it, since else    *)
(* there would be a least index that it lacks.                             *)
(***************************************************************************)
EXTENDS Integers, Sequences, FiniteSets, SequencesExt, FiniteSetTheorems,
        SequenceTheorems, WellFoundedInduction, TLAPS

LEMMA LeastElement ==
    ASSUME NEW T, T \subseteq Nat, T # {}
    PROVE  \E m \in T : \A k \in T : m <= k
<1>1. PICK m \in T : \A k \in T : ~ (<<k, m>> \in OpToRel(<, Nat))
  BY NatLessThanWellFounded, WFMin
<1>2. \A k \in T : ~ (k < m)
  BY <1>1 DEF OpToRel
<1> QED
  BY <1>2

(* Induction up to n, for a set of indices.                                *)
LEMMA IndexInduction ==
    ASSUME NEW n \in Nat, NEW I, 0 \in I, \A k \in 1..n : k - 1 \in I => k \in I
    PROVE  0..n \subseteq I
<1> DEFINE T == (0..n) \ I
<1> SUFFICES ASSUME T # {} PROVE FALSE
  OBVIOUS
<1>1. PICK m \in T : \A k \in T : m <= k
  <2>1. T \subseteq Nat
    OBVIOUS
  <2> HIDE DEF T
  <2> QED
    BY <2>1, LeastElement
<1>2. m \in 0..n /\ m \notin I /\ m # 0
  BY <1>1
<1>3. m \in 1..n /\ m - 1 \in 0..n /\ ~ (m <= m - 1)
  BY <1>2
<1>4. m - 1 \notin T
  BY <1>1, <1>3
<1> QED
  BY <1>2, <1>3, <1>4

(* A loop of n steps, each of which makes a value of the one before.       *)
IsStep(step, n, S) == \A k \in 1..n, v \in S : step[<<k, v>>] \in S

IsLoop(f, n, S, base, step) ==
    /\ f \in [0..n -> S]
    /\ f[0] = base
    /\ \A k \in 1..n : f[k] = step[<<k, f[k - 1]>>]

LEMMA LoopExists ==
    ASSUME NEW n \in Nat, NEW S, NEW base \in S, NEW step, IsStep(step, n, S)
    PROVE  \E f : IsLoop(f, n, S, base, step)
<1> DEFINE Loop(m) == \E f \in [0..m -> S] :
                         f[0] = base /\ \A k \in 1..m : f[k] = step[<<k, f[k - 1]>>]
           I == {m \in 0..n : Loop(m)}
<1>1. Loop(0)
  <2> DEFINE f == [k \in 0..0 |-> base]
  <2>1. f \in [0..0 -> S] /\ f[0] = base
    OBVIOUS
  <2>2. \A k \in 1..0 : FALSE
    OBVIOUS
  <2> HIDE DEF f
  <2> QED
    BY <2>1, <2>2
<1>2. ASSUME NEW m \in 1..n, Loop(m - 1) PROVE Loop(m)
  <2>1. PICK f \in [0..(m - 1) -> S] :
           f[0] = base /\ \A k \in 1..(m - 1) : f[k] = step[<<k, f[k - 1]>>]
    BY <1>2
  <2> DEFINE g == [k \in 0..m |-> IF k = m THEN step[<<m, f[m - 1]>>] ELSE f[k]]
  <2>2. f[m - 1] \in S /\ step[<<m, f[m - 1]>>] \in S
    BY <2>1 DEF IsStep
  <2>3. g \in [0..m -> S]
    BY <2>1, <2>2
  <2>4. g[0] = base
    BY <2>1
  <2>5. g[m] = step[<<m, f[m - 1]>>] /\ \A k \in 0..(m - 1) : g[k] = f[k]
    OBVIOUS
  <2> HIDE DEF g
  <2>6. ASSUME NEW k \in 1..m PROVE g[k] = step[<<k, g[k - 1]>>]
    <3>1. g[k - 1] = f[k - 1]
      <4>1. k - 1 \in 0..(m - 1)
        OBVIOUS
      <4> QED
        BY <2>5, <4>1
    <3>2. CASE k = m
      BY <2>5, <3>1, <3>2
    <3>3. CASE k # m
      <4>1. k \in 1..(m - 1) /\ k \in 0..(m - 1)
        BY <3>3
      <4> QED
        BY <2>1, <2>5, <3>1, <4>1
    <3> QED
      BY <3>2, <3>3
  <2> QED
    BY <2>3, <2>4, <2>6
<1> HIDE DEF Loop
<1>3. 0 \in I /\ \A k \in 1..n : k - 1 \in I => k \in I
  BY <1>1, <1>2
<1> HIDE DEF I
<1>4. 0..n \subseteq I
  BY <1>3, IndexInduction
<1>5. Loop(n)
  BY <1>4 DEF I
<1> QED
  BY <1>5 DEF Loop, IsLoop

-----------------------------------------------------------------------------
(* What a list holds together with another one.                            *)
LEMMA ConcatHolds ==
    ASSUME NEW S, NEW s \in Seq(S), NEW t \in Seq(S)
    PROVE  s \o t \in Seq(S) /\ ToSet(s \o t) = ToSet(s) \cup ToSet(t)
<1> DEFINE both == s \o t
<1>1. /\ DOMAIN s = 1..Len(s) /\ DOMAIN t = 1..Len(t)
      /\ both \in Seq(S) /\ DOMAIN both = 1..(Len(s) + Len(t))
      /\ Len(s) \in Nat /\ Len(t) \in Nat
      /\ \A i \in 1..Len(s) : both[i] = s[i]
      /\ \A i \in 1..Len(t) : both[Len(s) + i] = t[i]
  <2>1. /\ DOMAIN s = 1..Len(s) /\ DOMAIN t = 1..Len(t)
        /\ Len(s) \in Nat /\ Len(t) \in Nat
    OBVIOUS
  <2>2. /\ both \in Seq(S) /\ Len(both) = Len(s) + Len(t)
        /\ \A i \in 1..(Len(s) + Len(t)) :
              both[i] = IF i <= Len(s) THEN s[i] ELSE t[i - Len(s)]
    BY ConcatProperties
  <2> HIDE DEF both
  <2>3. DOMAIN both = 1..(Len(s) + Len(t))
    BY <2>2, LenProperties
  <2>4. \A i \in 1..Len(s) : both[i] = s[i]
    BY <2>1, <2>2
  <2>5. ASSUME NEW i \in 1..Len(t) PROVE both[Len(s) + i] = t[i]
    <3>1. /\ Len(s) + i \in 1..(Len(s) + Len(t)) /\ ~ (Len(s) + i <= Len(s))
          /\ (Len(s) + i) - Len(s) = i
      BY <2>1
    <3> QED
      BY <2>2, <3>1
  <2> QED
    BY <2>1, <2>2, <2>3, <2>4, <2>5
<1> HIDE DEF both
<1>2. \A i \in 1..Len(t) : Len(s) + i \in DOMAIN both
  BY <1>1
<1>3. ToSet(s) \subseteq ToSet(both) /\ ToSet(t) \subseteq ToSet(both)
  <2>1. \A i \in 1..Len(s) : i \in DOMAIN both
    BY <1>1
  <2>2. ASSUME NEW x \in ToSet(s) PROVE x \in ToSet(both)
    <3>1. PICK i \in 1..Len(s) : x = s[i]
      BY <1>1 DEF ToSet
    <3> QED
      BY <1>1, <2>1, <3>1 DEF ToSet
  <2>3. ASSUME NEW x \in ToSet(t) PROVE x \in ToSet(both)
    <3>1. PICK i \in 1..Len(t) : x = t[i]
      BY <1>1 DEF ToSet
    <3> QED
      BY <1>1, <1>2, <3>1 DEF ToSet
  <2> QED
    BY <2>2, <2>3
<1>4. ASSUME NEW i \in DOMAIN both PROVE both[i] \in ToSet(s) \cup ToSet(t)
  <2>1. CASE i \in 1..Len(s)
    BY <1>1, <2>1 DEF ToSet
  <2>2. CASE i \notin 1..Len(s)
    <3>1. i - Len(s) \in 1..Len(t) /\ Len(s) + (i - Len(s)) = i
      BY <1>1, <2>2
    <3>2. both[i] = t[i - Len(s)]
      BY <1>1, <3>1
    <3> QED
      BY <1>1, <3>1, <3>2 DEF ToSet
  <2> QED
    BY <2>1, <2>2
<1>5. ToSet(both) \subseteq ToSet(s) \cup ToSet(t)
  BY <1>4 DEF ToSet
<1> QED
  BY <1>1, <1>3, <1>5 DEF both

(* FlattenSeq appends one list after the other.                            *)
LEMMA FlattenIsLoop ==
    ASSUME NEW S, NEW seqs \in Seq(Seq(S))
    PROVE  \E f \in [0..Len(seqs) -> Seq(S)] :
              /\ f[0] = <<>>
              /\ \A k \in 1..Len(seqs) : f[k] = f[k - 1] \o seqs[k]
              /\ FlattenSeq(seqs) = f[Len(seqs)]
<1> DEFINE n == Len(seqs)
           Q == Seq(S)
           step == [x \in (1..n) \X Q |-> x[2] \o seqs[x[1]]]
<1>1. n \in Nat /\ <<>> \in Q /\ \A k \in 1..n : seqs[k] \in Q
  OBVIOUS
<1>2. \A k \in 1..n, v \in Q : step[<<k, v>>] = v \o seqs[k]
  OBVIOUS
<1>3. IsStep(step, n, Q)
  <2> SUFFICES ASSUME NEW k \in 1..n, NEW v \in Q PROVE step[<<k, v>>] \in Q
    BY DEF IsStep
  <2>1. v \o seqs[k] \in Q
    BY <1>1
  <2> HIDE DEF step
  <2> QED
    BY <1>2, <2>1
<1> HIDE DEF step, Q, n
<1>4. PICK f \in [0..n -> Q] :
         f[0] = <<>> /\ \A k \in 1..n : f[k] = step[<<k, f[k - 1]>>]
  <2> DEFINE base == <<>>
  <2>1. base \in Q /\ base = <<>>
    BY <1>1
  <2> HIDE DEF base
  <2>2. \E f : IsLoop(f, n, Q, base, step)
    BY <1>1, <1>3, <2>1, LoopExists
  <2> QED
    BY <2>1, <2>2 DEF IsLoop
<1>5. ASSUME NEW k \in 1..n PROVE f[k] = f[k - 1] \o seqs[k]
  <2>1. k - 1 \in 0..n
    BY <1>1
  <2>2. f[k - 1] \in Q
    BY <1>4, <2>1
  <2> QED
    BY <1>2, <1>4, <2>2
<1>6. CASE n = 0
  <2>1. seqs = <<>> /\ FlattenSeq(seqs) = seqs
    BY <1>6 DEF FlattenSeq, n
  <2> QED
    BY <1>4, <1>5, <1>6, <2>1 DEF Q, n
<1>7. CASE n # 0
  <2> DEFINE Flat(g) == g = [i \in 1..n |-> IF i = 1 THEN seqs[i] ELSE g[i - 1] \o seqs[i]]
             chosen == CHOOSE g : Flat(g)
             g0 == [i \in 1..n |-> f[i]]
  <2>1. Flat(g0)
    <3>1. ASSUME NEW i \in 1..n
          PROVE  g0[i] = IF i = 1 THEN seqs[i] ELSE g0[i - 1] \o seqs[i]
      <4>1. CASE i = 1
        <5>1. f[1] = <<>> \o seqs[1]
          <6>1. 1 \in 1..n /\ 1 - 1 = 0
            BY <4>1
          <6> QED
            BY <1>4, <1>5, <6>1
        <5> QED
          BY <1>1, <4>1, <5>1 DEF Q
      <4>2. CASE i # 1
        <5>1. i - 1 \in 1..n
          BY <1>1, <4>2
        <5>2. g0[i - 1] = f[i - 1] /\ g0[i] = f[i]
          BY <5>1
        <5> HIDE DEF g0
        <5> QED
          BY <1>5, <4>2, <5>2
      <4> QED
        BY <4>1, <4>2
    <3>2. g0 = [i \in 1..n |-> g0[i]]
      OBVIOUS
    <3> HIDE DEF g0
    <3> QED
      BY <3>1, <3>2
  <2>2. Flat(chosen)
    BY <2>1
  <2>3. FlattenSeq(seqs) = chosen[n]
    BY <1>7 DEF FlattenSeq, n
  <2> HIDE DEF chosen, g0
  <2>4. chosen[1] = seqs[1] /\ \A i \in 2..n : chosen[i] = chosen[i - 1] \o seqs[i]
    <3>1. \A i \in 1..n : chosen[i] = IF i = 1 THEN seqs[i] ELSE chosen[i - 1] \o seqs[i]
      BY <2>2
    <3>2. 1 \in 1..n /\ \A i \in 2..n : i \in 1..n /\ i # 1
      BY <1>1, <1>7
    <3> QED
      BY <3>1, <3>2
  <2> HIDE DEF Flat
  <2> DEFINE I == {k \in 0..n : k = 0 \/ chosen[k] = f[k]}
  <2>5. ASSUME NEW k \in 1..n, k - 1 \in I PROVE k \in I
    <3>1. CASE k = 1
      <4>1. f[1] = <<>> \o seqs[1]
        <5>1. 1 \in 1..n /\ 1 - 1 = 0
          BY <3>1
        <5> QED
          BY <1>4, <1>5, <5>1
      <4> QED
        BY <1>1, <2>4, <3>1, <4>1 DEF Q
    <3>2. CASE k # 1
      <4>1. k \in 2..n /\ chosen[k - 1] = f[k - 1]
        BY <1>1, <2>5, <3>2
      <4>2. chosen[k] = f[k]
        BY <1>5, <2>4, <4>1
      <4> QED
        BY <4>2
    <3> QED
      BY <3>1, <3>2
  <2>6. 0 \in I
    BY <1>1
  <2> HIDE DEF I
  <2>7. 0..n \subseteq I
    BY <1>1, <2>5, <2>6, IndexInduction
  <2>8. chosen[n] = f[n]
    BY <1>1, <1>7, <2>7 DEF I
  <2> QED
    BY <1>4, <1>5, <2>3, <2>8 DEF Q, n
<1> QED
  BY <1>6, <1>7

(* FlattenSeq gives what its lists hold together.                          *)
LEMMA FlattenHolds ==
    ASSUME NEW S, NEW seqs \in Seq(Seq(S))
    PROVE  /\ FlattenSeq(seqs) \in Seq(S)
           /\ ToSet(FlattenSeq(seqs)) = UNION {ToSet(seqs[k]) : k \in DOMAIN seqs}
<1> DEFINE n == Len(seqs)
           Upto(k) == UNION {ToSet(seqs[j]) : j \in 1..k}
<1>1. n \in Nat /\ DOMAIN seqs = 1..n /\ \A k \in 1..n : seqs[k] \in Seq(S)
  OBVIOUS
<1>2. PICK f \in [0..n -> Seq(S)] :
         /\ f[0] = <<>>
         /\ \A k \in 1..n : f[k] = f[k - 1] \o seqs[k]
         /\ FlattenSeq(seqs) = f[n]
  BY FlattenIsLoop
<1> HIDE DEF n
<1> DEFINE I == {k \in 0..n : ToSet(f[k]) = Upto(k)}
<1>3. 0 \in I
  <2>1. ToSet(f[0]) = {}
    BY <1>2 DEF ToSet
  <2>2. Upto(0) = {}
    OBVIOUS
  <2> QED
    BY <1>1, <2>1, <2>2
<1>4. ASSUME NEW k \in 1..n, k - 1 \in I PROVE k \in I
  <2>1. k - 1 \in 0..n /\ k \in 0..n /\ 1..k = 1..(k - 1) \cup {k}
    BY <1>1
  <2>2. f[k - 1] \in Seq(S) /\ seqs[k] \in Seq(S) /\ f[k] = f[k - 1] \o seqs[k]
    BY <1>1, <1>2, <2>1
  <2>3. ToSet(f[k]) = ToSet(f[k - 1]) \cup ToSet(seqs[k])
    BY <2>2, ConcatHolds
  <2>4. ToSet(f[k - 1]) = Upto(k - 1)
    BY <1>4
  <2>5. Upto(k) = Upto(k - 1) \cup ToSet(seqs[k])
    BY <2>1
  <2> QED
    BY <2>1, <2>3, <2>4, <2>5
<1> HIDE DEF I
<1>5. 0..n \subseteq I
  BY <1>1, <1>3, <1>4, IndexInduction
<1>6. ToSet(f[n]) = Upto(n)
  BY <1>1, <1>5 DEF I
<1> QED
  BY <1>1, <1>2, <1>6

(* An order of a set has all of its elements, and no other.                *)
LEMMA OrderIsComplete ==
    ASSUME NEW S, IsFiniteSet(S), NEW order \in SetToSeqs(S)
    PROVE  order \in Seq(S) /\ ToSet(order) = S
<1> DEFINE n == Cardinality(S)
<1>1. n \in Nat
  BY FS_CardinalityType
<1>2. order \in [1..n -> S] /\ \A i, j \in 1..n : i # j => order[i] # order[j]
  BY DEF SetToSeqs
<1> HIDE DEF n
<1>3. order \in Seq(S)
  BY <1>1, <1>2
<1>4. order \in Injection(1..n, S)
  BY <1>2, Zenon DEF Injection, IsInjective
<1>5. Cardinality(1..n) = Cardinality(S)
  BY <1>1, FS_Interval DEF n
<1>6. order \in Surjection(1..n, S)
  BY <1>4, <1>5, FS_Injection
<1>7. ToSet(order) = S
  BY <1>2, <1>6 DEF ToSet, Surjection
<1> QED
  BY <1>3, <1>7
=============================================================================
