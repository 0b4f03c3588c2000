--------------------------- MODULE FargateProofs ---------------------------
(***************************************************************************)
(* What a poll of the ECS API reports, for every number of clusters and    *)
(* tasks and every size of the windows, and the sidecars that boot next to *)
(* it.  The lemmas about sliceWalk and the pages say that no identifier    *)
(* gets lost between a listing and the calls that describe it.             *)
(***************************************************************************)
EXTENDS Sidecars, ListLemmas

(* Division rounds down.                                                   *)
LEMMA DivisionRoundsDown ==
    ASSUME NEW a \in Nat, NEW w \in Nat \ {0}
    PROVE  /\ a \div w \in Nat
           /\ (a \div w) * w <= a
           /\ a < (a \div w) * w + w
BY SMT

(* How many elements there are before the k-th window, and in it.          *)
Before(w, k) == (k - 1) * w
Size(w, cnt, k) == IF w < cnt - Before(w, k) THEN w ELSE cnt - Before(w, k)

(* The k-th window is the part of the input from its first index on, and   *)
(* only the last one may be shorter.                                       *)
LEMMA WindowIs ==
    ASSUME NEW S, NEW w \in Nat \ {0}, NEW input \in Seq(S),
           NEW k \in 1..((Len(input) + w - 1) \div w)
    PROVE  /\ Before(w, k) \in Nat
           /\ Size(w, Len(input), k) \in Nat \ {0}
           /\ Before(w, k) + Size(w, Len(input), k) <= Len(input)
           /\ sliceWalk(w, input)[k] \in Seq(S)
           /\ Len(sliceWalk(w, input)[k]) = Size(w, Len(input), k)
           /\ \A i \in 1..Size(w, Len(input), k) :
                 sliceWalk(w, input)[k][i] = input[Before(w, k) + i]
<1> DEFINE cnt == Len(input)
           last == (cnt + w - 1) \div w
           from == Before(w, k)
           size == Size(w, cnt, k)
           window == SubSeq(input, from + 1, from + size)
<1>1. cnt \in Nat /\ cnt + w - 1 \in Nat
  OBVIOUS
<1>2. last \in Nat /\ last * w <= cnt + w - 1
  BY <1>1, DivisionRoundsDown
<1>3. sliceWalk(w, input)[k] = window
  BY DEF sliceWalk, Before, Size
<1>4. \A i \in 1..cnt : input[i] \in S
  OBVIOUS
<1> HIDE DEF last, cnt
<1>5. k \in Nat /\ 1 <= k /\ k <= last
  BY <1>2 DEF last, cnt
<1>6. k * w <= last * w
  BY <1>2, <1>5, SMT
<1>7. from \in Nat /\ from + w = k * w
  BY <1>5, SMT DEF Before
<1>8. from < cnt
  BY <1>1, <1>2, <1>5, <1>6, <1>7, SMT
<1>9. size \in Nat \ {0} /\ from + size <= cnt
  BY <1>1, <1>7, <1>8 DEF Size
<1> HIDE DEF from, size
<1>10. /\ window \in Seq(S)
       /\ Len(window) = size
       /\ \A i \in 1..size : window[i] = input[from + i]
  <2>1. /\ from + 1 \in Int /\ from + size \in Int /\ from + 1 <= from + size
        /\ (from + size) - (from + 1) + 1 = size
        /\ \A i \in 1..size : (from + 1) + i - 1 = from + i
        /\ (from + 1)..(from + size) \subseteq 1..cnt
    BY <1>1, <1>7, <1>9
  <2>2. \A i \in (from + 1)..(from + size) : input[i] \in S
    BY <1>4, <2>1
  <2>3. /\ window \in Seq(S)
        /\ Len(window) = (from + size) - (from + 1) + 1
        /\ \A i \in 1..((from + size) - (from + 1) + 1) :
              window[i] = input[(from + 1) + i - 1]
    BY <2>1, <2>2, SubSeqProperties
  <2> HIDE DEF window
  <2> QED
    BY <2>1, <2>3
<1> HIDE DEF window
<1> QED
  BY <1>3, <1>7, <1>9, <1>10 DEF from, size, cnt

(* The windows of sliceWalk hold together what its input holds: none is    *)
(* lost where the last window begins, and nothing is described that was    *)
(* not listed.                                                             *)
LEMMA WindowsCover ==
    ASSUME NEW S, NEW w \in Nat \ {0}, NEW input \in Seq(S)
    PROVE  LET walk == sliceWalk(w, input)
           IN  /\ walk \in Seq(Seq(S))
               /\ UNION {ToSet(walk[k]) : k \in DOMAIN walk} = ToSet(input)
<1> DEFINE walk == sliceWalk(w, input)
           cnt == Len(input)
           last == (cnt + w - 1) \div w
<1>1. cnt \in Nat /\ last \in Nat /\ cnt + w - 1 < last * w + w
  BY DivisionRoundsDown
<1>2. DOMAIN walk = 1..last /\ walk = [k \in 1..last |-> walk[k]]
  BY DEF sliceWalk
<1> HIDE DEF walk, last
<1>3. ASSUME NEW k \in 1..last
      PROVE  /\ Before(w, k) \in Nat /\ Size(w, cnt, k) \in Nat
             /\ Before(w, k) + Size(w, cnt, k) <= cnt
             /\ walk[k] \in Seq(S) /\ Len(walk[k]) = Size(w, cnt, k)
             /\ \A i \in 1..Size(w, cnt, k) : walk[k][i] = input[Before(w, k) + i]
  BY WindowIs DEF walk, last
<1>4. walk \in Seq(Seq(S))
  <2>1. \A k \in 1..last : walk[k] \in Seq(S)
    BY <1>3
  <2> QED
    BY <1>1, <1>2, <2>1, SMTT(30)
<1>5. ASSUME NEW k \in 1..last PROVE ToSet(walk[k]) \subseteq ToSet(input)
  <2> DEFINE from == Before(w, k)
             size == Size(w, Len(input), k)
  <2>1. /\ from \in Nat /\ size \in Nat /\ from + size <= cnt
        /\ walk[k] \in Seq(S) /\ Len(walk[k]) = size
        /\ \A i \in 1..size : walk[k][i] = input[from + i]
    BY <1>3
  <2> HIDE DEF from, size
  <2>2. DOMAIN walk[k] = 1..size /\ DOMAIN input = 1..cnt
    BY <2>1
  <2>3. ASSUME NEW i \in 1..size PROVE walk[k][i] = input[from + i] /\ from + i \in 1..cnt
    BY <1>1, <2>1
  <2> QED
    BY <2>2, <2>3 DEF ToSet
<1>6. ASSUME NEW j \in 1..cnt PROVE \E k \in 1..last : input[j] \in ToSet(walk[k])
  <2> DEFINE k == ((j - 1) \div w) + 1
             from == Before(w, k)
             size == Size(w, Len(input), k)
  <2>1. /\ (j - 1) \div w \in Nat
        /\ ((j - 1) \div w) * w <= j - 1 /\ j - 1 < ((j - 1) \div w) * w + w
    BY DivisionRoundsDown
  <2>2. k \in Nat /\ k >= 1 /\ from \in Nat /\ from <= j - 1 /\ j - 1 < from + w
    BY <2>1 DEF Before
  <2>3. k <= last
    <3> HIDE DEF k
    <3> SUFFICES ASSUME last + 1 <= k PROVE FALSE
      BY <1>1, <2>2
    <3>1. last <= k - 1
      BY <1>1, <2>2
    <3>2. last * w <= (k - 1) * w
      BY <1>1, <2>2, <3>1, SMT
    <3> QED
      BY <1>1, <2>2, <3>2, SMT DEF Before
  <2> HIDE DEF k
  <2>4. k \in 1..last
    BY <1>1, <2>2, <2>3
  <2>5. /\ size \in Nat /\ walk[k] \in Seq(S) /\ Len(walk[k]) = size
        /\ \A i \in 1..size : walk[k][i] = input[from + i]
    BY <1>3, <2>4
  <2>6. j - from \in 1..size /\ from + (j - from) = j
    BY <1>1, <2>2 DEF Size
  <2> HIDE DEF from, size
  <2>7. walk[k][j - from] = input[j] /\ j - from \in DOMAIN walk[k]
    BY <2>5, <2>6
  <2> QED
    BY <2>4, <2>7 DEF ToSet
<1>7. UNION {ToSet(walk[k]) : k \in DOMAIN walk} = ToSet(input)
  <2>1. ToSet(input) = {input[j] : j \in 1..cnt}
    BY DEF ToSet
  <2>2. ToSet(input) \subseteq UNION {ToSet(walk[k]) : k \in 1..last}
    BY <1>6, <2>1
  <2>3. UNION {ToSet(walk[k]) : k \in 1..last} \subseteq ToSet(input)
    BY <1>5
  <2> QED
    BY <1>2, <2>2, <2>3
<1> QED
  BY <1>4, <1>7 DEF walk

-----------------------------------------------------------------------------
(* Sequences over a set are sequences over a larger one.                   *)
LEMMA SeqMonotone ==
    ASSUME NEW S, NEW T, S \subseteq T
    PROVE  Seq(S) \subseteq Seq(T)
OBVIOUS

(* A call that lists adds a page to the listing, or ends it with windows   *)
(* that hold all that was owed.                                            *)
LEMMA PageListed ==
    ASSUME NEW S, IsFiniteSet(S), listed \in Seq(S),
           NEW page \in SUBSET S, NEW owed, NEW describe,
           ListPage(page, owed, describe)
    PROVE  /\ \/ /\ listed' \in Seq(S)
                 /\ UNCHANGED <<pc, windows>>
              \/ /\ listed' = <<>> /\ pc' = describe
                 /\ windows' \in Seq(Seq(S))
                 /\ owed \subseteq Pending'
           /\ UNCHANGED <<envVars, steady, seen, clusters, cluster, tasks, defArns,
                          taskDefs, local, answer>>
<1>1. PICK arns \in SetToSeqs(page), more \in BOOLEAN :
         /\ ~ more => owed \subseteq ToSet(listed) \cup page
         /\ IF more
            THEN listed' = listed \o arns /\ UNCHANGED <<pc, windows>>
            ELSE /\ listed' = <<>>
                 /\ windows' = sliceWalk(WindowSize, listed \o arns)
                 /\ pc' = describe
         /\ UNCHANGED <<envVars, steady, seen, clusters, cluster, tasks, defArns,
                        taskDefs, local, answer>>
  BY DEF ListPage
<1>2. arns \in Seq(page) /\ ToSet(arns) = page
  BY FS_Subset, OrderIsComplete
<1>3. arns \in Seq(S)
  BY <1>2, SeqMonotone
<1>4. listed \o arns \in Seq(S)
  BY <1>3, ConcatHolds
<1>5. ToSet(listed \o arns) = ToSet(listed) \cup page
  BY <1>2, <1>3, ConcatHolds
<1>6. CASE more
  BY <1>1, <1>4, <1>6
<1>7. CASE ~ more
  <2>1. WindowSize \in Nat \ {0}
    BY FargateAssumption
  <2> DEFINE all == listed \o arns
             walk == sliceWalk(WindowSize, all)
  <2>2. /\ walk \in Seq(Seq(S))
        /\ UNION {ToSet(walk[k]) : k \in DOMAIN walk} = ToSet(all)
    <3>1. all \in Seq(S)
      BY <1>4
    <3> HIDE DEF all
    <3> QED
      BY ONLY <2>1, <3>1, WindowsCover, ZenonT(60)
  <2>3. windows' = sliceWalk(WindowSize, listed \o arns) /\ owed \subseteq ToSet(listed) \cup page
    BY <1>1, <1>7
  <2>4. Pending' = ToSet(listed \o arns)
    BY <2>2, <2>3 DEF Pending
  <2> QED
    BY <1>1, <1>5, <1>7, <2>2, <2>3, <2>4
<1> QED
  BY <1>6, <1>7

(* A call that describes the first window leaves the others pending.       *)
LEMMA WindowTaken ==
    ASSUME NEW S, windows \in Seq(Seq(S)), windows # <<>>, windows' = Tail(windows)
    PROVE  /\ windows' \in Seq(Seq(S))
           /\ ToSet(Head(windows)) \subseteq S
           /\ Pending \subseteq ToSet(Head(windows)) \cup Pending'
<1>1. windows' \in Seq(Seq(S)) /\ Head(windows) \in Seq(S) /\ Head(windows) = windows[1]
  OBVIOUS
<1>2. ToSet(Head(windows)) \subseteq S
  BY <1>1 DEF ToSet
<1>3. ASSUME NEW k \in DOMAIN windows
      PROVE  ToSet(windows[k]) \subseteq ToSet(Head(windows)) \cup Pending'
  <2>1. CASE k = 1
    BY <1>1, <2>1
  <2>2. CASE k # 1
    <3>1. k - 1 \in DOMAIN windows' /\ windows'[k - 1] = windows[k]
      BY <2>2
    <3> QED
      BY <3>1 DEF Pending
  <2> QED
    BY <2>1, <2>2
<1> QED
  BY <1>1, <1>2, <1>3 DEF Pending

-----------------------------------------------------------------------------
LEMMA FargateInvInit == FargateInit => FargateInv
<1> SUFFICES ASSUME FargateInit PROVE FargateInv
  OBVIOUS
<1>1. FargateTypeOK
  BY DEF FargateInit, FargateTypeOK
<1>2. CallsUnderWay
  BY DEF FargateInit, CallsUnderWay
<1>3. NoGhosts
  BY DEF FargateInit, NoGhosts
<1>4. NothingSkipped
  BY DEF FargateInit, NothingSkipped
<1> QED
  BY <1>1, <1>2, <1>3, <1>4 DEF FargateInv

(* Tasks start and stop at any point of a poll.                            *)
LEMMA StartTaskStep ==
    ASSUME FargateInv, NEW t \in Task, StartTask(t)
    PROVE  FargateInv'
<1> USE DEF StartTask, pollVars
<1>1. FargateTypeOK'
  BY DEF FargateInv, FargateTypeOK
<1>2. CallsUnderWay'
  <2>1. In(cluster, seen) \subseteq In(cluster, seen)' /\ cluster' = cluster
    BY DEF In
  <2>2. Seq(In(cluster, seen)) \subseteq Seq(In(cluster, seen)')
    BY <2>1, SeqMonotone
  <2>3. Seq(Seq(In(cluster, seen))) \subseteq Seq(Seq(In(cluster, seen)'))
    BY <2>2, SeqMonotone
  <2> QED
    BY <2>1, <2>2, <2>3 DEF FargateInv, CallsUnderWay
<1>3. NoGhosts'
  BY DEF FargateInv, NoGhosts, Report
<1>4. ArnsIdentify => NothingSkipped'
  BY DEF FargateInv, NothingSkipped, Pending, Collected, In, Report
<1> QED
  BY <1>1, <1>2, <1>3, <1>4 DEF FargateInv, ArnsIdentify

LEMMA StopTaskStep ==
    ASSUME FargateInv, NEW t \in Task, StopTask(t)
    PROVE  FargateInv'
<1> USE DEF StopTask, pollVars
<1>1. FargateTypeOK'
  BY DEF FargateInv, FargateTypeOK
<1>2. CallsUnderWay'
  BY DEF FargateInv, CallsUnderWay, In
<1>3. NoGhosts'
  BY DEF FargateInv, NoGhosts, Report
<1>4. ArnsIdentify => NothingSkipped'
  BY DEF FargateInv, NothingSkipped, Pending, Collected, In, Report
<1> QED
  BY <1>1, <1>2, <1>3, <1>4 DEF FargateInv, ArnsIdentify

LEMMA StartPollStep ==
    ASSUME FargateInv, StartPoll
    PROVE  FargateInv'
<1> USE DEF StartPoll, envVars, pollVars
<1>1. FargateTypeOK'
  BY DEF FargateInv, FargateTypeOK
<1>2. CallsUnderWay'
  BY DEF FargateInv, CallsUnderWay, In
<1>3. NoGhosts'
  BY DEF NoGhosts
<1>4. NothingSkipped'
  BY DEF NothingSkipped
<1> QED
  BY <1>1, <1>2, <1>3, <1>4 DEF FargateInv

LEMMA ListClustersStep ==
    ASSUME FargateInv, ListClusters
    PROVE  FargateInv'
<1>1. PICK page \in SUBSET Cluster : ListPage(page, Cluster, "describeClusters")
  BY DEF ListClusters
<1>2. IsFiniteSet(Cluster) /\ listed \in Seq(Cluster) /\ pc = "listClusters"
  BY FargateAssumption DEF ListClusters, FargateInv, CallsUnderWay
<1>3. /\ \/ listed' \in Seq(Cluster) /\ UNCHANGED <<pc, windows>>
         \/ /\ listed' = <<>> /\ pc' = "describeClusters"
            /\ windows' \in Seq(Seq(Cluster))
            /\ Cluster \subseteq Pending'
      /\ UNCHANGED <<envVars, steady, seen, clusters, cluster, tasks, defArns,
                     taskDefs, local, answer>>
  BY <1>1, <1>2, PageListed
<1>4. FargateTypeOK'
  BY <1>2, <1>3 DEF FargateInv, FargateTypeOK, envVars
<1>5. CallsUnderWay'
  BY <1>2, <1>3 DEF FargateInv, CallsUnderWay, In
<1>6. NoGhosts'
  BY <1>3 DEF FargateInv, NoGhosts, Report
<1>7. NothingSkipped'
  BY <1>2, <1>3 DEF NothingSkipped
<1> QED
  BY <1>4, <1>5, <1>6, <1>7 DEF FargateInv

LEMMA DescribeClustersStep ==
    ASSUME FargateInv, DescribeClusters
    PROVE  FargateInv'
<1> USE DEF envVars
<1>1. NoGhosts'
  BY DEF DescribeClusters, FargateInv, NoGhosts, Report
<1>2. CASE windows = <<>>
  <2>1. Pending = {}
    BY <1>2 DEF Pending
  <2>2. FargateTypeOK'
    BY <1>2 DEF DescribeClusters, FargateInv, FargateTypeOK
  <2>3. CallsUnderWay'
    BY <1>2 DEF DescribeClusters, FargateInv, CallsUnderWay, In
  <2>4. ArnsIdentify => NothingSkipped'
    BY <1>2, <2>1 DEF DescribeClusters, FargateInv, NothingSkipped
  <2> QED
    BY <1>1, <2>2, <2>3, <2>4 DEF FargateInv, ArnsIdentify
<1>3. CASE windows # <<>>
  <2>1. /\ pc = "describeClusters" /\ pc' = pc
        /\ windows' = Tail(windows)
        /\ clusters' = clusters \cup ToSet(Head(windows))
        /\ windows \in Seq(Seq(Cluster))
    BY <1>3 DEF DescribeClusters, FargateInv, CallsUnderWay
  <2>2. /\ windows' \in Seq(Seq(Cluster))
        /\ ToSet(Head(windows)) \subseteq Cluster
        /\ Pending \subseteq ToSet(Head(windows)) \cup Pending'
    BY <1>3, <2>1, WindowTaken
  <2>3. FargateTypeOK'
    BY <2>1, <2>2 DEF DescribeClusters, FargateInv, FargateTypeOK
  <2>4. CallsUnderWay'
    BY <2>1, <2>2 DEF DescribeClusters, FargateInv, CallsUnderWay, In
  <2>5. ArnsIdentify => NothingSkipped'
    BY <2>1, <2>2 DEF FargateInv, NothingSkipped
  <2> QED
    BY <1>1, <2>3, <2>4, <2>5 DEF FargateInv, ArnsIdentify
<1> QED
  BY <1>2, <1>3

LEMMA NextClusterStep ==
    ASSUME FargateInv, NextCluster
    PROVE  FargateInv'
<1> USE DEF envVars, NextCluster
<1>1. FargateTypeOK'
  BY DEF FargateInv, FargateTypeOK
<1>2. CallsUnderWay'
  <2>1. listed' = <<>> /\ <<>> \in Seq(In(cluster, seen)')
    BY DEF FargateInv, CallsUnderWay
  <2> QED
    BY <2>1 DEF FargateInv, CallsUnderWay
<1>3. NoGhosts'
  BY DEF FargateInv, NoGhosts, Report
<1>4. ArnsIdentify => NothingSkipped'
  BY DEF FargateInv, NothingSkipped, Collected, In, Report
<1> QED
  BY <1>1, <1>2, <1>3, <1>4 DEF FargateInv, ArnsIdentify

LEMMA ListTasksStep ==
    ASSUME FargateInv, ListTasks
    PROVE  FargateInv'
<1>1. PICK S : S = In(cluster, seen)
  OBVIOUS
<1>2. PICK page \in SUBSET S : ListPage(page, In(cluster, steady), "describeTasks")
  BY <1>1 DEF ListTasks, In, FargateInv, FargateTypeOK
<1>3. IsFiniteSet(S) /\ listed \in Seq(S) /\ pc = "listTasks"
  <2>1. S \in SUBSET Task
    BY <1>1 DEF In, FargateInv, FargateTypeOK
  <2> QED
    BY <1>1, <2>1, FS_Subset, FargateAssumption DEF ListTasks, FargateInv, CallsUnderWay
<1>4. PICK owed : owed = In(cluster, steady)
  OBVIOUS
<1>5. ListPage(page, owed, "describeTasks")
  BY <1>2, <1>4
<1>6. /\ \/ listed' \in Seq(S) /\ UNCHANGED <<pc, windows>>
         \/ /\ listed' = <<>> /\ pc' = "describeTasks"
            /\ windows' \in Seq(Seq(S))
            /\ owed \subseteq Pending'
      /\ UNCHANGED <<envVars, steady, seen, clusters, cluster, tasks, defArns,
                     taskDefs, local, answer>>
  BY <1>3, <1>5, PageListed
<1>7. In(cluster, seen)' = S /\ In(cluster, steady)' = owed
  BY <1>1, <1>4, <1>6 DEF In
<1>8. FargateTypeOK'
  BY <1>3, <1>6 DEF FargateInv, FargateTypeOK, envVars
<1>9. CallsUnderWay'
  BY <1>1, <1>3, <1>6, <1>7 DEF FargateInv, CallsUnderWay
<1>10. NoGhosts'
  BY <1>6 DEF FargateInv, NoGhosts, Report
<1>11. ArnsIdentify => NothingSkipped'
  <2>1. \A c : Collected(c) => Collected(c)'
    BY <1>6 DEF Collected, In, Report
  <2> QED
    BY <1>3, <1>6, <1>7, <2>1 DEF FargateInv, NothingSkipped
<1> QED
  BY <1>8, <1>9, <1>10, <1>11 DEF FargateInv, ArnsIdentify

LEMMA DescribeTasksStep ==
    ASSUME FargateInv, DescribeTasks
    PROVE  FargateInv'
<1> USE DEF envVars
<1>1. NoGhosts'
  BY DEF DescribeTasks, FargateInv, NoGhosts, Report
<1>2. \A c : Collected(c) => Collected(c)'
  BY DEF DescribeTasks, Collected, In, Report
<1>3. CASE windows = <<>>
  <2>1. Pending = {}
    BY <1>3 DEF Pending
  <2>2. FargateTypeOK'
    <3>1. defArns' \subseteq DOMAIN Definition
      BY <1>3, FargateAssumption DEF DescribeTasks, FargateInv, FargateTypeOK
    <3> QED
      BY <1>3, <3>1 DEF DescribeTasks, FargateInv, FargateTypeOK
  <2>3. CallsUnderWay'
    BY <1>3 DEF DescribeTasks, FargateInv, CallsUnderWay, In
  <2>4. ArnsIdentify => NothingSkipped'
    <3>1. In(cluster, steady)' = In(cluster, steady)
      BY DEF DescribeTasks, In
    <3> QED
      BY <1>2, <1>3, <2>1, <3>1 DEF DescribeTasks, FargateInv, NothingSkipped
  <2> QED
    BY <1>1, <2>2, <2>3, <2>4 DEF FargateInv, ArnsIdentify
<1>4. CASE windows # <<>>
  <2>1. PICK S : S = In(cluster, seen)
    OBVIOUS
  <2>2. PICK failures \in SUBSET (ToSet(Head(windows)) \ running) :
           tasks' = tasks \cup (ToSet(Head(windows)) \ failures)
    BY <1>4 DEF DescribeTasks
  <2>3. /\ pc = "describeTasks" /\ pc' = pc
        /\ windows' = Tail(windows)
        /\ windows \in Seq(Seq(S))
        /\ tasks \subseteq S
        /\ S \subseteq Task
    BY <1>4, <2>1 DEF DescribeTasks, FargateInv, CallsUnderWay, FargateTypeOK, In
  <2>4. /\ windows' \in Seq(Seq(S))
        /\ ToSet(Head(windows)) \subseteq S
        /\ Pending \subseteq ToSet(Head(windows)) \cup Pending'
    BY <1>4, <2>3, WindowTaken
  <2>5. tasks' \subseteq S
    BY <2>2, <2>3, <2>4
  <2>6. FargateTypeOK'
    BY <1>4, <2>3, <2>5 DEF DescribeTasks, FargateInv, FargateTypeOK
  <2>7. CallsUnderWay'
    <3>1. In(cluster, seen)' = S /\ listed' = listed /\ clusters' = clusters
      BY <2>1 DEF DescribeTasks, In
    <3> QED
      BY <2>3, <2>4, <2>5, <3>1 DEF FargateInv, CallsUnderWay
  <2>8. ArnsIdentify => NothingSkipped'
    <3>1. In(cluster, steady)' = In(cluster, steady) /\ In(cluster, steady) \subseteq running
      BY DEF DescribeTasks, In, FargateInv, FargateTypeOK
    <3>2. cluster' = cluster /\ clusters' = clusters
      BY DEF DescribeTasks
    <3>3. In(cluster, steady) \subseteq tasks \cup Pending =>
             In(cluster, steady) \subseteq tasks' \cup Pending'
      BY <2>2, <2>4, <3>1
    <3> QED
      BY <1>2, <2>3, <3>1, <3>2, <3>3 DEF FargateInv, NothingSkipped
  <2> QED
    BY <1>1, <2>6, <2>7, <2>8 DEF FargateInv, ArnsIdentify
<1> QED
  BY <1>3, <1>4

LEMMA LoadDefinitionStep ==
    ASSUME FargateInv, LoadDefinition
    PROVE  FargateInv'
<1> USE DEF envVars, LoadDefinition
<1>1. FargateTypeOK'
  BY DEF FargateInv, FargateTypeOK
<1>2. CallsUnderWay'
  BY DEF FargateInv, CallsUnderWay, In
<1>3. NoGhosts'
  BY DEF FargateInv, NoGhosts, Report
<1>4. ArnsIdentify => NothingSkipped'
  BY DEF FargateInv, NothingSkipped, Collected, In, Report
<1> QED
  BY <1>1, <1>2, <1>3, <1>4 DEF FargateInv, ArnsIdentify

(* The tasks of a cluster become nodes of the result.  Every task has an   *)
(* entry of its own if its ARN has a node ID of its own.                   *)
LEMMA CollectTasksStep ==
    ASSUME FargateInv, CollectTasks
    PROVE  FargateInv'
<1> DEFINE id(t) == TaskArnToNodeID(t.arn)
           nodes == {id(t) : t \in tasks} \ {Nil}
<1>1. PICK last \in [nodes -> tasks] :
         /\ \A n \in nodes : id(last[n]) = n
         /\ local' = [n \in nodes \cup DOMAIN local |->
                        IF n \in nodes
                        THEN findEndpoints(last[n], Definition[last[n].def])
                        ELSE local[n]]
  BY DEF CollectTasks
<1>2. /\ DOMAIN local' = nodes \cup DOMAIN local
      /\ \A n \in nodes : local'[n] = Report(last[n])
      /\ \A n \in DOMAIN local \ nodes : local'[n] = local[n]
  BY <1>1 DEF Report
<1>3. FargateTypeOK'
  BY DEF CollectTasks, FargateInv, FargateTypeOK, envVars
<1>4. CallsUnderWay'
  BY DEF CollectTasks, FargateInv, CallsUnderWay, In
<1>5. NoGhosts'
  <2> SUFFICES ASSUME NEW n \in DOMAIN local'
               PROVE  \E t \in seen : id(t) = n /\ local'[n] = Report(t)
    BY DEF NoGhosts, CollectTasks, Report
  <2>1. CASE n \in nodes
    <3>1. last[n] \in seen
      BY <1>1, <2>1 DEF FargateInv, CallsUnderWay, In
    <3> QED
      BY <1>1, <1>2, <2>1, <3>1
  <2>2. CASE n \notin nodes
    BY <1>2, <2>2 DEF FargateInv, NoGhosts
  <2> QED
    BY <2>1, <2>2
<1>6. ASSUME ArnsIdentify PROVE NothingSkipped'
  <2>1. ASSUME NEW t \in Task, id(t) \in nodes PROVE local'[id(t)] = Report(t)
    <3>1. last[id(t)] \in Task /\ id(last[id(t)]) = id(t)
      BY <1>1, <2>1 DEF FargateInv, FargateTypeOK
    <3>2. last[id(t)] = t
      BY <1>6, <2>1, <3>1 DEF ArnsIdentify
    <3> QED
      BY <1>2, <2>1, <3>2
  <2>2. \A t \in tasks : id(t) \in nodes
    BY <1>6 DEF ArnsIdentify, FargateInv, FargateTypeOK
  <2>3. ASSUME NEW c \in Cluster \ clusters, NEW t \in In(c, steady)
        PROVE  id(t) \in DOMAIN local' /\ local'[id(t)] = Report(t)
    <3>1. t \in Task
      BY <2>3 DEF In, FargateInv, FargateTypeOK
    <3>2. CASE id(t) \in nodes
      BY <1>2, <2>1, <3>1, <3>2
    <3>3. CASE id(t) \notin nodes
      <4>1. c # cluster
        BY <1>6, <2>2, <2>3, <3>3 DEF FargateInv, NothingSkipped, CollectTasks
      <4>2. Collected(c)
        BY <1>6, <2>3, <4>1 DEF FargateInv, NothingSkipped, CollectTasks
      <4> QED
        BY <1>2, <2>3, <3>3, <4>2 DEF Collected
    <3> QED
      BY <3>2, <3>3
  <2>4. \A c \in Cluster \ clusters : Collected(c)'
    BY <2>3 DEF CollectTasks, Collected, In, Report
  <2> QED
    BY <2>4 DEF CollectTasks, NothingSkipped
<1> QED
  BY <1>3, <1>4, <1>5, <1>6 DEF FargateInv, ArnsIdentify

LEMMA CollectPanicsStep ==
    ASSUME FargateInv, CollectPanics
    PROVE  FargateInv'
<1> USE DEF envVars, pollVars, CollectPanics
<1>1. FargateTypeOK'
  BY DEF FargateInv, FargateTypeOK
<1>2. CallsUnderWay'
  BY DEF FargateInv, CallsUnderWay, In
<1>3. NoGhosts'
  BY DEF FargateInv, NoGhosts, Report
<1>4. NothingSkipped'
  BY DEF NothingSkipped
<1> QED
  BY <1>1, <1>2, <1>3, <1>4 DEF FargateInv

LEMMA PollReturnsStep ==
    ASSUME FargateInv, PollReturns
    PROVE  FargateInv'
<1> USE DEF envVars, pollVars, PollReturns
<1>1. FargateTypeOK'
  BY DEF FargateInv, FargateTypeOK
<1>2. CallsUnderWay'
  BY DEF FargateInv, CallsUnderWay, In
<1>3. NoGhosts'
  BY DEF FargateInv, NoGhosts, Report
<1>4. NothingSkipped'
  BY DEF NothingSkipped
<1> QED
  BY <1>1, <1>2, <1>3, <1>4 DEF FargateInv

LEMMA CallFailsStep ==
    ASSUME FargateInv, CallFails
    PROVE  FargateInv'
<1> USE DEF envVars, CallFails
<1>1. FargateTypeOK'
  BY DEF FargateInv, FargateTypeOK
<1>2. CallsUnderWay'
  BY DEF FargateInv, CallsUnderWay, In
<1>3. NoGhosts'
  BY DEF FargateInv, NoGhosts, Report
<1>4. NothingSkipped'
  BY DEF NothingSkipped
<1> QED
  BY <1>1, <1>2, <1>3, <1>4 DEF FargateInv

LEMMA FargateInvStep == FargateInv /\ [FargateNext]_fargateVars => FargateInv'
<1> SUFFICES ASSUME FargateInv, [FargateNext]_fargateVars PROVE FargateInv'
  OBVIOUS
<1>1. CASE UNCHANGED fargateVars
  BY <1>1 DEF fargateVars, envVars, pollVars, FargateInv, FargateTypeOK, CallsUnderWay,
              NoGhosts, NothingSkipped, ArnsIdentify, Pending, Collected, In, Report
<1>2. CASE FargateNext
  BY <1>2, StartTaskStep, StopTaskStep, StartPollStep, ListClustersStep,
     DescribeClustersStep, NextClusterStep, ListTasksStep, DescribeTasksStep,
     LoadDefinitionStep, CollectTasksStep, CollectPanicsStep, PollReturnsStep,
     CallFailsStep
     DEF FargateNext, PollStep
<1> QED
  BY <1>1, <1>2

(* At the end of a poll the clusters that are left are none, so all that   *)
(* the invariant says of a cluster that is done holds of every one.        *)
LEMMA InvReportsRunning ==
    ASSUME ArnsIdentify, FargateInv
    PROVE  RunningReported
<1> SUFFICES ASSUME pc = "nextCluster", clusters = {}, NEW t \in steady
             PROVE  /\ TaskArnToNodeID(t.arn) \in DOMAIN local
                    /\ local[TaskArnToNodeID(t.arn)] = Report(t)
  BY DEF RunningReported
<1>1. t \in In(t.cluster, steady) /\ t.cluster \in Cluster
  BY FargateAssumption DEF In, FargateInv, FargateTypeOK
<1>2. Collected(t.cluster)
  BY <1>1 DEF FargateInv, NothingSkipped
<1> QED
  BY <1>1, <1>2 DEF Collected

-----------------------------------------------------------------------------
(* The invariant of a poll holds for any clusters, tasks and definitions   *)
(* and any size of the windows, while tasks start and stop between the     *)
(* calls and calls fail.                                                   *)
THEOREM FargateInvariant == FargateSpec => []FargateInv
BY FargateInvInit, FargateInvStep, PTL DEF FargateSpec

(* A poll reports no task that did not run during it.                      *)
THEOREM NoGhostReported == FargateSpec => []NoGhosts
<1>1. FargateInv => NoGhosts
  BY DEF FargateInv
<1> QED
  BY <1>1, FargateInvariant, PTL

(* If node IDs identify tasks, GetClusters reports every task that ran     *)
(* throughout the poll, with its own endpoints: no page, no window and no  *)
(* other task's start or end makes it miss one.                            *)
THEOREM SteadyTasksReported ==
    ASSUME ArnsIdentify
    PROVE  FargateSpec => []RunningReported
<1>1. FargateInv => RunningReported
  BY InvReportsRunning
<1> QED
  BY <1>1, FargateInvariant, PTL

-----------------------------------------------------------------------------
(* The sidecars next to the polls, for any number of retries: the polls    *)
(* keep FargateInv whatever the sidecars do, and the sidecars keep BootInv *)
(* whatever the polls do.                                                  *)
LEMMA BootInvInit == SidecarInit => BootInv
BY SidecarAssumption DEF SidecarInit, BootInv, BootTypeOK

(* A failed attempt is counted, and the last one ends main.                *)
LEMMA AttemptFailsStep ==
    ASSUME BootInv, NEW t \in Task, AttemptFails(t)
    PROVE  BootInv'
<1>1. /\ boot[t] = "asking" /\ outages[t] \in Nat
      /\ attempts[t] = outages[t] /\ attempts[t] < maxRetries /\ outages[t] < MaxOutage
  BY DEF AttemptFails, Asking, BootInv, BootTypeOK
<1>2. /\ outages' = [outages EXCEPT ![t] = outages[t] + 1]
      /\ attempts' = [attempts EXCEPT ![t] = attempts[t] + 1]
      /\ boot' = [boot EXCEPT ![t] = IF attempts[t] + 1 < maxRetries
                                     THEN boot[t] ELSE "exited"]
      /\ garbled' = garbled /\ nodeID' = nodeID
  BY DEF AttemptFails, BootInv, BootTypeOK
<1>3. attempts[t] + 1 \in 0..maxRetries /\ outages[t] + 1 \in 0..MaxOutage
  BY <1>1, SidecarAssumption
<1>4. BootTypeOK'
  BY <1>1, <1>2, <1>3 DEF BootInv, BootTypeOK
<1>5. ASSUME NEW u \in Task
      PROVE  /\ attempts'[u] = outages'[u]
             /\ boot'[u] = "asking" => attempts'[u] < maxRetries
             /\ boot'[u] = "exited" => u \in garbled' \/ attempts'[u] = maxRetries
             /\ boot'[u] = "ready" =>
                   nodeID'[u] # Nil /\ nodeID'[u] = TaskArnToNodeID(u.arn)
             /\ boot'[u] # "ready" => nodeID'[u] = Nil
  <2>1. CASE u = t
    <3>1. /\ attempts'[u] = attempts[t] + 1 /\ outages'[u] = outages[t] + 1
          /\ boot'[u] = IF attempts[t] + 1 < maxRetries THEN "asking" ELSE "exited"
      BY <1>1, <1>2, <2>1 DEF BootInv, BootTypeOK
    <3> QED
      BY <1>1, <1>2, <1>3, <2>1, <3>1, SidecarAssumption DEF BootInv
  <2>2. CASE u # t
    BY <1>2, <2>2 DEF BootInv, BootTypeOK
  <2> QED
    BY <2>1, <2>2
<1> QED
  BY <1>4, <1>5 DEF BootInv

LEMMA AttemptGarbledStep ==
    ASSUME BootInv, NEW t \in Task, AttemptGarbled(t)
    PROVE  BootInv'
<1> USE DEF AttemptGarbled, Asking
<1>1. BootTypeOK'
  BY DEF BootInv, BootTypeOK
<1> QED
  BY <1>1 DEF BootInv, BootTypeOK

LEMMA PrintNodeIDStep ==
    ASSUME BootInv, NEW t \in Task, PrintNodeID(t)
    PROVE  BootInv'
<1> USE DEF PrintNodeID, Asking
<1>1. BootTypeOK'
  BY DEF BootInv, BootTypeOK
<1> QED
  BY <1>1 DEF BootInv, BootTypeOK

LEMMA BootInvStep == BootInv /\ [SidecarNext]_sidecarVars => BootInv'
<1> SUFFICES ASSUME BootInv, [SidecarNext]_sidecarVars PROVE BootInv'
  OBVIOUS
<1>1. CASE UNCHANGED bootVars
  BY <1>1 DEF bootVars, BootInv, BootTypeOK
<1>2. CASE \E t \in Task : AttemptFails(t) \/ AttemptGarbled(t) \/ PrintNodeID(t)
  BY <1>2, AttemptFailsStep, AttemptGarbledStep, PrintNodeIDStep
<1> QED
  BY <1>1, <1>2 DEF SidecarNext, sidecarVars

(* A step of a sidecar is no step of the polls.                            *)
LEMMA SidecarStepIsFargate == [SidecarNext]_sidecarVars => [FargateNext]_fargateVars
BY DEF SidecarNext, sidecarVars, AttemptFails, AttemptGarbled, PrintNodeID

-----------------------------------------------------------------------------
(* Booting sidecars do not disturb a poll.                                 *)
THEOREM PollsUndisturbed == SidecarSpec => []FargateInv
<1>1. SidecarInit => FargateInv
  BY FargateInvInit DEF SidecarInit
<1>2. FargateInv /\ [SidecarNext]_sidecarVars => FargateInv'
  BY FargateInvStep, SidecarStepIsFargate
<1> QED
  BY <1>1, <1>2, PTL DEF SidecarSpec

(* The invariant of metadataResponse's retry loop, for any number of       *)
(* retries.                                                                *)
THEOREM BootInvariant == SidecarSpec => []BootInv
BY BootInvInit, BootInvStep, PTL DEF SidecarSpec

(* Main gives up only after maxRetries failures, or for a body it cannot   *)
(* use.                                                                    *)
THEOREM OutagesSurvived == SidecarSpec => []OutageSurvived
<1>1. BootInv => OutageSurvived
  BY DEF BootInv, OutageSurvived
<1> QED
  BY <1>1, BootInvariant, PTL

(* If node IDs identify tasks, no two sidecars ask the control plane under *)
(* one node ID, and a poll reports the task of a sidecar under the ID that *)
(* it asks for.                                                            *)
THEOREM SidecarsAreAddressed ==
    ASSUME ArnsIdentify
    PROVE  SidecarSpec => []SidecarsAddressed
<1>1. BootInv /\ FargateInv => SidecarsAddressed
  <2> SUFFICES ASSUME BootInv, FargateInv, NEW t \in Task, boot[t] = "ready"
               PROVE  /\ \A u \in Task \ {t} : nodeID[u] # nodeID[t]
                      /\ pc = "nextCluster" /\ clusters = {} /\ t \in steady =>
                            nodeID[t] \in DOMAIN local /\ local[nodeID[t]] = Report(t)
    BY DEF SidecarsAddressed
  <2>1. nodeID[t] = TaskArnToNodeID(t.arn) /\ nodeID[t] # Nil
    BY DEF BootInv
  <2>2. ASSUME NEW u \in Task \ {t} PROVE nodeID[u] # nodeID[t]
    <3>1. nodeID[u] \in {Nil, TaskArnToNodeID(u.arn)}
      BY DEF BootInv
    <3> QED
      BY <2>1, <3>1, ArnsIdentify DEF ArnsIdentify
  <2>3. RunningReported
    BY ArnsIdentify, InvReportsRunning
  <2> QED
    BY <2>1, <2>2, <2>3 DEF RunningReported
<1> QED
  BY <1>1, BootInvariant, PollsUndisturbed, PTL
=============================================================================
