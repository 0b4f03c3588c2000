-------------------------- MODULE FargateProvider --------------------------
(***************************************************************************)
(* GetClusters of pkg/provider/fargate: the poll of the ECS API, call by   *)
(* call, while tasks start and stop.  A list call returns its result in    *)
(* pages, a describe call takes a window of identifiers, and every call    *)
(* may fail.  Updater.Run polls again and again.                           *)
(*                                                                         *)
(* The ECS service is external.  A listing contains the tasks that run     *)
(* while it is made, a task that stopped after it was listed may still be  *)
(* described, and the ARN of a task is never used again.                   *)
(***************************************************************************)
EXTENDS FargateTasks

CONSTANTS
    Cluster,      \* the ECS clusters
    Task,         \* the tasks that may run in them
    Definition,   \* the task definitions by name
    WindowSize    \* describeTasksWindowSize and describeClustersWindowSize

ASSUME FargateAssumption ==
    /\ WindowSize \in Nat \ {0}
    /\ IsFiniteSet(Cluster) /\ IsFiniteSet(Task)
    /\ \A t \in Task : t.cluster \in Cluster /\ t.def \in DOMAIN Definition
    /\ \A t, u \in Task : t.arn = u.arn => t = u

VARIABLES
    running,   \* the tasks that run
    started,   \* the tasks that have been started
    steady,    \* of the running tasks, those that ran throughout the poll
    seen,      \* the tasks that ran at some time of the poll
    pc,        \* the call that the poll makes next
    listed,    \* the identifiers that the pages so far gave
    windows,   \* the windows that are still to be described
    clusters,  \* the described clusters whose tasks are still to be listed
    cluster,   \* the cluster whose tasks are being listed
    tasks,     \* its tasks that have been described
    defArns,   \* their task definitions that are still to be loaded
    taskDefs,  \* those that have been loaded
    local,     \* localClusters: endpoints per service of each node
    answer     \* what the last poll that succeeded returned

envVars == <<running, started>>
pollVars == <<listed, windows, clusters, cluster, tasks, defArns, taskDefs>>
fargateVars == <<envVars, steady, seen, pc, pollVars, local, answer>>

FargateInit ==
    /\ running \in SUBSET Task
    /\ started = running
    /\ steady = running
    /\ seen = running
    /\ pc = "idle"
    /\ listed = <<>>
    /\ windows = <<>>
    /\ clusters = {}
    /\ cluster = Nil
    /\ tasks = {}
    /\ defArns = {}
    /\ taskDefs = {}
    /\ local = <<>>
    /\ answer = Nil

StartTask(t) ==
    /\ t \notin started
    /\ running' = running \cup {t}
    /\ started' = started \cup {t}
    /\ seen' = seen \cup {t}
    /\ UNCHANGED <<steady, pc, pollVars, local, answer>>

StopTask(t) ==
    /\ t \in running
    /\ running' = running \ {t}
    /\ steady' = steady \ {t}
    /\ UNCHANGED <<started, seen, pc, pollVars, local, answer>>

-----------------------------------------------------------------------------
(* Only the full windows.                                                  *)
fullWindows(windowSz, input) ==
    [k \in 1..(Len(input) \div windowSz) |->
        SubSeq(input, (k - 1) * windowSz + 1, k * windowSz)]

(* The windows that fn is called with, the last one shorter if need be.    *)
sliceWalk(windowSz, input) ==
    LET cnt  == Len(input)
        min(i, j) == IF i < j THEN i ELSE j
    IN  [k \in 1..((cnt + windowSz - 1) \div windowSz) |->
            LET i == (k - 1) * windowSz
            IN  SubSeq(input, i + 1, i + min(windowSz, cnt - i))]

(* A poll that goes on with the result of the one before.                  *)
StartPollUncleared ==
    /\ pc = "idle"
    /\ pc' = "listClusters"
    /\ steady' = running
    /\ seen' = running
    /\ UNCHANGED <<envVars, pollVars, local, answer>>

(* GetClusters is called.                                                  *)
StartPoll ==
    /\ pc = "idle"
    /\ pc' = "listClusters"
    /\ local' = <<>>
    /\ steady' = running
    /\ seen' = running
    /\ UNCHANGED <<envVars, pollVars, answer>>

(* One page of a listing: more than is asked for in one page means that    *)
(* there is a NextToken and another call.  A page with a NextToken may be  *)
(* empty: such a call changes nothing.  After the last page the windows of *)
(* what was listed are described.                                          *)
ListPage(page, owed, describe) ==
    \E arns \in SetToSeqs(page), more \in BOOLEAN :
        /\ ~ more => owed \subseteq ToSet(listed) \cup page
        /\ IF more
           THEN listed' = listed \o arns /\ UNCHANGED <<pc, windows>>
           ELSE /\ listed' = <<>>
                /\ windows' = sliceWalk(WindowSize, listed \o arns)
                /\ pc' = describe
        /\ UNCHANGED <<envVars, steady, seen, clusters, cluster, tasks, defArns,
                       taskDefs, local, answer>>

(* listClusterArns.                                                        *)
ListClusters ==
    /\ pc = "listClusters"
    /\ \E page \in SUBSET (Cluster \ ToSet(listed)) :
          ListPage(page, Cluster, "describeClusters")

(* listClusters: one window, or its end.  No cluster is deleted, so the    *)
(* call reports no Failures.                                               *)
DescribeClusters ==
    /\ pc = "describeClusters"
    /\ IF windows = <<>>
       THEN pc' = "nextCluster" /\ UNCHANGED <<clusters, windows>>
       ELSE /\ clusters' = clusters \cup ToSet(Head(windows))
            /\ windows' = Tail(windows)
            /\ UNCHANGED pc
    /\ UNCHANGED <<envVars, steady, seen, listed, cluster, tasks, defArns, taskDefs,
                   local, answer>>

(* The loop over the clusters, a map, takes them in any order.             *)
NextCluster ==
    /\ pc = "nextCluster"
    /\ \E c \in clusters : cluster' = c /\ clusters' = clusters \ {c}
    /\ pc' = "listTasks"
    /\ UNCHANGED <<envVars, steady, seen, listed, windows, tasks, defArns, taskDefs,
                   local, answer>>

In(c, set) == {t \in set : t.cluster = c}

(* listTaskArns.                                                           *)
ListTasks ==
    /\ pc = "listTasks"
    /\ \E page \in SUBSET (In(cluster, running) \ ToSet(listed)) :
          ListPage(page, In(cluster, steady), "describeTasks")

(* A walk that does not move on to the next window.                        *)
DescribeSameTasks ==
    /\ pc = "describeTasks"
    /\ IF windows = <<>>
       THEN /\ pc' = "loadDefs"
            /\ defArns' = {t.def : t \in tasks}
            /\ UNCHANGED tasks
       ELSE /\ \E failures \in SUBSET (ToSet(Head(windows)) \ running) :
                  tasks' = tasks \cup (ToSet(Head(windows)) \ failures)
            /\ UNCHANGED <<pc, defArns>>
    /\ UNCHANGED <<envVars, steady, seen, listed, windows, clusters, cluster, taskDefs,
                   local, answer>>

(* listTasks: one window, whose Failures are only logged, or its end.      *)
DescribeTasks ==
    /\ pc = "describeTasks"
    /\ IF windows = <<>>
       THEN /\ pc' = "loadDefs"
            /\ defArns' = {t.def : t \in tasks}
            /\ UNCHANGED <<tasks, windows>>
       ELSE /\ \E failures \in SUBSET (ToSet(Head(windows)) \ running) :
                  tasks' = tasks \cup (ToSet(Head(windows)) \ failures)
            /\ windows' = Tail(windows)
            /\ UNCHANGED <<pc, defArns>>
    /\ UNCHANGED <<envVars, steady, seen, listed, clusters, cluster, taskDefs, local,
                   answer>>

(* getTaskDefinitions: a definition that does not load is skipped.         *)
LoadDefinition ==
    /\ pc = "loadDefs"
    /\ \E d \in defArns : /\ defArns' = defArns \ {d}
                          /\ taskDefs' \in {taskDefs, taskDefs \cup {d}}
    /\ UNCHANGED <<envVars, steady, seen, pc, listed, windows, clusters, cluster, tasks,
                   local, answer>>

(* findTaskTargets dereferences the definition of every described task,    *)
(* and findEndpoints the addresses of the containers it targets.           *)
NilDereferenced ==
    \E t \in tasks : t.def \notin taskDefs \/ NoAddress(t, Definition[t.def])

(* The loop over the tasks of a cluster.  Their order is random, and the   *)
(* last task of a node ID replaces the others.                             *)
CollectTasks ==
    LET id(t) == TaskArnToNodeID(t.arn)
        nodes == {id(t) : t \in tasks} \ {Nil}
    IN  /\ pc = "loadDefs" /\ defArns = {}
        /\ ~ NilDereferenced
        /\ \E last \in [nodes -> tasks] :
              /\ \A n \in nodes : id(last[n]) = n
              /\ local' = [n \in nodes \cup DOMAIN local |->
                             IF n \in nodes
                             THEN findEndpoints(last[n], Definition[last[n].def])
                             ELSE local[n]]
        /\ pc' = "nextCluster"
        /\ cluster' = Nil
        /\ tasks' = {}
        /\ taskDefs' = {}
        /\ UNCHANGED <<envVars, steady, seen, listed, windows, clusters, defArns, answer>>

(* A nil definition or address: the panic ends the control plane.          *)
CollectPanics ==
    /\ pc = "loadDefs" /\ defArns = {}
    /\ NilDereferenced
    /\ pc' = "panicked"
    /\ UNCHANGED <<envVars, steady, seen, pollVars, local, answer>>

(* GetClusters returns.                                                    *)
PollReturns ==
    /\ pc = "nextCluster" /\ clusters = {}
    /\ pc' = "idle"
    /\ answer' = local
    /\ UNCHANGED <<envVars, steady, seen, pollVars, local>>

(* A list or describe call fails, and GetClusters with it.                 *)
CallFails ==
    /\ pc \in {"listClusters", "describeClusters", "listTasks", "describeTasks"}
    /\ pc \in {"describeClusters", "describeTasks"} => windows # <<>>
    /\ pc' = "idle"
    /\ listed' = <<>>
    /\ windows' = <<>>
    /\ clusters' = {}
    /\ cluster' = Nil
    /\ tasks' = {}
    /\ UNCHANGED <<envVars, steady, seen, defArns, taskDefs, local, answer>>

PollStep ==
    \/ StartPoll
    \/ ListClusters
    \/ DescribeClusters
    \/ NextCluster
    \/ ListTasks
    \/ DescribeTasks
    \/ LoadDefinition
    \/ CollectTasks
    \/ CollectPanics
    \/ PollReturns

FargateNext ==
    \/ \E t \in Task : StartTask(t) \/ StopTask(t)
    \/ PollStep
    \/ CallFails

(* The goroutine of Run keeps running, every call returns, and a listing   *)
(* does not consist of empty pages for ever.                               *)
FargateSpec ==
    FargateInit /\ [][FargateNext]_fargateVars /\ WF_fargateVars(PollStep)

-----------------------------------------------------------------------------
(* What the poll should say of a task.                                     *)
Report(t) == findEndpoints(t, Definition[t.def])

(* "GetClusters returns a list of services running in FARGATE cluster",    *)
(* and "every task may launch a sidecar": whatever starts and stops        *)
(* between the calls of a poll, a task that ran throughout it is reported  *)
(* with its own endpoints.  No page and no window loses one.               *)
RunningReported ==
    pc = "nextCluster" /\ clusters = {} =>
        \A t \in steady : /\ TaskArnToNodeID(t.arn) \in DOMAIN local
                          /\ local[TaskArnToNodeID(t.arn)] = Report(t)

(* A node is reported only if its task ran at some time of this poll:      *)
(* nothing is carried over from an earlier poll or a failed one.           *)
NoGhosts ==
    \A n \in DOMAIN local : \E t \in seen :
        TaskArnToNodeID(t.arn) = n /\ local[n] = Report(t)

(* What of the listing is still to be described.                           *)
Pending == UNION {ToSet(windows[k]) : k \in DOMAIN windows}

FargateTypeOK ==
    /\ running \subseteq started /\ started \subseteq Task
    /\ steady \subseteq running /\ running \subseteq seen /\ seen \subseteq Task
    /\ pc \in {"idle", "listClusters", "describeClusters", "nextCluster", "listTasks",
               "describeTasks", "loadDefs", "panicked"}
    /\ clusters \subseteq Cluster
    /\ cluster \in IF pc \in {"listTasks", "describeTasks", "loadDefs", "panicked"}
                   THEN Cluster ELSE {Nil}
    /\ tasks \subseteq Task
    /\ defArns \subseteq DOMAIN Definition /\ taskDefs \subseteq DOMAIN Definition

(* A listing under way holds what can be listed, a walk under way has      *)
(* windows of it, and what was described ran during the poll, in the       *)
(* cluster whose tasks are collected.                                      *)
CallsUnderWay ==
    /\ CASE pc = "listClusters" -> listed \in Seq(Cluster)
         [] pc = "listTasks"    -> listed \in Seq(In(cluster, seen))
         [] OTHER               -> listed = <<>>
    /\ CASE pc = "describeClusters" -> windows \in Seq(Seq(Cluster))
         [] pc = "describeTasks"    -> windows \in Seq(Seq(In(cluster, seen)))
         [] OTHER                   -> windows = <<>>
    /\ tasks \subseteq In(cluster, seen)
    /\ pc \in {"idle", "listClusters", "describeClusters", "nextCluster", "listTasks"} =>
          tasks = {}
    /\ pc \in {"idle", "listClusters"} => clusters = {}

(* The steady tasks of a cluster are in the result.                        *)
Collected(c) ==
    \A t \in In(c, steady) : /\ TaskArnToNodeID(t.arn) \in DOMAIN local
                             /\ local[TaskArnToNodeID(t.arn)] = Report(t)

(* Where the steady tasks are while a poll goes on: no cluster is lost     *)
(* between listing and describing, a cluster that is done is in the        *)
(* result, and the tasks of the cluster at hand are still to be described  *)
(* or are described.                                                       *)
NothingSkipped ==
    /\ pc = "describeClusters" => Cluster \subseteq clusters \cup Pending
    /\ pc = "nextCluster" => \A c \in Cluster \ clusters : Collected(c)
    /\ pc \in {"listTasks", "describeTasks", "loadDefs"} =>
          \A c \in Cluster \ (clusters \cup {cluster}) : Collected(c)
    /\ pc = "describeTasks" => In(cluster, steady) \subseteq tasks \cup Pending
    /\ pc = "loadDefs" => In(cluster, steady) \subseteq tasks

(* No task's ARN has the node ID of another one.  It is so unless the name *)
(* of an ECS cluster ends in "task".                                       *)
ArnsIdentify ==
    \A t, u \in Task :
        /\ TaskArnToNodeID(t.arn) # Nil
        /\ TaskArnToNodeID(t.arn) = TaskArnToNodeID(u.arn) => t = u

(* The poll at any point between two calls, while tasks start, stop and    *)
(* calls fail: what is listed, what is described and what is collected add *)
(* up, so that nothing that runs is skipped and nothing that does not is   *)
(* carried along.                                                          *)
FargateInv == FargateTypeOK /\ CallsUnderWay /\ NoGhosts /\ (ArnsIdentify => NothingSkipped)

(* Every poll ends: as long as pages bring something now and then, no walk *)
(* over windows, clusters and definitions goes on for ever while tasks     *)
(* start and stop, so Run gets back to its timer.                          *)
PollEnds == pc # "idle" ~> pc \in {"idle", "panicked"}

(* A running task is reported as it is, and nothing else is.               *)
Exact(report) ==
    /\ report # Nil
    /\ DOMAIN report = {TaskArnToNodeID(t.arn) : t \in running}
    /\ \A t \in running : report[TaskArnToNodeID(t.arn)] = Report(t)

(* If polls go on succeeding, then once no task starts or stops any more   *)
(* the mesh is told exactly what runs: a stopped task is gone for good,    *)
(* although the calls it was still seen by overlapped its end.             *)
AnswerConverges == []<><<PollReturns>>_fargateVars => <>[]Exact(answer)

(* A definition that fails to load costs its tasks, not the control plane. *)
(* tasks.go only warns: "faild to load task def %s: %s", and goes on.      *)
DefinitionFailureTolerated == pc # "panicked"
=============================================================================
