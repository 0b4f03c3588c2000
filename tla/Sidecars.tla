------------------------------ MODULE Sidecars ------------------------------
(***************************************************************************)
(* cmd/envoy/metadata.go next to the Fargate provider: before Envoy starts *)
(* in a task, the sidecar asks the task metadata endpoint for the ARN of   *)
(* its task and makes its node ID of it.  The control plane reports the    *)
(* task under the node ID that it makes of the ARN it listed.              *)
(*                                                                         *)
(* The endpoint is external: an attempt fails (no connection, the timeout  *)
(* of five seconds, a status other than 200, a broken body), or its body   *)
(* is the task's metadata, or a text that is no JSON or has no ARN in it.  *)
(***************************************************************************)
EXTENDS FargateProvider

CONSTANTS
    maxRetries,   \* how often metadataResponse tries
    MaxOutage     \* bound: attempts that may fail for one task

ASSUME SidecarAssumption == maxRetries \in Nat \ {0} /\ MaxOutage \in Nat

VARIABLES
    boot,      \* where main of a task's sidecar is
    attempts,  \* i of metadataResponse's loop
    outages,   \* bound: failed attempts of each task
    garbled,   \* tasks that were given a body without an ARN
    nodeID     \* what main printed: the --service-node of Envoy

bootVars == <<boot, attempts, outages, garbled, nodeID>>
sidecarVars == <<fargateVars, bootVars>>

SidecarInit ==
    /\ FargateInit
    /\ boot = [t \in Task |-> "asking"]
    /\ attempts = [t \in Task |-> 0]
    /\ outages = [t \in Task |-> 0]
    /\ garbled = {}
    /\ nodeID = [t \in Task |-> Nil]

Asking(t) == t \in running /\ boot[t] = "asking"

(* A loop that gives up one attempt early.                                 *)
AttemptFailsEarly(t) ==
    /\ Asking(t) /\ outages[t] < MaxOutage
    /\ outages' = [outages EXCEPT ![t] = @ + 1]
    /\ attempts' = [attempts EXCEPT ![t] = @ + 1]
    /\ boot' = [boot EXCEPT ![t] = IF attempts'[t] >= maxRetries - 1 THEN "exited" ELSE @]
    /\ UNCHANGED <<fargateVars, garbled, nodeID>>

(* metadataResponseOnce fails: after the last attempt main exits.          *)
AttemptFails(t) ==
    /\ Asking(t) /\ outages[t] < MaxOutage
    /\ outages' = [outages EXCEPT ![t] = @ + 1]
    /\ attempts' = [attempts EXCEPT ![t] = @ + 1]
    /\ boot' = [boot EXCEPT ![t] = IF attempts'[t] < maxRetries THEN @ ELSE "exited"]
    /\ UNCHANGED <<fargateVars, garbled, nodeID>>

(* A body that does not parse, or an invalid ARN, is not asked for again.  *)
AttemptGarbled(t) ==
    /\ Asking(t)
    /\ garbled' = garbled \cup {t}
    /\ boot' = [boot EXCEPT ![t] = "exited"]
    /\ UNCHANGED <<fargateVars, attempts, outages, nodeID>>

(* main names the node by the end of the ARN.                              *)
PrintLastPart(t) ==
    LET parts == t.arn[Len(t.arn)]
    IN  /\ Asking(t)
        /\ nodeID' = [nodeID EXCEPT ![t] = parts[Len(parts)]]
        /\ boot' = [boot EXCEPT ![t] = "ready"]
        /\ UNCHANGED <<fargateVars, attempts, outages, garbled>>

(* main prints the node ID of the task.                                    *)
PrintNodeID(t) ==
    /\ Asking(t)
    /\ TaskArnToNodeID(t.arn) # Nil
    /\ nodeID' = [nodeID EXCEPT ![t] = TaskArnToNodeID(t.arn)]
    /\ boot' = [boot EXCEPT ![t] = "ready"]
    /\ UNCHANGED <<fargateVars, attempts, outages, garbled>>

SidecarNext ==
    \/ FargateNext /\ UNCHANGED bootVars
    \/ \E t \in Task : AttemptFails(t) \/ AttemptGarbled(t) \/ PrintNodeID(t)

(* The goroutine of Run keeps running, and main of every task does.        *)
SidecarSpec ==
    /\ SidecarInit /\ [][SidecarNext]_sidecarVars
    /\ WF_sidecarVars(PollStep /\ UNCHANGED bootVars)
    /\ \A t \in Task :
          WF_sidecarVars(AttemptFails(t) \/ AttemptGarbled(t) \/ PrintNodeID(t))

-----------------------------------------------------------------------------
(* A sidecar asks the control plane under the very node ID that a poll     *)
(* reports for its task, in whatever order the task, its sidecar and the   *)
(* poll started, and no other sidecar does.                                *)
SidecarsAddressed ==
    \A t \in Task : boot[t] = "ready" =>
        /\ \A u \in Task \ {t} : nodeID[u] # nodeID[t]
        /\ pc = "nextCluster" /\ clusters = {} /\ t \in steady =>
              nodeID[t] \in DOMAIN local /\ local[nodeID[t]] = Report(t)

(* An outage of the metadata endpoint that ends before the last attempt    *)
(* costs no sidecar: main exits only for a body it cannot use, or after    *)
(* all of its attempts failed.                                             *)
OutageSurvived ==
    \A t \in Task : boot[t] = "exited" => t \in garbled \/ outages[t] = maxRetries

BootTypeOK ==
    /\ boot \in [Task -> {"asking", "ready", "exited"}]
    /\ attempts \in [Task -> 0..maxRetries]
    /\ outages \in [Task -> 0..MaxOutage]
    /\ garbled \subseteq Task
    /\ nodeID \in [Task -> {TaskArnToNodeID(t.arn) : t \in Task} \cup {Nil}]

(* Where the retry loop of every sidecar is: an attempt is left as long as *)
(* it asks, every attempt that it used failed, it has given up only after  *)
(* all of them or for a body without an ARN, and only a sidecar that got   *)
(* its ARN has a node ID, that of its own task.                            *)
BootInv ==
    /\ BootTypeOK
    /\ \A t \in Task :
          /\ attempts[t] = outages[t]
          /\ boot[t] = "asking" => attempts[t] < maxRetries
          /\ boot[t] = "exited" => t \in garbled \/ attempts[t] = maxRetries
          /\ boot[t] = "ready" =>
                nodeID[t] # Nil /\ nodeID[t] = TaskArnToNodeID(t.arn)
          /\ boot[t] # "ready" => nodeID[t] = Nil

(* If polls go on succeeding, a task that keeps running ends up with a     *)
(* sidecar that the control plane knows, unless main gave up.              *)
SidecarJoins ==
    []<><<PollReturns>>_sidecarVars =>
        \A t \in Task :
            <>[](t \in running) =>
                <>[](\/ boot[t] = "exited"
                     \/ /\ boot[t] = "ready" /\ answer # Nil
                        /\ nodeID[t] \in DOMAIN answer
                        /\ answer[nodeID[t]] = Report(t))
=============================================================================
