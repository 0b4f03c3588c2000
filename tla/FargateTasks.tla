---------------------------- MODULE FargateTasks ----------------------------
(***************************************************************************)
(* What pkg/provider/fargate/fargate.go makes of one ECS task.             *)
(*                                                                         *)
(* A task is [arn, cluster, def, containers]: its ARN as the parts that    *)
(* strings.Split(arn, "task/") gives, its ECS cluster, its task definition *)
(* and, per container, the addresses of its network interfaces, Nil where  *)
(* there is none.  A task definition maps its containers to their docker   *)
(* labels.                                                                 *)
(*                                                                         *)
(* A label's key is the sequence of its parts that matter: "envoy.service. *)
(* S" is <<S>>, "envoy.service.S.annotations.A" is <<S, A>>, and <<>> is a *)
(* key without the prefix.  So a key without its prefix, the name of a     *)
(* cluster, is the same sequence.  A label's value is [parts, text]: what  *)
(* splitting it at ":" gives, with Nil for a port that is no number, and   *)
(* its text as an annotation.                                              *)
(***************************************************************************)
EXTENDS Annotations, FiniteSets

CONSTANT Nil

(* parts[1], or Nil for an invalid ARN.                                    *)
TaskArnToNodeID(arn) == IF Len(arn) < 2 THEN Nil ELSE arn[2]

-----------------------------------------------------------------------------
(* The labels <<S, A>> of a container that annotate the service <<S>>.  A  *)
(* label with more parts gives an annotation that no parser reads, and is  *)
(* left out.                                                               *)
stripKeyPrefix(key, labels) ==
    [ann \in {k[Len(k)] : k \in {l \in DOMAIN labels :
                 Len(l) = Len(key) + 1 /\ IsPrefix(key, l)}} |->
        labels[Append(key, ann)].text]

(* Every label of any container with the prefix and a value that looks     *)
(* like "container:port" is a target, an annotation with such a value too. *)
(* Targets of two containers are two targets, even if they are equal.      *)
findTaskTargets(def) ==
    LET labels == UNION {{c} \X DOMAIN def[c] : c \in DOMAIN def}
        isTarget(key, value) ==
            key # <<>> /\ Len(value.parts) >= 2 /\ value.parts[2] # Nil
        target(c, key) ==
            [from        |-> c,
             container   |-> def[c][key].parts[1],
             ClusterName |-> key,
             Annotations |-> stripKeyPrefix(key, def[c]),
             Port        |-> def[c][key].parts[2] % UInt32Size]
    IN  {target(l[1], l[2]) : l \in {m \in labels : isTarget(m[2], def[m[1]][m[2]])}}

(* A network interface of a targeted container has no private address.     *)
NoAddress(task, def) ==
    \E t \in findTaskTargets(def) :
        t.container \in DOMAIN task.containers /\ Nil \in task.containers[t.container]

(* The endpoints of a task per service: one for every target and address   *)
(* of the container it points to.  Go walks the labels in a random order,  *)
(* so they are a bag.                                                      *)
findEndpoints(task, def) ==
    LET found == UNION {{t} \X task.containers[t.container] :
                    t \in {u \in findTaskTargets(def) :
                              u.container \in DOMAIN task.containers}}
        endpoint(f) == [address     |-> f[2],
                        annotations |-> f[1].Annotations,
                        port        |-> f[1].Port]
        of(name) == {f \in found : f[1].ClusterName = name}
    IN  [name \in {f[1].ClusterName : f \in found} |->
            [ep \in {endpoint(f) : f \in of(name)} |->
                Cardinality({f \in of(name) : endpoint(f) = ep})]]
=============================================================================
