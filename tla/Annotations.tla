---------------------------- MODULE Annotations ----------------------------
(***************************************************************************)
(* Annotations: the strings that configure clusters, endpoints and         *)
(* listeners (pkg/provider/cluster.go, endpoint.go and util.go).           *)
(*                                                                         *)
(* A value is modelled by what the parsers look at: the sequence of fields *)
(* that strings.Split(val, "-") gives, each one a number, or not a number, *)
(* or empty.  "17" is <<17>>, "-17" is <<Empty, 17>>, "200-300" is         *)
(* <<200, 300>>, "/healthz" is <<Text>> and "" is <<Empty>>.               *)
(***************************************************************************)
EXTENDS Integers, Sequences, SequencesExt, TLC

CONSTANT UInt32Size   \* 2^32; an instance may scale it down

ASSUME UInt32Assumption == UInt32Size \in Nat /\ UInt32Size > 128

Text == -1
Empty == -2
Field == Nat \cup {Text, Empty}
Value == Seq(Field)

Panic == [panic |-> "index out of range"]

-----------------------------------------------------------------------------
(* strconv.Atoi with the fallback for what is no number.                   *)
parseIntWithFallback(val, fallback) ==
    CASE Len(val) = 1 /\ val[1] >= 0                   -> val[1]
      [] Len(val) = 2 /\ val[1] = Empty /\ val[2] >= 0 -> - val[2]
      [] OTHER                                         -> fallback

(* uint32(num) of a positive number keeps its low bits; zero, negative and *)
(* unparsable values give the fallback.                                    *)
getUInt32(ann, key, fallback) ==
    LET num == IF key \in DOMAIN ann THEN parseIntWithFallback(ann[key], -1) ELSE -1
    IN  IF num > 0 THEN num % UInt32Size ELSE fallback

(* In milliseconds.                                                        *)
getDurationMilliseconds(ann, key, fallback) ==
    LET num == IF key \in DOMAIN ann THEN parseIntWithFallback(ann[key], -1) ELSE -1
    IN  IF num > 0 THEN num ELSE fallback

getString(ann, key, fallback) == IF key \in DOMAIN ann THEN ann[key] ELSE fallback

(* A key that is set is true, whatever its value.                          *)
getBool(ann, key, fallback) == IF key \in DOMAIN ann THEN TRUE ELSE fallback

(* The code indexes list[2] of a list of two: the element to parse next is *)
(* out of range whenever the first field is a number.                      *)
parseInt64RangeWithFallback(val, fallback1, fallback2) ==
    IF Len(val) # 2 \/ val[1] < 0
    THEN [lower |-> fallback1, upper |-> fallback2]
    ELSE Panic

-----------------------------------------------------------------------------
(* The configuration of a cluster, or Panic.                               *)
parseClusterAnnotations(ann) ==
    LET status == parseInt64RangeWithFallback(
                     getString(ann, "healthcheck.expected-status", <<Empty>>), 200, 400)
    IN  IF status = Panic THEN Panic ELSE
        [fault |->
           [enabled       |-> getBool(ann, "fault.inject", FALSE),
            delayChance   |-> getUInt32(ann, "fault.delay.percent", 0),
            delayDuration |-> getDurationMilliseconds(ann, "fault.delay.duration", 30),
            abortChance   |-> getUInt32(ann, "fault.abort.percent", 0),
            abortCode     |-> getUInt32(ann, "fault.abort.code", 503)],
         circuitBreaker |->
           [maxConnections     |-> getUInt32(ann, "circuit-breaker.max-connections", 1000),
            maxPendingRequests |-> getUInt32(ann, "circuit-breaker.max-pending", 1000),
            maxRequests        |-> getUInt32(ann, "circuit-breaker.max-requests", 1000),
            maxRetries         |-> getUInt32(ann, "circuit-breaker.max-retries", 3)],
         healthCheck |->
           [timeout       |-> getDurationMilliseconds(ann, "healthcheck.timeout", 3000),
            interval      |-> getDurationMilliseconds(ann, "healthcheck.interval", 10000),
            cacheDuration |-> getDurationMilliseconds(ann, "healthcheck.cache", 30000),
            path          |-> getString(ann, "healthcheck.path", <<Text>>),
            port          |-> getUInt32(ann, "healthcheck.port", 0),
            status        |-> status]]

(* The annotations of a cluster are those of its endpoints; a later        *)
(* endpoint overrides an earlier one.                                      *)
mergeAnnotations(cluster) ==
    FoldLeft(LAMBDA merged, ep : ep.annotations @@ merged, <<>>, cluster.endpoints)

ClusterConfig(cluster) == parseClusterAnnotations(mergeAnnotations(cluster))

(* parseEndpointAnnotations without the test for zero.                     *)
weightOfUnchecked(ep) ==
    LET weight == getUInt32(ep.annotations, "endpoint.weight", 64)
    IN  IF weight > 128 THEN 64 ELSE weight

(* parseEndpointAnnotations: the weight of an endpoint.                    *)
weightOf(ep) ==
    LET weight == getUInt32(ep.annotations, "endpoint.weight", 64)
    IN  IF weight = 0 \/ weight > 128 THEN 64 ELSE weight
=============================================================================
