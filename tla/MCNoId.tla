------------------------------ MODULE MCNoId -------------------------------
(***************************************************************************)
(* Two records with neither an x-event-id header nor a key, on the first   *)
(* offset of two partitions.                                               *)
(***************************************************************************)
EXTENDS Delivery, TLC

CONSTANTS w1

MCSource   == <<"orders">>
MCPolicy   == [max_attempts |-> 1, base_delay |-> 1, multiplier |-> 2, max_delay |-> 60]
MCDelays   == DelaysOf(MCPolicy)
MCTopics   == TopicsFor(MCSource, MCDelays)
MCTopicOf  == w1 :> MCSource
MCClientOf == w1 :> "c1"
MCKeyHash  == [k \in {} |-> 0]
MCWorkload == <<NewRecord(NoId, NoKey), NewRecord(NoId, NoKey)>>
=============================================================================
