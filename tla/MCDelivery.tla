----------------------------- MODULE MCDelivery ----------------------------
(***************************************************************************)
(* Two events on a ladder of one tier, one worker per topic, and one       *)
(* fault of any kind.  The second event has no id and no key of its own.   *)
(***************************************************************************)
EXTENDS Delivery, TLC

CONSTANTS ws, wr

MCSource   == <<"orders">>
MCPolicy   == [max_attempts |-> 2, base_delay |-> 1, multiplier |-> 2, max_delay |-> 60]
MCDelays   == DelaysOf(MCPolicy)
MCTopics   == TopicsFor(MCSource, MCDelays)
MCTopicOf  == ws :> MCSource @@ wr :> RetryTopic(MCSource, 1)
MCClientOf == ws :> "c1" @@ wr :> "c2"
MCKeyHash  == [k \in {} |-> 0]
MCWorkload == <<NewRecord(<<"e1">>, NoKey), NewRecord(NoId, NoKey)>>
=============================================================================
