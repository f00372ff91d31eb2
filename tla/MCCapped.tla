----------------------------- MODULE MCCapped ------------------------------
(***************************************************************************)
(* A ladder whose two tiers are capped to one delay (max_delay 1): both    *)
(* are spelled as one topic, to which two workers append.                  *)
(***************************************************************************)
EXTENDS Delivery, TLC

CONSTANTS ws, wr

MCSource   == <<"orders">>
MCPolicy   == [max_attempts |-> 3, base_delay |-> 1, multiplier |-> 2, max_delay |-> 1]
MCDelays   == DelaysOf(MCPolicy)
MCTopics   == TopicsFor(MCSource, MCDelays)
MCTopicOf  == ws :> MCSource @@ wr :> RetryTopic(MCSource, 1)
MCClientOf == ws :> "c1" @@ wr :> "c2"
MCKeyHash  == [k \in {} |-> 0]
MCWorkload == <<NewRecord(<<"e1">>, NoKey), NewRecord(<<"e2">>, NoKey)>>
=============================================================================
