------------------------------ MODULE MCTiers ------------------------------
(***************************************************************************)
(* One worker per topic on a ladder of one tier, under everything that may *)
(* go wrong and be asked for: every failure of a handler, sends that       *)
(* raise, drains, hard stops and closes.                                   *)
(***************************************************************************)
EXTENDS Worker, TLC

CONSTANTS ws, wr

MCSource   == <<"orders">>
MCPolicy   == [max_attempts |-> 2, base_delay |-> 1, multiplier |-> 2, max_delay |-> 60]
MCDelays   == DelaysOf(MCPolicy)
MCTopics   == TopicsFor(MCSource, MCDelays)
MCTopicOf  == ws :> MCSource @@ wr :> RetryTopic(MCSource, 1)
MCClientOf == ws :> "c1" @@ wr :> "c2"
MCKeyHash  == [k \in {} |-> 0]
MCWorkload == <<NewRecord(<<"e1">>, NoKey), NewRecord(<<"e2">>, NoKey)>>
=============================================================================
