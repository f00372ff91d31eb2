--------------------------- MODULE MCCooperative ---------------------------
(***************************************************************************)
(* A service with one worker per topic and two partitions, driven by one   *)
(* thread, on a ladder of one tier.                                        *)
(***************************************************************************)
EXTENDS Cooperative, TLC

CONSTANTS ws, wr

MCSource     == <<"orders">>
MCPolicy     == [max_attempts |-> 2, base_delay |-> 2, multiplier |-> 2, max_delay |-> 60]
MCDelays     == DelaysOf(MCPolicy)
MCTopics     == TopicsFor(MCSource, MCDelays)
MCTopicOf    == ws :> MCSource @@ wr :> RetryTopic(MCSource, 2)
MCClientOf   == ws :> "c1" @@ wr :> "c2"
MCKeyHash    == "k" :> 1
MCWorkload   == <<NewRecord(<<"e1">>, NoKey), NewRecord(<<"e2">>, "k"),
                  NewRecord(<<"e3">>, NoKey)>>
MCFleet      == <<ws, wr>>
MCIdleRounds == [run |-> 2, drain |-> 1]
=============================================================================
