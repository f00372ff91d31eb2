----------------------------- MODULE MCReplay ------------------------------
(***************************************************************************)
(* One event climbs a ladder of two tiers, is replayed from its dead       *)
(* letter, by one operator or by two at once, and climbs again beside      *)
(* other copies of itself.                                                 *)
(***************************************************************************)
EXTENDS DeadLetterQueue, TLC

CONSTANTS ws, wr1, wr2, op1, op2

MCSource   == <<"orders">>
MCPolicy   == [max_attempts |-> 3, base_delay |-> 1, multiplier |-> 2, max_delay |-> 60]
MCDelays   == DelaysOf(MCPolicy)
MCTopics   == TopicsFor(MCSource, MCDelays)
MCTopicOf  == ws :> MCSource @@ wr1 :> RetryTopic(MCSource, 1)
              @@ wr2 :> RetryTopic(MCSource, 2)
MCClientOf == ws :> "c1" @@ wr1 :> "c2" @@ wr2 :> "c3"
MCKeyHash  == [k \in {} |-> 0]
\* The operators are alike.
Symmetry   == Permutations({op1, op2})
MCWorkload == <<NewRecord(<<"e1">>, NoKey)>>
=============================================================================
