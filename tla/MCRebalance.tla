---------------------------- MODULE MCRebalance ----------------------------
(***************************************************************************)
(* Two workers join and leave the group of the source topic, and hand its  *)
(* partitions to each other; the records have one key and follow each      *)
(* other in one partition.  There is no retry ladder.                      *)
(***************************************************************************)
EXTENDS Delivery, TLC

CONSTANTS w1, w2

MCSource   == <<"orders">>
MCDelays   == <<>>
MCTopics   == TopicsFor(MCSource, MCDelays)
MCTopicOf  == w1 :> MCSource @@ w2 :> MCSource
MCClientOf == w1 :> "c1" @@ w2 :> "c2"
\* Two services of one group name their workers alike.
MCSharedClientOf == w1 :> "c1" @@ w2 :> "c1"
MCKeyHash  == [k \in {"k"} |-> 0]
MCWorkload == <<NewRecord(<<"e1">>, "k"), NewRecord(<<"e2">>, "k"), NewRecord(<<"e3">>, "k")>>
=============================================================================
