------------------------------ MODULE MCGroup -------------------------------
(***************************************************************************)
(* Five consumers join and leave the group of a topic of three partitions, *)
(* so that there are groups smaller and larger than the topic and groups   *)
(* that do not divide it.                                                  *)
(***************************************************************************)
EXTENDS Group

MCTopics  == {<<"orders">>}
MCKeyHash == [k \in {} |-> 0]
=============================================================================
