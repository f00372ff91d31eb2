------------------------------- MODULE MCLag -------------------------------
(***************************************************************************)
(* An exporter that watches two topics and, between them, one that does    *)
(* not exist.                                                              *)
(***************************************************************************)
EXTENDS LagExporter

MCTopics  == {<<"orders">>, <<"payments">>}
MCWatched == <<<<"orders">>, <<"missing">>, <<"payments">>>>
MCKeyHash == [k \in {} |-> 0]
=============================================================================
