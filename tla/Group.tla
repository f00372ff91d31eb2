------------------------------- MODULE Group -------------------------------
(***************************************************************************)
(* The membership of the consumer group alone: consumers of one topic      *)
(* subscribe (_join) and close (_leave) in any order, and _assignment is   *)
(* recomputed from whoever is a member now.                                *)
(***************************************************************************)
EXTENDS Broker

Joins(c) == \E t \in Topics : Join(t, c)
Leaves(c) == \E t \in Topics : Leave(t, c)

GroupNext ==
    /\ \E c \in Clients : Joins(c) \/ Leaves(c)
    /\ UNCHANGED <<log, roundRobin, committed>>

GroupSpec == BrokerInit /\ [][GroupNext]_brokerVars
-----------------------------------------------------------------------------
\* The members are distinct client ids.
GroupTypeOK ==
    /\ members \in [Topics -> Seq(Clients)]
    /\ \A t \in Topics : \A i, j \in 1 .. Len(members[t]) :
          members[t][i] = members[t][j] => i = j

\* Range assignment (memory.py, _assignment): as long as the group has a
\* member, every partition has one owner, so that no two members are assigned
\* one partition and none is left without a consumer.
OneOwnerEach ==
    \A t \in Topics, p \in Partitions : members[t] # <<>> =>
        \E c \in Clients : \A d \in Clients : p \in Assignment(t, d) <=> d = c

\* The blocks differ by at most one partition.
Balanced ==
    \A t \in Topics, c, d \in Clients :
        (IsMember(t, c) /\ IsMember(t, d)) =>
            Cardinality(Assignment(t, c)) <= Cardinality(Assignment(t, d)) + 1
=============================================================================
