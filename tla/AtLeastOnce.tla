---------------------------- MODULE AtLeastOnce ----------------------------
(***************************************************************************)
(* What the consume loop promises, without workers, batches or a group:    *)
(* each partition is a log that only grows, records are handled in any     *)
(* order and any number of times, and a commit may move the offset of a    *)
(* partition anywhere, backwards too, but never past a record that was not *)
(* handled.                                                                *)
(***************************************************************************)
EXTENDS Integers

CONSTANTS Topics, Partitions

VARIABLES
    length,   \* records in each partition
    settled,  \* offsets that were handled at least once
    offset    \* the committed offset of each partition

absVars == <<length, settled, offset>>

Init ==
    /\ length = [t \in Topics |-> [p \in Partitions |-> 0]]
    /\ settled = [t \in Topics |-> [p \in Partitions |-> {}]]
    /\ offset = [t \in Topics |-> [p \in Partitions |-> 0]]

Grow(t, p) == length' = [length EXCEPT ![t][p] = @ + 1]

\* A record arrives.
Arrive(t, p) == Grow(t, p) /\ UNCHANGED <<settled, offset>>

\* The record at offset o is handled; a failed one leaves a copy elsewhere.
Handle(t, p, o) ==
    /\ o < length[t][p]
    /\ settled' = [settled EXCEPT ![t][p] = @ \cup {o}]
    /\ UNCHANGED length \/ \E u \in Topics, q \in Partitions : Grow(u, q)
    /\ UNCHANGED offset

\* A consumer commits the partitions of a topic.
Commit(t) ==
    /\ offset' \in [Topics -> [Partitions -> Nat]]
    /\ \A u \in Topics \ {t} : offset'[u] = offset[u]
    /\ \A p \in Partitions : \A o \in 0 .. offset'[t][p] - 1 : o \in settled[t][p]
    /\ UNCHANGED <<length, settled>>

Next ==
    \E t \in Topics :
        \/ Commit(t)
        \/ \E p \in Partitions :
              Arrive(t, p) \/ \E o \in 0 .. length[t][p] - 1 : Handle(t, p, o)

Spec == Init /\ [][Next]_absVars
=============================================================================
