------------------------------- MODULE Broker -------------------------------
(***************************************************************************)
(* memory.py, the in-memory broker and its consumer: partitioned logs that *)
(* are only appended to, the committed offsets and the members of one      *)
(* consumer group, and range assignment.  Each operation the source runs   *)
(* under the broker's lock is one operator here, so the interleaving of    *)
(* clients is that of the lock.  Offsets and partitions count from 0, as   *)
(* in the source; log[t][p][o + 1] is the record at offset o.              *)
(***************************************************************************)
EXTENDS Integers, Sequences, FiniteSets, SequencesExt, Envelope

CONSTANTS
    Topics,         \* the topics that exist (create_topic ran for each)
    NumPartitions,  \* partitions of every topic (EventService.partitions)
    Clients,        \* client ids
    Keys,           \* record keys
    KeyHash         \* the CRC32 of each key

Partitions == 0 .. NumPartitions - 1

ASSUME PartitionsAssumption == NumPartitions \in Nat \ {0}
ASSUME KeysAssumption == NoKey \notin Keys /\ KeyHash \in [Keys -> Nat]

VARIABLES
    log,         \* _logs[topic][partition]: the records
    roundRobin,  \* _round_robin[topic]: how often the counter was drawn
    committed,   \* _committed[topic][partition], NoOffset if never committed
    members      \* _members[topic]: client ids in the order they joined

brokerVars == <<log, roundRobin, committed, members>>

NoOffset == -1

BrokerInit ==
    /\ log = [t \in Topics |-> [p \in Partitions |-> <<>>]]
    /\ roundRobin = [t \in Topics |-> 0]
    /\ committed = [t \in Topics |-> [p \in Partitions |-> NoOffset]]
    /\ members = [t \in Topics |-> <<>>]

EndOffset(t, p) == Len(log[t][p])
RecordAt(t, p, o) == log[t][p][o + 1]

\* _committed_offset: a partition nobody committed is read from the start.
CommittedOffset(t, p) ==
    IF committed[t][p] = NoOffset THEN 0 ELSE committed[t][p]

\* partition_for_key, with the round-robin counter as the fallback.
PartitionForKey(key, fallback) ==
    (IF key = NoKey THEN fallback ELSE KeyHash[key]) % NumPartitions

\* _append.  The counter is drawn for every record, keyed or not.
AppendRecord(t, record) ==
    LET p == PartitionForKey(record.key, roundRobin[t])
    IN  /\ log' = [log EXCEPT ![t][p] = Append(@, record)]
        /\ roundRobin' = [roundRobin EXCEPT ![t] = @ + 1]

IsMember(t, c) == \E i \in 1 .. Len(members[t]) : members[t][i] = c

\* _join, with no effect on a client id that is a member already.
Join(t, c) ==
    members' = [members EXCEPT ![t] = IF IsMember(t, c) THEN @ ELSE Append(@, c)]

\* _leave, with no effect on a client id that is not a member.
Leave(t, c) ==
    \/ ~IsMember(t, c) /\ UNCHANGED members
    \/ \E i \in 1 .. Len(members[t]) :
          /\ members[t][i] = c
          /\ members' = [members EXCEPT ![t] = RemoveAt(@, i)]

\* Faulty variants of RangeBlock: the starts do not move for the remainder; the
\* first member gets all of it.
RangeBlockUnmoved(rank, count) ==
    LET start == rank * (NumPartitions \div count)
        width == (NumPartitions \div count)
                 + (IF rank < NumPartitions % count THEN 1 ELSE 0)
    IN  start .. start + width - 1

RangeBlockLumped(rank, count) ==
    LET base  == NumPartitions \div count
        extra == NumPartitions % count
    IN  IF rank = 0 THEN 0 .. base + extra - 1
        ELSE rank * base + extra .. rank * base + extra + base - 1

\* The block of partitions the member of the given rank (from 0) is assigned
\* among count members.
RangeBlock(rank, count) ==
    LET base  == NumPartitions \div count
        extra == NumPartitions % count
        start == rank * base + (IF rank < extra THEN rank ELSE extra)
        width == base + (IF rank < extra THEN 1 ELSE 0)
    IN  start .. start + width - 1

\* _assignment: recomputed from the members at every call.
Assignment(t, c) ==
    UNION {RangeBlock(i - 1, Len(members[t])) :
              i \in {j \in 1 .. Len(members[t]) : members[t][j] = c}}
=============================================================================
