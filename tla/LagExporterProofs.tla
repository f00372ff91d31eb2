------------------------- MODULE LagExporterProofs -------------------------
(***************************************************************************)
(* Proofs about LagExporter.tla: whatever clients append and commit        *)
(* between its reads, and however many loops a lost join leaves running,   *)
(* the exporter shows no negative lag, no lag there was not, and no commit *)
(* nobody made.                                                            *)
(***************************************************************************)
EXTENDS LagExporter, TLAPS

\* A record goes to some partition of its topic.
LEMMA PartitionOfAppend ==
    ASSUME NEW n \in Nat
    PROVE  PartitionForKey(NoKey, n) \in Partitions
BY PartitionsAssumption DEF PartitionForKey, Partitions

\* The lag of an entry, as a number and as a function of its watermark.
LEMMA LagIsNat ==
    ASSUME NEW entry, entry.high \in Nat, entry.committed \in Nat \cup {NoOffset}
    PROVE  LagOf(entry) \in Nat
BY DEF LagOf, NoOffset

LEMMA LagGrowsWithEnd ==
    ASSUME NEW o \in Nat \cup {NoOffset}, NEW low \in Nat, NEW high \in Nat, low <= high
    PROVE  LagOf([committed |-> o, high |-> low]) <= LagOf([committed |-> o, high |-> high])
BY DEF LagOf, NoOffset

-----------------------------------------------------------------------------
LEMMA InitInv == Init => Inv
<1> USE DEF Init, BrokerInit
<1>1. Init => TypeOK
    <2>1. Len(Watched) \in Nat
        BY WatchedAssumption
    <2>2. Init => event \in BOOLEAN
        BY Zenon
    <2> QED BY <2>1, <2>2 DEF TypeOK, NoEnds, NoEntries, NoEntry, NoThread
<1>2. Init => BrokerTypeOK
    BY DEF BrokerTypeOK
<1>3. Init => WatermarksBehind /\ EntriesTrue /\ NoCommitNoSample
    BY DEF WatermarksBehind, EntriesTrue, NoCommitNoSample, NoEntries, NoEntry, NoGauges
<1> QED BY <1>1, <1>2, <1>3 DEF Inv

-----------------------------------------------------------------------------
(***************************************************************************)
(* The steps of the clients.                                               *)
(***************************************************************************)
LEMMA ProduceStep ==
    ASSUME Inv, NEW t \in Topics, Produce(t)
    PROVE  Inv'
<1> DEFINE p == PartitionForKey(NoKey, roundRobin[t])
           r == NewRecord(NoId, NoKey)
<1> USE DEF Inv, BrokerTypeOK
<1>1. p \in Partitions
    BY PartitionOfAppend
<1>2. /\ log' = [log EXCEPT ![t][p] = Append(@, r)]
      /\ roundRobin' = [roundRobin EXCEPT ![t] = @ + 1]
      /\ UNCHANGED <<committed, members, lagVars>>
    BY DEF Produce, AppendRecord, NewRecord
<1> HIDE DEF p, r
<1>3. log' \in [Topics -> [Partitions -> Seq({r})]]
    BY <1>1, <1>2 DEF r
<1>4. BrokerTypeOK'
    BY <1>2, <1>3 DEF r
<1>5. \A u \in Topics, q \in Partitions : EndOffset(u, q) <= EndOffset(u, q)'
    BY <1>1, <1>2 DEF EndOffset, r
<1>6. \A u \in Topics, q \in Partitions : EndOffset(u, q) \in Nat /\ EndOffset(u, q)' \in Nat
    BY <1>4 DEF EndOffset
<1>7. TypeOK'
    BY <1>2 DEF TypeOK, lagVars
<1>8. WatermarksBehind'
    BY <1>2, <1>5, <1>6 DEF WatermarksBehind, TypeOK, lagVars, NextTopic
<1>9. EntriesTrue' /\ NoCommitNoSample'
    BY <1>2 DEF EntriesTrue, NoCommitNoSample, lagVars
<1> QED BY <1>4, <1>7, <1>8, <1>9

LEMMA CommitStep ==
    ASSUME Inv, NEW t \in Topics, NEW p \in Partitions, NEW o \in 0 .. MaxRecords,
           CommitTo(t, p, o)
    PROVE  Inv'
<1> USE DEF Inv, BrokerTypeOK
<1>1. UNCHANGED <<log, roundRobin, members, lagVars>>
    BY DEF CommitTo
<1>2. o \in Nat
    BY LagBoundsAssumption
<1>3. BrokerTypeOK'
    BY <1>1, <1>2 DEF CommitTo
<1>4. \A tp \in TopicPartitions :
          committed'[tp[1]][tp[2]] = NoOffset => committed[tp[1]][tp[2]] = NoOffset
    BY <1>2 DEF CommitTo, NoOffset, TopicPartitions
<1>5. TypeOK'
    BY <1>1 DEF TypeOK, lagVars
<1>6. WatermarksBehind'
    BY <1>1 DEF WatermarksBehind, lagVars, NextTopic, EndOffset
<1>7. EntriesTrue' /\ NoCommitNoSample'
    BY <1>1, <1>4 DEF EntriesTrue, NoCommitNoSample, lagVars
<1> QED BY <1>3, <1>5, <1>6, <1>7

-----------------------------------------------------------------------------
(***************************************************************************)
(* The steps of a loop.                                                    *)
(***************************************************************************)

\* Where a step reads no offsets, sets no gauge and takes no topic, it is enough
\* that the loop does not come to "offsets".
LEMMA QuietStep ==
    ASSUME Inv, UNCHANGED <<brokerVars, ends, snapshot, gauges>>, TypeOK',
           \A l \in Loops : loop'[l] = "offsets" => loop[l] = "offsets" /\ taken'[l] = taken[l]
    PROVE  Inv'
<1> USE DEF Inv, brokerVars
<1>1. BrokerTypeOK'
    BY DEF BrokerTypeOK
<1>2. WatermarksBehind'
    BY DEF WatermarksBehind, NextTopic, EndOffset
<1>3. EntriesTrue' /\ NoCommitNoSample'
    BY DEF EntriesTrue, NoCommitNoSample
<1> QED BY <1>1, <1>2, <1>3

LEMMA ControlStep ==
    ASSUME Inv,
           \/ Stop \/ StopIdle \/ Joined
           \/ \E l \in Loops : Start(l) \/ Enter(l) \/ Check(l) \/ Pause(l)
    PROVE  Inv'
<1> USE DEF Inv, TypeOK, Goto
<1>1. CASE Stop \/ StopIdle
    <2>1. event' \in BOOLEAN
        BY <1>1, Zenon DEF Stop, StopIdle
    <2>2. TypeOK'
        BY <1>1, <2>1 DEF Stop, StopIdle
    <2> QED BY <1>1, <2>2, QuietStep DEF Stop, StopIdle
<1>2. CASE Joined
    <2>1. TypeOK'
        BY <1>2 DEF Joined
    <2> QED BY <1>2, <2>1, QuietStep DEF Joined
<1>3. ASSUME NEW l \in Loops, Start(l) \/ Enter(l) PROVE Inv'
    <2>1. event' \in BOOLEAN
        BY <1>3, Zenon DEF Start, Enter
    <2>2. TypeOK'
        BY <1>3, <2>1 DEF Start, Enter
    <2> QED BY <1>3, <2>2, QuietStep DEF Start, Enter
<1>4. ASSUME NEW l \in Loops, Check(l) \/ Pause(l) PROVE Inv'
    <2>1. TypeOK'
        BY <1>4 DEF Check, Pause
    <2> QED BY <1>4, <2>1, QuietStep DEF Check, Pause
<1> QED BY <1>1, <1>2, <1>3, <1>4

LEMMA UnknownStep ==
    ASSUME Inv, NEW l \in Loops, UnknownTopic(l)
    PROVE  Inv'
<1>1. Len(Watched) \in Nat
    BY WatchedAssumption
<1>2. TypeOK'
    BY <1>1 DEF Inv, TypeOK, UnknownTopic
<1> QED BY <1>2, QuietStep DEF Inv, TypeOK, UnknownTopic

LEMMA WatermarksStep ==
    ASSUME Inv, NEW l \in Loops, ReadWatermarks(l)
    PROVE  Inv'
<1> USE DEF Inv, Goto
<1>1. \A p \in Partitions : EndOffset(NextTopic(l), p) \in Nat
    BY DEF ReadWatermarks, BrokerTypeOK, EndOffset
<1>2. TypeOK'
    BY <1>1 DEF TypeOK, ReadWatermarks
<1>3. BrokerTypeOK' /\ EntriesTrue' /\ NoCommitNoSample'
    BY DEF ReadWatermarks, BrokerTypeOK, EntriesTrue, NoCommitNoSample, brokerVars
<1>4. WatermarksBehind'
    <2> SUFFICES ASSUME NEW k \in Loops, loop'[k] = "offsets"
                 PROVE  /\ taken'[k] < Len(Watched) /\ NextTopic(k)' \in Topics
                        /\ \A p \in Partitions : ends'[k][p] <= EndOffset(NextTopic(k), p)'
        BY DEF WatermarksBehind
    <2>1. CASE k = l
        BY <1>1, <2>1 DEF ReadWatermarks, TypeOK, NextTopic, EndOffset, brokerVars
    <2>2. CASE k # l
        BY <2>2 DEF ReadWatermarks, TypeOK, WatermarksBehind, NextTopic, EndOffset, brokerVars
    <2> QED BY <2>1, <2>2
<1> QED BY <1>2, <1>3, <1>4

\* The entries a snapshot takes of one topic.
LEMMA NewEntries ==
    ASSUME Inv, NEW l \in Loops, ReadCommitted(l),
           NEW k \in Loops, NEW tp \in TopicPartitions
    PROVE  \/ snapshot'[k][tp] = snapshot[k][tp]
           \/ /\ k = l /\ tp[1] = NextTopic(l)
              /\ snapshot'[k][tp] = [committed |-> committed[tp[1]][tp[2]],
                                     high |-> ends[l][tp[2]]]
BY DEF Inv, TypeOK, ReadCommitted, AddEntries

LEMMA CommittedStep ==
    ASSUME Inv, NEW l \in Loops, ReadCommitted(l)
    PROVE  Inv'
<1> USE DEF Inv
<1>1. Len(Watched) \in Nat
    BY WatchedAssumption
<1>2. taken[l] < Len(Watched) /\ NextTopic(l) \in Topics
    BY DEF ReadCommitted, WatermarksBehind
<1>3. \A tp \in TopicPartitions :
          /\ committed[tp[1]][tp[2]] \in Nat \cup {NoOffset}
          /\ ends[l][tp[2]] \in Nat
    BY DEF BrokerTypeOK, TypeOK, TopicPartitions
<1>4. snapshot' \in [Loops -> [TopicPartitions ->
                        [committed : Nat \cup {NoOffset}, high : Nat \cup {NoOffset}]]]
    <2> DEFINE E == [committed : Nat \cup {NoOffset}, high : Nat \cup {NoOffset}]
               f == [tp \in TopicPartitions |->
                        IF tp[1] = NextTopic(l)
                        THEN [committed |-> committed[NextTopic(l)][tp[2]], high |-> ends[l][tp[2]]]
                        ELSE snapshot[l][tp]]
    <2>1. snapshot' = [snapshot EXCEPT ![l] = f]
        BY DEF ReadCommitted, AddEntries, TypeOK
    <2>2. f \in [TopicPartitions -> E]
        BY <1>3 DEF TypeOK
    <2>3. snapshot \in [Loops -> [TopicPartitions -> E]]
        BY DEF TypeOK
    <2> HIDE DEF f, E
    <2>4. snapshot' \in [Loops -> [TopicPartitions -> E]]
        BY <2>1, <2>2, <2>3
    <2> QED BY <2>4 DEF E
<1>5. TypeOK'
    <2>1. taken' \in [Loops -> 0 .. Len(Watched)]
        BY <1>1, <1>2 DEF TypeOK, ReadCommitted
    <2>2. ends' \in [Loops -> [Partitions -> Nat]]
        BY DEF TypeOK, ReadCommitted, NoEnds
    <2>3. loop' \in [Loops -> {"none", "started", "check", "topics", "offsets", "pause", "ended"}]
        BY DEF TypeOK, ReadCommitted, Goto
    <2>4. UNCHANGED <<gauges, event, thread, joining>>
        BY DEF ReadCommitted
    <2> QED BY <1>4, <2>1, <2>2, <2>3, <2>4 DEF TypeOK
<1>6. BrokerTypeOK' /\ NoCommitNoSample'
    BY DEF ReadCommitted, BrokerTypeOK, NoCommitNoSample, brokerVars
<1>7. WatermarksBehind'
    BY DEF TypeOK, WatermarksBehind, ReadCommitted, Goto, NextTopic, EndOffset, brokerVars
<1>8. EntriesTrue'
    <2> SUFFICES ASSUME NEW k \in Loops, NEW tp \in TopicPartitions
                 PROVE  /\ snapshot'[k][tp] = NoEntry \/ snapshot'[k][tp].high \in Nat
                        /\ committed'[tp[1]][tp[2]] = NoOffset =>
                              snapshot'[k][tp].committed = NoOffset
        BY DEF EntriesTrue
    <2>1. UNCHANGED committed
        BY DEF ReadCommitted, brokerVars
    <2>2. CASE snapshot'[k][tp] = snapshot[k][tp]
        BY <2>1, <2>2 DEF EntriesTrue
    <2>3. CASE snapshot'[k][tp] = [committed |-> committed[tp[1]][tp[2]], high |-> ends[l][tp[2]]]
        BY <1>3, <2>1, <2>3
    <2> QED BY <2>2, <2>3, NewEntries
<1> QED BY <1>5, <1>6, <1>7, <1>8

LEMMA PublishStep ==
    ASSUME Inv, NEW l \in Loops, Publish(l)
    PROVE  Inv'
<1> USE DEF Inv
<1>1. Len(Watched) \in Nat
    BY WatchedAssumption
<1>2. ASSUME NEW tp \in TopicPartitions
      PROVE  /\ \/ gauges'[tp] = NoGauges
                \/ gauges'[tp] \in [lag : Nat, high : Nat, committed : Nat \cup {NoOffset}]
             /\ committed[tp[1]][tp[2]] = NoOffset => gauges'[tp].committed = NoOffset
    <2> DEFINE entry == snapshot[l][tp]
    <2>1. gauges'[tp] = IF entry = NoEntry THEN gauges[tp] ELSE Gauged(entry, gauges[tp])
        BY DEF Publish
    <2>2. /\ gauges[tp] = NoGauges
             \/ gauges[tp] \in [lag : Nat, high : Nat, committed : Nat \cup {NoOffset}]
          /\ gauges[tp].committed \in Nat \cup {NoOffset}
          /\ committed[tp[1]][tp[2]] = NoOffset => gauges[tp].committed = NoOffset
        BY DEF TypeOK, NoCommitNoSample, NoGauges
    <2>3. /\ entry.committed \in Nat \cup {NoOffset}
          /\ entry = NoEntry \/ entry.high \in Nat
          /\ committed[tp[1]][tp[2]] = NoOffset => entry.committed = NoOffset
        BY DEF TypeOK, EntriesTrue
    <2> HIDE DEF entry
    <2>4. CASE entry = NoEntry
        BY <2>1, <2>2, <2>4
    <2>5. CASE entry # NoEntry
        <3>1. LagOf(entry) \in Nat /\ entry.high \in Nat
            BY <2>3, <2>5, LagIsNat
        <3> QED BY <2>1, <2>2, <2>3, <2>5, <3>1 DEF Gauged
    <2> QED BY <2>4, <2>5
<1>3. TypeOK'
    <2>1. snapshot' \in [Loops -> [TopicPartitions ->
                            [committed : Nat \cup {NoOffset}, high : Nat \cup {NoOffset}]]]
        BY DEF TypeOK, Publish, NoEntries, NoEntry
    <2> QED BY <1>1, <1>2, <2>1 DEF TypeOK, Publish, Goto
<1>4. BrokerTypeOK'
    BY DEF BrokerTypeOK, Publish, brokerVars
<1>5. WatermarksBehind'
    BY DEF TypeOK, WatermarksBehind, Publish, Goto, NextTopic, EndOffset, brokerVars
<1>6. EntriesTrue'
    BY DEF TypeOK, EntriesTrue, Publish, NoEntries, NoEntry, brokerVars
<1>7. NoCommitNoSample'
    BY <1>2 DEF NoCommitNoSample, Publish, brokerVars
<1> QED BY <1>3, <1>4, <1>5, <1>6, <1>7

-----------------------------------------------------------------------------
\* Inv is inductive: the watermarks a loop has read lie behind the ends of the
\* logs, and a snapshot or a gauge has a commit only where there was one
\* (lag.py:229).
THEOREM Invariance == Spec => []Inv
<1>1. ASSUME Inv, UNCHANGED vars PROVE Inv'
    BY <1>1 DEF Inv, TypeOK, BrokerTypeOK, WatermarksBehind, EntriesTrue,
                NoCommitNoSample, NextTopic, EndOffset, vars, brokerVars, lagVars
<1>2. ASSUME Inv, Next PROVE Inv'
    BY <1>2, ProduceStep, CommitStep, ControlStep, UnknownStep, WatermarksStep,
       CommittedStep, PublishStep DEF Next, Run
<1> QED BY InitInv, <1>1, <1>2, PTL DEF Spec

\* A partition nobody committed sets no committed-offset gauge.
THEOREM NoCommitIsInvented == Spec => []NoCommitNoSample
<1>1. Inv => NoCommitNoSample
    BY DEF Inv
<1> QED BY <1>1, Invariance, PTL

\* What a snapshot takes for the lag of a partition is at most what it is.
THEOREM NoLagIsInvented == Spec => NeverOverstated
<1> DEFINE Bounded ==
        \A l \in Loops, tp \in TopicPartitions :
            snapshot'[l][tp] \notin {NoEntry, snapshot[l][tp]} =>
                LagOf(snapshot'[l][tp]) <= LagOf([committed |-> committed[tp[1]][tp[2]],
                                                  high |-> EndOffset(tp[1], tp[2])])
<1>1. ASSUME Inv, NEW l \in Loops, ReadCommitted(l) PROVE Bounded
    <2> SUFFICES ASSUME NEW k \in Loops, NEW tp \in TopicPartitions,
                        snapshot'[k][tp] \notin {NoEntry, snapshot[k][tp]}
                 PROVE  LagOf(snapshot'[k][tp]) <=
                            LagOf([committed |-> committed[tp[1]][tp[2]],
                                   high |-> EndOffset(tp[1], tp[2])])
        OBVIOUS
    <2>1. /\ tp[1] = NextTopic(l)
          /\ snapshot'[k][tp] = [committed |-> committed[tp[1]][tp[2]], high |-> ends[l][tp[2]]]
        BY <1>1, NewEntries
    <2>2. tp[1] \in Topics /\ tp[2] \in Partitions
        BY DEF TopicPartitions
    <2>3. /\ committed[tp[1]][tp[2]] \in Nat \cup {NoOffset}
          /\ ends[l][tp[2]] \in Nat
          /\ EndOffset(tp[1], tp[2]) \in Nat
          /\ ends[l][tp[2]] <= EndOffset(tp[1], tp[2])
        <3>1. committed[tp[1]][tp[2]] \in Nat \cup {NoOffset} /\ EndOffset(tp[1], tp[2]) \in Nat
            BY <1>1, <2>2 DEF Inv, BrokerTypeOK, EndOffset
        <3>2. ends[l][tp[2]] \in Nat
            BY <1>1, <2>2 DEF Inv, TypeOK
        <3>3. ends[l][tp[2]] <= EndOffset(tp[1], tp[2])
            BY <1>1, <2>1, <2>2 DEF Inv, WatermarksBehind, ReadCommitted
        <3> QED BY <3>1, <3>2, <3>3
    <2> QED BY <2>1, <2>3, LagGrowsWithEnd
<1>2. ASSUME Inv, NEW l \in Loops, Publish(l) PROVE Bounded
    BY <1>2 DEF Inv, TypeOK, Publish, NoEntries
<1>3. ASSUME UNCHANGED snapshot PROVE Bounded
    BY <1>3
<1>4. ASSUME Inv, [Next]_vars PROVE Bounded
    <2>1. ASSUME NEW t \in Topics, Produce(t) PROVE UNCHANGED snapshot
        BY <2>1 DEF Produce, lagVars
    <2>2. ASSUME NEW t \in Topics, NEW p \in Partitions, NEW o \in 0 .. MaxRecords,
                 CommitTo(t, p, o)
          PROVE  UNCHANGED snapshot
        BY <2>2 DEF CommitTo, lagVars
    <2>3. ASSUME NEW l \in Loops, \/ Enter(l) \/ Check(l) \/ UnknownTopic(l)
                                  \/ ReadWatermarks(l) \/ Pause(l) \/ Start(l)
          PROVE  UNCHANGED snapshot
        BY <2>3 DEF Enter, Check, UnknownTopic, ReadWatermarks, Pause, Start
    <2>4. CASE Stop \/ StopIdle \/ Joined \/ UNCHANGED vars
        <3>1. UNCHANGED snapshot
            BY <2>4 DEF Stop, StopIdle, Joined, vars, lagVars
        <3> QED BY <1>3, <3>1
    <2> HIDE DEF Bounded
    <2> QED BY <1>1, <1>2, <1>3, <1>4, <2>1, <2>2, <2>3, <2>4 DEF Next, Run
<1> QED BY <1>4, Invariance, PTL DEF Spec, NeverOverstated
=============================================================================
