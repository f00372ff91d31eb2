---------------------------- MODULE LagExporter ----------------------------
(***************************************************************************)
(* lag.py: LagExporter, which reads the ends of the logs and the committed *)
(* offsets out of the broker of Broker.tla, topic by topic, while clients  *)
(* append and commit, and sets one gauge per partition.  The two reads of  *)
(* a topic take the broker's lock one after the other.  Its loop runs on a *)
(* thread of its own, started and stopped from outside.                    *)
(***************************************************************************)
EXTENDS Broker

CONSTANTS
    Watched,       \* LagExporter.topics; some may not exist on the broker
    MaxRecords,    \* bound: records in each topic
    MaxStarts      \* bound: how often start is called

ASSUME WatchedAssumption ==
    Watched # <<>> /\ Watched \in Seq({Watched[i] : i \in DOMAIN Watched})
ASSUME LagBoundsAssumption == MaxRecords \in Nat /\ MaxStarts \in Nat

Loops == 1 .. MaxStarts

VARIABLES
    loop,       \* where each thread that was started is
    taken,      \* how many watched topics its snapshot has come to
    ends,       \* the watermarks it has just read of one topic
    snapshot,   \* entries by topic and partition
    gauges,     \* the gauges of each partition, NoOffset where never set
    event,      \* _stop
    thread,     \* _thread: the thread start made last, or NoThread
    joining     \* the thread stop waits for, or NoThread

lagVars == <<loop, taken, ends, snapshot, gauges, event, thread, joining>>
vars == <<brokerVars, lagVars>>

NoThread == 0
NoEntry == [committed |-> NoOffset, high |-> NoOffset]
TopicPartitions == Topics \X Partitions
NoEntries == [tp \in TopicPartitions |-> NoEntry]
NoEnds == [p \in Partitions |-> 0]
NoGauges == [lag |-> NoOffset, committed |-> NoOffset, high |-> NoOffset]

Init ==
    /\ BrokerInit
    /\ loop = [l \in Loops |-> "none"]
    /\ taken = [l \in Loops |-> 0]
    /\ ends = [l \in Loops |-> NoEnds]
    /\ snapshot = [l \in Loops |-> NoEntries]
    /\ gauges = [tp \in TopicPartitions |-> NoGauges]
    /\ event = FALSE
    /\ thread = NoThread
    /\ joining = NoThread

\* Faulty variant of LagOf: the difference is not cut off at 0.
LagUncut(entry) ==
    entry.high - (IF entry.committed = NoOffset THEN 0 ELSE entry.committed)

\* PartitionLag.lag.  The low watermark is 0, the log keeps everything.
LagOf(entry) ==
    LET floor == IF entry.committed = NoOffset THEN 0 ELSE entry.committed
    IN  IF entry.high > floor THEN entry.high - floor ELSE 0

Running(l) == loop[l] \notin {"none", "ended"}

Goto(l, place) == loop' = [loop EXCEPT ![l] = place]
-----------------------------------------------------------------------------
\* Clients append and commit.  A late commit may move an offset back.
Produce(t) ==
    /\ roundRobin[t] < MaxRecords
    /\ AppendRecord(t, NewRecord(NoId, NoKey))
    /\ UNCHANGED <<committed, members, lagVars>>

CommitTo(t, p, o) ==
    /\ o <= EndOffset(t, p) /\ o # committed[t][p]
    /\ committed' = [committed EXCEPT ![t][p] = o]
    /\ UNCHANGED <<log, roundRobin, members, lagVars>>
-----------------------------------------------------------------------------
\* run, in its thread: the event is cleared, again.
Enter(l) ==
    /\ loop[l] = "started"
    /\ event' = FALSE
    /\ Goto(l, "check")
    /\ UNCHANGED <<brokerVars, taken, ends, snapshot, gauges, thread, joining>>

\* The head of the loop.
Check(l) ==
    /\ loop[l] = "check"
    /\ Goto(l, IF event THEN "ended" ELSE "topics")
    /\ UNCHANGED <<brokerVars, taken, ends, snapshot, gauges, event, thread, joining>>

NextTopic(l) == Watched[taken[l] + 1]

\* Faulty variant of UnknownTopic: the sample ends there.
UnknownTopicEndsSample(l) ==
    /\ loop[l] = "topics" /\ taken[l] < Len(Watched)
    /\ NextTopic(l) \notin Topics
    /\ taken' = [taken EXCEPT ![l] = 0]
    /\ Goto(l, "pause")
    /\ UNCHANGED <<brokerVars, ends, snapshot, gauges, event, thread, joining>>

\* snapshot: a topic the broker does not have is passed over.
UnknownTopic(l) ==
    /\ loop[l] = "topics" /\ taken[l] < Len(Watched)
    /\ NextTopic(l) \notin Topics
    /\ taken' = [taken EXCEPT ![l] = @ + 1]
    /\ UNCHANGED <<brokerVars, loop, ends, snapshot, gauges, event, thread, joining>>

\* Faulty variant of ReadWatermarks: the end is taken for the last offset.
ReadWatermarksOneOff(l) ==
    /\ loop[l] = "topics" /\ taken[l] < Len(Watched)
    /\ NextTopic(l) \in Topics
    /\ ends' = [ends EXCEPT ![l] = [p \in Partitions |-> EndOffset(NextTopic(l), p) + 1]]
    /\ Goto(l, "offsets")
    /\ UNCHANGED <<brokerVars, taken, snapshot, gauges, event, thread, joining>>

\* snapshot: broker.watermarks.
ReadWatermarks(l) ==
    /\ loop[l] = "topics" /\ taken[l] < Len(Watched)
    /\ NextTopic(l) \in Topics
    /\ ends' = [ends EXCEPT ![l] = [p \in Partitions |-> EndOffset(NextTopic(l), p)]]
    /\ Goto(l, "offsets")
    /\ UNCHANGED <<brokerVars, taken, snapshot, gauges, event, thread, joining>>

AddEntries(l, offsets) ==
    snapshot' = [snapshot EXCEPT ![l] = [tp \in TopicPartitions |->
        IF tp[1] = NextTopic(l)
        THEN [committed |-> offsets[tp[2]], high |-> ends[l][tp[2]]] ELSE @[tp]]]

\* Faulty variant of ReadCommitted: a partition without a commit counts as
\* committed at 0.
ReadCommittedDefaulted(l) ==
    /\ loop[l] = "offsets"
    /\ AddEntries(l, [p \in Partitions |-> CommittedOffset(NextTopic(l), p)])
    /\ taken' = [taken EXCEPT ![l] = @ + 1]
    /\ ends' = [ends EXCEPT ![l] = NoEnds]
    /\ Goto(l, "topics")
    /\ UNCHANGED <<brokerVars, gauges, event, thread, joining>>

\* snapshot: broker.committed, and the entries of the topic.
ReadCommitted(l) ==
    /\ loop[l] = "offsets"
    /\ AddEntries(l, committed[NextTopic(l)])
    /\ taken' = [taken EXCEPT ![l] = @ + 1]
    /\ ends' = [ends EXCEPT ![l] = NoEnds]
    /\ Goto(l, "topics")
    /\ UNCHANGED <<brokerVars, gauges, event, thread, joining>>

\* publish: every entry sets its gauges, but an entry without a commit leaves
\* the committed gauge alone.  The gauges of a snapshot are taken to be set at
\* once.
Gauged(entry, old) ==
    [lag |-> LagOf(entry), high |-> entry.high,
     committed |-> IF entry.committed = NoOffset THEN old.committed ELSE entry.committed]

Publish(l) ==
    /\ loop[l] = "topics" /\ taken[l] = Len(Watched)
    /\ gauges' = [tp \in TopicPartitions |->
           IF snapshot[l][tp] = NoEntry THEN gauges[tp]
           ELSE Gauged(snapshot[l][tp], gauges[tp])]
    /\ taken' = [taken EXCEPT ![l] = 0]
    /\ snapshot' = [snapshot EXCEPT ![l] = NoEntries]
    /\ Goto(l, "pause")
    /\ UNCHANGED <<brokerVars, ends, event, thread, joining>>

\* Faulty variant of Pause: every round clears the event.
PauseThenClear(l) ==
    /\ loop[l] = "pause"
    /\ Goto(l, "check")
    /\ event' = FALSE
    /\ UNCHANGED <<brokerVars, taken, ends, snapshot, gauges, thread, joining>>

\* run: event.wait returns, because it is set or because the interval is over.
Pause(l) ==
    /\ loop[l] = "pause"
    /\ Goto(l, IF event THEN "ended" ELSE "check")
    /\ UNCHANGED <<brokerVars, taken, ends, snapshot, gauges, event, thread, joining>>
-----------------------------------------------------------------------------
\* start.
Start(l) ==
    /\ thread = NoThread /\ joining = NoThread
    /\ loop[l] = "none" /\ \A k \in Loops : k < l => loop[k] # "none"
    /\ event' = FALSE
    /\ thread' = l
    /\ Goto(l, "started")
    /\ UNCHANGED <<brokerVars, taken, ends, snapshot, gauges, joining>>

\* stop: the event is set and the thread is taken.
Stop ==
    /\ joining = NoThread /\ thread # NoThread
    /\ event' = TRUE
    /\ joining' = thread
    /\ thread' = NoThread
    /\ UNCHANGED <<brokerVars, loop, taken, ends, snapshot, gauges>>

\* stop without a thread, before start or once more, also beside a stop that still
\* waits: it only sets the event.
StopIdle ==
    /\ thread = NoThread
    /\ ~event
    /\ event' = TRUE
    /\ UNCHANGED <<brokerVars, loop, taken, ends, snapshot, gauges, thread, joining>>

\* stop returns: the thread has ended, or the join has timed out.
Joined ==
    /\ joining # NoThread
    /\ joining' = NoThread
    /\ UNCHANGED <<brokerVars, loop, taken, ends, snapshot, gauges, event, thread>>
-----------------------------------------------------------------------------
Run(l) ==
    \/ Enter(l) \/ Check(l) \/ UnknownTopic(l) \/ ReadWatermarks(l)
    \/ ReadCommitted(l) \/ Publish(l) \/ Pause(l)

Next ==
    \/ \E t \in Topics :
          \/ Produce(t)
          \/ \E p \in Partitions, o \in 0 .. MaxRecords : CommitTo(t, p, o)
    \/ \E l \in Loops : Run(l) \/ Start(l)
    \/ Stop \/ StopIdle \/ Joined

Spec == Init /\ [][Next]_vars

\* The thread of a loop is scheduled; nobody has to stop it.
FairSpec == Spec /\ \A l \in Loops : WF_vars(Run(l))
-----------------------------------------------------------------------------
\* Every variable has its type.  In particular no gauge shows a negative lag,
\* although a commit may come between the two reads of a topic.
TypeOK ==
    /\ loop \in [Loops -> {"none", "started", "check", "topics", "offsets", "pause", "ended"}]
    /\ taken \in [Loops -> 0 .. Len(Watched)]
    /\ ends \in [Loops -> [Partitions -> Nat]]
    /\ snapshot \in [Loops -> [TopicPartitions ->
                         [committed : Nat \cup {NoOffset}, high : Nat \cup {NoOffset}]]]
    /\ \A tp \in TopicPartitions :
          gauges[tp] = NoGauges \/ gauges[tp] \in [lag : Nat, high : Nat,
                                                  committed : Nat \cup {NoOffset}]
    /\ event \in BOOLEAN
    /\ {thread, joining} \subseteq Loops \cup {NoThread}

\* The lag a snapshot takes of a partition is never more than there was when
\* the committed offset was read: clients that append and commit between the
\* two reads can only hide records, not invent a backlog.
NeverOverstated ==
    [][\A l \in Loops, tp \in TopicPartitions :
          snapshot'[l][tp] \notin {NoEntry, snapshot[l][tp]} =>
              LagOf(snapshot'[l][tp]) <= LagOf([committed |-> committed[tp[1]][tp[2]],
                                                high |-> EndOffset(tp[1], tp[2])])]_vars

\* lag.py:229, in publish: "A partition with no commit sets no committed_offset
\* sample at all."
NoCommitNoSample ==
    \A tp \in TopicPartitions :
        committed[tp[1]][tp[2]] = NoOffset => gauges[tp].committed = NoOffset

Watches(t) == \E i \in 1 .. Len(Watched) : Watched[i] = t

TrueLag(t, p) == EndOffset(t, p) - CommittedOffset(t, p)

\* A dead group still reports: when nobody appends or commits any more, and the
\* exporter is left running, the gauges come to show the lag of every watched
\* partition for good, also when a watched topic does not exist.
DeadGroupReports ==
    (<>[][FALSE]_<<log, committed>> /\ <>[](\E l \in Loops : thread = l /\ Running(l)))
        => <>[](\A t \in Topics, p \in Partitions :
                   Watches(t) => gauges[<<t, p>>].lag = TrueLag(t, p))

\* A loop that has come to its first round hears the stop, as long as no start
\* follows.
StopInRoundIsHeard ==
    \A l \in Loops :
        (event /\ Running(l) /\ loop[l] # "started") ~> (~Running(l) \/ thread # NoThread)

\* lag.py:289, on stop: "Ask the loop to finish and wait for it."  Every loop
\* that is stopped ends.  (run clears the event that stop has set, when its
\* thread comes to that line after the stop.)
StopEndsLoop == \A l \in Loops : joining = l ~> ~Running(l)

\* lag.py:281, in start: "exporter is already running".  There is one loop at a
\* time.  (stop drops a thread it could not join.)
OneLoop == \A k, l \in Loops : Running(k) /\ Running(l) => k = l
-----------------------------------------------------------------------------
(***************************************************************************)
(* Why the samples are right: the inductive invariant.                     *)
(***************************************************************************)
BrokerTypeOK ==
    /\ log \in [Topics -> [Partitions -> Seq({NewRecord(NoId, NoKey)})]]
    /\ roundRobin \in [Topics -> Nat]
    /\ committed \in [Topics -> [Partitions -> Nat \cup {NoOffset}]]

\* Between the two reads of a topic, its logs can only have grown.
WatermarksBehind ==
    \A l \in Loops :
        loop[l] = "offsets" =>
            /\ taken[l] < Len(Watched) /\ NextTopic(l) \in Topics
            /\ \A p \in Partitions : ends[l][p] <= EndOffset(NextTopic(l), p)

\* What a snapshot has taken of a partition: its watermark, and a commit only
\* where there was one.
EntriesTrue ==
    \A l \in Loops, tp \in TopicPartitions :
        LET entry == snapshot[l][tp]
        IN  /\ entry = NoEntry \/ entry.high \in Nat
            /\ committed[tp[1]][tp[2]] = NoOffset => entry.committed = NoOffset

Inv ==
    /\ TypeOK
    /\ BrokerTypeOK
    /\ WatermarksBehind
    /\ EntriesTrue
    /\ NoCommitNoSample
=============================================================================
