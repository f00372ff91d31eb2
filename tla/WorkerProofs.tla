---------------------------- MODULE WorkerProofs ----------------------------
(***************************************************************************)
(* Type correctness, at-least-once delivery and the refinement of          *)
(* AtLeastOnce, for every number of workers, partitions and records and    *)
(* every mix of failures and faults.                                       *)
(*                                                                         *)
(* The argument: Inv is inductive.  What makes it so is that a live        *)
(* consumer may commit any position it holds, so that everything below a   *)
(* position must be settled or in the hand of that very worker             *)
(* (SettledBelowPosition), and everything below the record in hand must be *)
(* settled (SettledBelowHand), for the record may be put back.  When the   *)
(* hand is empty the positions are safe to commit, whoever owns the        *)
(* partition by then.                                                      *)
(***************************************************************************)
EXTENDS Worker, BrokerProofs
-----------------------------------------------------------------------------
(* Types: what the helpers of Worker.tla and Broker.tla preserve.          *)

\* An empty hand is a hand.
LEMMA NothingType == NothingInHand \in [Partitions -> [first : Nat, last : Nat]]
  BY DEF NothingInHand, Nothing

\* The placeholder for a worker that has nothing to send is a message.
LEMMA NoMessageType == NoMessage \in [topic : Topics, record : Records]
  BY TopologyAssumption, PolicyAssumption
     DEF NoMessage, TopicsFor, NewRecord, Records, NoId, NoKey, NoOrigin

\* Handling the record in hand keeps the history and the hand well typed.
LEMMA SettleType ==
    ASSUME TypeOK, NEW w \in Workers, NEW p \in Partitions, Settle(w, p)
    PROVE  /\ settled' \in [Topics -> [Partitions -> SUBSET Nat]]
           /\ hand' \in [Workers -> [Partitions -> [first : Nat, last : Nat]]]
  <1>1. TopicOf[w] \in Topics
    BY WorkersAssumption, TopologyAssumption DEF ConsumedTopics, TopicsFor
  <1>2. hand[w][p] \in [first : Nat, last : Nat]
    BY DEF TypeOK
  <1>3. settled' \in [Topics -> [Partitions -> SUBSET Nat]]
    BY <1>1, <1>2 DEF TypeOK, Settle
  <1>4. hand' \in [Workers -> [Partitions -> [first : Nat, last : Nat]]]
    BY <1>2 DEF TypeOK, Settle
  <1> QED BY <1>3, <1>4

\* seek to the record in hand leaves a valid position and an empty hand.
LEMMA PutBackType ==
    ASSUME TypeOK, NEW w \in Workers, NEW p \in Partitions, PutBack(w, p)
    PROVE  /\ position' \in [Workers -> [Partitions -> Offsets]]
           /\ hand' \in [Workers -> [Partitions -> [first : Nat, last : Nat]]]
  <1>2. hand[w][p] \in [first : Nat, last : Nat]
    BY DEF TypeOK
  <1>3. position' \in [Workers -> [Partitions -> Offsets]]
    BY <1>2 DEF TypeOK, PutBack, Offsets
  <1>4. hand' \in [Workers -> [Partitions -> [first : Nat, last : Nat]]]
    BY <1>2 DEF TypeOK, PutBack, Nothing
  <1> QED BY <1>3, <1>4

\* partition_for_key names a partition of the topic, for keyed and unkeyed
\* records.
LEMMA PartitionType ==
    ASSUME TypeOK, NEW t \in Topics, NEW r \in Records
    PROVE  PartitionForKey(r.key, roundRobin[t]) \in Partitions
  <1>1. /\ NumPartitions \in Nat \ {0}
        /\ roundRobin[t] \in Nat
        /\ r.key \in Keys \cup {NoKey}
    BY PartitionsAssumption DEF TypeOK, Records
  <1>2. (IF r.key = NoKey THEN roundRobin[t] ELSE KeyHash[r.key]) \in Nat
    BY <1>1, KeysAssumption
  <1> QED BY <1>1, <1>2, DivMod DEF Partitions, PartitionForKey

\* _append keeps the logs and the round-robin counters well typed.
LEMMA AppendType ==
    ASSUME TypeOK, NEW t \in Topics, NEW r \in Records, AppendRecord(t, r)
    PROVE  /\ log' \in [Topics -> [Partitions -> Seq(Records)]]
           /\ roundRobin' \in [Topics -> Nat]
  <1> DEFINE p == PartitionForKey(r.key, roundRobin[t])
  <1>1. p \in Partitions
    BY PartitionType
  <1>2. log' = [log EXCEPT ![t][p] = Append(@, r)]
    BY DEF AppendRecord
  <1> HIDE DEF p
  <1>3. Append(log[t][p], r) \in Seq(Records)
    BY <1>1 DEF TypeOK
  <1>4. log' \in [Topics -> [Partitions -> Seq(Records)]]
    BY <1>1, <1>2, <1>3 DEF TypeOK
  <1>5. roundRobin' \in [Topics -> Nat]
    BY DEF TypeOK, AppendRecord
  <1> QED BY <1>4, <1>5

\* _leave removes one client id from the member list.
LEMMA LeaveType ==
    ASSUME TypeOK, NEW t \in Topics, NEW c \in Clients, Leave(t, c)
    PROVE  members' \in [Topics -> Seq(Clients)]
  <1>1. \A i \in 1 .. Len(members[t]) : RemoveAt(members[t], i) \in Seq(Clients)
    BY DEF TypeOK, RemoveAt
  <1>2. members \in [Topics -> Seq(Clients)]
    BY DEF TypeOK
  <1>3. CASE UNCHANGED members
    BY <1>2, <1>3
  <1>4. CASE \E i \in 1 .. Len(members[t]) :
               members' = [members EXCEPT ![t] = RemoveAt(@, i)]
    BY <1>1, <1>2, <1>4
  <1> QED BY <1>3, <1>4 DEF Leave

\* _join adds at most one client id to the member list.
LEMMA JoinType ==
    ASSUME TypeOK, NEW t \in Topics, NEW c \in Clients, Join(t, c)
    PROVE  members' \in [Topics -> Seq(Clients)]
  BY DEF Join, TypeOK

\* _assignment names only partitions of the topic, also for a client that is
\* not a member.
LEMMA AssignmentType ==
    ASSUME TypeOK, NEW t \in Topics, NEW c
    PROVE  Assignment(t, c) \subseteq Partitions
  <1>1. Len(members[t]) \in Nat
    BY DEF TypeOK
  <1>2. \A i \in 1 .. Len(members[t]) :
            RangeBlock(i - 1, Len(members[t])) \subseteq Partitions
    BY <1>1, RangeBlockInPartitions
  <1> QED BY <1>2 DEF Assignment

\* Two words more, of whatever kind.
LEMMA TwoMoreWords ==
    ASSUME NEW S, NEW s \in Seq(S), NEW first, NEW second
    PROVE  Len(s \o <<first, second>>) = Len(s) + 2
  <1> DEFINE T    == S \cup {first, second}
             tail == <<first, second>>
  <1>1. s \in Seq(T)
    BY SeqMonotonic
  <1>2. tail \in Seq(T) /\ Len(tail) = 2
    OBVIOUS
  <1> HIDE DEF T, tail
  <1>3. Len(s \o tail) = Len(s) + 2
    BY <1>1, <1>2, ConcatProperties
  <1> QED BY <1>3 DEF tail

\* The topics of the ladder differ from the source topic and from the dead-letter
\* topic, by the words their names end in.
LEMMA TopicsApart ==
    /\ DlqTopic(Source) \notin ConsumedTopics
    /\ Source # DlqTopic(Source)
    /\ Source \notin RetryTopics(Source, Delays)
  <1>1. Len(Source) \in Nat
    BY SourceAssumption
  <1>2. Len(DlqTopic(Source)) = Len(Source) + 1
    BY SourceAssumption DEF DlqTopic
  <1>3. ASSUME NEW d \in Nat
        PROVE  Len(RetryTopic(Source, d)) = Len(Source) + 2
    BY TwoMoreWords, SourceAssumption DEF RetryTopic
  <1>4. \A t \in RetryTopics(Source, Delays) : Len(t) = Len(Source) + 2
    BY <1>3, PolicyAssumption DEF RetryTopics
  <1> QED BY <1>1, <1>2, <1>4 DEF ConsumedTopics

\* Every worker consumes a topic that exists and is not the dead-letter topic.
LEMMA TopicsOfWorkers ==
    ASSUME NEW w \in Workers
    PROVE  TopicOf[w] \in Topics /\ TopicOf[w] \in ConsumedTopics /\ ClientOf[w] \in Clients
  BY WorkersAssumption, TopologyAssumption DEF ConsumedTopics, TopicsFor

-----------------------------------------------------------------------------
(* What the inductive invariant says of the record in hand.                *)

\* The record in hand exists: its offset is below the end of its log.
LEMMA MessageInLog ==
    ASSUME Inv, NEW w \in Workers, NEW p \in Partitions, Holds(w, p)
    PROVE  /\ hand[w][p].first \in 0 .. EndOffset(TopicOf[w], p) - 1
           /\ Message(w, p) \in Records
           /\ Fits(TopicOf[w], Message(w, p))
  <1> DEFINE o == hand[w][p].first
             records == log[TopicOf[w]][p]
  <1>1. TopicOf[w] \in Topics
    BY TopicsOfWorkers
  <1>2. o \in Nat /\ hand[w][p].last \in Nat /\ records \in Seq(Records)
    BY <1>1 DEF Inv, TypeOK
  <1>3. o < hand[w][p].last /\ hand[w][p].last <= Len(records)
    BY DEF Inv, WorkerInv, WithinLogs, Holds, EndOffset
  <1>4. \A i \in 1 .. Len(records) : Fits(TopicOf[w], records[i])
    BY <1>1 DEF Inv, LogsWellAddressed
  <1>5. Message(w, p) = records[o + 1] /\ EndOffset(TopicOf[w], p) = Len(records)
    BY DEF Message, RecordAt, EndOffset
  <1> HIDE DEF o, records
  <1>6. o + 1 \in 1 .. Len(records) /\ o \in 0 .. Len(records) - 1
    BY <1>2, <1>3
  <1>7. records[o + 1] \in Records /\ Fits(TopicOf[w], records[o + 1])
    BY <1>2, <1>4, <1>6
  <1> QED
    BY <1>5, <1>6, <1>7 DEF o

\* event_id_of returns an event id for the record in hand.
LEMMA MessageIdType ==
    ASSUME Inv, NEW w \in Workers, NEW p \in Partitions, Holds(w, p)
    PROVE  MessageId(w, p) \in EventIds
  <1>1. Message(w, p) \in Records /\ hand[w][p].first \in Nat
    BY MessageInLog DEF Inv, TypeOK
  <1>2. Message(w, p).event \in EventIds \cup {NoId} /\ Message(w, p).key \in Keys \cup {NoKey}
    BY <1>1 DEF Records
  <1>3. <<TopicOf[w], hand[w][p].first>> \in EventIds
    BY <1>1, TopicsOfWorkers DEF EventIds
  <1> QED
    BY <1>2, <1>3 DEF MessageId, EventIdOf, EventIds

\* Every copy in the ladder names the source topic as the one it came from, so
\* the next hop of a failure is a topic of this ladder.
LEMMA OriginType ==
    ASSUME Inv, NEW w \in Workers, NEW p \in Partitions, Holds(w, p)
    PROVE  /\ SourceTopic(TopicOf[w], Message(w, p)) = Source
           /\ Lineage(TopicOf[w], p, hand[w][p].first, Message(w, p)) \in Origins
           /\ Lineage(TopicOf[w], p, hand[w][p].first, Message(w, p)) # NoOrigin
  <1>1. Message(w, p) \in Records /\ hand[w][p].first \in Nat
    BY MessageInLog DEF Inv, TypeOK
  <1>2. CASE Message(w, p).origin = NoOrigin
    <2>1. TopicOf[w] = Source
      BY <1>2, MessageInLog DEF Fits
    <2> QED
      BY <1>1, <1>2, <2>1 DEF SourceTopic, Lineage, Origins, NoOrigin
  <1>3. CASE Message(w, p).origin # NoOrigin
    <2>1. Message(w, p).origin \in Origins
      BY <1>1, <1>3 DEF Records
    <2> QED
      BY <1>3, <2>1 DEF SourceTopic, Lineage, Origins
  <1> QED BY <1>2, <1>3

\* The copy _retry or _dead_letter sends is well formed, and one sent to a topic
\* that is consumed has a try left.
LEMMA NextHopType ==
    ASSUME Inv, NEW w \in Workers, NEW p \in Partitions, Holds(w, p),
           NEW topic \in Topics, NEW notBefore \in Nat,
           topic \in ConsumedTopics => ThisAttempt(w, p) < MaxAttempts
    PROVE  /\ NextHop(w, p, topic, notBefore).topic = topic
           /\ NextHop(w, p, topic, notBefore) \in [topic : Topics, record : Records]
           /\ Fits(topic, NextHop(w, p, topic, notBefore).record)
  <1> DEFINE m == Message(w, p)
             l == Lineage(TopicOf[w], p, hand[w][p].first, m)
             r == FailureHeaders(TopicOf[w], p, hand[w][p].first, m, ThisAttempt(w, p), notBefore)
  <1>1. m \in Records /\ Fits(TopicOf[w], m)
    BY MessageInLog
  <1>2. ThisAttempt(w, p) \in 0 .. MaxAttempts
    BY <1>1, TopicsOfWorkers, PolicyAssumption DEF Fits, ThisAttempt, Records
  <1>3. l \in Origins /\ l # NoOrigin
    BY OriginType
  <1>4. MessageId(w, p) \in EventIds
    BY MessageIdType
  <1>5. r = [m EXCEPT !.event = MessageId(w, p), !.origin = l,
                      !.attempt = ThisAttempt(w, p), !.not_before = notBefore]
    BY DEF FailureHeaders, MessageId
  <1> HIDE DEF m, l, r
  <1>6. r \in Records /\ r.origin = l /\ r.attempt = ThisAttempt(w, p)
    BY <1>1, <1>2, <1>3, <1>4, <1>5 DEF Records
  <1>7. NextHop(w, p, topic, notBefore) = [topic |-> topic, record |-> r]
    BY DEF NextHop, r, m
  <1> QED
    BY <1>3, <1>6, <1>7 DEF Fits

-----------------------------------------------------------------------------
(* One step, variable by variable.                                         *)

\* Every step keeps every variable well typed.
LEMMA TypeStep ==
    ASSUME Inv, [Next]_vars
    PROVE  TypeOK'
  <1>0. TypeOK
    BY DEF Inv
  <1> USE <1>0, TopicsOfWorkers
  <1>1. CASE Produce
    <2>1. Workload[roundRobin[Source] + 1] \in Records
      BY <1>1, WorkloadAssumption, TopologyAssumption
         DEF Produce, TypeOK, TopicsFor
    <2>2. Source \in Topics
      BY TopologyAssumption DEF TopicsFor
    <2> QED
      BY <1>1, <2>1, <2>2, AppendType DEF Produce, TypeOK, clientVars
  <1>2. CASE Tick
    BY <1>2 DEF Tick, TypeOK, brokerVars, clientVars
  <1>3. ASSUME NEW w \in Workers, Build(w) PROVE TypeOK'
    <2>1. members' \in [Topics -> Seq(Clients)]
      BY <1>3, JoinType DEF Build
    <2> QED
      BY <1>3, <2>1, NoMessageType DEF Build, Goto, TypeOK, Labels, Offsets
  <1>4. ASSUME NEW w \in Workers, Finish(w) PROVE TypeOK'
    BY <1>4 DEF Finish, Goto, TypeOK, Labels, brokerVars
  <1>5. ASSUME NEW w \in Workers, PollAssign(w) PROVE TypeOK'
    <2>1. toFetch' \in [Workers -> SUBSET Partitions]
      BY <1>5, AssignmentType DEF PollAssign, TypeOK
    <2>2. position' \in [Workers -> [Partitions -> Offsets]]
      BY <1>5 DEF PollAssign, TypeOK, Offsets
    <2>3. pc' \in [Workers -> Labels] /\ room' \in [Workers -> 0 .. BatchSize]
      BY <1>5, WorkersAssumption DEF PollAssign, Goto, TypeOK, Labels
    <2> QED
      BY <1>5, <2>1, <2>2, <2>3 DEF PollAssign, TypeOK, brokerVars
  <1>6. ASSUME NEW w \in Workers, NEW p \in Partitions, PollFetch(w, p) PROVE TypeOK'
    <2> DEFINE start == IF position[w][p] = NoOffset
                        THEN CommittedOffset(TopicOf[w], p) ELSE position[w][p]
               there == EndOffset(TopicOf[w], p) - start
               count == IF there < room[w] THEN there ELSE room[w]
    <2>1. start \in Nat /\ there \in Nat
      BY DEF Inv, TypeOK, WorkerInv, WithinLogs, CommittedWithinLogs, CommittedOffset, EndOffset,
             Offsets, NoOffset
    <2>2. room[w] \in 0 .. BatchSize /\ BatchSize \in Nat
      BY WorkersAssumption DEF TypeOK
    <2>3. count \in 0 .. room[w] /\ start + count \in Nat
          /\ room[w] - count \in 0 .. BatchSize
      BY <2>1, <2>2
    <2>4. /\ position' = [position EXCEPT ![w][p] = start + count]
          /\ hand' = [hand EXCEPT ![w][p] = [first |-> start, last |-> start + count]]
          /\ room' = [room EXCEPT ![w] = room[w] - count]
      BY <1>6 DEF PollFetch
    <2> HIDE DEF start, there, count
    <2>5. position' \in [Workers -> [Partitions -> Offsets]]
      BY <2>3, <2>4 DEF TypeOK, Offsets
    <2>6. hand' \in [Workers -> [Partitions -> [first : Nat, last : Nat]]]
      BY <2>1, <2>3, <2>4 DEF TypeOK
    <2>7. room' \in [Workers -> 0 .. BatchSize]
      BY <2>3, <2>4 DEF TypeOK
    <2> QED
      BY <1>6, <2>5, <2>6, <2>7 DEF PollFetch, TypeOK, brokerVars
  <1>7. ASSUME NEW w \in Workers, PollReturn(w) PROVE TypeOK'
    <2>1. \A p \in Partitions : CommittedOffset(TopicOf[w], p) \in Nat
      BY DEF TypeOK, CommittedOffset, Offsets
    <2>2. position' \in [Workers -> [Partitions -> Offsets]]
      BY <1>7, <2>1 DEF PollReturn, TypeOK, Offsets
    <2>3. /\ pc' \in [Workers -> Labels]
          /\ hand' \in [Workers -> [Partitions -> [first : Nat, last : Nat]]]
      <3>1. CASE EmptyHanded(w)
        <4>1. pc' = [pc EXCEPT ![w] = "idle"]
          BY <1>7, <3>1 DEF PollReturn, Goto
        <4>2. hand' = [hand EXCEPT ![w] = NothingInHand]
          BY <1>7, <3>1 DEF PollReturn
        <4> QED BY <4>1, <4>2, NothingType DEF TypeOK, Labels
      <3>2. CASE ~EmptyHanded(w)
        BY <1>7, <3>2 DEF PollReturn, Goto, TypeOK, Labels
      <3> QED BY <3>1, <3>2
    <2>4. room' \in [Workers -> 0 .. BatchSize] /\ toFetch' \in [Workers -> SUBSET Partitions]
      BY <1>7, WorkersAssumption DEF PollReturn, TypeOK
    <2> QED
      BY <1>7, <2>2, <2>3, <2>4 DEF PollReturn, TypeOK, brokerVars
  <1>8. ASSUME NEW w \in Workers, NEW p \in Partitions, Abandon(w, p) PROVE TypeOK'
    BY <1>8, PutBackType DEF Abandon, TypeOK, brokerVars
  <1>9. ASSUME NEW w \in Workers, NEW p \in Partitions, Wait(w, p) PROVE TypeOK'
    BY <1>9 DEF Wait, Goto, TypeOK, Labels, brokerVars
  <1>10. ASSUME NEW w \in Workers, NEW p \in Partitions, Defer(w, p) PROVE TypeOK'
    BY <1>10, PutBackType DEF Defer, Goto, TypeOK, Labels, brokerVars
  <1>11. ASSUME NEW w \in Workers, NEW p \in Partitions, Duplicate(w, p) PROVE TypeOK'
    BY <1>11, SettleType DEF Duplicate, Goto, TypeOK, Labels, brokerVars
  <1>12. ASSUME NEW w \in Workers, NEW p \in Partitions,
                Admit(w, p) \/ Invoke(w, p) \/ Return(w, p)
         PROVE  TypeOK'
    BY <1>12 DEF Admit, Invoke, Return, Goto, TypeOK, Labels, brokerVars
  <1>13. ASSUME NEW w \in Workers, NEW p \in Partitions, Succeed(w, p) PROVE TypeOK'
    <2>1. MessageId(w, p) \in EventIds
      BY <1>13, MessageIdType DEF Succeed, IsCurrent
    <2> QED
      BY <1>13, <2>1, SettleType DEF Succeed, Goto, TypeOK, Labels, brokerVars
  <1>14. ASSUME NEW w \in Workers, NEW p \in Partitions,
                NEW m \in [topic : Topics, record : Records], Prepare(w, m)
         PROVE  TypeOK'
    BY <1>14 DEF Prepare, Goto, TypeOK, Labels, brokerVars
  <1>15. ASSUME NEW w \in Workers, NEW p \in Partitions, Retry(w, p) PROVE TypeOK'
    <2> DEFINE a == ThisAttempt(w, p)
               due == now + Delays[a]
    <2>1. a \in 1 .. MaxAttempts - 1 /\ due \in Nat
      BY <1>15, PolicyAssumption DEF Retry, TypeOK
    <2>2. RetryTopic(Source, Delays[a]) \in Topics
      BY <1>15, TopologyAssumption DEF Retry, TopicsFor, RetryTopics
    <2>3. NextHop(w, p, RetryTopic(Source, Delays[a]), due) \in [topic : Topics, record : Records]
      BY <1>15, <2>1, <2>2, NextHopType, PolicyAssumption DEF Retry, IsCurrent
    <2>4. Prepare(w, NextHop(w, p, RetryTopic(Source, Delays[a]), due))
      BY <1>15, OriginType DEF Retry, IsCurrent
    <2> QED BY <1>14, <2>3, <2>4
  <1>16. ASSUME NEW w \in Workers, NEW p \in Partitions, DeadLetter(w, p) PROVE TypeOK'
    <2>1. DlqTopic(Source) \in Topics
      BY TopologyAssumption DEF TopicsFor
    <2>2. NextHop(w, p, DlqTopic(Source), 0) \in [topic : Topics, record : Records]
      BY <1>16, <2>1, NextHopType, TopicsApart DEF DeadLetter, IsCurrent
    <2>3. Prepare(w, NextHop(w, p, DlqTopic(Source), 0))
      BY <1>16, OriginType DEF DeadLetter, IsCurrent
    <2> QED BY <1>14, <2>2, <2>3
  <1>18. ASSUME NEW w \in Workers, NEW p \in Partitions, Send(w, p) PROVE TypeOK'
    <2>1. outgoing[w].topic \in Topics /\ outgoing[w].record \in Records
      BY DEF TypeOK
    <2> QED
      BY NoMessageType, <1>18, <2>1, AppendType, SettleType DEF Send, Goto, TypeOK, Labels
  <1>19. ASSUME NEW w \in Workers, Die(w),
                committed' \in [Topics -> [Partitions -> Offsets]]
         PROVE  TypeOK'
    BY <1>19, NothingType, WorkersAssumption DEF Die, Fault, Goto, TypeOK, Labels
  <1>20. ASSUME NEW w \in Workers, Escape(w) \/ PollError(w) \/ StoreError(w) \/ SendError(w)
         PROVE  TypeOK'
    BY <1>19, <1>20 DEF Escape, PollError, StoreError, SendError, TypeOK
  <1>21. ASSUME NEW w \in Workers, Deliver(w) PROVE TypeOK'
    <2>1. outgoing[w].topic \in Topics /\ outgoing[w].record \in Records
      BY DEF TypeOK
    <2> QED
      BY NoMessageType, <1>21, <2>1, AppendType DEF Deliver, TypeOK
  <1>17. ASSUME NEW w \in Workers, CommitPositions(w)
         PROVE  committed' \in [Topics -> [Partitions -> Offsets]]
    BY <1>17 DEF CommitPositions, TypeOK
  <1>22. ASSUME NEW w \in Workers, Commit(w) PROVE TypeOK'
    BY <1>17, <1>22, NothingType DEF Commit, Goto, TypeOK, Labels
  <1>23. ASSUME NEW w \in Workers, NEW drain \in BOOLEAN, Stop(w, drain) PROVE TypeOK'
    BY <1>23 DEF Stop, Fault, TypeOK, brokerVars
  <1>24. ASSUME NEW w \in Workers, Close(w) PROVE TypeOK'
    <2>1. members' \in [Topics -> Seq(Clients)]
      BY <1>24, LeaveType DEF Close
    <2> QED
      BY <1>24, <2>1 DEF Close, Fault, TypeOK, Offsets
  <1>25. ASSUME NEW w \in Workers, CommitError(w) PROVE TypeOK'
    <2>1. committed' \in [Topics -> [Partitions -> Offsets]]
      BY <1>17, <1>25 DEF CommitError, TypeOK
    <2> QED BY <1>19, <1>25, <2>1 DEF CommitError
  <1>26. CASE Forget
    BY <1>26 DEF Forget, Fault, brokerVars, clientVars, TypeOK
  <1>27. CASE UNCHANGED vars
    BY <1>27 DEF vars, brokerVars, clientVars, TypeOK
  <1> QED
    BY <1>1, <1>2, <1>3, <1>4, <1>5, <1>6, <1>7, <1>8, <1>9, <1>10, <1>11, <1>12,
       <1>13, <1>15, <1>16, <1>18, <1>20, <1>21, <1>22, <1>23, <1>24, <1>25,
       <1>26, <1>27
       DEF Next, Step, Control

\* A step appends at most one record, and one that fits its topic.
LEMMA LogStep ==
    ASSUME Inv, [Next]_vars
    PROVE  \/ UNCHANGED log
           \/ \E t \in Topics, r \in Records : Fits(t, r) /\ AppendRecord(t, r)
  <1>0. TypeOK
    BY DEF Inv
  <1>1. CASE Produce
    <2> DEFINE r == Workload[roundRobin[Source] + 1]
    <2>1. Source \in Topics
      BY TopologyAssumption DEF TopicsFor
    <2>2. roundRobin[Source] + 1 \in 1 .. Len(Workload) /\ AppendRecord(Source, r)
      BY <1>0, <1>1, <2>1, WorkloadAssumption DEF Produce, TypeOK
    <2>3. r \in Records /\ r = NewRecord(r.event, r.key)
      BY <2>2, WorkloadAssumption
    <2>4. r.attempt = 0
      BY <2>3 DEF NewRecord
    <2> HIDE DEF r
    <2>5. Fits(Source, r)
      BY <2>4, PolicyAssumption DEF Fits
    <2> QED BY <2>1, <2>2, <2>3, <2>5
  <1>2. ASSUME NEW w \in Workers, pc[w] = "send" \/ outgoing[w] # NoMessage
        PROVE  /\ outgoing[w].topic \in Topics
               /\ outgoing[w].record \in Records
               /\ Fits(outgoing[w].topic, outgoing[w].record)
    BY <1>0, <1>2 DEF Inv, TypeOK, WorkerInv, OutgoingFits
  <1>3. ASSUME NEW w \in Workers, NEW p \in Partitions, Send(w, p)
        PROVE  \E t \in Topics, r \in Records : Fits(t, r) /\ AppendRecord(t, r)
    BY <1>2, <1>3 DEF Send
  <1>4. ASSUME NEW w \in Workers, Deliver(w)
        PROVE  \E t \in Topics, r \in Records : Fits(t, r) /\ AppendRecord(t, r)
    BY <1>2, <1>4 DEF Deliver
  <1>5. ASSUME NEW w \in Workers, NEW p \in Partitions,
               \/ PollFetch(w, p) \/ Abandon(w, p) \/ Wait(w, p) \/ Defer(w, p)
               \/ Duplicate(w, p) \/ Admit(w, p) \/ Invoke(w, p) \/ Return(w, p)
               \/ Succeed(w, p) \/ Retry(w, p)
               \/ DeadLetter(w, p)
        PROVE  UNCHANGED log
    BY <1>5 DEF PollFetch, Abandon, Wait, Defer, Duplicate, Admit, Invoke, Return, Succeed, Retry,
                DeadLetter, Prepare, brokerVars
  <1>6. ASSUME NEW w \in Workers,
               \/ Finish(w) \/ PollAssign(w) \/ PollReturn(w) \/ Commit(w)
               \/ Escape(w) \/ PollError(w) \/ StoreError(w) \/ SendError(w) \/ CommitError(w)
               \/ Build(w) \/ Close(w) \/ \E drain \in BOOLEAN : Stop(w, drain)
        PROVE  UNCHANGED log
    BY <1>6 DEF Finish, PollAssign, PollReturn, Escape, PollError, StoreError, SendError,
                CommitError, Die, Commit, Build, Close, Stop, brokerVars
  <1>7. CASE Tick \/ Forget \/ UNCHANGED vars
    BY <1>7 DEF Tick, Forget, vars, brokerVars
  <1> QED
    BY <1>1, <1>3, <1>4, <1>5, <1>6, <1>7 DEF Next, Step, Control

\* A record is handled in one of three ways.
Handles(w, p) == Duplicate(w, p) \/ Succeed(w, p) \/ Send(w, p)

\* Nothing else counts as handled.
LEMMA WhoHandles ==
    ASSUME [Next]_vars
    PROVE  UNCHANGED settled \/ \E w \in Workers, p \in Partitions : Handles(w, p)
  <1>1. ASSUME NEW w \in Workers, NEW p \in Partitions,
               \/ PollFetch(w, p) \/ Abandon(w, p) \/ Wait(w, p) \/ Defer(w, p)
               \/ Admit(w, p) \/ Invoke(w, p) \/ Return(w, p) \/ Retry(w, p) \/ DeadLetter(w, p)
        PROVE  UNCHANGED settled
    BY <1>1 DEF PollFetch, Abandon, Wait, Defer, Admit, Invoke, Return, Retry, DeadLetter, Prepare
  <1>2. ASSUME NEW w \in Workers,
               \/ Finish(w) \/ PollAssign(w) \/ PollReturn(w) \/ Commit(w)
               \/ Escape(w) \/ PollError(w) \/ StoreError(w) \/ SendError(w) \/ CommitError(w)
               \/ Build(w) \/ Close(w) \/ Deliver(w) \/ \E drain \in BOOLEAN : Stop(w, drain)
        PROVE  UNCHANGED settled
    BY <1>2 DEF Finish, PollAssign, PollReturn, Escape, PollError, StoreError, SendError,
                CommitError, Die, Commit, Build, Close, Deliver, Stop
  <1>3. CASE Produce \/ Tick \/ Forget \/ UNCHANGED vars
    BY <1>3 DEF Produce, Tick, Forget, vars
  <1> QED
    BY <1>1, <1>2, <1>3 DEF Handles, Next, Step, Control

\* A step handles at most one record, one some worker had in hand.
LEMMA SettledStep ==
    ASSUME [Next]_vars
    PROVE  \/ UNCHANGED settled
           \/ \E w \in Workers, p \in Partitions : Holds(w, p) /\ Settle(w, p)
  <1>1. ASSUME NEW w \in Workers, NEW p \in Partitions, Handles(w, p)
        PROVE  Holds(w, p) /\ Settle(w, p)
    BY <1>1 DEF Handles, Duplicate, Ready, Succeed, Send, IsCurrent
  <1> QED BY <1>1, WhoHandles

\* The end of poll_once, also when the commit raises after it took effect.
CommitsBatch(w) ==
    /\ pc[w] = "batch"
    /\ EmptyHanded(w)
    /\ CommitPositions(w)
    /\ UNCHANGED <<log, settled, position>>

\* Only the end of poll_once moves a committed offset.
LEMMA CommittedStep ==
    ASSUME [Next]_vars
    PROVE  UNCHANGED committed \/ \E w \in Workers : CommitsBatch(w)
  <1>1. ASSUME NEW w \in Workers, NEW p \in Partitions,
               \/ PollFetch(w, p) \/ Abandon(w, p) \/ Wait(w, p) \/ Defer(w, p)
               \/ Duplicate(w, p) \/ Admit(w, p) \/ Invoke(w, p) \/ Return(w, p)
               \/ Succeed(w, p) \/ Retry(w, p)
               \/ DeadLetter(w, p) \/ Send(w, p)
        PROVE  UNCHANGED committed
    BY <1>1 DEF PollFetch, Abandon, Wait, Defer, Duplicate, Admit, Invoke, Return, Succeed, Retry,
                DeadLetter, Prepare, Send, brokerVars
  <1>2. ASSUME NEW w \in Workers,
               \/ Finish(w) \/ PollAssign(w) \/ PollReturn(w)
               \/ Escape(w) \/ PollError(w) \/ StoreError(w) \/ SendError(w)
               \/ Build(w) \/ Close(w) \/ Deliver(w) \/ \E drain \in BOOLEAN : Stop(w, drain)
        PROVE  UNCHANGED committed
    BY <1>2 DEF Finish, PollAssign, PollReturn, Escape, PollError, StoreError, SendError, Build,
                Close, Deliver, Stop, brokerVars
  <1>3. ASSUME NEW w \in Workers, Commit(w) \/ CommitError(w)
        PROVE  UNCHANGED committed \/ CommitsBatch(w)
    BY <1>3 DEF Commit, CommitError, CommitsBatch, Die
  <1>4. CASE Produce \/ Tick \/ Forget \/ UNCHANGED vars
    BY <1>4 DEF Produce, Tick, Forget, vars, brokerVars
  <1> QED
    BY <1>1, <1>2, <1>3, <1>4 DEF Next, Step, Control

\* Only the clock changes the time.
LEMMA TimePasses ==
    ASSUME TypeOK, [Next]_vars
    PROVE  now' = now \/ (Tick /\ now <= now')
  <1>1. ASSUME NEW w \in Workers, NEW p \in Partitions,
               \/ PollFetch(w, p) \/ Abandon(w, p) \/ Wait(w, p) \/ Defer(w, p)
               \/ Duplicate(w, p) \/ Admit(w, p) \/ Invoke(w, p) \/ Return(w, p)
               \/ Succeed(w, p) \/ Retry(w, p)
               \/ DeadLetter(w, p) \/ Send(w, p)
        PROVE  now' = now
    BY <1>1 DEF PollFetch, Abandon, Wait, Defer, Duplicate, Admit, Invoke, Return, Succeed, Retry,
                DeadLetter, Prepare, Send
  <1>2. ASSUME NEW w \in Workers,
               \/ Finish(w) \/ PollAssign(w) \/ PollReturn(w) \/ Commit(w)
               \/ Escape(w) \/ PollError(w) \/ StoreError(w) \/ SendError(w) \/ CommitError(w)
               \/ Build(w) \/ Close(w) \/ Deliver(w) \/ \E drain \in BOOLEAN : Stop(w, drain)
        PROVE  now' = now
    BY <1>2 DEF Finish, PollAssign, PollReturn, Escape, PollError, StoreError, SendError,
                CommitError, Die, Commit, Build, Close, Deliver, Stop
  <1>3. CASE Produce \/ Forget \/ UNCHANGED vars
    BY <1>3 DEF Produce, Forget, vars
  <1>4. CASE Tick
    BY <1>4 DEF Tick, TypeOK
  <1> QED BY <1>1, <1>2, <1>3, <1>4 DEF Next, Step, Control

\* _append adds to one partition and leaves every other as it is.
LEMMA AppendGrows ==
    ASSUME TypeOK, NEW t \in Topics, NEW r \in Records, AppendRecord(t, r),
           NEW u \in Topics, NEW q \in Partitions
    PROVE  \/ log'[u][q] = log[u][q]
           \/ u = t /\ log'[u][q] = Append(log[u][q], r)
  <1> DEFINE p == PartitionForKey(r.key, roundRobin[t])
  <1>1. log' = [log EXCEPT ![t][p] = Append(@, r)]
    BY DEF AppendRecord
  <1> HIDE DEF p
  <1> QED BY <1>1 DEF TypeOK

\* Logs and the set of handled offsets only grow.
LEMMA Growth ==
    ASSUME Inv, [Next]_vars, NEW t \in Topics, NEW p \in Partitions
    PROVE  /\ EndOffset(t, p) <= EndOffset(t, p)'
           /\ settled[t][p] \subseteq settled'[t][p]
  <1>0. TypeOK /\ log[t][p] \in Seq(Records)
    BY DEF Inv, TypeOK
  <1>1. EndOffset(t, p) <= EndOffset(t, p)'
    <2>1. CASE log'[t][p] = log[t][p]
      BY <1>0, <2>1 DEF EndOffset
    <2>2. CASE \E r \in Records : log'[t][p] = Append(log[t][p], r)
      BY <1>0, <2>2 DEF EndOffset
    <2> QED BY <1>0, <2>1, <2>2, LogStep, AppendGrows
  <1>2. settled[t][p] \subseteq settled'[t][p]
    <2>1. CASE UNCHANGED settled
      BY <2>1
    <2>2. ASSUME NEW w \in Workers, NEW q \in Partitions, Settle(w, q)
          PROVE  settled[t][p] \subseteq settled'[t][p]
      <3>1. settled \in [Topics -> [Partitions -> SUBSET Nat]]
        BY <1>0 DEF TypeOK
      <3> QED BY <2>2, <3>1 DEF Settle
    <2> QED BY <2>1, <2>2, SettledStep
  <1> QED BY <1>1, <1>2

\* Every step keeps the copies on every topic addressed right.
LEMMA LogsWellAddressedStep ==
    ASSUME Inv, [Next]_vars
    PROVE  LogsWellAddressed'
  <1> SUFFICES ASSUME NEW t \in Topics, NEW p \in Partitions, NEW i \in 1 .. Len(log'[t][p])
               PROVE  Fits(t, log'[t][p][i])
    BY DEF LogsWellAddressed, Fits
  <1>0. TypeOK /\ log[t][p] \in Seq(Records)
    BY DEF Inv, TypeOK
  <1>1. \A j \in 1 .. Len(log[t][p]) : Fits(t, log[t][p][j])
    BY DEF Inv, LogsWellAddressed
  <1>2. CASE log'[t][p] = log[t][p]
    BY <1>1, <1>2
  <1>3. CASE \E r \in Records : Fits(t, r) /\ log'[t][p] = Append(log[t][p], r)
    <2>1. PICK r \in Records : Fits(t, r) /\ log'[t][p] = Append(log[t][p], r)
      BY <1>3
    <2>2. CASE i \in 1 .. Len(log[t][p])
      BY <1>0, <1>1, <2>1, <2>2
    <2>3. CASE i = Len(log[t][p]) + 1
      BY <1>0, <2>1, <2>3
    <2> QED BY <1>0, <2>1, <2>2, <2>3
  <1> QED BY <1>0, <1>2, <1>3, LogStep, AppendGrows

\* What one worker does leaves every other worker where it was.
LEMMA OthersUntouched ==
    ASSUME TypeOK, NEW w \in Workers, NEW v \in Workers, v # w, Step(w) \/ Control(w)
    PROVE  /\ pc'[v] = pc[v] /\ position'[v] = position[v] /\ hand'[v] = hand[v]
           /\ toFetch'[v] = toFetch[v] /\ outgoing'[v] = outgoing[v]
  <1> USE DEF TypeOK, Goto
  <1>1. ASSUME NEW p \in Partitions,
               PollFetch(w, p) \/ Abandon(w, p) \/ Wait(w, p) \/ Defer(w, p)
        PROVE  /\ pc'[v] = pc[v] /\ position'[v] = position[v] /\ hand'[v] = hand[v]
               /\ toFetch'[v] = toFetch[v] /\ outgoing'[v] = outgoing[v]
    BY <1>1 DEF PollFetch, Abandon, Wait, Defer, PutBack
  <1>2. ASSUME NEW p \in Partitions,
               \/ Duplicate(w, p) \/ Admit(w, p) \/ Invoke(w, p) \/ Return(w, p)
               \/ Succeed(w, p) \/ Send(w, p)
        PROVE  /\ pc'[v] = pc[v] /\ position'[v] = position[v] /\ hand'[v] = hand[v]
               /\ toFetch'[v] = toFetch[v] /\ outgoing'[v] = outgoing[v]
    BY <1>2 DEF Duplicate, Admit, Invoke, Return, Succeed, Send, Settle
  <1>3. ASSUME NEW p \in Partitions, Retry(w, p) \/ DeadLetter(w, p)
        PROVE  /\ pc'[v] = pc[v] /\ position'[v] = position[v] /\ hand'[v] = hand[v]
               /\ toFetch'[v] = toFetch[v] /\ outgoing'[v] = outgoing[v]
    BY <1>3 DEF Retry, DeadLetter, Prepare
  <1>4. CASE Finish(w) \/ PollAssign(w) \/ PollReturn(w) \/ Commit(w)
    BY <1>4 DEF Finish, PollAssign, PollReturn, Commit
  <1>5. CASE Escape(w) \/ PollError(w) \/ StoreError(w) \/ SendError(w) \/ CommitError(w)
    BY <1>5 DEF Escape, PollError, StoreError, SendError, CommitError, Die
  <1>6. CASE Build(w) \/ Close(w) \/ Deliver(w) \/ \E drain \in BOOLEAN : Stop(w, drain)
    BY <1>6 DEF Build, Close, Deliver, Stop
  <1> QED
    BY <1>1, <1>2, <1>3, <1>4, <1>5, <1>6 DEF Step, Control

-----------------------------------------------------------------------------
(* One step, conjunct by conjunct of the invariant.                        *)

\* The numbers the arithmetic below is about.
LEMMA WorkerTypes ==
    ASSUME Inv, NEW w \in Workers, NEW p \in Partitions
    PROVE  /\ hand[w][p].first \in Nat /\ hand[w][p].last \in Nat
           /\ position[w][p] \in Int
           /\ EndOffset(TopicOf[w], p) \in Nat
           /\ CommittedOffset(TopicOf[w], p) \in Nat
           /\ CommittedOffset(TopicOf[w], p) <= EndOffset(TopicOf[w], p)
  <1>1. TypeOK /\ TopicOf[w] \in Topics
    BY TopicsOfWorkers DEF Inv
  <1> QED
    BY <1>1 DEF Inv, TypeOK, Offsets, NoOffset, EndOffset, CommittedOffset, CommittedWithinLogs

\* A worker that does nothing keeps its part of the invariant, whatever the
\* others append, handle or commit.
LEMMA WorkerUntouched ==
    ASSUME Inv, [Next]_vars, NEW w \in Workers,
           pc'[w] = pc[w], position'[w] = position[w], hand'[w] = hand[w],
           toFetch'[w] = toFetch[w], outgoing'[w] = outgoing[w]
    PROVE  WorkerInv(w)'
  <1>1. TopicOf[w] \in Topics
    BY TopicsOfWorkers
  <1>2. \A p \in Partitions :
          /\ EndOffset(TopicOf[w], p) <= EndOffset(TopicOf[w], p)'
          /\ settled[TopicOf[w]][p] \subseteq settled'[TopicOf[w]][p]
    BY <1>1, Growth
  <1>3. \A p \in Partitions : EndOffset(TopicOf[w], p)' \in Nat
    BY <1>1, TypeStep DEF TypeOK, EndOffset
  <1>4. WorkerInv(w)
    BY DEF Inv
  <1>5. WithinLogs(w)'
    BY <1>2, <1>3, <1>4, WorkerTypes DEF WorkerInv, WithinLogs
  <1>6. OutgoingFits(w)'
    BY <1>4 DEF WorkerInv, OutgoingFits, Fits
  <1>7. HandEmptyBetweenBatches(w)'
    BY <1>4 DEF WorkerInv, HandEmptyBetweenBatches, Holds
  <1>8. SettledBelowHand(w)'
    BY <1>2, <1>4 DEF WorkerInv, SettledBelowHand, Holds
  <1>9. SettledBelowPosition(w)'
    BY <1>2, <1>4 DEF WorkerInv, SettledBelowPosition, Live
  <1> QED BY <1>5, <1>6, <1>7, <1>8, <1>9 DEF WorkerInv

\* A copy that is about to be sent, or is with the producer since a send that
\* killed the thread, fits its topic.
LEMMA OutgoingStep ==
    ASSUME Inv, [Next]_vars, NEW w \in Workers, Step(w) \/ Control(w)
    PROVE  OutgoingFits(w)'
  <1>1. TypeOK /\ OutgoingFits(w)
    BY DEF Inv, WorkerInv
  <1>2. ASSUME outgoing'[w] = outgoing[w],
               pc'[w] = pc[w] \/ pc'[w] # "send"
        PROVE  OutgoingFits(w)'
    BY <1>1, <1>2 DEF OutgoingFits, Fits
  <1>3. CASE Finish(w) \/ PollAssign(w) \/ PollReturn(w) \/ Commit(w)
    BY <1>1, <1>2, <1>3 DEF Finish, PollAssign, PollReturn, Commit, Goto, TypeOK
  <1>4. CASE Escape(w) \/ PollError(w) \/ StoreError(w) \/ CommitError(w)
    BY <1>1, <1>2, <1>4 DEF Escape, PollError, StoreError, CommitError, Die, Goto, TypeOK
  <1>5. CASE SendError(w)
    BY <1>1, <1>5 DEF SendError, Die, Goto, TypeOK, OutgoingFits, Fits
  <1>6. ASSUME NEW p \in Partitions,
               \/ PollFetch(w, p) \/ Abandon(w, p) \/ Wait(w, p) \/ Defer(w, p)
               \/ Duplicate(w, p) \/ Admit(w, p) \/ Invoke(w, p) \/ Return(w, p) \/ Succeed(w, p)
        PROVE  OutgoingFits(w)'
    BY <1>1, <1>2, <1>6 DEF PollFetch, Abandon, Wait, Defer, Duplicate, Admit, Invoke, Return,
                            Ready,
                            Succeed, Goto, TypeOK
  <1>7. ASSUME NEW p \in Partitions, NEW topic \in Topics, NEW due \in Nat,
               topic \in ConsumedTopics => ThisAttempt(w, p) < MaxAttempts,
               Holds(w, p), Prepare(w, NextHop(w, p, topic, due))
        PROVE  OutgoingFits(w)'
    <2>1. Fits(topic, NextHop(w, p, topic, due).record) /\ NextHop(w, p, topic, due).topic = topic
      BY <1>7, NextHopType
    <2>2. outgoing'[w] = NextHop(w, p, topic, due) /\ pc'[w] = "send"
      BY <1>1, <1>7 DEF Prepare, Goto, TypeOK
    <2> QED BY <2>1, <2>2 DEF OutgoingFits, Fits
  <1>8. ASSUME NEW p \in Partitions, Retry(w, p)
        PROVE  OutgoingFits(w)'
    <2> DEFINE a == ThisAttempt(w, p)
               topic == RetryTopic(Source, Delays[a])
    <2>1. a \in 1 .. MaxAttempts - 1 /\ now + Delays[a] \in Nat
      <3>1. a \in DOMAIN Delays /\ now \in Nat
        BY <1>1, <1>8 DEF Retry, TypeOK
      <3> QED BY <3>1, PolicyAssumption
    <2>2. topic \in Topics
      BY <1>8, TopologyAssumption DEF Retry, TopicsFor, RetryTopics
    <2>3. Prepare(w, NextHop(w, p, topic, now + Delays[a]))
      BY <1>8, OriginType DEF Retry, IsCurrent
    <2>4. a < MaxAttempts
      BY <2>1, PolicyAssumption
    <2> HIDE DEF topic
    <2> QED BY <1>7, <1>8, <2>1, <2>2, <2>3, <2>4 DEF Retry, IsCurrent
  <1>9. ASSUME NEW p \in Partitions, DeadLetter(w, p)
        PROVE  OutgoingFits(w)'
    <2>1. DlqTopic(Source) \in Topics
      BY TopologyAssumption DEF TopicsFor
    <2>2. Prepare(w, NextHop(w, p, DlqTopic(Source), 0))
      BY <1>9, OriginType DEF DeadLetter, IsCurrent
    <2> QED BY <1>7, <1>9, <2>1, <2>2, TopicsApart DEF DeadLetter, IsCurrent
  <1>10. ASSUME NEW p \in Partitions, Send(w, p)
         PROVE  OutgoingFits(w)'
    BY <1>1, <1>10 DEF Send, Goto, TypeOK, OutgoingFits
  <1>11. CASE Build(w) \/ Deliver(w)
    BY <1>1, <1>11 DEF Build, Deliver, Goto, TypeOK, OutgoingFits
  <1>12. CASE Close(w) \/ \E drain \in BOOLEAN : Stop(w, drain)
    <2>1. pc' = pc /\ outgoing' = outgoing
      BY <1>12 DEF Close, Stop
    <2> QED BY <1>2, <2>1
  <1> QED
    BY <1>3, <1>4, <1>5, <1>6, <1>8, <1>9, <1>10, <1>11, <1>12 DEF Step, Control

\* A worker that acts, or is stopped, closed or built again, keeps its part of
\* the invariant.
LEMMA WorkerStep ==
    ASSUME Inv, [Next]_vars, NEW w \in Workers, Step(w) \/ Control(w)
    PROVE  WorkerInv(w)'
  <1> DEFINE T == TopicOf[w]
  <1>1. TypeOK /\ TypeOK' /\ T \in Topics
    BY TypeStep, TopicsOfWorkers DEF Inv
  <1>2. \A p \in Partitions :
          /\ EndOffset(T, p) <= EndOffset(T, p)'
          /\ settled[T][p] \subseteq settled'[T][p]
    BY <1>1, Growth
  <1>3. \A p \in Partitions : EndOffset(T, p)' \in Nat
    <2>1. log' \in [Topics -> [Partitions -> Seq(Records)]]
      BY <1>1 DEF TypeOK
    <2> HIDE DEF T
    <2>2. \A p \in Partitions : log'[T][p] \in Seq(Records)
      BY <1>1, <2>1
    <2> QED BY <2>2 DEF EndOffset
  <1>4. \A p \in Partitions :
          /\ hand[w][p].first \in Nat /\ hand[w][p].last \in Nat
          /\ position[w][p] \in Int
          /\ EndOffset(T, p) \in Nat
          /\ CommittedOffset(T, p) \in Nat
          /\ CommittedOffset(T, p) <= EndOffset(T, p)
    BY WorkerTypes
  <1>5. WorkerInv(w)
    BY DEF Inv
  <1>6. \A p \in Partitions : \A o \in 0 .. CommittedOffset(T, p) - 1 : o \in settled[T][p]
    BY <1>1 DEF Inv, NothingCommittedUnsettled
  <1>7. OutgoingFits(w)'
    BY OutgoingStep
  <1> HIDE DEF T
  \* Actions that leave the hand and the positions alone.
  <1>10. ASSUME hand' = hand, position' = position, toFetch' = toFetch,
                Live(w)' => Live(w),
                \/ pc'[w] = pc[w]
                \/ pc'[w] \in {"batch", "wait", "admitted", "handler", "returned", "send"}
                \/ pc'[w] = "finished" /\ pc[w] = "idle"
         PROVE  WorkerInv(w)'
    <2>1. WithinLogs(w)'
      BY <1>10, <1>2, <1>3, <1>4, <1>5 DEF WorkerInv, WithinLogs, T
    <2>3. HandEmptyBetweenBatches(w)'
      BY <1>10, <1>5 DEF WorkerInv, HandEmptyBetweenBatches, Holds
    <2>4. SettledBelowHand(w)'
      BY <1>10, <1>2, <1>5 DEF WorkerInv, SettledBelowHand, Holds, T
    <2>5. SettledBelowPosition(w)'
      BY <1>10, <1>2, <1>5 DEF WorkerInv, SettledBelowPosition, T
    <2> QED BY <1>7, <2>1, <2>3, <2>4, <2>5 DEF WorkerInv
  <1>11. CASE Finish(w) \/ Deliver(w) \/ \E drain \in BOOLEAN : Stop(w, drain)
    BY <1>1, <1>10, <1>11 DEF Finish, Deliver, Stop, Goto, Live, TypeOK
  <1>12. ASSUME NEW p \in Partitions, Wait(w, p) \/ Admit(w, p) \/ Invoke(w, p) \/ Return(w, p)
         PROVE  WorkerInv(w)'
    BY <1>1, <1>10, <1>12 DEF Wait, Admit, Invoke, Return, Ready, Goto, Live, TypeOK
  <1>13. ASSUME NEW p \in Partitions, Retry(w, p) \/ DeadLetter(w, p)
         PROVE  WorkerInv(w)'
    BY <1>1, <1>10, <1>13 DEF Retry, DeadLetter, Prepare, Goto, Live, TypeOK
  \* The record in hand is done with.
  <1>16. ASSUME NEW p \in Partitions, Holds(w, p), Settle(w, p),
                Live(w), pc'[w] = "batch", position' = position, toFetch' = toFetch
         PROVE  WorkerInv(w)'
    <2>1. /\ \A q \in Partitions : q # p => hand'[w][q] = hand[w][q]
          /\ hand'[w][p].first = hand[w][p].first + 1
          /\ hand'[w][p].last = hand[w][p].last
          /\ hand[w][p].first \in settled'[T][p]
      <3>1. hand' = [hand EXCEPT ![w][p] = [first |-> @.first + 1, last |-> @.last]]
        BY <1>16 DEF Settle
      <3>2. settled' = [settled EXCEPT ![T][p] = @ \cup {hand[w][p].first}]
        BY <1>16 DEF Settle, T
      <3>3. hand[w][p].first \in settled'[T][p]
        BY <1>1, <3>2 DEF TypeOK
      <3> QED BY <1>1, <3>1, <3>3 DEF TypeOK
    <2>2. WithinLogs(w)'
      BY <1>16, <1>2, <1>3, <1>4, <1>5, <2>1 DEF WorkerInv, WithinLogs, T
    <2>3. HandEmptyBetweenBatches(w)'
      BY <1>16 DEF HandEmptyBetweenBatches
    <2>4. SettledBelowHand(w)'
      BY <1>16, <1>2, <1>4, <1>5, <2>1 DEF WorkerInv, SettledBelowHand, Holds, T
    <2>5. SettledBelowPosition(w)'
      BY <1>16, <1>2, <1>4, <1>5, <2>1 DEF WorkerInv, SettledBelowPosition, T
    <2> QED BY <1>7, <2>2, <2>3, <2>4, <2>5 DEF WorkerInv
  <1>17. ASSUME NEW p \in Partitions, Duplicate(w, p) \/ Succeed(w, p) \/ Send(w, p)
         PROVE  WorkerInv(w)'
    BY <1>1, <1>16, <1>17 DEF Duplicate, Ready, Succeed, Send, IsCurrent, Goto, Live, TypeOK
  \* The record in hand is put back.
  <1>18. ASSUME NEW p \in Partitions, Holds(w, p), PutBack(w, p),
                Live(w), pc'[w] = "batch", toFetch' = toFetch
         PROVE  WorkerInv(w)'
    <2>1. /\ \A q \in Partitions :
                q # p => hand'[w][q] = hand[w][q] /\ position'[w][q] = position[w][q]
          /\ hand'[w][p] = Nothing
          /\ position'[w][p] = hand[w][p].first
      BY <1>1, <1>18 DEF PutBack, TypeOK
    <2>2. WithinLogs(w)'
      BY <1>18, <1>2, <1>3, <1>4, <1>5, <2>1 DEF WorkerInv, WithinLogs, Holds, Nothing, T
    <2>3. HandEmptyBetweenBatches(w)'
      BY <1>18 DEF HandEmptyBetweenBatches
    <2>4. SettledBelowHand(w)'
      BY <1>18, <1>2, <1>4, <1>5, <2>1 DEF WorkerInv, SettledBelowHand, Holds, Nothing, T
    <2>5. SettledBelowPosition(w)'
      BY <1>18, <1>2, <1>4, <1>5, <2>1
         DEF WorkerInv, SettledBelowHand, SettledBelowPosition, T
    <2> QED BY <1>7, <2>2, <2>3, <2>4, <2>5 DEF WorkerInv
  <1>19. ASSUME NEW p \in Partitions, Abandon(w, p) \/ Defer(w, p)
         PROVE  WorkerInv(w)'
    BY <1>1, <1>18, <1>19 DEF Abandon, Defer, IsCurrent, Goto, Live, TypeOK
  \* The hand is empty afterwards.
  <1>20. ASSUME hand'[w] = NothingInHand,
                pc'[w] \in {"idle", "dead"},
                \A p \in Partitions : position'[w][p] <= EndOffset(T, p),
                Live(w)' => \A p \in Partitions :
                    \A o \in 0 .. position'[w][p] - 1 : o \in settled[T][p]
         PROVE  WorkerInv(w)'
    <2>1. \A p \in Partitions : hand'[w][p] = Nothing /\ position'[w][p] \in Int
      <3>1. \A p \in Partitions : position'[w][p] \in Offsets
        BY <1>1 DEF TypeOK
      <3> QED BY <1>20, <3>1 DEF NothingInHand, Offsets, NoOffset
    <2>2. WithinLogs(w)'
      BY <1>2, <1>3, <1>4, <1>20, <2>1 DEF WithinLogs, Nothing, T
    <2>3. HandEmptyBetweenBatches(w)' /\ SettledBelowHand(w)'
      BY <2>1 DEF HandEmptyBetweenBatches, SettledBelowHand, Holds, Nothing
    <2>4. SettledBelowPosition(w)'
      BY <1>2, <1>20 DEF SettledBelowPosition, T
    <2> QED BY <1>7, <2>2, <2>3, <2>4 DEF WorkerInv
  <1>21. CASE Commit(w)
    <2>1. hand'[w] = NothingInHand /\ pc'[w] = "idle" /\ position' = position
      BY <1>1, <1>21 DEF Commit, Goto, TypeOK
    <2>2. \A p \in Partitions : position[w][p] <= EndOffset(T, p)
      BY <1>5 DEF WorkerInv, WithinLogs, T
    <2>3. \A p \in Partitions : ~Holds(w, p)
      BY <1>21 DEF Commit, EmptyHanded
    <2>4. \A p \in Partitions : \A o \in 0 .. position[w][p] - 1 : o \in settled[T][p]
      BY <1>4, <1>5, <1>21, <2>3
         DEF WorkerInv, SettledBelowPosition, Live, Commit, Holds, T
    <2> QED BY <1>20, <2>1, <2>2, <2>4
  <1>22. CASE Escape(w) \/ PollError(w) \/ StoreError(w) \/ SendError(w) \/ CommitError(w)
    <2>1. hand'[w] = NothingInHand /\ pc'[w] = "dead" /\ position' = position
      BY <1>1, <1>22 DEF Escape, PollError, StoreError, SendError, CommitError, Die, Goto, TypeOK
    <2>2. \A p \in Partitions : position[w][p] <= EndOffset(T, p)
      BY <1>5 DEF WorkerInv, WithinLogs, T
    <2> QED BY <1>20, <2>1, <2>2 DEF Live
  <1>23. CASE Build(w)
    <2>1. /\ \A p \in Partitions : position'[w][p] = NoOffset
          /\ pc'[w] = "idle" /\ hand' = hand
      BY <1>1, <1>23 DEF Build, Goto, TypeOK
    <2>2. \A p \in Partitions : ~Holds(w, p)
      BY <1>5, <1>23 DEF WorkerInv, HandEmptyBetweenBatches, Build
    <2>3. WithinLogs(w)'
      BY <1>2, <1>3, <1>4, <1>5, <2>1 DEF WorkerInv, WithinLogs, NoOffset, T
    <2>4. HandEmptyBetweenBatches(w)' /\ SettledBelowHand(w)'
      BY <2>1, <2>2 DEF HandEmptyBetweenBatches, SettledBelowHand, Holds
    <2>5. SettledBelowPosition(w)'
      BY <2>1 DEF SettledBelowPosition, NoOffset
    <2> QED BY <1>7, <2>3, <2>4, <2>5 DEF WorkerInv
  \* Positions are dropped.
  <1>24. ASSUME hand' = hand, Live(w)' => Live(w),
                \A p \in Partitions :
                    position'[w][p] = position[w][p] \/ position'[w][p] = NoOffset
         PROVE  WithinLogs(w)' /\ SettledBelowHand(w)' /\ SettledBelowPosition(w)'
    <2>1. WithinLogs(w)'
      BY <1>2, <1>3, <1>4, <1>5, <1>24 DEF WorkerInv, WithinLogs, NoOffset, T
    <2>2. SettledBelowHand(w)'
      BY <1>2, <1>5, <1>24 DEF WorkerInv, SettledBelowHand, Holds, T
    <2>3. SettledBelowPosition(w)'
      BY <1>2, <1>5, <1>24 DEF WorkerInv, SettledBelowPosition, NoOffset, T
    <2> QED BY <2>1, <2>2, <2>3
  <1>25. CASE Close(w)
    <2>1. /\ \A p \in Partitions : position'[w][p] = NoOffset
          /\ pc' = pc /\ hand' = hand /\ toFetch' = toFetch
      BY <1>1, <1>25 DEF Close, TypeOK
    <2>2. HandEmptyBetweenBatches(w)'
      BY <1>5, <2>1 DEF WorkerInv, HandEmptyBetweenBatches, Holds
    <2>4. WithinLogs(w)' /\ SettledBelowHand(w)' /\ SettledBelowPosition(w)'
      BY <1>24, <2>1 DEF Live
    <2> QED BY <1>7, <2>2, <2>4 DEF WorkerInv
  <1>26. CASE PollAssign(w)
    <2>1. /\ \A p \in Partitions :
                position'[w][p] = position[w][p] \/ position'[w][p] = NoOffset
          /\ pc[w] = "idle" /\ pc'[w] = "poll" /\ hand' = hand
      BY <1>1, <1>26 DEF PollAssign, Goto, TypeOK
    <2>2. HandEmptyBetweenBatches(w)'
      BY <1>5, <2>1 DEF WorkerInv, HandEmptyBetweenBatches, Holds
    <2>3. WithinLogs(w)' /\ SettledBelowHand(w)' /\ SettledBelowPosition(w)'
      BY <1>24, <2>1 DEF Live
    <2> QED BY <1>7, <2>2, <2>3 DEF WorkerInv
  <1>27. ASSUME NEW p \in Partitions, PollFetch(w, p)
         PROVE  WorkerInv(w)'
    <2> DEFINE start == IF position[w][p] = NoOffset
                        THEN CommittedOffset(T, p) ELSE position[w][p]
               there == EndOffset(T, p) - start
               count == IF there < room[w] THEN there ELSE room[w]
    <2>1. /\ pc[w] = "poll" /\ pc' = pc /\ Live(w)
          /\ p \in toFetch[w] /\ toFetch'[w] = toFetch[w] \ {p}
      BY <1>1, <1>27 DEF PollFetch, Live, TypeOK
    <2>2. /\ \A q \in Partitions :
                q # p => hand'[w][q] = hand[w][q] /\ position'[w][q] = position[w][q]
          /\ hand'[w][p] = [first |-> start, last |-> start + count]
          /\ position'[w][p] = start + count
      BY <1>1, <1>27 DEF PollFetch, TypeOK, T
    <2>3. start \in Nat /\ there \in Nat /\ room[w] \in Nat
      <3>1. position[w][p] \in Offsets /\ room[w] \in 0 .. BatchSize
        BY <1>1 DEF TypeOK
      <3>2. position[w][p] <= EndOffset(T, p)
        BY <1>5 DEF WorkerInv, WithinLogs, T
      <3> QED BY <1>4, <3>1, <3>2, WorkersAssumption DEF Offsets, NoOffset
    <2>4. count \in Nat /\ start + count <= EndOffset(T, p)
      BY <1>4, <2>3
    <2>5. ~Holds(w, p)
      BY <1>5, <2>1 DEF WorkerInv, HandEmptyBetweenBatches
    <2>6. \A o \in 0 .. start - 1 : o \in settled[T][p]
      <3>1. CASE position[w][p] = NoOffset
        BY <1>6, <3>1
      <3>2. CASE position[w][p] # NoOffset
        BY <1>4, <1>5, <2>1, <2>5, <3>2 DEF WorkerInv, SettledBelowPosition, Holds, T
      <3> QED BY <3>1, <3>2
    <2> HIDE DEF start, there, count
    <2>7. WithinLogs(w)'
      BY <1>2, <1>3, <1>4, <1>5, <2>2, <2>3, <2>4 DEF WorkerInv, WithinLogs, T
    <2>8. HandEmptyBetweenBatches(w)'
      BY <1>5, <2>1, <2>2 DEF WorkerInv, HandEmptyBetweenBatches, Holds
    <2>9. SettledBelowHand(w)'
      BY <1>2, <1>5, <2>2, <2>6 DEF WorkerInv, SettledBelowHand, Holds, T
    <2>10. SettledBelowPosition(w)'
      BY <1>2, <1>5, <2>1, <2>2, <2>3, <2>4, <2>6 DEF WorkerInv, SettledBelowPosition, T
    <2> QED BY <1>7, <2>7, <2>8, <2>9, <2>10 DEF WorkerInv
  <1>28. CASE PollReturn(w)
    <2>1. /\ pc[w] = "poll" /\ Live(w)
          /\ \A p \in Partitions : \/ position'[w][p] = position[w][p]
                                   \/ position'[w][p] = NoOffset
                                   \/ position'[w][p] = CommittedOffset(T, p)
      BY <1>1, <1>28 DEF PollReturn, Live, TypeOK, T
    <2>2. CASE EmptyHanded(w)
      <3>1. hand'[w] = NothingInHand /\ pc'[w] = "idle"
        BY <1>1, <1>28, <2>2 DEF PollReturn, Goto, TypeOK
      <3>2. \A p \in Partitions : position'[w][p] <= EndOffset(T, p)
        BY <1>4, <1>5, <2>1 DEF WorkerInv, WithinLogs, NoOffset, T
      <3>3. \A p \in Partitions : \A o \in 0 .. position[w][p] - 1 : o \in settled[T][p]
        BY <1>4, <1>5, <2>1, <2>2
           DEF WorkerInv, SettledBelowPosition, EmptyHanded, Holds, T
      <3>4. \A p \in Partitions : \A o \in 0 .. position'[w][p] - 1 : o \in settled[T][p]
        BY <1>6, <2>1, <3>3 DEF NoOffset
      <3> QED BY <1>20, <3>1, <3>2, <3>4
    <2>3. CASE ~EmptyHanded(w)
      <3>1. hand' = hand /\ pc'[w] = "batch"
        BY <1>1, <1>28, <2>3 DEF PollReturn, Goto, TypeOK
      <3>2. WithinLogs(w)'
        BY <1>2, <1>3, <1>4, <1>5, <2>1, <3>1 DEF WorkerInv, WithinLogs, NoOffset, T
      <3>3. HandEmptyBetweenBatches(w)'
        BY <3>1 DEF HandEmptyBetweenBatches
      <3>4. SettledBelowHand(w)'
        BY <1>2, <1>5, <3>1 DEF WorkerInv, SettledBelowHand, Holds, T
      <3>5. SettledBelowPosition(w)'
        BY <1>2, <1>5, <1>6, <2>1, <3>1 DEF WorkerInv, SettledBelowPosition, NoOffset, T
      <3> QED BY <1>7, <3>2, <3>3, <3>4, <3>5 DEF WorkerInv
    <2> QED BY <2>2, <2>3
  <1> QED
    BY <1>11, <1>12, <1>13, <1>17, <1>19, <1>21, <1>22, <1>23, <1>25, <1>26,
       <1>27, <1>28 DEF Step, Control

\* A commit moves an offset to a position below which everything is settled;
\* nothing else moves it, and what is settled stays settled.
LEMMA CommittedInvStep ==
    ASSUME Inv, [Next]_vars
    PROVE  CommittedWithinLogs' /\ NothingCommittedUnsettled'
  <1>1. TypeOK /\ TypeOK'
    BY TypeStep DEF Inv
  <1>2. SUFFICES ASSUME NEW t \in Topics, NEW p \in Partitions
                 PROVE  /\ CommittedOffset(t, p)' <= EndOffset(t, p)'
                        /\ \A o \in 0 .. CommittedOffset(t, p)' - 1 : o \in settled'[t][p]
    BY DEF CommittedWithinLogs, NothingCommittedUnsettled
  <1>3. /\ EndOffset(t, p) <= EndOffset(t, p)'
        /\ settled[t][p] \subseteq settled'[t][p]
    BY Growth
  <1>4. EndOffset(t, p) \in Nat /\ EndOffset(t, p)' \in Nat
    <2>1. log[t][p] \in Seq(Records) /\ log'[t][p] \in Seq(Records)
      BY <1>1 DEF TypeOK
    <2> QED BY <2>1 DEF EndOffset
  <1>5. CommittedOffset(t, p) \in Nat
    BY <1>1 DEF TypeOK, Offsets, CommittedOffset
  <1>6. /\ CommittedOffset(t, p) <= EndOffset(t, p)
        /\ \A o \in 0 .. CommittedOffset(t, p) - 1 : o \in settled[t][p]
    BY DEF Inv, CommittedWithinLogs, NothingCommittedUnsettled
  <1>7. CASE committed'[t][p] = committed[t][p]
    <2>1. CommittedOffset(t, p)' = CommittedOffset(t, p)
      BY <1>7 DEF CommittedOffset
    <2> QED BY <1>3, <1>4, <1>5, <1>6, <2>1
  <1>8. ASSUME NEW w \in Workers, CommitsBatch(w), t = TopicOf[w], position[w][p] # NoOffset,
               committed'[t][p] = position[w][p]
        PROVE  /\ CommittedOffset(t, p)' <= EndOffset(t, p)'
               /\ \A o \in 0 .. CommittedOffset(t, p)' - 1 : o \in settled'[t][p]
    <2>1. CommittedOffset(t, p)' = position[w][p]
      BY <1>8 DEF CommittedOffset
    <2>2. position[w][p] \in Int /\ position[w][p] <= EndOffset(t, p)
      BY <1>8, WorkerTypes DEF Inv, WorkerInv, WithinLogs
    <2>3. Live(w) /\ ~Holds(w, p)
      BY <1>8 DEF CommitsBatch, Live, EmptyHanded
    <2>4. \A o \in 0 .. position[w][p] - 1 : o \in settled[t][p]
      <3>1. hand[w][p].first \in Nat /\ hand[w][p].last \in Nat
        BY WorkerTypes
      <3> QED
        BY <1>8, <2>3, <3>1 DEF Inv, WorkerInv, SettledBelowPosition, Holds
    <2> QED BY <1>3, <1>4, <2>1, <2>2, <2>4
  <1>9. ASSUME NEW w \in Workers, CommitsBatch(w)
        PROVE  \/ committed'[t][p] = committed[t][p]
               \/ /\ t = TopicOf[w] /\ position[w][p] # NoOffset
                  /\ committed'[t][p] = position[w][p]
    BY <1>1, <1>9 DEF CommitsBatch, CommitPositions, TypeOK
  <1> QED BY <1>7, <1>8, <1>9, CommittedStep

\* The invariant holds when the broker is empty and no worker is built.
LEMMA InitInv == Init => Inv
  <1> SUFFICES ASSUME Init
               PROVE  Inv
    OBVIOUS
  <1> USE DEF Init, BrokerInit
  <1>1. TypeOK
    <2>2. room \in [Workers -> 0 .. BatchSize]
      BY WorkersAssumption
    <2> QED BY <2>2, NoMessageType, NothingType DEF TypeOK, Labels, Offsets
  <1>2. \A t \in Topics, p \in Partitions :
            /\ log[t][p] = <<>> /\ EndOffset(t, p) = 0 /\ CommittedOffset(t, p) = 0
    BY DEF EndOffset, CommittedOffset
  <1>3. LogsWellAddressed
    BY <1>2 DEF LogsWellAddressed
  <1>4. CommittedWithinLogs /\ NothingCommittedUnsettled
    BY <1>2 DEF CommittedWithinLogs, NothingCommittedUnsettled
  <1>5. ASSUME NEW w \in Workers
        PROVE  WorkerInv(w)
    <2>1. TopicOf[w] \in Topics
      BY TopicsOfWorkers
    <2>2. \A p \in Partitions : hand[w][p] = Nothing /\ position[w][p] = NoOffset
      BY DEF NothingInHand
    <2>3. WithinLogs(w)
      BY <1>2, <2>1, <2>2 DEF WithinLogs, Nothing, NoOffset
    <2>4. HandEmptyBetweenBatches(w) /\ SettledBelowHand(w)
      BY <2>2 DEF HandEmptyBetweenBatches, SettledBelowHand, Holds, Nothing
    <2>5. SettledBelowPosition(w)
      BY <2>2 DEF SettledBelowPosition, NoOffset
    <2>6. OutgoingFits(w)
      BY DEF OutgoingFits
    <2> QED BY <2>3, <2>4, <2>5, <2>6 DEF WorkerInv
  <1> QED BY <1>1, <1>3, <1>4, <1>5 DEF Inv

\* The invariant is inductive.
LEMMA InvStep ==
    ASSUME Inv, [Next]_vars
    PROVE  Inv'
  <1>1. ASSUME NEW w \in Workers
        PROVE  WorkerInv(w)'
    <2>1. CASE Step(w) \/ Control(w)
      BY <2>1, WorkerStep
    <2>2. ASSUME NEW v \in Workers, v # w, Step(v) \/ Control(v)
          PROVE  WorkerInv(w)'
      <3>1. TypeOK
        BY DEF Inv
      <3>2. /\ pc'[w] = pc[w] /\ position'[w] = position[w] /\ hand'[w] = hand[w]
            /\ toFetch'[w] = toFetch[w] /\ outgoing'[w] = outgoing[w]
        BY <2>2, <3>1, OthersUntouched
      <3> QED BY <3>2, WorkerUntouched
    <2>3. CASE Produce \/ Tick \/ Forget \/ UNCHANGED vars
      <3>1. /\ pc' = pc /\ position' = position /\ hand' = hand
            /\ toFetch' = toFetch /\ outgoing' = outgoing
        BY <2>3 DEF Produce, Tick, Forget, vars, clientVars
      <3> QED BY <3>1, WorkerUntouched
    <2> QED BY <2>1, <2>2, <2>3 DEF Next
  <1> QED
    BY <1>1, TypeStep, LogsWellAddressedStep, CommittedInvStep DEF Inv

-----------------------------------------------------------------------------
(* The theorems.                                                           *)

\* The inductive invariant holds in every reachable state.
THEOREM Invariance == Spec => []Inv
  <1>1. Init => Inv
    BY InitInv
  <1>2. Inv /\ [Next]_vars => Inv'
    BY InvStep
  <1> QED BY <1>1, <1>2, PTL DEF Spec

\* Every variable always has its type.
THEOREM TypeCorrect == Spec => []TypeOK
  <1>1. Inv => TypeOK
    BY DEF Inv
  <1> QED BY <1>1, Invariance, PTL

\* At-least-once: no committed offset is ever past a record that no worker
\* handled (the commit at the end of poll_once, worker.py).
THEOREM AtLeastOnceDelivery == Spec => []NothingCommittedUnsettled
  <1>1. Inv => NothingCommittedUnsettled
    BY DEF Inv
  <1> QED BY <1>1, Invariance, PTL

\* _append is a Grow step of the abstract specification.
LEMMA AppendLengthens ==
    ASSUME TypeOK, NEW t \in Topics, NEW r \in Records, AppendRecord(t, r)
    PROVE  \E q \in Partitions : Promise!Grow(t, q)
  <1> DEFINE p == PartitionForKey(r.key, roundRobin[t])
             lengths == [u \in Topics |-> [q \in Partitions |-> EndOffset(u, q)]]
  <1>1. log' = [log EXCEPT ![t][p] = Append(@, r)]
    BY DEF AppendRecord
  <1>2. p \in Partitions
    BY PartitionType
  <1> HIDE DEF p
  <1>3. \A u \in Topics, q \in Partitions :
            Len(log'[u][q]) = IF u = t /\ q = p THEN Len(log[u][q]) + 1 ELSE Len(log[u][q])
    BY <1>1, <1>2 DEF TypeOK
  <1>4. lengths' = [lengths EXCEPT ![t][p] = @ + 1]
    BY <1>2, <1>3 DEF EndOffset
  <1> QED BY <1>2, <1>4 DEF Promise!Grow

\* An empty broker is an empty log.
LEMMA PromiseInit == Init => Promise!Init
  BY DEF Init, BrokerInit, Promise!Init, EndOffset, CommittedOffset

\* Every step is an arrival, the handling of a record, a safe commit, or a stutter.
LEMMA PromiseStep ==
    ASSUME Inv, [Next]_vars
    PROVE  Promise!Next \/ UNCHANGED Promise!absVars
  <1>0. TypeOK
    BY DEF Inv
  <1> DEFINE lengths == [t \in Topics |-> [p \in Partitions |-> EndOffset(t, p)]]
             offsets == [t \in Topics |-> [p \in Partitions |-> CommittedOffset(t, p)]]
  <1>1. lengths' = lengths \/ \E t \in Topics, p \in Partitions : Promise!Grow(t, p)
    <2>1. CASE UNCHANGED log
      BY <2>1 DEF EndOffset
    <2> QED BY <1>0, <2>1, LogStep, AppendLengthens
  <1>2. CASE UNCHANGED committed
    <2>1. offsets' = offsets
      BY <1>2 DEF CommittedOffset
    <2>2. CASE UNCHANGED settled
      BY <1>1, <2>1, <2>2
         DEF Promise!Next, Promise!Arrive, Promise!absVars
    <2>3. ASSUME NEW w \in Workers, NEW p \in Partitions, Holds(w, p), Settle(w, p)
          PROVE  Promise!Next
      <3>1. TopicOf[w] \in Topics
        BY TopicsOfWorkers
      <3>2. hand[w][p].first \in 0 .. EndOffset(TopicOf[w], p) - 1
        BY <2>3, MessageInLog
      <3>3. settled' = [settled EXCEPT ![TopicOf[w]][p] = @ \cup {hand[w][p].first}]
        BY <2>3 DEF Settle
      <3>4. lengths[TopicOf[w]][p] = EndOffset(TopicOf[w], p)
        BY <3>1
      <3>5. EndOffset(TopicOf[w], p) \in Nat
        BY WorkerTypes
      <3>6. Promise!Handle(TopicOf[w], p, hand[w][p].first)
        BY <1>1, <2>1, <3>2, <3>3, <3>4, <3>5 DEF Promise!Handle
      <3> QED BY <3>1, <3>2, <3>4, <3>6 DEF Promise!Next
    <2> QED BY <2>2, <2>3, SettledStep
  <1>3. ASSUME NEW w \in Workers, CommitsBatch(w)
        PROVE  Promise!Next
    <2>1. TopicOf[w] \in Topics
      BY TopicsOfWorkers
    <2>2. UNCHANGED <<log, settled>> /\ lengths' = lengths
      BY <1>3 DEF CommitsBatch, EndOffset
    <2>3. TypeOK' /\ NothingCommittedUnsettled'
      BY TypeStep, CommittedInvStep
    <2>4. offsets' \in [Topics -> [Partitions -> Nat]]
      BY <2>3 DEF TypeOK, Offsets, CommittedOffset
    <2>5. \A u \in Topics \ {TopicOf[w]} : offsets'[u] = offsets[u]
      BY <1>0, <1>3 DEF CommitsBatch, CommitPositions, TypeOK, CommittedOffset
    <2>6. \A p \in Partitions :
              \A o \in 0 .. offsets'[TopicOf[w]][p] - 1 : o \in settled[TopicOf[w]][p]
      BY <2>1, <2>2, <2>3 DEF NothingCommittedUnsettled
    <2>7. Promise!Commit(TopicOf[w])
      BY <2>2, <2>4, <2>5, <2>6 DEF Promise!Commit
    <2> QED BY <2>1, <2>7 DEF Promise!Next
  <1> QED BY <1>2, <1>3, CommittedStep

\* The worker threads implement the abstract at-least-once log.
THEOREM Refinement == Spec => ImplementsAtLeastOnce
  <1>1. Inv /\ [Next]_vars => [Promise!Next]_(Promise!absVars)
    BY PromiseStep
  <1> QED BY <1>1, PromiseInit, Invariance, PTL DEF Spec, ImplementsAtLeastOnce, Promise!Spec
=============================================================================
