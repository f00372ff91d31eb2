------------------------------- MODULE Worker -------------------------------
(***************************************************************************)
(* worker.py: the threads that run Worker.run, over the in-memory broker   *)
(* of Broker.tla.  Each worker consumes one topic; a failed record is      *)
(* republished to the next retry tier or to the dead-letter topic before   *)
(* its batch is committed.  An action is the code between two points where *)
(* another thread can be seen: a call that takes a lock of the broker or   *)
(* of the idempotency store, a read of the clock or of an event.           *)
(***************************************************************************)
EXTENDS Broker, RetryPolicy

CONSTANTS
    Source,       \* EventService.topic
    MaxAttempts,  \* RetryPolicy.max_attempts
    Delays,       \* RetryPolicy.delays()
    Workers,      \* the worker objects
    TopicOf,      \* Worker.topic
    ClientOf,     \* Worker.client_id
    BatchSize,    \* Worker.batch_size
    Blocking,     \* how poll_once treats a record that is not due: run waits,
                  \* run_until_idle and drain put it back
    Dedupe,       \* TRUE: an idempotency store, FALSE: NullIdempotencyStore
    Failures,     \* how a handler call may fail: see Outcomes
    Faults,       \* what else may go wrong or be asked for: see FaultKinds
    Workload,     \* the records the producers write, in order
    EventNames,   \* values of the x-event-id header
    MaxNow,       \* bound: the clock stops here
    MaxFaults     \* bound: how often a fault occurs

\* "retriable": any Exception.  "permanent": PermanentError.  "escape": a
\* BaseException, which _handle does not catch.
Outcomes == {"retriable", "permanent", "escape"}

\* "poll_error", "send_error", "commit_error": the broker's client raises.
\* "store_error": so does the idempotency store.  "forget": it drops an event.  "drain" and "abandon":
\* Worker.stop is called, with or without drain.  "close": Worker.close is called.
FaultKinds == {"poll_error", "send_error", "commit_error", "store_error", "forget",
               "drain", "abandon", "close"}

ConsumedTopics == {Source} \cup RetryTopics(Source, Delays)

ASSUME PolicyAssumption ==
    /\ MaxAttempts \in Nat \ {0}
    /\ Delays \in [1 .. MaxAttempts - 1 -> Nat]

ASSUME TopologyAssumption == Topics = TopicsFor(Source, Delays)

ASSUME SourceAssumption == Source \in Seq(STRING)

ASSUME WorkersAssumption ==
    /\ TopicOf \in [Workers -> ConsumedTopics]
    /\ ClientOf \in [Workers -> Clients]
    /\ BatchSize \in Nat \ {0}

ASSUME FailuresAssumption ==
    {Dedupe, Blocking} \subseteq BOOLEAN /\ Failures \subseteq Outcomes /\ Faults \subseteq FaultKinds

\* The fleet EventService builds: each topic of the ladder has one worker.
OneWorkerEach == \A v, w \in Workers : TopicOf[v] = TopicOf[w] => v = w

\* "admitted": the store has not seen the event, the handler is not entered yet.
\* "returned": the handler has returned, the event is not marked yet.
Labels == {"absent", "idle", "poll", "batch", "wait", "admitted", "handler",
           "returned", "send", "finished", "dead"}

Offsets == Nat \cup {NoOffset}

\* The values event_id_of can take.
EventIds ==
    {<<e>> : e \in EventNames} \cup {<<k>> : k \in Keys} \cup (Topics \X Nat)

Origins == {Source} \X Partitions \X Nat

Records == [event : EventIds \cup {NoId}, key : Keys \cup {NoKey},
            origin : Origins \cup {NoOrigin},
            attempt : 0 .. MaxAttempts, not_before : Nat]

ASSUME WorkloadAssumption ==
    /\ Workload \in Seq(Records)
    /\ \A i \in 1 .. Len(Workload) :
          Workload[i] = NewRecord(Workload[i].event, Workload[i].key)

ASSUME BoundsAssumption == MaxNow \in Nat /\ MaxFaults \in Nat

VARIABLES
    now,         \* Clock.now()
    marks,       \* the idempotency store: ids of processed events
    settled,     \* history: offsets for which _handle returned
    faults,      \* how many faults there were
    pc,          \* where the thread of each worker is
    stopping,    \* _stopping
    abandoning,  \* _abandoning
    closed,      \* InMemoryConsumer._closed
    position,    \* InMemoryConsumer._positions, NoOffset where absent
    toFetch,     \* partitions of the assignment poll has not come to
    room,        \* max_records - len(fetched)
    hand,        \* the records polled and not yet done with, per partition:
                 \* the offsets first .. last - 1
    outgoing     \* the record a failed handler call is about to send; after a
                 \* send that raised, it may still be with the producer

clientVars == <<pc, stopping, abandoning, closed, position, toFetch, room,
                hand, outgoing>>
vars == <<brokerVars, now, marks, settled, faults, clientVars>>

Nothing == [first |-> 0, last |-> 0]
NothingInHand == [p \in Partitions |-> Nothing]
NoMessage == [topic |-> DlqTopic(Source), record |-> NewRecord(NoId, NoKey)]

Init ==
    /\ BrokerInit
    /\ now = 0
    /\ marks = {}
    /\ settled = [t \in Topics |-> [p \in Partitions |-> {}]]
    /\ faults = 0
    /\ pc = [w \in Workers |-> "absent"]
    /\ stopping = [w \in Workers |-> FALSE]
    /\ abandoning = [w \in Workers |-> FALSE]
    /\ closed = [w \in Workers |-> FALSE]
    /\ position = [w \in Workers |-> [p \in Partitions |-> NoOffset]]
    /\ toFetch = [w \in Workers |-> {}]
    /\ room = [w \in Workers |-> 0]
    /\ hand = [w \in Workers |-> NothingInHand]
    /\ outgoing = [w \in Workers |-> NoMessage]
-----------------------------------------------------------------------------
Holds(w, p) == hand[w][p].first < hand[w][p].last

EmptyHanded(w) == \A p \in Partitions : ~Holds(w, p)

\* The loops of poll_once: partitions in the order poll returned them, each
\* partition's records in offset order.
IsCurrent(w, p) == Holds(w, p) /\ \A q \in Partitions : Holds(w, q) => p <= q

Message(w, p) == RecordAt(TopicOf[w], p, hand[w][p].first)

MessageId(w, p) == EventIdOf(TopicOf[w], hand[w][p].first, Message(w, p))

Due(w, p) == Message(w, p).not_before <= now

Goto(w, label) == pc' = [pc EXCEPT ![w] = label]

\* The record in hand is done with: on to the next of its partition.
Settle(w, p) ==
    /\ settled' = [settled EXCEPT ![TopicOf[w]][p] = @ \cup {hand[w][p].first}]
    /\ hand' = [hand EXCEPT ![w][p] = [first |-> @.first + 1, last |-> @.last]]

\* Faulty variant of PutBack: the seek goes to the record behind the one in hand.
PutBackNext(w, p) ==
    /\ position' = [position EXCEPT ![w][p] = hand[w][p].first + 1]
    /\ hand' = [hand EXCEPT ![w][p] = Nothing]

\* seek to the record in hand and break out of its partition.
PutBack(w, p) ==
    /\ position' = [position EXCEPT ![w][p] = hand[w][p].first]
    /\ hand' = [hand EXCEPT ![w][p] = Nothing]
-----------------------------------------------------------------------------
\* A producer writes the next record of the workload.  Only producers write to
\* the source topic, so its counter says how many they have written.
Produce ==
    /\ roundRobin[Source] < Len(Workload)
    /\ AppendRecord(Source, Workload[roundRobin[Source] + 1])
    /\ UNCHANGED <<committed, members, now, marks, settled, faults, clientVars>>

\* The clock.  Rules only compare a due time with now, so time that passes
\* while no record is waiting for its due time changes nothing: it is left out.
Undue(record) == record.not_before > now

Tick ==
    /\ now < MaxNow
    /\ \/ \E t \in Topics, p \in Partitions :
             \E i \in 1 .. Len(log[t][p]) : Undue(log[t][p][i])
       \/ \E w \in Workers : Undue(outgoing[w].record)
    /\ now' = now + 1
    /\ UNCHANGED <<brokerVars, marks, settled, faults, clientVars>>

\* Faulty variant of Build: the flags of an earlier stop are not cleared.
BuildStillStopping(w) ==
    /\ pc[w] \in {"absent", "finished", "dead"}
    /\ Join(TopicOf[w], ClientOf[w])
    /\ Goto(w, "idle")
    /\ closed' = [closed EXCEPT ![w] = FALSE]
    /\ position' = [position EXCEPT ![w] = [p \in Partitions |-> NoOffset]]
    /\ UNCHANGED <<log, roundRobin, committed, now, marks, settled, faults,
                   stopping, abandoning, toFetch, room, hand, outgoing>>

\* Worker.__post_init__ and the start of the thread: a new object with a new
\* consumer and a new producer, for a worker that never was or whose thread has
\* ended.
Build(w) ==
    /\ pc[w] \in {"absent", "finished", "dead"}
    /\ Join(TopicOf[w], ClientOf[w])
    /\ Goto(w, "idle")
    /\ stopping' = [stopping EXCEPT ![w] = FALSE]
    /\ abandoning' = [abandoning EXCEPT ![w] = FALSE]
    /\ closed' = [closed EXCEPT ![w] = FALSE]
    /\ position' = [position EXCEPT ![w] = [p \in Partitions |-> NoOffset]]
    /\ UNCHANGED <<log, roundRobin, committed, now, marks, settled, faults,
                   toFetch, room, hand, outgoing>>

\* run: leave the loop when asked to stop; the poll of a closed consumer raises.
Finish(w) ==
    /\ pc[w] = "idle"
    /\ stopping[w]
    /\ Goto(w, "finished")
    /\ UNCHANGED <<brokerVars, now, marks, settled, faults, stopping, abandoning,
                   closed, position, toFetch, room, hand, outgoing>>

\* run and poll: the assignment is recomputed and positions of partitions no
\* longer owned are dropped.
PollAssign(w) ==
    /\ pc[w] = "idle"
    /\ ~stopping[w]
    /\ LET owned == Assignment(TopicOf[w], ClientOf[w])
       IN  /\ toFetch' = [toFetch EXCEPT ![w] = owned]
           /\ position' = [position EXCEPT ![w] =
                  [p \in Partitions |-> IF p \in owned THEN @[p] ELSE NoOffset]]
    /\ room' = [room EXCEPT ![w] = BatchSize]
    /\ Goto(w, "poll")
    /\ UNCHANGED <<brokerVars, now, marks, settled, faults, stopping, abandoning,
                   closed, hand, outgoing>>

\* poll: fetch what fits from one partition and advance its position.  The
\* committed offset and the records are read under the lock one after the other
\* in the source, and in one step here.
PollFetch(w, p) ==
    /\ pc[w] = "poll"
    /\ p \in toFetch[w] /\ \A q \in toFetch[w] : p <= q
    /\ room[w] > 0
    /\ LET start == IF position[w][p] = NoOffset
                    THEN CommittedOffset(TopicOf[w], p) ELSE position[w][p]
           there == EndOffset(TopicOf[w], p) - start
           count == IF there < room[w] THEN there ELSE room[w]
       IN  /\ position' = [position EXCEPT ![w][p] = start + count]
           /\ hand' = [hand EXCEPT ![w][p] = [first |-> start, last |-> start + count]]
           /\ room' = [room EXCEPT ![w] = @ - count]
    /\ toFetch' = [toFetch EXCEPT ![w] = @ \ {p}]
    /\ UNCHANGED <<brokerVars, now, marks, settled, faults, pc, stopping,
                   abandoning, closed, outgoing>>

\* _record_lag, after the fetches: Consumer.lag recomputes the assignment, drops
\* and adds positions.  An empty batch ends poll_once without a commit.
PollReturn(w) ==
    /\ pc[w] = "poll"
    /\ toFetch[w] = {} \/ room[w] = 0
    /\ LET owned == Assignment(TopicOf[w], ClientOf[w])
       IN  position' = [position EXCEPT ![w] = [p \in Partitions |->
               IF p \notin owned THEN NoOffset
               ELSE IF @[p] = NoOffset THEN CommittedOffset(TopicOf[w], p)
               ELSE @[p]]]
    /\ toFetch' = [toFetch EXCEPT ![w] = {}]
    /\ room' = [room EXCEPT ![w] = 0]
    /\ IF EmptyHanded(w)
       THEN Goto(w, "idle") /\ hand' = [hand EXCEPT ![w] = NothingInHand]
       ELSE Goto(w, "batch") /\ UNCHANGED hand
    /\ UNCHANGED <<brokerVars, now, marks, settled, faults, stopping, abandoning,
                   closed, outgoing>>
-----------------------------------------------------------------------------
\* Faulty variant of Abandon: the partition is left without the seek.
AbandonWithoutSeek(w, p) ==
    /\ pc[w] = "batch" /\ IsCurrent(w, p)
    /\ abandoning[w]
    /\ hand' = [hand EXCEPT ![w][p] = Nothing]
    /\ UNCHANGED <<brokerVars, now, marks, settled, faults, pc, stopping,
                   abandoning, closed, position, toFetch, room, outgoing>>

\* poll_once: a hard stop gives the rest of the partition back.
Abandon(w, p) ==
    /\ pc[w] = "batch" /\ IsCurrent(w, p)
    /\ abandoning[w]
    /\ PutBack(w, p)
    /\ UNCHANGED <<brokerVars, now, marks, settled, faults, pc, stopping,
                   abandoning, closed, toFetch, room, outgoing>>

\* poll_once: the record is not due yet, and _wait_until blocks.
Wait(w, p) ==
    /\ pc[w] = "batch" /\ IsCurrent(w, p)
    /\ ~abandoning[w]
    /\ Blocking
    /\ ~Due(w, p)
    /\ Goto(w, "wait")
    /\ UNCHANGED <<brokerVars, now, marks, settled, faults, stopping, abandoning,
                   closed, position, toFetch, room, hand, outgoing>>

\* _wait_until returns False, because of a stop or at once when it must not
\* block: the record is put back.
Defer(w, p) ==
    /\ IsCurrent(w, p)
    /\ \/ pc[w] = "wait" /\ stopping[w]
       \/ pc[w] = "batch" /\ ~abandoning[w] /\ ~Blocking /\ ~Due(w, p)
    /\ PutBack(w, p)
    /\ Goto(w, "batch")
    /\ UNCHANGED <<brokerVars, now, marks, settled, faults, stopping, abandoning,
                   closed, toFetch, room, outgoing>>

\* Faulty variant of Ready: a wait that ends is taken for a record that is due.
ReadyAfterAnyWait(w, p) ==
    /\ IsCurrent(w, p)
    /\ pc[w] = "wait" \/ (pc[w] = "batch" /\ ~abandoning[w] /\ Due(w, p))

\* The record is due, at once or after a wait, and goes to _handle.
Ready(w, p) ==
    /\ IsCurrent(w, p)
    /\ pc[w] = "wait" \/ (pc[w] = "batch" /\ ~abandoning[w])
    /\ Due(w, p)

\* _handle: the store has seen the event.
Duplicate(w, p) ==
    /\ Ready(w, p)
    /\ MessageId(w, p) \in marks
    /\ Settle(w, p)
    /\ Goto(w, "batch")
    /\ UNCHANGED <<brokerVars, now, marks, faults, stopping, abandoning, closed,
                   position, toFetch, room, outgoing>>

\* _handle: the store has not seen the event.
Admit(w, p) ==
    /\ Ready(w, p)
    /\ MessageId(w, p) \notin marks
    /\ Goto(w, "admitted")
    /\ UNCHANGED <<brokerVars, now, marks, settled, faults, stopping, abandoning,
                   closed, position, toFetch, room, hand, outgoing>>

\* _handle: the handler is entered, whatever others have marked meanwhile.
Invoke(w, p) ==
    /\ pc[w] = "admitted" /\ IsCurrent(w, p)
    /\ Goto(w, "handler")
    /\ UNCHANGED <<brokerVars, now, marks, settled, faults, stopping, abandoning,
                   closed, position, toFetch, room, hand, outgoing>>

\* _handle: the handler returns.
Return(w, p) ==
    /\ pc[w] = "handler" /\ IsCurrent(w, p)
    /\ Goto(w, "returned")
    /\ UNCHANGED <<brokerVars, now, marks, settled, faults, stopping, abandoning,
                   closed, position, toFetch, room, hand, outgoing>>

\* Faulty variant of Succeed: once a stop is asked for, the event is not marked.
SucceedUnmarked(w, p) ==
    /\ pc[w] = "returned" /\ IsCurrent(w, p)
    /\ marks' = IF Dedupe /\ ~stopping[w] THEN marks \cup {MessageId(w, p)} ELSE marks
    /\ Settle(w, p)
    /\ Goto(w, "batch")
    /\ UNCHANGED <<brokerVars, now, faults, stopping, abandoning, closed, position,
                   toFetch, room, outgoing>>

\* _handle: the event is marked, and the outcome of the record is OK.
Succeed(w, p) ==
    /\ pc[w] = "returned" /\ IsCurrent(w, p)
    /\ marks' = IF Dedupe THEN marks \cup {MessageId(w, p)} ELSE marks
    /\ Settle(w, p)
    /\ Goto(w, "batch")
    /\ UNCHANGED <<brokerVars, now, faults, stopping, abandoning, closed, position,
                   toFetch, room, outgoing>>

\* Faulty variant of ThisAttempt: the tries made before are counted twice.
AttemptCountedTwice(w, p) == 2 * Message(w, p).attempt + 1

\* The tries made before this one (attempt_of), and this one.
ThisAttempt(w, p) == Message(w, p).attempt + 1

\* The next hop of the record in hand, with the due time for it.
NextHop(w, p, topic, notBefore) ==
    [topic |-> topic,
     record |-> FailureHeaders(TopicOf[w], p, hand[w][p].first, Message(w, p),
                               ThisAttempt(w, p), notBefore)]

Prepare(w, message) ==
    /\ outgoing' = [outgoing EXCEPT ![w] = message]
    /\ Goto(w, "send")
    /\ UNCHANGED <<brokerVars, now, marks, settled, faults, stopping, abandoning,
                   closed, position, toFetch, room, hand>>

\* _handle and _retry: the handler raised, and the ladder has another tier.
Retry(w, p) ==
    /\ pc[w] = "handler" /\ IsCurrent(w, p)
    /\ "retriable" \in Failures
    /\ ThisAttempt(w, p) \in DOMAIN Delays
    /\ LET delay  == Delays[ThisAttempt(w, p)]
           source == SourceTopic(TopicOf[w], Message(w, p))
       IN  Prepare(w, NextHop(w, p, RetryTopic(source, delay), now + delay))

\* _handle and _dead_letter: a permanent error, or the ladder is exhausted.
DeadLetter(w, p) ==
    /\ pc[w] = "handler" /\ IsCurrent(w, p)
    /\ \/ "permanent" \in Failures
       \/ "retriable" \in Failures /\ ThisAttempt(w, p) \notin DOMAIN Delays
    /\ LET source == SourceTopic(TopicOf[w], Message(w, p))
       IN  Prepare(w, NextHop(w, p, DlqTopic(source), 0))

\* _retry and _dead_letter: the copy is in its log when send returns.
Send(w, p) ==
    /\ pc[w] = "send" /\ IsCurrent(w, p)
    /\ AppendRecord(outgoing[w].topic, outgoing[w].record)
    /\ Settle(w, p)
    /\ outgoing' = [outgoing EXCEPT ![w] = NoMessage]
    /\ Goto(w, "batch")
    /\ UNCHANGED <<committed, members, now, marks, faults, stopping, abandoning,
                   closed, position, toFetch, room>>

Fault == faults < MaxFaults /\ faults' = faults + 1

\* What becomes of a thread when an exception leaves run: its batch is gone, the
\* consumer with its positions and the producer stay as they are.
Die(w) ==
    /\ Fault
    /\ Goto(w, "dead")
    /\ hand' = [hand EXCEPT ![w] = NothingInHand]
    /\ toFetch' = [toFetch EXCEPT ![w] = {}]
    /\ room' = [room EXCEPT ![w] = 0]
    /\ UNCHANGED <<log, roundRobin, members, now, marks, settled, stopping,
                   abandoning, closed, position, outgoing>>

\* KafkaConsumerAdapter.poll: an error arrives behind records that were taken
\* already, and the exception discards them.
PollError(w) ==
    /\ pc[w] = "poll"
    /\ "poll_error" \in Faults
    /\ Die(w)
    /\ UNCHANGED committed

\* The handler raises something _handle does not catch.
Escape(w) ==
    /\ pc[w] = "handler"
    /\ "escape" \in Failures
    /\ Die(w)
    /\ UNCHANGED committed

\* The idempotency store raises, in seen or in mark.  (A thread that ends between
\* seen and the call for any other reason leaves the same behind.)
StoreError(w) ==
    /\ pc[w] \in {"admitted", "returned"} \/ \E p \in Partitions : Ready(w, p)
    /\ "store_error" \in Faults
    /\ Die(w)
    /\ UNCHANGED committed

\* Faulty variant of SendError: the exception is swallowed, and the record counts
\* as handled.
SendErrorSwallowed(w) ==
    /\ pc[w] = "send"
    /\ "send_error" \in Faults
    /\ Fault
    /\ \E p \in Partitions : IsCurrent(w, p) /\ Settle(w, p)
    /\ outgoing' = [outgoing EXCEPT ![w] = NoMessage]
    /\ Goto(w, "batch")
    /\ UNCHANGED <<brokerVars, now, marks, stopping, abandoning, closed,
                   position, toFetch, room>>

\* send raises, and nobody knows what has become of the copy.
SendError(w) ==
    /\ pc[w] = "send"
    /\ "send_error" \in Faults
    /\ Die(w)
    /\ UNCHANGED committed

\* KafkaProducerAdapter: the copy whose flush timed out is still in the
\* producer's queue, and is written later, or never, whether its worker has been
\* built again or not.  (The next failed call of that worker ends the chance.)
Deliver(w) ==
    /\ pc[w] # "send"
    /\ outgoing[w] # NoMessage
    /\ AppendRecord(outgoing[w].topic, outgoing[w].record)
    /\ outgoing' = [outgoing EXCEPT ![w] = NoMessage]
    /\ UNCHANGED <<committed, members, now, marks, settled, faults, pc, stopping,
                   abandoning, closed, position, toFetch, room, hand>>

\* Faulty variants of Commit: before the batch is done with; of the last record
\* handled instead of the one behind it; not at all once a stop is asked for.
CommitInBatch(w) ==
    /\ pc[w] = "batch"
    /\ committed' = [committed EXCEPT ![TopicOf[w]] = [p \in Partitions |->
           IF position[w][p] = NoOffset THEN @[p] ELSE position[w][p]]]
    /\ IF EmptyHanded(w) THEN Goto(w, "idle") /\ hand' = [hand EXCEPT ![w] = NothingInHand]
                         ELSE UNCHANGED <<pc, hand>>
    /\ UNCHANGED <<log, roundRobin, members, now, marks, settled, faults, stopping,
                   abandoning, closed, position, toFetch, room, outgoing>>

CommitLastHandled(w) ==
    /\ pc[w] = "batch"
    /\ EmptyHanded(w)
    /\ committed' = [committed EXCEPT ![TopicOf[w]] = [p \in Partitions |->
           IF position[w][p] \in {NoOffset, 0} THEN @[p] ELSE position[w][p] - 1]]
    /\ hand' = [hand EXCEPT ![w] = NothingInHand]
    /\ Goto(w, "idle")
    /\ UNCHANGED <<log, roundRobin, members, now, marks, settled, faults, stopping,
                   abandoning, closed, position, toFetch, room, outgoing>>

CommitUnlessStopping(w) ==
    /\ pc[w] = "batch"
    /\ EmptyHanded(w)
    /\ committed' = [committed EXCEPT ![TopicOf[w]] = [p \in Partitions |->
           IF position[w][p] = NoOffset \/ stopping[w] THEN @[p] ELSE position[w][p]]]
    /\ hand' = [hand EXCEPT ![w] = NothingInHand]
    /\ Goto(w, "idle")
    /\ UNCHANGED <<log, roundRobin, members, now, marks, settled, faults, stopping,
                   abandoning, closed, position, toFetch, room, outgoing>>

\* Consumer.commit: every position the consumer holds, whoever owns the
\* partition now.
CommitPositions(w) ==
    committed' = [committed EXCEPT ![TopicOf[w]] = [p \in Partitions |->
        IF position[w][p] = NoOffset THEN @[p] ELSE position[w][p]]]

\* The end of poll_once.
Commit(w) ==
    /\ pc[w] = "batch"
    /\ EmptyHanded(w)
    /\ CommitPositions(w)
    /\ hand' = [hand EXCEPT ![w] = NothingInHand]
    /\ Goto(w, "idle")
    /\ UNCHANGED <<log, roundRobin, members, now, marks, settled, faults, stopping,
                   abandoning, closed, position, toFetch, room, outgoing>>

\* KafkaConsumerAdapter.commit: the commit raises, and may have taken effect.
CommitError(w) ==
    /\ pc[w] = "batch"
    /\ EmptyHanded(w)
    /\ "commit_error" \in Faults
    /\ Die(w)
    /\ CommitPositions(w) \/ UNCHANGED committed

\* The idempotency store drops an event, because its time is over or to make
\* room (Idempotency.tla has when).
Forget ==
    /\ "forget" \in Faults
    /\ Fault
    /\ \E id \in marks : marks' = marks \ {id}
    /\ UNCHANGED <<brokerVars, now, settled, clientVars>>
-----------------------------------------------------------------------------
\* Worker.stop, from another thread.
Stop(w, drain) ==
    /\ pc[w] # "absent"
    /\ (IF drain THEN "drain" ELSE "abandon") \in Faults
    /\ ~stopping[w] \/ (~drain /\ ~abandoning[w])
    /\ Fault
    /\ stopping' = [stopping EXCEPT ![w] = TRUE]
    /\ abandoning' = [abandoning EXCEPT ![w] = @ \/ ~drain]
    /\ UNCHANGED <<brokerVars, now, marks, settled, pc, closed, position,
                   toFetch, room, hand, outgoing>>

\* Worker.close, from another thread: a hard stop, then the consumer leaves the
\* group and forgets its positions.
Close(w) ==
    /\ pc[w] # "absent"
    /\ "close" \in Faults
    /\ ~closed[w]
    /\ Fault
    /\ closed' = [closed EXCEPT ![w] = TRUE]
    /\ stopping' = [stopping EXCEPT ![w] = TRUE]
    /\ abandoning' = [abandoning EXCEPT ![w] = TRUE]
    /\ Leave(TopicOf[w], ClientOf[w])
    /\ position' = [position EXCEPT ![w] = [p \in Partitions |-> NoOffset]]
    /\ UNCHANGED <<log, roundRobin, committed, now, marks, settled, pc,
                   toFetch, room, hand, outgoing>>

\* Not in Next: the same worker goes on with the same consumer, by Worker.reset
\* and run again, or by the next poll_once of a caller that caught the
\* exception.
Rerun(w) ==
    /\ pc[w] \in {"finished", "dead"}
    /\ ~closed[w]
    /\ Goto(w, "idle")
    /\ stopping' = [stopping EXCEPT ![w] = FALSE]
    /\ abandoning' = [abandoning EXCEPT ![w] = FALSE]
    /\ UNCHANGED <<brokerVars, now, marks, settled, faults, closed, position,
                   toFetch, room, hand, outgoing>>
-----------------------------------------------------------------------------
Step(w) ==
    \/ Finish(w) \/ PollAssign(w) \/ PollReturn(w) \/ Commit(w)
    \/ Escape(w) \/ PollError(w) \/ StoreError(w) \/ SendError(w) \/ CommitError(w)
    \/ \E p \in Partitions :
          \/ PollFetch(w, p) \/ Abandon(w, p) \/ Wait(w, p) \/ Defer(w, p)
          \/ Duplicate(w, p) \/ Admit(w, p) \/ Invoke(w, p) \/ Return(w, p)
          \/ Succeed(w, p) \/ Retry(w, p) \/ DeadLetter(w, p) \/ Send(w, p)

Control(w) ==
    Build(w) \/ Close(w) \/ Deliver(w) \/ \E drain \in BOOLEAN : Stop(w, drain)

Next == Produce \/ Tick \/ Forget \/ \E w \in Workers : Step(w) \/ Control(w)

Spec == Init /\ [][Next]_vars
-----------------------------------------------------------------------------
\* Every variable has the type its comment gives it.
TypeOK ==
    /\ log \in [Topics -> [Partitions -> Seq(Records)]]
    /\ roundRobin \in [Topics -> Nat]
    /\ committed \in [Topics -> [Partitions -> Offsets]]
    /\ members \in [Topics -> Seq(Clients)]
    /\ now \in Nat
    /\ faults \in Nat
    /\ marks \subseteq EventIds
    /\ settled \in [Topics -> [Partitions -> SUBSET Nat]]
    /\ pc \in [Workers -> Labels]
    /\ stopping \in [Workers -> BOOLEAN]
    /\ abandoning \in [Workers -> BOOLEAN]
    /\ closed \in [Workers -> BOOLEAN]
    /\ position \in [Workers -> [Partitions -> Offsets]]
    /\ toFetch \in [Workers -> SUBSET Partitions]
    /\ room \in [Workers -> 0 .. BatchSize]
    /\ hand \in [Workers -> [Partitions -> [first : Nat, last : Nat]]]
    /\ outgoing \in [Workers -> [topic : Topics, record : Records]]

\* At-least-once (worker.py, "Committing last is what makes this
\* at-least-once"): whatever crashes, stops, rebalances and late commits
\* happen, no offset below a committed offset was left unhandled.
NothingCommittedUnsettled ==
    \A t \in Topics, p \in Partitions :
        \A o \in 0 .. CommittedOffset(t, p) - 1 : o \in settled[t][p]

\* The same as a specification: the workers, the group and the batches of this
\* module implement AtLeastOnce, when a partition nobody committed counts as
\* committed at 0.
Promise == INSTANCE AtLeastOnce WITH
    length <- [t \in Topics |-> [p \in Partitions |-> EndOffset(t, p)]],
    offset <- [t \in Topics |-> [p \in Partitions |-> CommittedOffset(t, p)]]

ImplementsAtLeastOnce == Promise!Spec
-----------------------------------------------------------------------------
(***************************************************************************)
(* Why at-least-once holds: the inductive invariant.  A live consumer may  *)
(* commit any position it holds, so each must have nothing but settled     *)
(* records below it, except those the worker still has in hand.            *)
(***************************************************************************)
Live(w) == pc[w] \notin {"absent", "finished", "dead"}

\* A record that failed names the source topic as its origin, and one that can
\* still be tried was tried less than max_attempts times.
Fits(t, record) ==
    /\ record.origin = NoOrigin => t = Source
    /\ t \in ConsumedTopics => record.attempt < MaxAttempts

LogsWellAddressed ==
    \A t \in Topics, p \in Partitions :
        \A i \in 1 .. Len(log[t][p]) : Fits(t, log[t][p][i])

CommittedWithinLogs ==
    \A t \in Topics, p \in Partitions : CommittedOffset(t, p) <= EndOffset(t, p)

\* The offsets a worker holds point into its logs.
WithinLogs(w) ==
    \A p \in Partitions :
        /\ position[w][p] <= EndOffset(TopicOf[w], p)
        /\ hand[w][p].last <= EndOffset(TopicOf[w], p)

\* A batch lives from the fetch to the commit.
HandEmptyBetweenBatches(w) ==
    \A p \in Partitions :
        \/ pc[w] \in {"absent", "idle", "finished", "dead"}
        \/ pc[w] = "poll" /\ p \in toFetch[w]
        => ~Holds(w, p)

\* Below the record in hand, everything is settled.
SettledBelowHand(w) ==
    \A p \in Partitions :
        Holds(w, p) =>
            \A o \in 0 .. hand[w][p].first - 1 : o \in settled[TopicOf[w]][p]

\* Below a position, everything is settled or in hand.
SettledBelowPosition(w) ==
    \A p \in Partitions :
        Live(w) =>
            \A o \in 0 .. position[w][p] - 1 :
                \/ o \in settled[TopicOf[w]][p]
                \/ o \in hand[w][p].first .. hand[w][p].last - 1

\* A copy that is about to be sent, or may still be written, fits its topic.
OutgoingFits(w) ==
    pc[w] = "send" \/ outgoing[w] # NoMessage => Fits(outgoing[w].topic, outgoing[w].record)

WorkerInv(w) ==
    /\ WithinLogs(w)
    /\ OutgoingFits(w)
    /\ HandEmptyBetweenBatches(w)
    /\ SettledBelowHand(w)
    /\ SettledBelowPosition(w)

Inv ==
    /\ TypeOK
    /\ LogsWellAddressed
    /\ CommittedWithinLogs
    /\ NothingCommittedUnsettled
    /\ \A w \in Workers : WorkerInv(w)
=============================================================================
