---------------------------- MODULE Cooperative ----------------------------
(***************************************************************************)
(* The cooperative mode: one thread drives the workers of Worker.tla with  *)
(* poll_once(blocking=False), round after round.  EventService.            *)
(* run_until_idle polls the whole fleet and sleeps when all that is left   *)
(* is not due yet; Worker.drain polls one worker and does not sleep.       *)
(* Producers, the clock and the idempotency store go on beside the thread. *)
(***************************************************************************)
EXTENDS Worker

CONSTANTS
    Fleet,      \* EventService.workers
    IdleRounds  \* idle_rounds of each call

Calls == {"run", "drain"}

ASSUME FleetAssumption ==
    /\ Fleet \in Seq(Workers) /\ Range(Fleet) = Workers /\ Fleet # <<>>
    /\ \A i, j \in 1 .. Len(Fleet) : Fleet[i] = Fleet[j] => i = j
    /\ IdleRounds \in [Calls -> Nat \ {0}]

ASSUME CooperativeAssumption == ~Blocking

NoDue == -1

VARIABLES
    place,  \* "new" while the fleet is built, "poll" in a turn of poll_once,
            \* "decide" between rounds, "asleep", and then how the call ended
    call,   \* which call it is, or was
    crew,   \* the workers it polls
    turn,   \* whose turn it is
    busy,   \* handled > 0 in this round
    idle,   \* rounds in a row in which nothing was handled
    dueAt,  \* Worker._pending_due_at
    wake,   \* when the sleep ends (0 while awake)
    ends,   \* history: the end offsets when the round began
    began,  \* history: the time when the round began
    cut     \* history: in this round a batch was full before its poll had come
            \* to every partition

callVars == <<call, crew, turn, busy, idle, dueAt, wake, ends, began, cut>>
coopVars == <<place, callVars>>
cvars == <<vars, coopVars>>

EndOffsets == [t \in Topics |-> [p \in Partitions |-> EndOffset(t, p)]]

CInit ==
    /\ Init
    /\ place = "new"
    /\ call = "run" /\ crew = Fleet
    /\ turn = 1 /\ busy = FALSE /\ idle = 0
    /\ dueAt = [w \in Workers |-> NoDue]
    /\ wake = 0
    /\ ends = EndOffsets
    /\ began = 0
    /\ cut = FALSE

Current == crew[turn]

\* poll_once returns: the next worker's turn, or the end of the round.
Advance ==
    IF turn < Len(crew) THEN turn' = turn + 1 /\ UNCHANGED place
                        ELSE place' = "decide" /\ UNCHANGED turn

\* Faulty variant of StartRound: what earlier rounds handled counts for this one.
StartRoundStillBusy ==
    /\ place' = "poll"
    /\ turn' = 1
    /\ busy' = busy
    /\ ends' = EndOffsets
    /\ began' = now
    /\ cut' = FALSE

\* A round of the whole crew begins.
StartRound ==
    /\ place' = "poll"
    /\ turn' = 1
    /\ busy' = FALSE
    /\ ends' = EndOffsets
    /\ began' = now
    /\ cut' = FALSE
-----------------------------------------------------------------------------
\* EventService.__post_init__ builds one worker after the other.
Construct ==
    /\ place = "new"
    /\ Build(Fleet[turn])
    /\ IF turn < Len(Fleet) THEN turn' = turn + 1 /\ UNCHANGED place
                            ELSE place' = "returned" /\ turn' = 1
    /\ UNCHANGED <<call, crew, busy, idle, dueAt, wake, ends, began, cut>>

\* run_until_idle of the service, or drain of one of its workers, is called.
Begin(kind, workers) ==
    /\ place = "returned"
    /\ StartRound
    /\ call' = kind /\ crew' = workers
    /\ idle' = 0
    /\ UNCHANGED <<vars, dueAt, wake>>

CallRun == Begin("run", Fleet)

CallDrain(w) == Begin("drain", <<w>>)
-----------------------------------------------------------------------------
\* poll_once: forget the due time of the last poll, and poll.
Poll ==
    /\ place = "poll"
    /\ PollAssign(Current)
    /\ dueAt' = [dueAt EXCEPT ![Current] = NoDue]
    /\ UNCHANGED <<place, call, crew, turn, busy, idle, wake, ends, began, cut>>

\* What poll_once does that the scheduler does not see.
Within ==
    /\ place = "poll"
    /\ \E p \in Partitions :
          \/ PollFetch(Current, p)
          \/ Admit(Current, p) \/ Invoke(Current, p) \/ Return(Current, p)
          \/ Retry(Current, p) \/ DeadLetter(Current, p)
    /\ UNCHANGED coopVars

Fetched ==
    /\ place = "poll"
    /\ PollReturn(Current)
    /\ IF EmptyHanded(Current) THEN Advance ELSE UNCHANGED <<place, turn>>
    /\ cut' = (cut \/ toFetch[Current] # {})
    /\ UNCHANGED <<call, crew, busy, idle, dueAt, wake, ends, began>>

\* Faulty variants of PutOff: the due time is not kept; the last one is kept
\* instead of the earliest.
PutOffUnnoticed ==
    /\ place = "poll"
    /\ \E p \in Partitions : Defer(Current, p)
    /\ UNCHANGED coopVars

PutOffLast ==
    /\ place = "poll"
    /\ \E p \in Partitions :
          /\ Defer(Current, p)
          /\ dueAt' = [dueAt EXCEPT ![Current] = Message(Current, p).not_before]
    /\ UNCHANGED <<place, call, crew, turn, busy, idle, wake, ends, began, cut>>

\* poll_once: the head of a partition is not due; it is put back, and the
\* earliest due time of the batch is kept (_defer_until).
PutOff ==
    /\ place = "poll"
    /\ \E p \in Partitions :
          LET due == Message(Current, p).not_before
          IN  /\ Defer(Current, p)
              /\ dueAt' = [dueAt EXCEPT ![Current] =
                              IF @ = NoDue \/ due < @ THEN due ELSE @]
    /\ UNCHANGED <<place, call, crew, turn, busy, idle, wake, ends, began, cut>>

\* A record was handled, whatever came of it.
Handled ==
    /\ place = "poll"
    /\ \E p \in Partitions :
          Duplicate(Current, p) \/ Succeed(Current, p) \/ Send(Current, p)
    /\ busy' = TRUE
    /\ UNCHANGED <<place, call, crew, turn, idle, dueAt, wake, ends, began, cut>>

Committed ==
    /\ place = "poll"
    /\ Commit(Current)
    /\ Advance
    /\ UNCHANGED <<call, crew, busy, idle, dueAt, wake, ends, began, cut>>

\* An exception leaves poll_once, and with it the call.
Raise ==
    /\ place = "poll"
    /\ \/ PollError(Current) \/ Escape(Current) \/ StoreError(Current)
       \/ SendError(Current) \/ CommitError(Current)
    /\ place' = "raised"
    /\ UNCHANGED callVars
-----------------------------------------------------------------------------
DueTimes == {dueAt[w] : w \in Workers} \ {NoDue}

\* Something was handled: another round.
Continue ==
    /\ place = "decide"
    /\ busy
    /\ StartRound
    /\ idle' = 0
    /\ UNCHANGED <<vars, call, crew, dueAt, wake>>

\* run_until_idle: nothing was handled and records were put back: sleep until
\* the first of them is due.
Sleep ==
    /\ place = "decide"
    /\ ~busy
    /\ call = "run"
    /\ \E first \in DueTimes : (\A due \in DueTimes : first <= due) /\ wake' = first
    /\ place' = "asleep"
    /\ idle' = 0
    /\ UNCHANGED <<vars, call, crew, turn, busy, dueAt, ends, began, cut>>

Wake ==
    /\ place = "asleep"
    /\ now >= wake
    /\ wake' = 0
    /\ StartRound
    /\ UNCHANGED <<vars, call, crew, idle, dueAt>>

NothingToDo == place = "decide" /\ ~busy /\ (call = "drain" \/ DueTimes = {})

\* Faulty variant of Retreat: one round too many.
RetreatLate ==
    /\ NothingToDo
    /\ idle' = idle + 1
    /\ IF idle' <= IdleRounds[call]
       THEN StartRound
       ELSE place' = "returned" /\ UNCHANGED <<turn, busy, ends, began, cut>>
    /\ UNCHANGED <<vars, call, crew, dueAt, wake>>

\* Nothing was handled: try again, or give up.
Retreat ==
    /\ NothingToDo
    /\ idle' = idle + 1
    /\ IF idle' < IdleRounds[call]
       THEN StartRound
       ELSE place' = "returned" /\ UNCHANGED <<turn, busy, ends, began, cut>>
    /\ UNCHANGED <<vars, call, crew, dueAt, wake>>

\* run_until_idle is called once more after it raised: the worker that was
\* polled goes on with the positions its consumer has.
Resume ==
    /\ place = "raised"
    /\ Rerun(Current)
    /\ StartRound
    /\ call' = "run" /\ crew' = Fleet
    /\ idle' = 0
    /\ UNCHANGED <<dueAt, wake>>
-----------------------------------------------------------------------------
Scheduler ==
    \/ Construct
    \/ Poll \/ Within \/ Fetched \/ PutOff \/ Handled \/ Committed \/ Raise
    \/ Continue \/ Sleep \/ Wake \/ Retreat

Surroundings ==
    /\ Produce \/ Tick \/ Forget \/ \E w \in Workers : Deliver(w)
    /\ UNCHANGED coopVars

CNext == Scheduler \/ CallRun \/ (\E w \in Workers : CallDrain(w)) \/ Surroundings

CSpec == CInit /\ [][CNext]_cvars

\* The thread in the call is scheduled, and time passes.
CFairSpec ==
    CSpec /\ WF_cvars(Scheduler) /\ WF_cvars(Tick /\ UNCHANGED coopVars)

ResumeSpec == CInit /\ [][CNext \/ Resume]_cvars
-----------------------------------------------------------------------------
(***************************************************************************)
(* The properties.  A poll fills its batch from the first partition.  What *)
(* it has no room for (cut) is neither handled nor asked for its due time: *)
(* SleepMissesNothing, and ReturnMeansDone for drain, promise nothing for  *)
(* such a round.                                                           *)
(***************************************************************************)

\* The variables of the scheduler have the types their comments give them.
CTypeOK ==
    /\ place \in {"new", "poll", "decide", "asleep", "returned", "raised"}
    /\ call \in Calls
    /\ crew \in {Fleet} \cup {<<w>> : w \in Workers}
    /\ turn \in 1 .. Len(crew)
    /\ busy \in BOOLEAN
    /\ idle \in 0 .. IdleRounds[call]
    /\ dueAt \in [Workers -> Nat \cup {NoDue}]
    /\ wake \in Nat
    /\ ends \in [Topics -> [Partitions -> Nat]]
    /\ began \in Nat
    /\ cut \in BOOLEAN

\* run_until_idle returns only when the whole ladder is done: whatever was on a
\* consumed topic when its last round began is committed, each failure followed
\* to its end.  drain leaves at most records behind a head that is not due.
ReturnMeansDone ==
    place = "returned" =>
        \A t \in {TopicOf[w] : w \in Range(crew)}, p \in Partitions :
            \/ CommittedOffset(t, p) >= ends[t][p]
            \/ /\ call = "drain"
               /\ cut \/ RecordAt(t, p, CommittedOffset(t, p)).not_before > began

\* Nothing that was on a consumed topic when the round began is due before the
\* sleep ends.
NothingDueInSleep ==
    \A t \in ConsumedTopics, p \in Partitions :
        \A o \in CommittedOffset(t, p) .. ends[t][p] - 1 :
            RecordAt(t, p, o).not_before >= wake

\* worker.py:139, pending_due_at: "if every worker is idle and one is holding a
\* record until t, there is nothing to do until t": the scheduler sleeps past
\* nothing, unless a batch was full before its poll came to every partition.
SleepMissesNothing == place = "asleep" /\ ~cut => NothingDueInSleep

\* The same without the exception, as the comment has it.  A batch that is too
\* small refutes it (MCOversleep.cfg).
EverySleepMissesNothing == place = "asleep" => NothingDueInSleep

\* A call comes to an end: the scheduler neither spins on a due time that has
\* passed nor sleeps forever, and every retry of a finite workload ends.
CallsEnd == place = "poll" ~> place \in {"returned", "raised"}
-----------------------------------------------------------------------------
(***************************************************************************)
(* Why they hold, when each topic has one worker: the inductive invariant. *)
(* That worker has every partition, no other commits for it, and what it   *)
(* has answered for in a round stays answered for until the next.          *)
(***************************************************************************)
EveryTopicServed == \A t \in ConsumedTopics : \E w \in Workers : TopicOf[w] = t

Begins(w, p) == CommittedOffset(TopicOf[w], p)

HeadDue(w, p) == RecordAt(TopicOf[w], p, Begins(w, p)).not_before

InBatch == {"batch", "admitted", "handler", "returned", "send"}

\* Only the worker whose turn it is does anything.
TurnsTaken ==
    /\ place = "new" => \A i \in 1 .. Len(Fleet) : pc[Fleet[i]] = "absent" <=> i >= turn
    /\ \A w \in Workers :
          \/ place = "raised"
          \/ place = "new" /\ pc[w] \in {"absent", "idle"}
          \/ place # "new" /\ pc[w] = "idle"
          \/ place = "poll" /\ w = Current /\ pc[w] \in {"poll"} \cup InBatch

\* A worker is the only member of its group from when it is built.
SoleMembers ==
    \A w \in Workers :
        members[TopicOf[w]] = IF pc[w] = "absent" THEN <<>> ELSE <<ClientOf[w]>>

\* Where a poll goes on is where the group begins to read.
PositionsCommitted ==
    \A w \in Workers, p \in Partitions :
        \/ pc[w] = "idle"
        \/ pc[w] = "poll" /\ p \in toFetch[w]
        => position[w][p] \in {NoOffset, Begins(w, p)}

\* A poll that came to a partition took something, or was at its end.
Fetches(w) ==
    /\ room[w] < BatchSize => ~EmptyHanded(w)
    /\ \A p \in Partitions \ toFetch[w] :
          /\ hand[w][p].first = Begins(w, p)
          /\ hand[w][p].last = position[w][p]
          /\ hand[w][p].first <= hand[w][p].last
          /\ Holds(w, p) \/ position[w][p] >= ends[TopicOf[w]][p]

\* A partition that needs no more of this round: it was read to its end, there
\* was no room for it, or its head is not due and the scheduler will hear of it.
Answered(w, p) ==
    \/ Begins(w, p) >= ends[TopicOf[w]][p]
    \/ cut
    \/ dueAt[w] # NoDue /\ began < HeadDue(w, p) /\ dueAt[w] <= HeadDue(w, p)

\* While nothing was handled, a batch holds what was polled or has put it back.
PutsBack(w) ==
    /\ EmptyHanded(w) => dueAt[w] # NoDue
    /\ \A p \in Partitions :
          IF Holds(w, p) THEN hand[w][p].first = Begins(w, p)
          ELSE position[w][p] = Begins(w, p) /\ Answered(w, p)

\* A worker whose turn is over.
Finished(w) ==
    \A p \in Partitions :
        /\ Answered(w, p)
        /\ dueAt[w] = NoDue => Begins(w, p) >= ends[TopicOf[w]][p]

\* What a round without a record handled has found out so far.
RoundTrue ==
    /\ \A t \in Topics, p \in Partitions : ends[t][p] <= EndOffset(t, p)
    /\ began <= now
    /\ \A w \in Workers :
          /\ pc[w] = "poll" => Fetches(w)
          /\ pc[w] \in InBatch /\ ~busy => PutsBack(w)
    /\ place # "raised" /\ ~busy =>
          \A i \in 1 .. Len(crew) :
              (place = "poll" => i < turn) => Finished(crew[i])

\* What the scheduler knows where it stands.
PlaceTrue ==
    /\ call = "run" => crew = Fleet
    /\ place \in {"new", "asleep", "returned"} => ~busy
    /\ place = "asleep" => call = "run" /\ \A w \in Workers : dueAt[w] = NoDue \/ wake <= dueAt[w]
    /\ place = "new" \/ (place = "returned" /\ call = "run") =>
          \A w \in Workers : dueAt[w] = NoDue
    /\ place = "new" => call = "run" /\ \A t \in Topics, p \in Partitions : ends[t][p] = 0

\* The records of a retry tier are in the order of their due times, and those of
\* the source topic have none.
TiersInOrder ==
    \A t \in ConsumedTopics, p \in Partitions :
        /\ \A i, j \in 1 .. Len(log[t][p]) :
              i < j => log[t][p][i].not_before <= log[t][p][j].not_before
        /\ \A i \in 1 .. Len(log[t][p]) :
              /\ t = Source => log[t][p][i].not_before = 0
              /\ \A n \in DOMAIN Delays :
                    t = RetryTopic(Source, Delays[n]) =>
                        log[t][p][i].not_before <= now + Delays[n]

\* So is the copy that is about to be sent.
NextInOrder ==
    \A w \in Workers :
        pc[w] = "send" /\ outgoing[w].topic \in ConsumedTopics =>
            /\ outgoing[w].topic # Source
            /\ \A p \in Partitions : \A i \in 1 .. Len(log[outgoing[w].topic][p]) :
                  log[outgoing[w].topic][p][i].not_before <= outgoing[w].record.not_before
            /\ \A n \in DOMAIN Delays :
                  outgoing[w].topic = RetryTopic(Source, Delays[n]) =>
                      outgoing[w].record.not_before <= now + Delays[n]

\* No copy is left with a producer.
NothingLeft == \A w \in Workers : outgoing[w] # NoMessage => pc[w] = "send"

RoundInv ==
    /\ TurnsTaken /\ SoleMembers /\ PositionsCommitted
    /\ RoundTrue /\ PlaceTrue
    /\ place # "raised" => TiersInOrder /\ NextInOrder /\ NothingLeft
=============================================================================
