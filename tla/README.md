# Verification of the event service

TLA+ specifications of the event service in `src/src/eventsvc`: a fleet of worker threads
that consume a topic at least once, push failures up a ladder of retry topics and into a
dead-letter topic, and are started, drained and replayed from outside. TLC checks the modules
on small instances; what matters most (at-least-once delivery in both modes of running the workers, no event lost, concluded twice,
tried too often or too early, or multiplied by replays, the cooperative rounds, group ownership and balance, the shutdown, the lag gauges, the idempotency store) is proved with TLAPS for every value of the constants.

Paths below are relative to `src/src/eventsvc/`.

## 1. Inventory

| Component | State it keeps | Operations | Interacts with | What makes it correct |
|---|---|---|---|---|
| Worker, `worker.py` | two flags (`_stopping`, `_abandoning`), the batch in hand, the record about to be republished, the earliest due time put off (`_pending_due_at`) | poll, wait for a due time or put back, handle, retry, dead-letter, commit, stop, close, reset, drain | calls the consumer, producer, idempotency store and clock; is called by `EventService` from other threads | commits nothing unhandled, loses no event, at most `max_attempts` calls, none before its delay |
| In-memory broker, `memory.py` | logs, committed offsets, members per group and topic; per consumer its positions | append, fetch, commit, join, leave, assign, seek | every component, under one lock per call | each partition has one owner; positions follow assignment |
| Retry policy, `retry.py` | none | delays, tier and topic names | worker, service | tiers and attempts agree |
| Envelope, `envelope.py` | headers of a record | identity, attempt, origin, due time, replay | worker, DLQ | identity and origin survive every copy |
| Idempotency store, `idempotency.py` | ids with expiry, by last use | seen, mark, evict | workers, under its lock | no id outlives its ttl, recent ids survive, bounded |
| Service and lifecycle, `service.py`, `lifecycle.py` | list of threads, `_stopped`, signal event | start, run_forever, stop, signal handlers; run_until_idle without threads | starts, stops, joins and closes the workers, or polls them in turn | stop returns in time, its report is true, a running batch keeps its consumer; a cooperative call ends, and only when all is done |
| Lag exporter, `lag.py` | gauges, a thread, a stop event | snapshot, publish, run, start, stop | reads the broker's metadata | invents no lag, reports for a dead group, its loop ends when stopped |
| Dead-letter queue, `dlq.py` | none (reads the topic) | entries, matching, replay | broker; the workers receive what it sends | replays are fresh deliveries, copies are conserved |
| Kafka adapter, `kafka.py` | the client objects of `confluent_kafka` | the calls of the in-memory broker, which may raise here | worker, lag exporter | a call that raises costs a second delivery at most |
| Command line `cli.py`, demo data `samples.py`, metrics, types, errors | - | parsing, formatting, counters | - | not modelled, see section 8 |

The hard behaviours: several threads over one broker lock, with code between the calls;
rebalances while a batch is in hand and late commits after them; threads that die with
positions ahead of what they handled; polls, sends and commits that raise before or after they took
effect, and copies written later than the send that raised; a caller that goes on after an exception;
an idempotency store that drops an event while its copies travel; stops, hard
stops and closes at every point of a batch; due times of several partitions and workers behind one sleep; a head record that is not due yet; shutdown under
one deadline with handlers that hang; signals during the drain; metadata read in two steps.
`PROJECT.json` lists them as hazards, each at its line and with the properties that cover it.

## 2. Modules

```
 RetryPolicy   Envelope
      \           |
       \        Broker ------------- Group ---- BrokerProofs
        \         |   \
         \        |    LagExporter ----------- LagExporterProofs
          \       |
           `--- Worker ---- AtLeastOnce        Service ------ ServiceProofs
               /  |   \  (refinement)          Idempotency -- IdempotencyProofs
      Delivery    |    Cooperative
        / |    WorkerProofs     |
       /  |     |      `-- CooperativeProofs
      /  DeliveryProofs -- OnceProofs
  DeadLetterQueue -------'
```

| Module | Models | Grain |
|---|---|---|
| `RetryPolicy` | `retry.py`: delays, topics | operators; seconds are integers, topic names sequences |
| `Envelope` | `envelope.py`: the five headers some rule reads | operators on records |
| `Broker` | `memory.py`: logs, round robin and key partitioner, commits, membership, range assignment | one operator per locked operation |
| `Group` | subscribe and close alone | one action each |
| `Worker` | `worker.py` and the consumer of `memory.py`, with what `kafka.py` may raise | one action per stretch of code between two lock acquisitions or reads of clock and flags |
| `Cooperative` | `poll_once(blocking=False)`, `pending_due_at` and `drain` of `worker.py`, `run_until_idle` of `service.py` | the actions of `Worker`, each with what it means to the one thread that polls the fleet |
| `AtLeastOnce` | the abstract promise: logs that grow, records handled any number of times, an offset that never passes an unhandled record | - |
| `Delivery` | the workers observed per event: number of calls, of successes, the time of the last failure; the inductive invariant `DInv` | history variables only |
| `DeadLetterQueue` | `dlq.py` beside the workers | one action per record sent |
| `Service` | `service.py` (threaded mode), `lifecycle.py` | one action per worker reset, started, stopped, joined, closed |
| `Idempotency` | `idempotency.py` | one action per operation (each holds the lock throughout) |
| `LagExporter` | `lag.py` over `Broker` | one action per metadata call |

How state corresponds: `pc[w]` is where the thread of worker `w` is (`absent` before it exists,
`idle` at the head of `run`, `poll` inside `Consumer.poll`, `batch` between two records, `wait`
in `_wait_until`, `admitted` when the store has answered that it has not seen the event, `handler` in the handler,
`returned` when the handler has returned and the event is not marked yet, `send` in `Producer.send`, `finished`, `dead`);
`hand[w][p]` is the part of the batch of partition `p` not yet done with, as an interval of
offsets; `position` is `_positions`, with `NoOffset` for a missing entry; `outgoing` the copy
`_retry` has prepared, after it read the clock and before `send` takes the lock, or that a `send`
which raised has left with the producer (`Deliver` writes it later, also after the worker was built again). `settled` is
history: the offsets for which `_handle` returned. In `Cooperative` `place` is where the thread is between and in its
calls, `turn` whose turn it is, `busy` and `idle` are `handled > 0` and `idle` of the loop, `dueAt` is `_pending_due_at`;
`ends` and `began` (the logs and the time when the round began) and `cut` (a batch was full too early) are history. In `Service` `at[c]` is the place of a caller
in `start`, `run_forever` or `stop`, `next[c]` the index of its loop, `joins[c]` the thread it is joining, `stuck[c]` its stragglers.
`start` lists a thread (`StartAppend`) before it starts it (`StartThread`); a stop from another thread that comes
upon it in between is left by `RuntimeError` (`JoinRaises`), with nothing closed and nothing reported. A stop that waits in a
join keeps its thread when another one clears the list.
Definitions called "Faulty variant of X" are plausible bugs in X. No specification uses them;
each shows that some property would notice.

Abstractions worth knowing. Time is an integer that only matters to due times and expiries.
In `Worker` it stands still while no record is waiting for one. The idempotency
store of `Worker` may drop any event at any time (`Forget`), which covers expiry and eviction as
`Idempotency` has them, or is absent. `Blocking` says which mode of `poll_once` a specification runs:
`Wait` and its outcomes are the threads', `Defer` is the cooperative one's. The nudge of `1e-6` seconds by which
`run_until_idle` oversleeps is below the grain of the clock, and its `max_rounds` of 10000 is left out.
`PollError`, `SendError` and `CommitError` stand for whatever a client of a real cluster raises; the in-memory one
raises at none of these places. `StoreError` is an idempotency store that raises in `seen` or `mark`, which also stands for
a thread that ends between the return of a call and its mark. One copy per worker may be left with its producer: the next `send` of that
worker forgets it if it was not written by then. A fetch reads the
committed offset and the records in one step where the source takes the lock twice.
`Service` sees a worker's batch as one state, which may last for ever or end in an exception.

## 3. What the runs check

Every `expect: pass` run is complete: TLC explores all states under the bounds.

| Run | Instance | Shows |
|---|---|---|
| `rebalance` | 2 consumers of one topic, 2 partitions, 3 records of one key, no ladder, `MaxFaults` 2 | `Inv` (the invariant of the proof) and the refinement of `AtLeastOnce` survive joins, leaves, deaths and late commits; no event is lost, and an event that one consumer has marked is found marked by the other when it asks afterwards |
| `delivery` | a ladder of one tier, 2 events (one without id and key), one fault of any kind, fair scheduling, clock to 4 | no event is lost; each is concluded once; the attempt header counts the calls; no call before its delay, and none for an event found marked; the invariant of the proofs (`DInv`); nothing committed past an unhandled record; every event is concluded in the end, and the lag goes to 0 for good |
| `cooperative` | one thread, a worker for each topic of a ladder of one tier, 2 partitions, 3 events of which one has a key, batches of 2, one send that raises, clock to 7, fair scheduling | the invariant of the proofs (`RoundInv`); a call returns only when all that was there is done, sleeps past nothing its polls came to, and ends |
| `group` | 3 partitions, 5 consumers | one owner each, shares differ by at most one; no deadlock |
| `replay` | a ladder of two tiers, 1 event, 2 replays by 2 operators whose send may raise, 1 stop, clock to 6 | the invariant of the proof (`QInv`); copies of an event are conserved; a replay is tried in full |
| `shutdown` | 2 workers that may hang or crash, one signal, requests, an exception in the wait, a second thread that may stop the service at any time, fair scheduling | the invariant of the proof; what the report of the only stop calls drained is over, and that stop closes no consumer under a batch; two stops are both over in time, the one of `run_forever` with its report, and it is heard by all; the other may raise when it meets a thread that is listed and not started |
| `store` | 3 ids, room for 2, ttl 3, clock to 8 | the invariant of the proof (size, one entry each, expiry), duplicates within the ttl, least-recently-used eviction |
| `lag` | 2 topics and a missing one, clients that append and commit between the reads, fair scheduling | the invariant of the proof; no lag and no commit invented; the gauges converge when the group is dead; a stop is heard from the first round on, also one beside a stop that still waits |

Four runs end in a violation. Each states what a comment or document says and shows
where the code does otherwise (the `findings` of `PROJECT.json` quote the lines):

| Run | Claim | What happens |
|---|---|---|
| `resume_after_raise` | a crash replays the batch | after an exception left `run_until_idle`, the consumer's positions are ahead of what was handled; the caller calls again, and the next commit passes the records in between (a dead worker that is reset and run again does the same) |
| `no_event_id` | an identity is stable, nothing is silently dropped | the fallback `topic:offset` leaves out the partition; a second record is dropped as a duplicate |
| `second_stop` | a straggler's consumer is not closed | the first stop clears the thread list; the second finds no straggler and closes all |
| `lag_lost_stop` | stop ends the loop | `run` clears the event a second time and may erase the stop |

Eight more disagreements are of less weight. They are not among the runs; each has a
configuration to run by hand, `tlc -config <cfg> <module>`, and TLC finds the violation in seconds:

| Configuration, module | Property | Claim | What happens |
|---|---|---|---|
| `MCCapped.cfg`, `MCCapped` | `RetryTopicsInDueOrder` | a retry topic is in due order (`retry.py:12-13`) | the clock is read (`worker.py:306`) and the copy appended (`worker.py:308`) in two steps, so two workers can append in the other order |
| `MCCrashedWorker.cfg`, `Service` | `CleanMeansFinished` | clean means that every worker finished its batch (`lifecycle.py:53`) | a thread that died of an exception counts as drained (`service.py:162`) |
| `MCSecondSignal.cfg`, `Service` | `SecondSignalIsHandled` | abandoning is for the second signal (`worker.py:259-261`) | the handlers are removed (`lifecycle.py:133-135`) before the drain, so a second signal kills the process |
| `MCStopInStart.cfg`, `Service` | `StopReports` | stop winds the fleet down and reports what drained (`service.py:134-135`), and cannot be raced away when it follows `start` (`service.py:126-127`) | beside `start` it may join a thread that is listed (`service.py:130`) and not started (`service.py:131`): `RuntimeError`, no report |
| `MCStoreOrder.cfg`, `Idempotency` | `InsertionOrderIsExpiryOrder` | insertion order is expiry order (`idempotency.py:79`) | `seen` moves an entry back without a new expiry (`idempotency.py:66`) |
| `MCLagTwice.cfg`, `MCLag` | `OneLoop` | `start` refuses while the exporter runs (`lag.py:281`) | `stop` forgets a thread it could not join (`lag.py:291`); `start` runs another |
| `MCCanary.cfg`, `MCReplay` | `CanaryThenRest` | replay five, then the rest (`dlq.py:178-179`) | a replay leaves the dead letters (`dlq.py:124`), the next one takes them again |
| `MCOversleep.cfg`, `MCCooperative` | `EverySleepMissesNothing` | while a worker holds a record until t there is nothing to do until t (`worker.py:139-148`) | a batch is filled from the lowest partition (`memory.py:272`); when it is too small for all of them, a due record of another partition is not looked at before the sleep. Of the rounds whose polls came to every partition the claim is true, and proved (`SleepMissesNothing`) |

Two configurations pass and ask what the runs above ask with other values. They are to be run by hand as well:
`MCTiers.cfg` of `MCTiers` (types and `NothingCommittedUnsettled` under two faults of any kind on a ladder;
1.9 million states) and `MCSharedClient.cfg` of `MCRebalance` (two services of one group whose
workers have one client id: both hold the same partitions, and still nothing is lost; 690 thousand states).

### Bounds

`MaxFaults` bounds how often a thread dies, a client raises, the store drops an event, or a worker is asked to stop:
two faults are enough for a
stop during recovery from another, and for a worker closed while it is being stopped (`MCTiers.cfg`,
`rebalance`); `delivery` and `cooperative`, which check liveness over the whole state space, have one.
`MaxNow` bounds the clock. In `delivery` 4 is
beyond the one delay of the ladder plus the time a rebuilt worker needs, so every due time can
pass; in `replay` 6 lets an event climb twice (1 + 2, twice), so a replay is tried in full and reaches the dead-letter topic
beside its original; in `cooperative` 7 lets records fail at different times under a delay of 2, so that two of them are due at
different times in one tier and a sleep has to choose. In `MCTiers.cfg` it is
1, the one delay of the ladder, and records whose due time lies beyond it keep waiting, which
its invariants are about as well. A ladder of one tier has a first try, a retry and a
dead letter; the two tiers of `replay` add the hop from tier to tier. Two events are what it
takes for one to be in front of another in a batch or a tier, three for two partitions with one of them a batch of two. In `rebalance` all three records go to one partition by their key, so that
two consumers can have one record in hand at once, while the other partition is what a join moves. `BatchSize` 2
leaves a batch with a record handled and one not; in `cooperative` it also makes a batch that is full before its poll has come to
the second partition (`cut`), where the event with a key goes, and one that takes in two records which are both put back.
`IdleRounds` there are one less than the code's defaults, 2 for `run_until_idle` and 1 for `drain`: a call gives up in its last empty round, and may have one before it.
In `store` the clock runs past two ttls, so
that an id expires and is marked again. `MaxRecords` is 1 in `lag`, as the exporter only
compares the two offsets of a partition; a commit that comes between the two reads already puts the
committed offset past the end that was read. In `shutdown` one worker can hang while the other drains, and a stop
can find the start at any step of either, also between the listing and the start of a thread. `MaxSignals` 2 is needed only for `SecondSignalIsHandled`.
`MaxReplays` 2 gives three copies of one event; no operator reads the dead letters when no replay is left under it.
Only the operators of `replay` are interchangeable, and that run is reduced by their symmetry; workers differ by their topic, and several of
the other runs check liveness.

Every configuration but `MCGroup.cfg` has `CHECK_DEADLOCK FALSE`, for the systems really stop: the
workload is finite, and workers finish, services return, clocks end.

### Fairness

- `Delivery!Fairness`: threads are scheduled, time goes on, the producers write. A
  worker that is gone is built again. In the code that is the supervisor of the process, which builds a new
  `EventService` as the message of `service.py:123` asks. Handlers and sends return, in one way or another;
  it is not assumed that they succeed. `MaxFaults` makes faults finite.
- `Cooperative!CFairSpec`: the thread that is in a call is scheduled, and time passes. Nobody has to make a call, to write, or to
  go on after an exception; `CallsEnd` says what becomes of a call that was made.
- `Service!FairSpec`: threads and callers are scheduled and deadlines pass, and that is all:
  `EndBatch` has no fairness, a handler may hang for ever. `StopIsHeard` therefore has the
  premise that handlers return.
- `LagExporter!FairSpec`: the loop is scheduled and its broker calls return. Nothing is assumed of clients or of who
  stops it.

## 4. What is proved

The proof modules use only the named assumptions on constants; nothing is assumed of the
bounds beyond their type. TLC evaluates these assumptions in every run that extends the module.

`BrokerProofs`: `GroupOwnership` is `GroupSpec => []OneOwnerEach`. The blocks of range
assignment tile `0 .. NumPartitions - 1`: block `r` starts where block `r - 1` ends
(`r * base + min(r, extra)`), the first starts at 0 and the last ends at the end, from division
with remainder. So a partition is in exactly one block; ids in the member list are distinct (`GroupTypeOK`,
preserved by `_join` and `_leave`), so one member has it. Each block is an interval of `base` or `base + 1` numbers
(`BlockSize`), so no member has two partitions more than another (`GroupBalance`).

`WorkerProofs`:

- `Invariance`: `Spec => []Inv`, hence `TypeCorrect` (`TypeOK`) and `AtLeastOnceDelivery`
  (`NothingCommittedUnsettled`), for every policy, topology, number of workers, batch size, set
  of failures and faults, and workload.
- `Refinement`: `Spec => ImplementsAtLeastOnce`, with `length` the ends of the logs and
  `offset` the committed offset, 0 where there is none.

`NothingCommittedUnsettled` is not inductive: a commit takes positions, and a fetch has moved
these past records nobody has handled. `Inv` says what is true in between. Below a position of a live
worker every offset is settled or in its hand (`SettledBelowPosition`); below the record in
hand everything is settled (`SettledBelowHand`); the hand is empty outside a batch
(`HandEmptyBetweenBatches`). So when the hand is empty and the commit comes, everything below the positions is
settled. Three bounds keep it inductive: offsets lie within the logs, a
record on a consumed topic has fewer than `MaxAttempts` tries (`LogsWellAddressed`), so that
there is a tier or the dead-letter topic for it, and the same is true of the copy a producer still holds after
a send that raised (`OutgoingFits`). The restriction to live workers is the point where `Rerun` breaks
it: a dead worker has lost its hand and kept its positions, which is `resume_after_raise`.

`DeliveryProofs` and `OnceProofs` are about single events. A *lineage* is the position on the source topic that a record and all
its copies carry in their headers. `DeliveryInvariance` proves `DSpec => []DInv`; `DInv` adds three layers to `Inv`, each of
which is inductive on the ones before it:

1. `Traced`. Every copy on a log (`CopiesTrue`) and every copy with a producer (`OutgoingTrue`) has the id of the record
   it descends from, which is on the source topic; records there are distinct records of the workload
   (`SourceIsWorkload`); an id is in the store because a call for it returned (`HistoryTrue`). Hence
   `SuccessRemembered`: the id of an event that one worker has marked is in the store, and all its copies have this id, on whatever topic,
   so no worker that asks afterwards is told to call. It says no more than that, because the code does not: `seen`, the call and
   `mark` are three steps, so a worker that asked before the mark of another may begin its call after it, and a call whose thread ends before
   its mark is made again. That an event has one success under one worker for each topic is `ConcludedOnce`, below.
2. `Accounted`. Each record of the source topic is concluded, or some unsettled offset of a consumed topic holds a copy
   of it. The step that settles an offset is a success, a duplicate, or the send of the next copy (`HandlingAccounts`). For a duplicate
   this needs that the id is that of the same event (`IdsApart`), which is the premise `Dedupe => IdsDistinct`: without
   it the run `no_event_id` shows the event lost. Unsettled is not committed away, by `Inv`, so `NothingLost` follows. It holds for any
   number of consumers of a topic, and through everything that may go wrong.
3. `Once`, while nothing is torn: no thread has died, no consumer was closed under it, the store has dropped nothing. With one worker for each
   topic, the fleet one `EventService` builds (`OneWorkerEach`), its hand and its positions are beyond everything that
   is settled, also after an abandoned batch, and no copy is left with a producer (`NothingTwice`). So an event has one unsettled copy, or succeeded
   once, or has one dead letter (`OneEach`): the send that settles a copy writes the next one in the same step. And the headers of the one copy
   tell how many calls there were and when it is due (`HeadersTrue`). From these `ConcludedAtMostOnce`, `AttemptsCounted` and
   `BackoffKept`. The premises are needed. With a second consumer of a topic a join in the middle of a batch hands an event
   to two workers, and a thread that dies between send and commit leaves two copies: these are the
   duplicates an at-least-once service admits.

Replays of dead letters are the subject of the last part of `OnceProofs` (`ReplayInvariance`: `QSpec => []QInv`). `Inv` survives
an append of any record that fits its topic (`AppendKeepsInv`), and a replayed one fits the source topic, with its attempt set
back (`ReplayType`, `ReplayAppends`). So with operators beside them the workers still implement the abstract log
(`ReplayRefinement`). What an operator has approved stays where it is (`ApprovedExist`), as logs only grow. `TriedInFull` needs to know of the copy in
flight: one bound for the dead-letter topic, also one a producer holds after a send that raised, has its attempt at `MaxAttempts`
(`LastTryBehind`), since a tier is never named like the dead-letter topic. None of these has a premise on the fleet or its faults.

`CopiesAccountedFor` (`CopiesConserved`) counts: the copies of a lineage that wait, its successes, dropped duplicates and dead letters
together are one more than its replays. It has the premises of `Once`, one worker for each topic and nothing torn, and under them
`QInv` contains `ReplayedOnce`. `Traced` does not carry over, for a replay writes to the source topic what is no record of the workload;
what does is weaker, and enough. The lineage of every record is that of an original one on the source topic (`CopiesDescend`), and
`NothingTwice` holds, as a replay moves no position. Then each step keeps the balance (`Conserved`) in one of four ways: a success or a duplicate takes one copy away
and adds one to a count (`OneDone`); a send replaces the copy in hand by the next one, which waits or is a dead letter (`OneMovesOn`); a
producer or an operator adds one to both sides (`OneMore`); any other step leaves the copies as they are (`SameCount`). The copies of a lineage are a finite set of positions,
and its replays a set of places in the sequence `replayed`, so that a step changes each of them by one element at most.

The instance of `delivery` meets both premises, `IdsDistinct` and `OneWorkerEach`, so that run checks all of `DInv`; that of
`replay` meets `OneWorkerEach`, and checks all of `QInv`.

For the refinement each step maps to `Arrive` (`Produce`, a failed send that wrote its copy, at once or later),
`Handle` (`Succeed`, `Duplicate`, `Send`), `Commit`, or a stutter, and `Inv` gives the guard of the
abstract commit.

`CooperativeProofs`: `CooperativeImplementsThreads` is `CSpec => Spec`, as every action of the scheduler is an action of
`Worker` with more said about it, or leaves the variables of `Worker` alone (`CooperativeStep`). So `Inv`
and the refinement carry over (`CooperativeAtLeastOnce`), and `CooperativeTypes` gives the scheduler's own types. The premise `~Blocking`
is a named assumption.

The claims of the two calls, `ReturnsDone` and `SleepsNotPast`, are about a whole round: every worker has been polled, each poll has
seen every partition, and what it has seen is still true at the end, with producers writing all the while. `RoundInv`
says why, for a fleet with one worker for each topic (`OneWorkerEach`):

1. Only the worker whose turn it is has a batch (`TurnsTaken`), and it is alone in its group from when it is built (`SoleMembers`). So its
   polls come to every partition, and no other commits for them.
2. A poll reads on where the group does (`PositionsCommitted`): between two turns a position is the committed offset, or missing. A batch that handles
   nothing puts back what it took, and its commit leaves the committed offsets where they are.
3. So in a round without a record handled, each partition a poll came to was at the end it had when the round began, or its head is not due and `dueAt` is no
   later than the head is (`Answered`, `PutsBack`). The head stays, the logs only grow, `dueAt` changes only in a poll of the same worker: the answer
   stands until the round is over (`Finished`, `RoundTrue`). A worker that has put nothing back has no undue head, so if no worker has a due time,
   everything is committed: `ReturnMeansDone` for `run_until_idle`.
4. For the sleep, the records behind a head are due no sooner than the head: a tier adds the same delay to a clock that does not go back (`TiersInOrder`), and
   the one thread sends a copy before it prepares another (`NextInOrder`; of two threads this is not true, see `MCCapped.cfg`). Two tiers with different delays have different names (`TierDelay`);
   those with one delay share a topic. Until the call raises no copy is left with a producer (`NothingLeft`); after that
   one may be written late, so this part ends there.

`SleepsNotPast` needs that each topic has a worker as well (`EveryTopicServed`), or nobody would ask for its due times. The fleet of the run
`cooperative`, like the one `EventService` builds, meets both premises.

`ServiceProofs`: `Inv` relates the loop of `run_forever` and of its stop to the fleet. While nobody else stops
(`Undisturbed`), `threads` lists the workers in order, as far as the start has come; a worker the joins have come past
has ended or is a straggler (`JoinsTrue`); one the closes have come past is closed or a straggler
(`ClosesTrue`). That a worker which has ended does not begin again is a lemma (`EndIsFinal`), since only the start resets workers.
Whoever else stops the fleet, a thread that is listed or joined has been started, but for the one `start` has listed this moment (`ListedIsStarted`,
`StartedStep`): so the stop of `run_forever`, which comes after, never raises (`RaisesInStart`).
From these `ReportIsTrue` (whom the report does not name is over) and `NoConsumerClosedUnderBatch`, an
action property. For any number of workers, signals, crashes and hangs; a second caller of stop breaks `Undisturbed`, and
`second_stop` shows what is lost then.

`LagExporterProofs`: logs only grow, so a watermark that a loop has read stays behind the end of the log
(`WatermarksBehind`); the committed offset is read after it, so the difference is at most the lag of that
moment (`NoLagIsInvented`, an action property). A commit in a snapshot or gauge is one the broker returned, and commits are
not taken back (`EntriesTrue`, `NoCommitIsInvented`).

`IdempotencyProofs`: eviction returns a suffix of the list, no longer than the cap (`Eviction`, from the least
element of a set of naturals and `SubSeq` of `SubSeq`); the list without an id holds entries of the others, once each
(`Others`, from `Removal`). `Invariance` adds that an entry expires ttl after the last mark of its id, and
`DuplicatesFresh` follows: `seen` moves entries and never renews them. `RecentSurvive` needs `UsedInOrder`: the
entries are in the order in which their ids were used last. So behind an entry there are at most as many entries
as there are ids used after its own (`FewBehind`, as a growing sequence of positions grows by at least one in every step, `Growing`).
Eviction takes from the front what has expired or has no room behind it, and spares the others (`EvictionSpares`).

## 5. Only model-checked

Every invariant, action property and refinement that a passing run checks is stated by a theorem. The liveness properties stay with
TLC, as liveness under fairness is beyond the prover: that events are concluded and the lag goes to 0 (`EveryEventConcludes`, `BacklogDrains`),
that a cooperative call ends (`CallsEnd`), that stops return and are heard (`StopReturns`, `StopIsHeard`), and that the exporter reports
a dead group and hears its stop (`DeadGroupReports`, `StopInRoundIsHeard`). `CanaryThenRest` and the other claims that fail have counterexamples, not proofs.

## 6. Reading order

`RetryPolicy`, `Envelope`, `Broker`, `Worker`, then `AtLeastOnce`, `Delivery` and `Cooperative`; `Service`,
`Idempotency` and `LagExporter` stand alone; `DeadLetterQueue` last. The proofs follow the
order of the lemmas: helpers on sequences and functions, one lemma per action, the step, the theorems.

## 7. Plan

Done: everything above, in the order Broker and Worker, their proofs, Delivery, Service,
Idempotency, LagExporter, DeadLetterQueue, then what the Kafka adapter raises, the store that forgets, Cooperative, and the
proofs of Cooperative, Service, LagExporter, Idempotency, Delivery and DeadLetterQueue.

Next: `Service` with the worker's batch refined to the waits of a retry tier, and `stop(drain=False)`.

## 8. Not modelled

- The rest of `kafka.py`: the group protocol and its asynchronous rebalances, encodings and the administration of
  topics are those of `confluent_kafka` and of a cluster, which are not in this repository. What its calls may do to
  a worker is modelled: `PollError`, `SendError` with `Deliver`, `CommitError`.
- `cli.py`, `samples.py`: argument parsing, formatting and demo data around the library.
- `metrics.py`, worker statistics, error classes: written and never read back by a rule.
- The record's payload, error type, message and failure times, and the replay count: no rule
  depends on them, apart from the order in which a limited replay picks records, which is left open.
- Stops and closes of workers while `run_until_idle` or `drain` is running: nothing in the repository does so.
- A producer that never stops writing, under which a batch that is too small may never come to a later partition.
