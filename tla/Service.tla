------------------------------ MODULE Service ------------------------------
(***************************************************************************)
(* service.py and lifecycle.py: the life of a fleet of worker threads.     *)
(* The main thread runs EventService.run_forever: it starts one thread per *)
(* worker, waits for a signal or a request, and stops the fleet inside one *)
(* deadline.  Other threads may call stop as well.  A worker's thread is   *)
(* seen at the grain of its batches (Worker.tla has what happens inside    *)
(* one), and stop and close at the grain of the calls it gets.             *)
(***************************************************************************)
EXTENDS Integers, Sequences, FiniteSets

CONSTANTS
    NumWorkers,  \* len(EventService.workers)
    Main,        \* the thread in run_forever
    Others,      \* threads that call stop
    Overlap,     \* FALSE: they do so only once run_forever has returned
    Crashes,     \* TRUE: an exception may leave a worker's loop
    MaxSignals   \* bound: how many signals arrive

ASSUME ServiceAssumption ==
    /\ NumWorkers \in Nat \ {0} /\ MaxSignals \in Nat
    /\ Main \notin Others /\ {Crashes, Overlap} \subseteq BOOLEAN

Workers == 1 .. NumWorkers
Callers == Others \cup {Main}

VARIABLES
    thread,     \* the thread of each worker
    stopping,   \* Worker._stopping
    closed,     \* InMemoryConsumer._closed
    threads,    \* _threads: the worker each listed thread runs
    stopped,    \* _stopped
    at,         \* where each caller is
    next,       \* the index its loop has come to
    joins,      \* the worker whose thread its join waits for, 0: none
    expired,    \* its deadline has passed
    stuck,      \* stragglers it found, and reports once it has returned
    installed,  \* the signal handlers are installed
    signals,    \* signals that arrived
    event,      \* SignalWatch.event
    process     \* "up", or "killed" by a signal nobody handles

threadVars == <<thread>>
workerVars == <<stopping, closed>>
serviceVars == <<threads, stopped>>
callVars == <<at, next, joins, expired, stuck>>
signalVars == <<installed, signals, event, process>>
vars == <<threadVars, workerVars, serviceVars, callVars, signalVars>>

TypeOK ==
    /\ thread \in [Workers -> {"none", "started", "loop", "polling", "batch",
                               "ended", "died"}]
    /\ stopping \in [Workers -> BOOLEAN]
    /\ closed \in [Workers -> BOOLEAN]
    /\ threads \in Seq(Workers)
    /\ stopped \in BOOLEAN
    /\ at \in [Callers -> {"out", "starting", "launching", "appended", "waiting",
                           "requesting", "joining", "blocked", "closing", "returned",
                           "raised"}]
    /\ next \in [Callers -> 1 .. NumWorkers + 1]
    /\ joins \in [Callers -> 0 .. NumWorkers]
    /\ expired \in [Callers -> BOOLEAN]
    /\ stuck \in [Callers -> SUBSET Workers]
    /\ installed \in BOOLEAN
    /\ signals \in 0 .. MaxSignals
    /\ event \in BOOLEAN
    /\ process \in {"up", "killed"}

Init ==
    /\ thread = [w \in Workers |-> "none"]
    /\ stopping = [w \in Workers |-> FALSE]
    /\ closed = [w \in Workers |-> FALSE]
    /\ threads = <<>>
    /\ stopped = FALSE
    /\ at = [c \in Callers |-> "out"]
    /\ next = [c \in Callers |-> 1]
    /\ joins = [c \in Callers |-> 0]
    /\ expired = [c \in Callers |-> FALSE]
    /\ stuck = [c \in Callers |-> {}]
    /\ installed = FALSE
    /\ signals = 0
    /\ event = FALSE
    /\ process = "up"

Up == process = "up"
Goto(c, place) == at' = [at EXCEPT ![c] = place]
GotoLoop(c, place) == Goto(c, place) /\ next' = [next EXCEPT ![c] = 1]
Advance(c) == next' = [next EXCEPT ![c] = @ + 1]
AtEnd(w) == thread[w] \in {"ended", "died"}
Alive(w) == thread[w] \notin {"none", "ended", "died"}
-----------------------------------------------------------------------------
\* Faulty variant of Enter: run clears the flags itself.
EnterAndReset(w) ==
    /\ Up
    /\ thread[w] = "started"
    /\ thread' = [thread EXCEPT ![w] = "loop"]
    /\ stopping' = [stopping EXCEPT ![w] = FALSE]
    /\ UNCHANGED <<closed, serviceVars, callVars, signalVars>>

\* Worker.run: the thread is scheduled and enters its loop.  It does not clear
\* the flags.
Enter(w) ==
    /\ Up
    /\ thread[w] = "started"
    /\ thread' = [thread EXCEPT ![w] = "loop"]
    /\ UNCHANGED <<workerVars, serviceVars, callVars, signalVars>>

\* run: the flag is read between batches.
Check(w) ==
    /\ Up
    /\ thread[w] = "loop"
    /\ thread' = [thread EXCEPT ![w] = IF stopping[w] THEN "ended" ELSE "polling"]
    /\ UNCHANGED <<workerVars, serviceVars, callVars, signalVars>>

\* poll_once: a batch is taken; a closed consumer raises instead.
Poll(w) ==
    /\ Up
    /\ thread[w] = "polling"
    /\ thread' = [thread EXCEPT ![w] = IF closed[w] THEN "died" ELSE "batch"]
    /\ UNCHANGED <<workerVars, serviceVars, callVars, signalVars>>

\* The batch is finished and committed.
EndBatch(w) ==
    /\ Up
    /\ thread[w] = "batch"
    /\ thread' = [thread EXCEPT ![w] = "loop"]
    /\ UNCHANGED <<workerVars, serviceVars, callVars, signalVars>>

\* An exception leaves poll_once in the middle of a batch.
Crash(w) ==
    /\ Up
    /\ Crashes
    /\ thread[w] = "batch"
    /\ thread' = [thread EXCEPT ![w] = "died"]
    /\ UNCHANGED <<workerVars, serviceVars, callVars, signalVars>>
-----------------------------------------------------------------------------
\* run_forever calls start, which refuses a service that has been stopped.
StartCall ==
    /\ Up
    /\ at[Main] = "out"
    /\ threads = <<>> /\ ~stopped
    /\ GotoLoop(Main, "starting")
    /\ UNCHANGED <<threadVars, workerVars, serviceVars, joins, expired, stuck, signalVars>>

\* start: clear any previous shutdown before the thread exists.
StartReset ==
    /\ Up
    /\ at[Main] = "starting" /\ next[Main] <= NumWorkers
    /\ stopping' = [stopping EXCEPT ![next[Main]] = FALSE]
    /\ Goto(Main, "launching")
    /\ UNCHANGED <<threadVars, closed, serviceVars, next, joins, expired, stuck, signalVars>>

\* start: the thread is listed before it is started.
StartAppend ==
    /\ Up
    /\ at[Main] = "launching"
    /\ threads' = Append(threads, next[Main])
    /\ Goto(Main, "appended")
    /\ UNCHANGED <<threadVars, workerVars, stopped, next, joins, expired, stuck, signalVars>>

StartThread ==
    /\ Up
    /\ at[Main] = "appended"
    /\ thread' = [thread EXCEPT ![next[Main]] = "started"]
    /\ Goto(Main, "starting") /\ Advance(Main)
    /\ UNCHANGED <<workerVars, serviceVars, joins, expired, stuck, signalVars>>

\* shutdown_on_signals installs the handlers; run_forever waits.
Install ==
    /\ Up
    /\ at[Main] = "starting" /\ next[Main] > NumWorkers
    /\ installed' = TRUE
    /\ Goto(Main, "waiting")
    /\ UNCHANGED <<threadVars, workerVars, serviceVars, next, joins, expired, stuck,
                   signals, event, process>>

\* A signal: the handler only sets the event; without one the process ends.
Signal ==
    /\ Up
    /\ signals < MaxSignals
    /\ signals' = signals + 1
    /\ IF installed THEN event' = TRUE /\ UNCHANGED process
                    ELSE process' = "killed" /\ UNCHANGED event
    /\ UNCHANGED <<threadVars, workerVars, serviceVars, callVars, installed>>

\* stop_when: something other than a signal sets the event, which is the caller's
\* and may be set before the service is started.
Request ==
    /\ Up
    /\ ~event
    /\ event' = TRUE
    /\ UNCHANGED <<threadVars, workerVars, serviceVars, callVars, installed, signals, process>>

\* The wait ends, the previous handlers are restored, and stop is entered.
Wake ==
    /\ Up
    /\ at[Main] = "waiting" /\ event
    /\ installed' = FALSE
    /\ GotoLoop(Main, "requesting")
    /\ UNCHANGED <<threadVars, workerVars, serviceVars, joins, expired, stuck,
                   signals, event, process>>

\* run_forever: an exception leaves the wait (a KeyboardInterrupt where SIGINT is
\* not among the handled signals); the service is stopped all the same.
Interrupt ==
    /\ Up
    /\ at[Main] = "waiting"
    /\ installed' = FALSE
    /\ GotoLoop(Main, "requesting")
    /\ UNCHANGED <<threadVars, workerVars, serviceVars, joins, expired, stuck,
                   signals, event, process>>
-----------------------------------------------------------------------------
\* Another thread calls stop.
StopCall(c) ==
    /\ Up
    /\ c \in Others /\ at[c] = "out"
    /\ Overlap \/ at[Main] = "returned"
    /\ GotoLoop(c, "requesting")
    /\ UNCHANGED <<threadVars, workerVars, serviceVars, joins, expired, stuck, signalVars>>

\* stop: every worker is asked first.
StopWorker(c) ==
    /\ Up
    /\ at[c] = "requesting" /\ next[c] <= NumWorkers
    /\ stopping' = [stopping EXCEPT ![next[c]] = TRUE]
    /\ Advance(c)
    /\ UNCHANGED <<threadVars, closed, serviceVars, at, joins, expired, stuck, signalVars>>

\* Faulty variant of StopWorkersDone: the list is emptied before the joins.
ClearThenJoin(c) ==
    /\ Up
    /\ at[c] = "requesting" /\ next[c] > NumWorkers
    /\ threads' = <<>>
    /\ GotoLoop(c, "joining")
    /\ UNCHANGED <<threadVars, workerVars, stopped, joins, expired, stuck, signalVars>>

StopWorkersDone(c) ==
    /\ Up
    /\ at[c] = "requesting" /\ next[c] > NumWorkers
    /\ GotoLoop(c, "joining")
    /\ UNCHANGED <<threadVars, workerVars, serviceVars, joins, expired, stuck, signalVars>>

\* The one deadline of this stop passes.
Expire(c) ==
    /\ Up
    /\ at[c] \in {"requesting", "joining", "blocked"} /\ ~expired[c]
    /\ expired' = [expired EXCEPT ![c] = TRUE]
    /\ UNCHANGED <<threadVars, workerVars, serviceVars, at, next, joins, stuck, signalVars>>

\* The loop over zip(_threads, workers) takes the next thread of the list, as the
\* list is now, and joins it.
TakeThread(c) ==
    /\ Up
    /\ at[c] = "joining" /\ next[c] <= Len(threads)
    /\ joins' = [joins EXCEPT ![c] = threads[next[c]]]
    /\ Goto(c, "blocked")
    /\ UNCHANGED <<threadVars, workerVars, serviceVars, next, expired, stuck, signalVars>>

\* The join is over, and the loop goes on.
LeaveJoin(c) == Goto(c, "joining") /\ Advance(c) /\ joins' = [joins EXCEPT ![c] = 0]

Joined(c) ==
    /\ Up
    /\ at[c] = "blocked" /\ AtEnd(joins[c])
    /\ LeaveJoin(c)
    /\ UNCHANGED <<threadVars, workerVars, serviceVars, expired, stuck, signalVars>>

\* Faulty variants of GiveUp: the straggler is not remembered; the join has no
\* timeout.
GiveUpSilently(c) ==
    /\ Up
    /\ at[c] = "blocked" /\ Alive(joins[c]) /\ expired[c]
    /\ LeaveJoin(c)
    /\ UNCHANGED <<threadVars, workerVars, serviceVars, expired, stuck, signalVars>>

GiveUpNever(c) == FALSE /\ at[c] = "blocked" /\ UNCHANGED vars

\* The deadline has passed and the thread is alive: its worker is a straggler.
GiveUp(c) ==
    /\ Up
    /\ at[c] = "blocked" /\ Alive(joins[c]) /\ expired[c]
    /\ stuck' = [stuck EXCEPT ![c] = @ \cup {next[c]}]
    /\ LeaveJoin(c)
    /\ UNCHANGED <<threadVars, workerVars, serviceVars, expired, signalVars>>

\* A thread that is listed and not started yet cannot be joined: RuntimeError leaves
\* stop before it empties the list, closes anybody or returns its report.
JoinRaises(c) ==
    /\ Up
    /\ at[c] = "blocked" /\ thread[joins[c]] = "none"
    /\ Goto(c, "raised") /\ joins' = [joins EXCEPT ![c] = 0]
    /\ UNCHANGED <<threadVars, workerVars, serviceVars, next, expired, stuck, signalVars>>

JoinDone(c) ==
    /\ Up
    /\ at[c] = "joining" /\ next[c] > Len(threads)
    /\ threads' = <<>>
    /\ GotoLoop(c, "closing")
    /\ UNCHANGED <<threadVars, workerVars, stopped, joins, expired, stuck, signalVars>>

\* Faulty variant of CloseWorker: stragglers are closed too.
CloseEveryWorker(c) ==
    /\ Up
    /\ at[c] = "closing" /\ next[c] <= NumWorkers
    /\ stopping' = [stopping EXCEPT ![next[c]] = TRUE]
    /\ closed' = [closed EXCEPT ![next[c]] = TRUE]
    /\ Advance(c)
    /\ UNCHANGED <<threadVars, serviceVars, at, joins, expired, stuck, signalVars>>

\* Worker.close for everyone who is not a straggler of this call.
CloseWorker(c) ==
    /\ Up
    /\ at[c] = "closing" /\ next[c] <= NumWorkers
    /\ IF next[c] \in stuck[c]
       THEN UNCHANGED workerVars
       ELSE /\ stopping' = [stopping EXCEPT ![next[c]] = TRUE]
            /\ closed' = [closed EXCEPT ![next[c]] = TRUE]
    /\ Advance(c)
    /\ UNCHANGED <<threadVars, serviceVars, at, joins, expired, stuck, signalVars>>

StopReturn(c) ==
    /\ Up
    /\ at[c] = "closing" /\ next[c] > NumWorkers
    /\ stopped' = TRUE
    /\ Goto(c, "returned")
    /\ UNCHANGED <<threadVars, workerVars, threads, next, joins, expired, stuck, signalVars>>
-----------------------------------------------------------------------------
Run(w) == Enter(w) \/ Check(w) \/ Poll(w)

Lead == StartCall \/ StartReset \/ StartAppend \/ StartThread \/ Install \/ Wake

Stop(c) ==
    \/ StopWorker(c) \/ StopWorkersDone(c)
    \/ TakeThread(c) \/ Joined(c) \/ GiveUp(c) \/ JoinRaises(c) \/ JoinDone(c)
    \/ CloseWorker(c) \/ StopReturn(c)

Next ==
    \/ \E w \in Workers : Run(w) \/ EndBatch(w) \/ Crash(w)
    \/ \E c \in Callers : Stop(c) \/ StopCall(c) \/ Expire(c)
    \/ Lead \/ Interrupt \/ Signal \/ Request

Spec == Init /\ [][Next]_vars

\* Threads and callers are scheduled and deadlines pass, but a handler may hang:
\* nothing says that a batch ends.
FairSpec ==
    /\ Spec
    /\ \A w \in Workers : WF_vars(Run(w))
    /\ \A c \in Callers : WF_vars(Stop(c)) /\ WF_vars(Expire(c))
    /\ WF_vars(Lead)
-----------------------------------------------------------------------------
\* Nobody but run_forever has stopped the service.
Undisturbed == \A c \in Others : at[c] = "out"

\* What the report of the one stop does not name is over: the thread has ended,
\* and its consumer has left the group.
ReportedDrainedIsOver ==
    at[Main] = "returned" /\ Undisturbed =>
        \A w \in Workers \ stuck[Main] : closed[w] /\ ~Alive(w)

\* service.py:143: "A straggler still inside its handler is deliberately *not*
\* closed".  No consumer is closed under a batch, however often stop is called.
ClosedUnderBatch ==
    \E w \in Workers : closed'[w] /\ ~closed[w] /\ thread[w] \in {"polling", "batch"}
StragglersKeepConsumer == [][~ClosedUnderBatch]_vars

\* The one stop of run_forever keeps that promise, when nobody else stops the
\* service.
OneStopKeepsConsumer == [][Undisturbed => ~ClosedUnderBatch]_vars

\* Every stop is over within its deadline, whatever the handlers do and whoever else
\* stops the service: it returns its report, or raises because it came upon a thread
\* that start had listed and not started.  The stop of run_forever never does: once
\* its event is set, run_forever returns a report.
StopReturns ==
    /\ \A c \in Others :
          at[c] = "requesting" ~> (at[c] \in {"returned", "raised"} \/ process = "killed")
    /\ at[Main] = "requesting" ~> (at[Main] = "returned" \/ process = "killed")
    /\ event ~> (at[Main] \in {"out", "returned"} \/ process = "killed")

\* service.py:134: "Wind the fleet down inside one ``timeout`` and report what
\* drained".  A stop that runs beside start may end without a report (checked by
\* hand: it does not hold).
StopReports ==
    \A c \in Callers :
        at[c] = "requesting" ~> (at[c] = "returned" \/ process = "killed")

\* If handlers return, a stop of the whole service is heard by every worker, also
\* by one whose thread had not entered its loop yet.
StopIsHeard ==
    (\A w \in Workers : []<>(thread[w] # "batch")) =>
        (at[Main] = "returned" ~> (process = "killed" \/ \A w \in Workers : ~Alive(w)))

\* lifecycle.py:53, on ShutdownReport.clean: "True when every worker finished its
\* batch and left the group itself."
CleanMeansFinished ==
    \A c \in Callers : at[c] = "returned" /\ stuck[c] = {} =>
        \A w \in Workers : thread[w] # "died"

\* worker.py:260: "abandoning is for the second signal, when the grace period is
\* nearly up and redelivering a batch beats being killed mid-commit".  A signal
\* that arrives during the drain does not end the process.
SecondSignalIsHandled ==
    at[Main] \in {"requesting", "joining", "blocked", "closing"} => process = "up"
-----------------------------------------------------------------------------
(***************************************************************************)
(* Why the one stop is right: the inductive invariant.                     *)
(***************************************************************************)

\* Only run_forever starts threads, one per worker and in their order; a stop of
\* another thread may have emptied the list meanwhile.
CallersInPlace ==
    /\ \A c \in Others : at[c] \in {"out", "requesting", "joining", "blocked", "closing",
                                   "returned", "raised"}
    /\ Len(threads) <= NumWorkers
    /\ at[Main] = "out" => threads = <<>>
    /\ at[Main] \in {"starting", "launching"} => Len(threads) < next[Main]
    /\ at[Main] = "appended" => Len(threads) <= next[Main]
    /\ at[Main] \in {"launching", "appended"} => next[Main] <= NumWorkers
    /\ \A c \in Callers : at[c] = "blocked" => joins[c] # 0 /\ next[c] <= NumWorkers

\* A thread that is listed, or that somebody joins, has been started, but for the
\* one that start has listed this moment.  So the stop of run_forever never raises.
Unstarted(w) == thread[w] = "none" /\ ~(at[Main] = "appended" /\ w = next[Main])
ListedIsStarted ==
    /\ \A i \in 1 .. Len(threads) : ~Unstarted(threads[i])
    /\ \A c \in Callers : joins[c] # 0 => ~Unstarted(joins[c])
    /\ at[Main] # "raised"

\* The list has the thread of every worker that was started, each at the index of
\* its worker.
FleetListed ==
    /\ \A i \in 1 .. Len(threads) : threads[i] = i
    /\ at[Main] \in {"starting", "launching"} => Len(threads) = next[Main] - 1
    /\ at[Main] = "appended" => Len(threads) = next[Main]
    /\ at[Main] \in {"waiting", "requesting", "joining", "blocked"} =>
          Len(threads) = NumWorkers

\* Whom the joins of stop have come past has ended, or is a straggler.
JoinsTrue ==
    /\ at[Main] = "blocked" => joins[Main] = next[Main]
    /\ \A w \in Workers :
          \/ at[Main] \in {"joining", "blocked"} /\ w < next[Main]
          \/ at[Main] \in {"closing", "returned"}
          => w \in stuck[Main] \/ AtEnd(w)

\* Whom the closes of stop have come past is closed, or is a straggler.
ClosesTrue ==
    \A w \in Workers :
        \/ at[Main] = "closing" /\ w < next[Main]
        \/ at[Main] = "returned"
        => w \in stuck[Main] \/ closed[w]

Inv ==
    /\ TypeOK
    /\ CallersInPlace
    /\ ListedIsStarted
    /\ Undisturbed => FleetListed /\ JoinsTrue /\ ClosesTrue
=============================================================================
