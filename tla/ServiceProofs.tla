--------------------------- MODULE ServiceProofs ---------------------------
(***************************************************************************)
(* Proofs about Service.tla: its types, and that the one stop of           *)
(* run_forever reports the truth and closes no consumer under a batch, for *)
(* any number of workers, however they crash and hang, and whatever stops  *)
(* come later.                                                             *)
(***************************************************************************)
EXTENDS Service, TLAPS

\* What the thread of a worker does leaves the callers alone.
WorkerStep(w) == Enter(w) \/ Check(w) \/ Poll(w) \/ EndBatch(w) \/ Crash(w)

\* The steps of the whole program, one per definition that makes one.
LEMMA Steps ==
    ASSUME Next
    PROVE  \/ \E w \in Workers : WorkerStep(w)
           \/ \E c \in Callers : Stop(c) \/ StopCall(c) \/ Expire(c)
           \/ Lead \/ Interrupt \/ Signal \/ Request
BY DEF Next, Run, WorkerStep

\* Main is a caller, and none of the others.
LEMMA MainIsCaller == Main \in Callers /\ \A c \in Others : c \in Callers /\ c # Main
BY ServiceAssumption DEF Callers

-----------------------------------------------------------------------------
(***************************************************************************)
(* Types, and who is where.                                                *)
(***************************************************************************)

LEMMA TypeStep ==
    ASSUME TypeOK, CallersInPlace, ListedIsStarted, [Next]_vars
    PROVE  TypeOK' /\ CallersInPlace'
<1> USE ServiceAssumption, MainIsCaller
<1> USE DEF TypeOK, CallersInPlace, Workers, threadVars, workerVars, serviceVars,
            callVars, signalVars, Goto, GotoLoop, Advance, LeaveJoin
<1>1. CASE UNCHANGED vars
    BY <1>1 DEF vars
<1>2. ASSUME NEW w \in Workers, WorkerStep(w) PROVE TypeOK' /\ CallersInPlace'
    <2>1. UNCHANGED <<workerVars, serviceVars, callVars, signalVars>>
        BY <1>2 DEF WorkerStep, Enter, Check, Poll, EndBatch, Crash
    <2>2. thread' \in [Workers -> {"none", "started", "loop", "polling", "batch", "ended",
                                   "died"}]
        BY <1>2 DEF WorkerStep, Enter, Check, Poll, EndBatch, Crash
    <2> QED BY <2>1, <2>2
<1>3. CASE Lead
    <2>1. CASE StartCall
        BY <2>1 DEF StartCall
    <2>2. CASE StartReset
        BY <2>2 DEF StartReset
    <2>3. CASE StartAppend
        BY <2>3 DEF StartAppend
    <2>4. CASE StartThread
        BY <2>4 DEF StartThread
    <2>5. CASE Install
        BY <2>5 DEF Install
    <2>6. CASE Wake
        <3>1. installed' \in BOOLEAN
            BY <2>6, Zenon DEF Wake
        <3> QED BY <2>6, <3>1 DEF Wake
    <2> QED BY <1>3, <2>1, <2>2, <2>3, <2>4, <2>5, <2>6 DEF Lead
<1>4. CASE Interrupt
    <2>1. installed' \in BOOLEAN
        BY <1>4, Zenon DEF Interrupt
    <2> QED BY <1>4, <2>1 DEF Interrupt
<1>5. CASE Signal
    <2>1. event' \in BOOLEAN
        BY <1>5, Zenon DEF Signal
    <2>2. process' \in {"up", "killed"}
        BY <1>5, Zenon DEF Signal
    <2> QED BY <1>5, <2>1, <2>2 DEF Signal
<1>6. CASE Request
    BY <1>6 DEF Request
<1>7. ASSUME NEW c \in Callers, StopCall(c) PROVE TypeOK' /\ CallersInPlace'
    BY <1>7 DEF StopCall
<1>8. ASSUME NEW c \in Callers, Expire(c) PROVE TypeOK' /\ CallersInPlace'
    BY <1>8 DEF Expire
<1>9. ASSUME NEW c \in Callers, Stop(c) PROVE TypeOK' /\ CallersInPlace'
    <2>1. CASE StopWorker(c)
        BY <2>1 DEF StopWorker
    <2>2. CASE StopWorkersDone(c)
        BY <2>2 DEF StopWorkersDone
    <2>3. CASE TakeThread(c)
        BY <2>3 DEF TakeThread
    <2>4. CASE Joined(c)
        BY <2>4 DEF Joined
    <2>5. CASE GiveUp(c)
        BY <2>5 DEF GiveUp
    <2>6. CASE JoinRaises(c)
        BY <2>6 DEF JoinRaises
    <2>7. CASE JoinDone(c)
        BY <2>7 DEF JoinDone
    <2>8. CASE CloseWorker(c)
        <3>1. stopping' \in [Workers -> BOOLEAN] /\ closed' \in [Workers -> BOOLEAN]
            BY <2>8 DEF CloseWorker
        <3>2. next' \in [Callers -> 1 .. NumWorkers + 1]
            BY <2>8 DEF CloseWorker
        <3> QED BY <2>8, <3>1, <3>2 DEF CloseWorker
    <2>9. CASE StopReturn(c)
        BY <2>9 DEF StopReturn
    <2> QED BY <1>9, <2>1, <2>2, <2>3, <2>4, <2>5, <2>6, <2>7, <2>8, <2>9 DEF Stop
<1> QED BY <1>1, <1>2, <1>3, <1>4, <1>5, <1>6, <1>7, <1>8, <1>9, Steps

-----------------------------------------------------------------------------
(***************************************************************************)
(* What is joined has been started.                                        *)
(***************************************************************************)

\* A join raises only while start is between listing a thread and starting it, so
\* never in the stop of run_forever.
LEMMA RaisesInStart ==
    ASSUME TypeOK, CallersInPlace, ListedIsStarted, NEW c \in Callers, JoinRaises(c)
    PROVE  c # Main
BY MainIsCaller DEF TypeOK, CallersInPlace, ListedIsStarted, Unstarted, JoinRaises, Workers

\* No step makes a thread unstarted, and start leaves "appended" only by starting the
\* thread it has listed.
LEMMA StartedStays ==
    ASSUME TypeOK, CallersInPlace, [Next]_vars, NEW w \in Workers, ~Unstarted(w)
    PROVE  ~Unstarted(w)'
<1> USE ServiceAssumption, MainIsCaller
<1> USE DEF TypeOK, CallersInPlace, Unstarted, Workers, threadVars, workerVars,
            serviceVars, callVars, signalVars, Goto, GotoLoop, Advance, LeaveJoin
<1>1. CASE UNCHANGED vars
    BY <1>1 DEF vars
<1>2. ASSUME NEW v \in Workers, WorkerStep(v) PROVE ~Unstarted(w)'
    BY <1>2 DEF WorkerStep, Enter, Check, Poll, EndBatch, Crash
<1>3. CASE Lead \/ Interrupt \/ Signal \/ Request
    BY <1>3 DEF Lead, StartCall, StartReset, StartAppend, StartThread, Install, Wake,
                Interrupt, Signal, Request
<1>4. ASSUME NEW c \in Callers, Stop(c) \/ StopCall(c) \/ Expire(c) PROVE ~Unstarted(w)'
    BY <1>4 DEF Stop, StopWorker, StopWorkersDone, TakeThread, Joined, GiveUp, JoinRaises,
                JoinDone, CloseWorker, StopReturn, StopCall, Expire
<1> QED BY <1>1, <1>2, <1>3, <1>4, Steps

LEMMA StartedStep ==
    ASSUME TypeOK, CallersInPlace, ListedIsStarted, [Next]_vars
    PROVE  ListedIsStarted'
<1> USE ServiceAssumption, MainIsCaller
<1> USE DEF TypeOK, CallersInPlace, Workers, threadVars, workerVars,
            serviceVars, callVars, signalVars, Goto, GotoLoop, Advance, LeaveJoin
<1> DEFINE Listed == \A i \in 1 .. Len(threads) : ~Unstarted(threads[i])
           Held == \A c \in Callers : joins[c] # 0 => ~Unstarted(joins[c])
           Same == UNCHANGED <<threads, joins>> /\ at'[Main] # "raised"
<1>0. Listed /\ Held /\ at[Main] # "raised"
    BY DEF ListedIsStarted
<1>1. ASSUME Same PROVE ListedIsStarted'
    BY <1>0, <1>1, StartedStays DEF ListedIsStarted
<1>2. CASE UNCHANGED vars
    BY <1>0, <1>1, <1>2 DEF vars
<1>3. ASSUME NEW w \in Workers, WorkerStep(w) PROVE ListedIsStarted'
    BY <1>0, <1>1, <1>3 DEF WorkerStep, Enter, Check, Poll, EndBatch, Crash
<1>4. CASE Lead \/ Interrupt \/ Signal \/ Request
    <2>1. CASE StartAppend
        <3>1. at'[Main] = "appended" /\ ~Unstarted(next[Main])'
            BY <2>1 DEF StartAppend, Unstarted
        <3>2. UNCHANGED joins /\ threads' = Append(threads, next[Main])
            BY <2>1 DEF StartAppend
        <3>3. ASSUME NEW i \in 1 .. Len(threads') PROVE ~Unstarted(threads[i])'
            <4>1. CASE i = Len(threads) + 1
                <5>1. threads'[i] = next'[Main]
                    BY <2>1, <4>1 DEF StartAppend
                <5> QED BY <3>1, <5>1 DEF Unstarted
            <4>2. CASE i \in 1 .. Len(threads)
                BY <1>0, <3>2, <4>2, StartedStays
            <4> QED BY <3>2, <4>1, <4>2
        <3>4. Held'
            BY <1>0, <3>2, StartedStays
        <3> QED BY <3>1, <3>3, <3>4 DEF ListedIsStarted
    <2>2. CASE StartCall \/ StartReset \/ StartThread \/ Install \/ Wake \/ Interrupt
               \/ Signal \/ Request
        BY <1>0, <1>1, <2>2 DEF StartCall, StartReset, StartThread, Install, Wake, Interrupt,
                                Signal, Request
    <2> QED BY <1>4, <2>1, <2>2 DEF Lead
<1>5. ASSUME NEW c \in Callers, StopCall(c) \/ Expire(c) PROVE ListedIsStarted'
    BY <1>0, <1>1, <1>5 DEF StopCall, Expire
<1>6. ASSUME NEW c \in Callers, Stop(c) PROVE ListedIsStarted'
    <2>1. CASE StopWorker(c) \/ StopWorkersDone(c) \/ CloseWorker(c) \/ StopReturn(c)
        BY <1>0, <1>1, <2>1 DEF StopWorker, StopWorkersDone, CloseWorker, StopReturn
    <2>2. CASE TakeThread(c)
        <3>1. UNCHANGED threads /\ at'[Main] # "raised"
            BY <1>0, <2>2 DEF TakeThread
        <3>2. ~Unstarted(joins'[c]) /\ joins'[c] \in Workers
            BY <1>0, <2>2 DEF TakeThread
        <3>3. Held'
            <4>1. ASSUME NEW d \in Callers, joins'[d] # 0 PROVE ~Unstarted(joins'[d])
                BY <1>0, <2>2, <3>2, <4>1 DEF TakeThread
            <4>2. \A d \in Callers : joins'[d] \in 0 .. NumWorkers
                BY <2>2 DEF TakeThread
            <4> QED BY <4>1, <4>2, StartedStays
        <3>4. Listed'
            BY <1>0, <3>1, StartedStays
        <3> QED BY <3>1, <3>3, <3>4 DEF ListedIsStarted
    <2>3. CASE Joined(c) \/ GiveUp(c) \/ JoinRaises(c)
        <3>1. UNCHANGED threads /\ at'[Main] # "raised"
            BY <1>0, <2>3, RaisesInStart DEF Joined, GiveUp, JoinRaises
        <3>2. \A d \in Callers : joins'[d] # 0 => joins'[d] = joins[d]
            BY <2>3 DEF Joined, GiveUp, JoinRaises
        <3>3. Held'
            BY <1>0, <3>2, StartedStays
        <3>4. Listed'
            BY <1>0, <3>1, StartedStays
        <3> QED BY <3>1, <3>3, <3>4 DEF ListedIsStarted
    <2>4. CASE JoinDone(c)
        <3>1. threads' = <<>> /\ UNCHANGED joins /\ at'[Main] # "raised"
            BY <1>0, <2>4 DEF JoinDone
        <3>2. Held'
            BY <1>0, <3>1, StartedStays
        <3> QED BY <3>1, <3>2 DEF ListedIsStarted
    <2> QED BY <1>6, <2>1, <2>2, <2>3, <2>4 DEF Stop
<1> QED BY <1>2, <1>3, <1>4, <1>5, <1>6, Steps

-----------------------------------------------------------------------------
(***************************************************************************)
(* The one stop.                                                           *)
(***************************************************************************)

\* A caller that has left "out" never comes back to it: while the stop of
\* run_forever is the only one, every step of a stop is one of its steps.
LEMMA OnlyMainStops ==
    ASSUME TypeOK, CallersInPlace, Undisturbed', [Next]_vars
    PROVE  /\ Undisturbed
           /\ \A c \in Callers : Stop(c) => c = Main
           /\ \A c \in Callers : ~StopCall(c)
<1> USE ServiceAssumption, MainIsCaller
<1> USE DEF TypeOK, CallersInPlace, Undisturbed, Workers, threadVars, workerVars,
            serviceVars, callVars, signalVars, Goto, GotoLoop, Advance, LeaveJoin
<1>1. ASSUME NEW c \in Callers, Stop(c), NEW d \in Others, at'[d] = "out"
      PROVE  at[d] = "out" /\ c # d
    BY <1>1 DEF Stop, StopWorker, StopWorkersDone, TakeThread, Joined, GiveUp, JoinRaises,
                JoinDone, CloseWorker, StopReturn
<1>2. ASSUME NEW c \in Callers, StopCall(c)
      PROVE  FALSE
    BY <1>2 DEF StopCall
<1>3. ASSUME NEW d \in Others, at'[d] = "out"
      PROVE  at[d] = "out"
    <2>1. CASE UNCHANGED vars
        BY <1>3, <2>1 DEF vars
    <2>2. ASSUME NEW w \in Workers, WorkerStep(w) PROVE at[d] = "out"
        BY <1>3, <2>2 DEF WorkerStep, Enter, Check, Poll, EndBatch, Crash
    <2>3. CASE Lead \/ Interrupt \/ Signal \/ Request
        BY <1>3, <2>3 DEF Lead, StartCall, StartReset, StartAppend, StartThread,
                          Install, Wake, Interrupt, Signal, Request
    <2>4. ASSUME NEW c \in Callers, Expire(c) PROVE at[d] = "out"
        BY <1>3, <2>4 DEF Expire
    <2> QED BY <1>1, <1>2, <1>3, <2>1, <2>2, <2>3, <2>4, Steps
<1> QED BY <1>1, <1>2, <1>3 DEF Callers

\* A thread that has ended stays so, unless it is started.
LEMMA EndIsFinal ==
    ASSUME TypeOK, NEW w \in Workers, WorkerStep(w)
    PROVE  /\ UNCHANGED <<workerVars, serviceVars, callVars, signalVars>>
           /\ \A v \in Workers : AtEnd(v) => AtEnd(v)'
BY DEF TypeOK, WorkerStep, Enter, Check, Poll, EndBatch, Crash, AtEnd

\* What Inv says of the one stop.
Told == FleetListed /\ JoinsTrue /\ ClosesTrue

LEMMA StopStep ==
    ASSUME TypeOK, CallersInPlace, ListedIsStarted, Undisturbed => Told, [Next]_vars,
           Undisturbed'
    PROVE  Told'
<1> USE ServiceAssumption, MainIsCaller
<1> USE DEF TypeOK, CallersInPlace, Workers, threadVars, workerVars, serviceVars,
            callVars, signalVars, Goto, GotoLoop, Advance, LeaveJoin
<1>0. Told /\ Undisturbed
    BY OnlyMainStops
<1>1. CASE UNCHANGED vars
    BY <1>0, <1>1 DEF vars, Told, FleetListed, JoinsTrue, ClosesTrue, AtEnd
<1>2. ASSUME NEW w \in Workers, WorkerStep(w) PROVE Told'
    BY <1>0, <1>2, EndIsFinal DEF Told, FleetListed, JoinsTrue, ClosesTrue
<1>3. CASE Lead
    <2>1. CASE StartCall
        BY <1>0, <2>1 DEF StartCall, Told, FleetListed, JoinsTrue, ClosesTrue, AtEnd
    <2>2. CASE StartReset
        BY <1>0, <2>2 DEF StartReset, Told, FleetListed, JoinsTrue, ClosesTrue, AtEnd
    <2>3. CASE StartAppend
        <3>1. FleetListed'
            BY <1>0, <2>3 DEF StartAppend, Told, FleetListed
        <3>2. at'[Main] = "appended"
            BY <2>3 DEF StartAppend
        <3> QED BY <3>1, <3>2 DEF Told, JoinsTrue, ClosesTrue
    <2>4. CASE StartThread
        <3>1. FleetListed'
            BY <1>0, <2>4 DEF StartThread, Told, FleetListed
        <3>2. at'[Main] = "starting"
            BY <2>4 DEF StartThread
        <3> QED BY <3>1, <3>2 DEF Told, JoinsTrue, ClosesTrue
    <2>5. CASE Install
        BY <1>0, <2>5 DEF Install, Told, FleetListed, JoinsTrue, ClosesTrue, AtEnd
    <2>6. CASE Wake
        BY <1>0, <2>6 DEF Wake, Told, FleetListed, JoinsTrue, ClosesTrue, AtEnd
    <2> QED BY <1>3, <2>1, <2>2, <2>3, <2>4, <2>5, <2>6 DEF Lead
<1>4. CASE Interrupt
    BY <1>0, <1>4 DEF Interrupt, Told, FleetListed, JoinsTrue, ClosesTrue, AtEnd
<1>5. CASE Signal \/ Request
    BY <1>0, <1>5 DEF Signal, Request, Told, FleetListed, JoinsTrue, ClosesTrue, AtEnd
<1>6. ASSUME NEW c \in Callers, Expire(c) PROVE Told'
    BY <1>0, <1>6 DEF Expire, Told, FleetListed, JoinsTrue, ClosesTrue, AtEnd
<1>7. ASSUME NEW c \in Callers, StopCall(c) PROVE Told'
    BY <1>7, OnlyMainStops
<1>8. ASSUME NEW c \in Callers, Stop(c) PROVE Told'
    <2>0. c = Main
        BY <1>8, OnlyMainStops
    <2>1. CASE StopWorker(Main)
        BY <1>0, <2>1 DEF StopWorker, Told, FleetListed, JoinsTrue, ClosesTrue, AtEnd
    <2>2. CASE StopWorkersDone(Main)
        BY <1>0, <2>2 DEF StopWorkersDone, Told, FleetListed, JoinsTrue, ClosesTrue, AtEnd
    <2>3. CASE TakeThread(Main)
        <3>1. FleetListed' /\ ClosesTrue'
            BY <1>0, <2>3 DEF TakeThread, Told, FleetListed, ClosesTrue
        <3>2. joins'[Main] = next'[Main]
            BY <1>0, <2>3 DEF TakeThread, Told, FleetListed
        <3>3. JoinsTrue'
            BY <1>0, <2>3, <3>2 DEF TakeThread, Told, JoinsTrue, AtEnd
        <3> QED BY <3>1, <3>3 DEF Told
    <2>4. CASE Joined(Main)
        BY <1>0, <2>4 DEF Joined, Told, FleetListed, JoinsTrue, ClosesTrue, AtEnd
    <2>5. CASE GiveUp(Main)
        BY <1>0, <2>5 DEF GiveUp, Told, FleetListed, JoinsTrue, ClosesTrue, AtEnd
    <2>6. CASE JoinRaises(Main)
        BY <2>6, RaisesInStart
    <2>7. CASE JoinDone(Main)
        BY <1>0, <2>7 DEF JoinDone, Told, FleetListed, JoinsTrue, ClosesTrue, AtEnd
    <2>8. CASE CloseWorker(Main)
        <3>1. FleetListed' /\ JoinsTrue'
            BY <1>0, <2>8 DEF CloseWorker, Told, FleetListed, JoinsTrue, AtEnd
        <3>2. ASSUME NEW w \in Workers, w < next'[Main]
              PROVE  w \in stuck'[Main] \/ closed'[w]
            <4>1. CASE w = next[Main]
                BY <2>8, <4>1 DEF CloseWorker
            <4>2. CASE w < next[Main]
                BY <1>0, <2>8, <4>2 DEF CloseWorker, Told, ClosesTrue
            <4> QED BY <2>8, <3>2, <4>1, <4>2 DEF CloseWorker
        <3>3. ClosesTrue'
            BY <2>8, <3>2 DEF CloseWorker, ClosesTrue
        <3> QED BY <3>1, <3>3 DEF Told
    <2>9. CASE StopReturn(Main)
        BY <1>0, <2>9 DEF StopReturn, Told, FleetListed, JoinsTrue, ClosesTrue, AtEnd
    <2> QED BY <1>8, <2>0, <2>1, <2>2, <2>3, <2>4, <2>5, <2>6, <2>7, <2>8, <2>9 DEF Stop
<1> QED BY <1>1, <1>2, <1>3, <1>4, <1>5, <1>6, <1>7, <1>8, Steps

-----------------------------------------------------------------------------
LEMMA InitInv == Init => Inv
<1> USE ServiceAssumption, MainIsCaller DEF Init, Workers
<1>1. Init => TypeOK
    <2>1. Init => /\ stopping \in [Workers -> BOOLEAN] /\ closed \in [Workers -> BOOLEAN]
                  /\ expired \in [Callers -> BOOLEAN]
                  /\ {stopped, installed, event} \subseteq BOOLEAN
        BY Zenon
    <2> QED BY <2>1 DEF TypeOK
<1>2. Init => CallersInPlace
    BY DEF CallersInPlace
<1>3. Init => FleetListed /\ JoinsTrue /\ ClosesTrue
    BY DEF FleetListed, JoinsTrue, ClosesTrue
<1>4. Init => ListedIsStarted
    BY DEF ListedIsStarted
<1> QED BY <1>1, <1>2, <1>3, <1>4 DEF Inv

\* Inv is inductive: the list of threads is the fleet, and whom the joins and the
\* closes of the one stop have come past is over, or a straggler.
THEOREM Invariance == Spec => []Inv
<1>1. ASSUME Inv, [Next]_vars PROVE Inv'
    <2>1. TypeOK' /\ CallersInPlace'
        BY <1>1, TypeStep DEF Inv
    <2>2. ListedIsStarted'
        BY <1>1, StartedStep DEF Inv
    <2>3. Undisturbed' => (FleetListed /\ JoinsTrue /\ ClosesTrue)'
        BY <1>1, StopStep DEF Inv, Told
    <2> QED BY <2>1, <2>2, <2>3 DEF Inv
<1> QED BY InitInv, <1>1, PTL DEF Spec

\* What the report of the one stop does not name is over (service.py:141-146).
THEOREM ReportIsTrue == Spec => []ReportedDrainedIsOver
<1>1. Inv => ReportedDrainedIsOver
    BY MainIsCaller DEF Inv, JoinsTrue, ClosesTrue, ReportedDrainedIsOver, AtEnd, Alive
<1> QED BY <1>1, Invariance, PTL

\* The one stop closes no consumer under a batch (service.py:143).
THEOREM NoConsumerClosedUnderBatch == Spec => OneStopKeepsConsumer
<1>1. ASSUME Inv, [Next]_vars, Undisturbed, ClosedUnderBatch PROVE FALSE
    <2> USE DEF Inv, TypeOK, Workers, threadVars, workerVars, serviceVars, callVars,
                signalVars
    <2>1. PICK w \in Workers : closed'[w] /\ ~closed[w] /\ thread[w] \in {"polling", "batch"}
        BY <1>1 DEF ClosedUnderBatch
    <2>2. PICK c \in Callers : CloseWorker(c)
        <3>1. ~UNCHANGED closed
            BY <2>1
        <3> QED BY <1>1, <3>1, Steps
                DEF vars, WorkerStep, Enter, Check, Poll, EndBatch, Crash, Lead, StartCall,
                    StartReset, StartAppend, StartThread, Install, Wake, Interrupt, Signal,
                    Request, StopCall, Expire, Stop, StopWorker, StopWorkersDone,
                    TakeThread, Joined, GiveUp, JoinRaises, JoinDone, LeaveJoin, Goto,
                    GotoLoop, Advance, StopReturn
    <2>3. c = Main /\ at[Main] = "closing"
        BY <1>1, <2>2, MainIsCaller DEF CloseWorker, Undisturbed, Callers
    <2>4. w = next[Main] /\ w \notin stuck[Main]
        BY <1>1, <2>1, <2>2, <2>3 DEF CloseWorker
    <2>5. AtEnd(w)
        BY <1>1, <2>3, <2>4 DEF JoinsTrue
    <2> QED BY <2>1, <2>5 DEF AtEnd
<1>2. Inv /\ [Next]_vars => (Undisturbed => ~ClosedUnderBatch)
    BY <1>1
<1> QED BY <1>2, Invariance, PTL DEF Spec, OneStopKeepsConsumer
=============================================================================
