------------------------- MODULE CooperativeProofs -------------------------
(***************************************************************************)
(* The cooperative scheduler implements the specification of the worker    *)
(* threads, for every fleet, batch size, number of idle rounds and mix of  *)
(* failures: one thread that takes turns is one of their interleavings.    *)
(* Whatever is proved of the threads in WorkerProofs then holds of it.     *)
(*                                                                         *)
(* That each action of the scheduler is a step of some worker rests on its *)
(* own bookkeeping (a turn always names a worker of the fleet), and the    *)
(* types of its due times rest on the invariant of the workers: the two    *)
(* are proved together.                                                    *)
(*                                                                         *)
(* Then, for a fleet with one worker per topic: that run_until_idle and    *)
(* drain return only when they are done, and that run_until_idle sleeps    *)
(* past nothing.  A round without a record handled has asked every         *)
(* partition.  The argument (RoundInv) is that each answer stays true      *)
(* until the round is over: one worker commits for a topic, it reads on    *)
(* where the group does, and it is polled once.  That the records behind a *)
(* head are due no sooner than the head rests on the order of the tiers.   *)
(***************************************************************************)
EXTENDS Cooperative, WorkerProofs

CInv ==
    /\ CTypeOK
    /\ place = "new" => crew = Fleet
    /\ place # "returned" => idle < IdleRounds[call]

\* A turn always names a worker.
LEMMA CurrentType ==
    ASSUME CTypeOK
    PROVE  Current \in Workers /\ Len(crew) \in Nat
  <1>1. CASE crew = Fleet
    <2>1. Fleet \in Seq(Workers) /\ turn \in 1 .. Len(Fleet)
      BY <1>1, FleetAssumption DEF CTypeOK
    <2> QED BY <1>1, <2>1 DEF Current
  <1>2. CASE \E w \in Workers : crew = <<w>>
    <2>1. PICK w \in Workers : crew = <<w>>
      BY <1>2
    <2>2. turn = 1
      BY <2>1 DEF CTypeOK
    <2> QED BY <2>1, <2>2 DEF Current
  <1> QED BY <1>1, <1>2 DEF CTypeOK

\* The fleet has a first worker.
LEMMA FleetNotEmpty == Len(Fleet) \in Nat \ {0}
  BY FleetAssumption

\* Every step of the scheduler and of what goes on beside it is a step of the
\* worker threads, or none that they see.
LEMMA CooperativeStep ==
    ASSUME CInv, [CNext]_cvars
    PROVE  [Next]_vars
  <1>1. Current \in Workers
    BY CurrentType DEF CInv
  <1>2. CASE Construct
    <2>1. Fleet[turn] \in Workers
      BY <1>1, <1>2 DEF Construct, CInv, Current
    <2> QED BY <1>2, <2>1 DEF Construct, Next, Control
  <1>3. CASE Poll \/ Within \/ Fetched \/ PutOff \/ Handled \/ Committed \/ Raise
    <2>1. Step(Current)
      BY <1>3 DEF Poll, Within, Fetched, PutOff, Handled, Committed, Raise, Step
    <2> QED BY <1>1, <2>1 DEF Next
  <1>4. CASE Continue \/ Sleep \/ Wake \/ Retreat
    BY <1>4 DEF Continue, Sleep, Wake, Retreat
  <1>5. CASE CallRun \/ \E w \in Workers : CallDrain(w)
    BY <1>5 DEF CallRun, CallDrain, Begin
  <1>6. CASE Surroundings
    BY <1>6 DEF Surroundings, Next, Control
  <1>7. CASE UNCHANGED cvars
    BY <1>7 DEF cvars
  <1> QED BY <1>2, <1>3, <1>4, <1>5, <1>6, <1>7 DEF CNext, Scheduler

\* The history variables of a round that begins are well typed.
LEMMA StartRoundType ==
    ASSUME TypeOK, StartRound
    PROVE  /\ place' = "poll" /\ turn' = 1 /\ busy' = FALSE
           /\ ends' \in [Topics -> [Partitions -> Nat]]
           /\ began' \in Nat
           /\ cut' \in BOOLEAN
  <1>1. \A t \in Topics, p \in Partitions : EndOffset(t, p) \in Nat
    BY DEF TypeOK, EndOffset
  <1> QED BY <1>1 DEF StartRound, EndOffsets, TypeOK

\* The bookkeeping of the scheduler is an invariant, given that of the workers.
LEMMA CInvStep ==
    ASSUME Inv, CInv, [CNext]_cvars
    PROVE  CInv'
  <1>0. TypeOK /\ CTypeOK
    BY DEF Inv, CInv
  <1>1. Current \in Workers /\ Len(crew) \in Nat /\ Len(crew) >= 1
    BY <1>0, CurrentType, FleetNotEmpty DEF CTypeOK
  <1>2. /\ IdleRounds \in [Calls -> Nat \ {0}]
        /\ idle \in Nat /\ turn \in Nat /\ turn <= Len(crew)
    BY <1>0, <1>1, FleetAssumption DEF CTypeOK
  <1>3. ASSUME place = "poll", Advance,
               UNCHANGED <<call, crew, idle, dueAt, wake, ends, began>>,
               busy' \in BOOLEAN, cut' \in BOOLEAN
        PROVE  CInv'
    <2>1. turn' \in 1 .. Len(crew)
      BY <1>1, <1>2, <1>3 DEF Advance
    <2>2. place' \in {"poll", "decide"}
      BY <1>3 DEF Advance
    <2> QED BY <1>0, <1>3, <2>1, <2>2 DEF CInv, CTypeOK
  <1>4. ASSUME place = "poll", place' \in {"poll", "raised"},
               UNCHANGED <<call, crew, turn, idle, wake, ends, began>>, cut' \in BOOLEAN,
               busy' \in BOOLEAN, dueAt' \in [Workers -> Nat \cup {NoDue}]
        PROVE  CInv'
    BY <1>0, <1>4 DEF CInv, CTypeOK
  <1>5. CASE Construct
    <2>1. turn' \in 1 .. Len(crew) /\ place' \in {"new", "returned"}
      BY <1>1, <1>2, <1>5 DEF Construct, CInv
    <2> QED BY <1>0, <1>5, <2>1 DEF Construct, CInv, CTypeOK
  <1>6. CASE Poll
    BY <1>0, <1>4, <1>6 DEF Poll, CTypeOK
  <1>7. CASE Within
    BY <1>0, <1>4, <1>7 DEF Within, CTypeOK, coopVars, callVars
  <1>8. CASE Fetched
    BY <1>0, <1>3, <1>4, <1>8 DEF Fetched, CTypeOK
  <1>9. CASE PutOff
    <2>1. PICK p \in Partitions :
              /\ Holds(Current, p)
              /\ dueAt' = [dueAt EXCEPT ![Current] =
                     IF @ = NoDue \/ Message(Current, p).not_before < @
                     THEN Message(Current, p).not_before ELSE @]
      BY <1>9 DEF PutOff, Defer, IsCurrent
    <2>2. Message(Current, p).not_before \in Nat
      BY <1>1, <2>1, MessageInLog DEF Records
    <2>3. dueAt' \in [Workers -> Nat \cup {NoDue}]
      BY <1>0, <2>1, <2>2 DEF CTypeOK
    <2> QED BY <1>0, <1>4, <1>9, <2>3 DEF PutOff, CTypeOK
  <1>10. CASE Handled
    BY <1>0, <1>4, <1>10 DEF Handled, CTypeOK
  <1>11. CASE Committed
    BY <1>0, <1>3, <1>11 DEF Committed, CTypeOK
  <1>12. CASE Raise
    BY <1>0, <1>4, <1>12 DEF Raise, CTypeOK, callVars
  <1>13. CASE Continue
    BY <1>0, <1>1, <1>2, <1>13, StartRoundType DEF Continue, CInv, CTypeOK, Calls
  <1>14. CASE Sleep
    <2>1. DueTimes \subseteq Nat
      BY <1>0 DEF DueTimes, CTypeOK
    <2> QED BY <1>0, <1>2, <1>14, <2>1 DEF Sleep, CInv, CTypeOK, Calls
  <1>15. CASE Wake
    BY <1>0, <1>1, <1>2, <1>15, StartRoundType DEF Wake, CInv, CTypeOK
  <1>16. CASE Retreat
    <2>1. idle' = idle + 1 /\ idle' <= IdleRounds[call] /\ call' = call /\ call \in Calls
      BY <1>0, <1>2, <1>16 DEF Retreat, NothingToDo, CInv, CTypeOK
    <2>2. CASE idle' < IdleRounds[call]
      BY <1>0, <1>1, <1>2, <1>16, <2>1, <2>2, StartRoundType DEF Retreat, CInv, CTypeOK
    <2>3. CASE ~(idle' < IdleRounds[call])
      BY <1>0, <1>2, <1>16, <2>1, <2>3 DEF Retreat, CInv, CTypeOK
    <2> QED BY <2>2, <2>3
  <1>17. ASSUME NEW kind \in Calls, NEW workers \in {Fleet} \cup {<<w>> : w \in Workers},
                Len(workers) \in Nat \ {0}, Begin(kind, workers)
         PROVE  CInv'
    BY <1>0, <1>2, <1>17, StartRoundType DEF Begin, CInv, CTypeOK
  <1>18. CASE CallRun
    BY <1>17, <1>18, FleetNotEmpty DEF CallRun, Calls
  <1>19. ASSUME NEW w \in Workers, CallDrain(w)
         PROVE  CInv'
    BY <1>17, <1>19 DEF CallDrain, Calls
  <1>20. CASE Surroundings \/ UNCHANGED cvars
    BY <1>20 DEF Surroundings, cvars, coopVars, callVars, CInv, CTypeOK
  <1> QED
    BY <1>5, <1>6, <1>7, <1>8, <1>9, <1>10, <1>11, <1>12, <1>13, <1>14, <1>15, <1>16,
       <1>18, <1>19, <1>20 DEF CNext, Scheduler

\* The first worker of the fleet is built first.
LEMMA CInitInv == CInit => CInv
  <1> SUFFICES ASSUME CInit
               PROVE  CInv
    OBVIOUS
  <1>1. Inv
    BY InitInv DEF CInit
  <1>2. \A t \in Topics, p \in Partitions : EndOffset(t, p) \in Nat
    BY <1>1 DEF Inv, TypeOK, EndOffset
  <1>3. ends \in [Topics -> [Partitions -> Nat]]
    BY <1>2 DEF CInit, EndOffsets
  <1>4. IdleRounds["run"] \in Nat \ {0} /\ Len(Fleet) \in Nat \ {0}
    BY FleetAssumption, FleetNotEmpty DEF Calls
  <1>5. dueAt \in [Workers -> Nat \cup {NoDue}]
    BY DEF CInit
  <1>6. /\ place = "new" /\ call = "run" /\ crew = Fleet /\ turn = 1 /\ busy = FALSE
        /\ idle = 0 /\ wake = 0 /\ began = 0 /\ cut = FALSE
    BY DEF CInit
  <1>7. idle \in 0 .. IdleRounds[call] /\ idle < IdleRounds[call] /\ turn \in 1 .. Len(crew)
    BY <1>4, <1>6
  <1> QED
    BY <1>3, <1>5, <1>6, <1>7 DEF CInv, CTypeOK, Calls

-----------------------------------------------------------------------------
(* A service with one worker for each topic.                               *)

\* What is in a log stays there.
LEMMA LogKeeps ==
    ASSUME Inv, [Next]_vars, NEW t \in Topics, NEW p \in Partitions
    PROVE  /\ EndOffset(t, p) \in Nat /\ EndOffset(t, p)' \in Nat
           /\ EndOffset(t, p) <= EndOffset(t, p)'
           /\ \A i \in 1 .. Len(log[t][p]) : log'[t][p][i] = log[t][p][i]
  <1>0. TypeOK /\ log[t][p] \in Seq(Records)
    BY DEF Inv, TypeOK
  <1>1. CASE log'[t][p] = log[t][p]
    BY <1>0, <1>1 DEF EndOffset
  <1>2. ASSUME NEW r \in Records, log'[t][p] = Append(log[t][p], r)
        PROVE  /\ EndOffset(t, p) \in Nat /\ EndOffset(t, p)' \in Nat
               /\ EndOffset(t, p) <= EndOffset(t, p)'
               /\ \A i \in 1 .. Len(log[t][p]) : log'[t][p][i] = log[t][p][i]
    BY <1>0, <1>2 DEF EndOffset
  <1>3. CASE UNCHANGED log
    BY <1>1, <1>3
  <1>4. ASSUME NEW u \in Topics, NEW r \in Records, AppendRecord(u, r)
        PROVE  log'[t][p] = log[t][p] \/ log'[t][p] = Append(log[t][p], r)
    BY <1>0, <1>4, AppendGrows
  <1> QED BY <1>1, <1>2, <1>3, <1>4, LogStep

\* A group of one member: it is assigned every partition.
LEMMA SoleAssignment ==
    ASSUME NEW t \in Topics, NEW c \in Clients, members[t] = <<c>>
    PROVE  Assignment(t, c) = Partitions
  <1>1. Len(members[t]) = 1 /\ members[t][1] = c
    OBVIOUS
  <1>2. {j \in 1 .. Len(members[t]) : members[t][j] = c} = {1}
    BY <1>1
  <1>3. RangeBlock(0, 1) = Partitions
    <2>1. NumPartitions \in Nat /\ NumPartitions \div 1 = NumPartitions /\ NumPartitions % 1 = 0
      BY PartitionsAssumption
    <2> QED BY <2>1 DEF RangeBlock, Partitions
  <1>4. Assignment(t, c) = UNION {RangeBlock(i - 1, 1) : i \in {1}}
    BY <1>1, <1>2 DEF Assignment
  <1>5. {RangeBlock(i - 1, 1) : i \in {1}} = {RangeBlock(0, 1)}
    OBVIOUS
  <1> QED BY <1>3, <1>4, <1>5

\* The fleet, and each crew, has a worker at one place only.
LEMMA CrewDistinct ==
    ASSUME CTypeOK
    PROVE  /\ \A i \in 1 .. Len(crew) : crew[i] \in Workers
           /\ \A i, j \in 1 .. Len(crew) : crew[i] = crew[j] => i = j
  <1>1. CASE crew = Fleet
    BY <1>1, FleetAssumption
  <1>2. CASE \E w \in Workers : crew = <<w>>
    BY <1>2
  <1> QED BY <1>1, <1>2 DEF CTypeOK

\* Every worker is in the fleet.
LEMMA FleetComplete ==
    ASSUME NEW w \in Workers
    PROVE  \E i \in 1 .. Len(Fleet) : Fleet[i] = w
  BY FleetAssumption DEF Range

\* The turn passes on, within the crew or to the end of the round.
LEMMA AdvanceTo ==
    ASSUME CInv, place = "poll", Advance
    PROVE  /\ turn \in Nat /\ turn' \in Nat
           /\ \/ place' = "poll" /\ turn' = turn + 1
              \/ place' = "decide" /\ turn' = turn /\ turn = Len(crew)
  <1>1. turn \in 1 .. Len(crew) /\ Len(crew) \in Nat
    BY CurrentType DEF CInv, CTypeOK
  <1> QED BY <1>1 DEF Advance

\* A step of poll_once, of the worker whose turn it is.
Turn ==
    /\ place = "poll"
    /\ Poll \/ Within \/ Fetched \/ PutOff \/ Handled \/ Committed \/ Raise

\* A round begins.
Starts ==
    /\ place \in {"decide", "asleep", "returned"}
    /\ StartRound
    /\ UNCHANGED <<vars, dueAt>>
    /\ UNCHANGED <<call, crew>> \/ (call' = "run" /\ crew' = Fleet) \/ call' = "drain"

\* A call ends.
GivesUp ==
    /\ NothingToDo
    /\ place' = "returned"
    /\ UNCHANGED <<vars, call, crew, turn, busy, dueAt, wake, ends, began, cut>>

\* What the worker whose turn it is goes through.
LEMMA TurnLabels ==
    ASSUME TypeOK, Current \in Workers, Turn
    PROVE  \E l \in Labels :
              /\ pc' = [pc EXCEPT ![Current] = l]
              /\ \/ Poll /\ l = "poll"
                 \/ Within /\ l \in {"poll", "admitted", "handler", "returned", "send"}
                 \/ Fetched /\ ~EmptyHanded(Current) /\ l = "batch"
                 \/ Fetched /\ EmptyHanded(Current) /\ l = "idle"
                 \/ PutOff /\ l = "batch"
                 \/ Handled /\ l = "batch"
                 \/ Committed /\ l = "idle"
                 \/ Raise /\ l = "dead"
  <1> USE DEF Goto, Labels
  <1>0. Poll \/ Within \/ Fetched \/ PutOff \/ Handled \/ Committed \/ Raise
    BY DEF Turn
  <1>1. CASE Poll
    BY <1>1 DEF Poll, PollAssign
  <1>2. CASE Within
    <2>1. ASSUME NEW p \in Partitions, PollFetch(Current, p)
          PROVE  pc' = [pc EXCEPT ![Current] = "poll"]
      BY <2>1 DEF PollFetch, TypeOK
    <2>2. ASSUME NEW p \in Partitions
          PROVE  /\ Admit(Current, p) => pc' = [pc EXCEPT ![Current] = "admitted"]
                 /\ Invoke(Current, p) => pc' = [pc EXCEPT ![Current] = "handler"]
                 /\ Return(Current, p) => pc' = [pc EXCEPT ![Current] = "returned"]
      BY DEF Admit, Invoke, Return
    <2>3. ASSUME NEW p \in Partitions, Retry(Current, p) \/ DeadLetter(Current, p)
          PROVE  pc' = [pc EXCEPT ![Current] = "send"]
      BY <2>3 DEF Retry, DeadLetter, Prepare
    <2> QED BY <1>2, <2>1, <2>2, <2>3 DEF Within
  <1>3. CASE Fetched
    <2>1. CASE EmptyHanded(Current)
      BY <1>3, <2>1 DEF Fetched, PollReturn
    <2>2. CASE ~EmptyHanded(Current)
      BY <1>3, <2>2 DEF Fetched, PollReturn
    <2> QED BY <2>1, <2>2
  <1>4. CASE PutOff
    <2>1. pc' = [pc EXCEPT ![Current] = "batch"]
      BY <1>4 DEF PutOff, Defer
    <2> QED BY <1>4, <2>1
  <1>5. CASE Handled
    <2>1. pc' = [pc EXCEPT ![Current] = "batch"]
      BY <1>5 DEF Handled, Duplicate, Succeed, Send
    <2> QED BY <1>5, <2>1
  <1>6. CASE Committed
    BY <1>6 DEF Committed, Commit
  <1>7. CASE Raise
    <2>1. pc' = [pc EXCEPT ![Current] = "dead"]
      BY <1>7 DEF Raise, PollError, StoreError, Escape, SendError, CommitError, Die
    <2> QED BY <1>7, <2>1
  <1> QED BY <1>0, <1>1, <1>2, <1>3, <1>4, <1>5, <1>6, <1>7

\* Where the scheduler goes from a turn.
LEMMA TurnPlaces ==
    ASSUME CInv, Turn
    PROVE  /\ crew' = crew /\ call' = call /\ turn \in Nat /\ turn' \in Nat
           /\ ends' = ends /\ began' = began /\ wake' = wake
           /\ cut => cut'
           /\ \/ place' = "poll" /\ turn' = turn
              \/ /\ Committed \/ (Fetched /\ EmptyHanded(Current))
                 /\ \/ place' = "poll" /\ turn' = turn + 1
                    \/ place' = "decide" /\ turn' = turn /\ turn = Len(crew)
              \/ Raise /\ place' = "raised"
  <1>1. turn \in Nat
    BY DEF CInv, CTypeOK
  <1>2. CASE Poll \/ PutOff \/ Handled \/ Within \/ Raise
    BY <1>1, <1>2 DEF Turn, Poll, PutOff, Handled, Within, Raise, coopVars, callVars
  <1>3. CASE Fetched
    BY <1>1, <1>3, AdvanceTo DEF Fetched, Turn
  <1>4. CASE Committed
    BY <1>1, <1>4, AdvanceTo DEF Committed, Turn
  <1> QED BY <1>2, <1>3, <1>4 DEF Turn

\* The steps of the cooperative mode, as far as the round is concerned.
LEMMA StepKinds ==
    ASSUME [CNext]_cvars
    PROVE  Construct \/ Turn \/ Starts \/ Sleep \/ GivesUp \/ Surroundings \/ UNCHANGED cvars
  <1>1. CASE Poll \/ Within \/ Fetched \/ PutOff \/ Handled \/ Committed \/ Raise
    BY <1>1 DEF Turn, Poll, Within, Fetched, PutOff, Handled, Committed, Raise
  <1>2. CASE Continue
    BY <1>2 DEF Continue, Starts
  <1>3. CASE Wake
    BY <1>3 DEF Wake, Starts
  <1>4. CASE Retreat
    BY <1>4 DEF Retreat, NothingToDo, Starts, GivesUp
  <1>5. CASE CallRun \/ \E w \in Workers : CallDrain(w)
    BY <1>5 DEF CallRun, CallDrain, Begin, Starts
  <1> QED BY <1>1, <1>2, <1>3, <1>4, <1>5 DEF CNext, Scheduler

\* Only the worker whose turn it is does anything.
LEMMA TurnsTakenStep ==
    ASSUME Inv, CInv, TurnsTaken, [CNext]_cvars
    PROVE  TurnsTaken'
  <1> USE DEF InBatch
  <1>0. TypeOK /\ CTypeOK
    BY DEF Inv, CInv
  <1>1. Current \in Workers
    BY <1>0, CurrentType
  <1>2. CASE Construct
    <2>1. Current = Fleet[turn] /\ turn \in 1 .. Len(Fleet) /\ Len(Fleet) \in Nat
      BY <1>0, <1>2, FleetNotEmpty DEF Construct, CInv, CTypeOK, Current
    <2>2. pc' = [pc EXCEPT ![Current] = "idle"]
      BY <1>2, <2>1 DEF Construct, Build, Goto
    <2>3. pc \in [Workers -> Labels] /\ Fleet \in Seq(Workers)
      BY <1>0, FleetAssumption DEF TypeOK
    <2>4. \A i \in 1 .. Len(Fleet) : pc[Fleet[i]] = "absent" <=> i >= turn
      BY <1>2 DEF TurnsTaken, Construct
    <2>5. \A w \in Workers : pc[w] \in {"absent", "idle"}
      BY <1>2 DEF TurnsTaken, Construct
    <2>6. \A i \in 1 .. Len(Fleet) : pc'[Fleet[i]] = "absent" <=> i >= turn + 1
      BY <2>1, <2>2, <2>3, <2>4, FleetAssumption
    <2>7. \A w \in Workers : pc'[w] \in {"absent", "idle"}
      BY <1>1, <2>2, <2>3, <2>5
    <2>8. CASE turn < Len(Fleet)
      <3>1. place' = "new" /\ turn' = turn + 1
        BY <1>2, <2>8 DEF Construct
      <3> QED BY <2>6, <2>7, <3>1 DEF TurnsTaken
    <2>9. CASE ~(turn < Len(Fleet))
      <3>1. place' = "returned"
        BY <1>2, <2>9 DEF Construct
      <3>2. \A w \in Workers : pc'[w] # "absent"
        <4> TAKE w \in Workers
        <4>1. PICK i \in 1 .. Len(Fleet) : Fleet[i] = w
          BY FleetComplete
        <4> QED BY <2>1, <2>6, <2>9, <4>1
      <3> QED BY <2>7, <3>1, <3>2 DEF TurnsTaken
    <2> QED BY <2>8, <2>9
  <1>3. CASE Turn
    <2>1. place = "poll" /\ \A w \in Workers : w # Current => pc[w] = "idle"
      BY <1>3 DEF TurnsTaken, Turn
    <2>2. pc \in [Workers -> Labels]
      BY <1>0 DEF TypeOK
    <2>3. PICK l \in Labels :
              /\ pc' = [pc EXCEPT ![Current] = l]
              /\ \/ Poll /\ l = "poll"
                 \/ Within /\ l \in {"poll", "admitted", "handler", "returned", "send"}
                 \/ Fetched /\ ~EmptyHanded(Current) /\ l = "batch"
                 \/ Fetched /\ EmptyHanded(Current) /\ l = "idle"
                 \/ PutOff /\ l = "batch"
                 \/ Handled /\ l = "batch"
                 \/ Committed /\ l = "idle"
                 \/ Raise /\ l = "dead"
      BY <1>0, <1>1, <1>3, TurnLabels
    <2>4. \A w \in Workers : w # Current => pc'[w] = "idle"
      BY <2>1, <2>2, <2>3
    <2>5. pc'[Current] = l
      BY <1>1, <2>2, <2>3
    <2>6. CASE l = "idle"
      <3>1. \A w \in Workers : pc'[w] = "idle"
        BY <2>4, <2>5, <2>6
      <3>2. place' \in {"poll", "decide", "raised"}
        BY <1>3, TurnPlaces
      <3> QED BY <3>1, <3>2 DEF TurnsTaken
    <2>7. CASE l = "dead"
      <3>1. place' = "raised"
        BY <2>3, <2>7 DEF Raise
      <3> QED BY <3>1 DEF TurnsTaken
    <2>8. CASE l \in {"poll"} \cup InBatch
      <3>1. place' = "poll" /\ turn' = turn /\ crew' = crew
        BY <1>3, <2>1, <2>3, <2>8
           DEF Poll, Within, Fetched, PutOff, Handled, coopVars, callVars
      <3>2. Current' = Current
        BY <3>1 DEF Current
      <3> QED BY <2>4, <2>5, <2>8, <3>1, <3>2 DEF TurnsTaken
    <2> QED BY <2>3, <2>6, <2>7, <2>8
  <1>4. CASE Starts
    <2>1. \A w \in Workers : pc'[w] = "idle"
      BY <1>4 DEF TurnsTaken, Starts, vars, clientVars
    <2>2. place' = "poll"
      BY <1>4 DEF Starts, StartRound
    <2> QED BY <2>1, <2>2 DEF TurnsTaken
  <1>5. CASE Sleep \/ GivesUp
    <2>1. \A w \in Workers : pc'[w] = "idle"
      BY <1>5 DEF TurnsTaken, Sleep, GivesUp, NothingToDo, vars, clientVars
    <2>2. place' \in {"asleep", "returned"}
      BY <1>5 DEF Sleep, GivesUp
    <2> QED BY <2>1, <2>2 DEF TurnsTaken
  <1>6. CASE Surroundings \/ UNCHANGED cvars
    <2>1. UNCHANGED pc
      BY <1>6 DEF Surroundings, Produce, Tick, Forget, Deliver, cvars, vars, clientVars
    <2>2. UNCHANGED coopVars
      BY <1>6 DEF Surroundings, cvars
    <2> QED BY <2>1, <2>2 DEF TurnsTaken, Current, coopVars, callVars
  <1> QED BY <1>2, <1>3, <1>4, <1>5, <1>6, StepKinds

\* A turn is a step of the worker: the others, and the groups, stay as they are.
LEMMA TurnKeeps ==
    ASSUME TypeOK, CTypeOK, Current \in Workers, Turn
    PROVE  /\ Step(Current)
           /\ members' = members
           /\ \A v \in Workers : v # Current =>
                 /\ pc'[v] = pc[v] /\ position'[v] = position[v] /\ hand'[v] = hand[v]
                 /\ toFetch'[v] = toFetch[v] /\ outgoing'[v] = outgoing[v]
                 /\ dueAt'[v] = dueAt[v]
  <1>1. Step(Current)
    BY DEF Turn, Poll, Within, Fetched, PutOff, Handled, Committed, Raise, Step
  <1>2. members' = members
    <2>1. ASSUME NEW p \in Partitions,
                 \/ PollFetch(Current, p) \/ Admit(Current, p) \/ Invoke(Current, p)
                 \/ Return(Current, p) \/ Retry(Current, p)
                 \/ DeadLetter(Current, p) \/ Defer(Current, p)
          PROVE  members' = members
      BY <2>1 DEF PollFetch, Admit, Invoke, Return, Retry, DeadLetter, Defer, Prepare, brokerVars
    <2>2. ASSUME NEW p \in Partitions,
                 Duplicate(Current, p) \/ Succeed(Current, p) \/ Send(Current, p)
          PROVE  members' = members
      BY <2>2 DEF Duplicate, Succeed, Send, brokerVars
    <2>3. CASE PollAssign(Current) \/ PollReturn(Current) \/ Commit(Current)
      BY <2>3 DEF PollAssign, PollReturn, Commit, brokerVars
    <2>4. CASE \/ PollError(Current) \/ StoreError(Current) \/ Escape(Current)
               \/ SendError(Current) \/ CommitError(Current)
      BY <2>4 DEF PollError, StoreError, Escape, SendError, CommitError, Die
    <2> QED
      BY <2>1, <2>2, <2>3, <2>4
         DEF Turn, Poll, Within, Fetched, PutOff, Handled, Committed, Raise
  <1>3. ASSUME NEW v \in Workers, v # Current
        PROVE  dueAt'[v] = dueAt[v]
    <2>1. dueAt \in [Workers -> Nat \cup {NoDue}]
      BY DEF CTypeOK
    <2>2. CASE Poll
      BY <1>3, <2>1, <2>2 DEF Poll
    <2>3. CASE PutOff
      <3>1. PICK due : dueAt' = [dueAt EXCEPT ![Current] = due]
        BY <2>3 DEF PutOff
      <3> QED BY <1>3, <2>1, <3>1
    <2>4. CASE Within \/ Fetched \/ Handled \/ Committed \/ Raise
      BY <2>4 DEF Within, Fetched, Handled, Committed, Raise, coopVars, callVars
    <2> QED BY <2>2, <2>3, <2>4 DEF Turn
  <1> QED BY <1>1, <1>2, <1>3, OthersUntouched

\* A worker is the only member of its group from when it is built.
LEMMA SoleMembersStep ==
    ASSUME OneWorkerEach, Inv, CInv, TurnsTaken, SoleMembers, [CNext]_cvars
    PROVE  SoleMembers'
  <1> SUFFICES ASSUME NEW w \in Workers
               PROVE  members'[TopicOf[w]] = IF pc'[w] = "absent" THEN <<>> ELSE <<ClientOf[w]>>
    BY DEF SoleMembers
  <1>0. TypeOK /\ CTypeOK /\ Current \in Workers
    BY CurrentType DEF Inv, CInv
  <1>1. /\ TopicOf[w] \in Topics /\ pc \in [Workers -> Labels]
        /\ members \in [Topics -> Seq(Clients)]
    BY <1>0, TopicsOfWorkers DEF TypeOK
  <1>2. members[TopicOf[w]] = IF pc[w] = "absent" THEN <<>> ELSE <<ClientOf[w]>>
    BY DEF SoleMembers
  <1>3. CASE members' = members /\ (pc'[w] = "absent" <=> pc[w] = "absent")
    BY <1>2, <1>3
  <1>4. CASE Construct
    <2>1. Current = Fleet[turn] /\ turn \in 1 .. Len(Fleet)
      BY <1>0, <1>4 DEF Construct, CInv, CTypeOK, Current
    <2>2. pc' = [pc EXCEPT ![Current] = "idle"] /\ Join(TopicOf[Current], ClientOf[Current])
      BY <1>4, <2>1 DEF Construct, Build, Goto
    <2>3. CASE w = Current
      <3>1. pc[w] = "absent"
        BY <1>0, <1>4, <2>1, <2>3 DEF TurnsTaken, Construct, CTypeOK
      <3>2. members[TopicOf[w]] = <<>>
        BY <1>2, <3>1
      <3>3. members'[TopicOf[w]] = Append(<<>>, ClientOf[w])
        BY <1>1, <2>2, <2>3, <3>2 DEF Join, IsMember
      <3> QED BY <1>1, <2>2, <2>3, <3>3
    <2>4. CASE w # Current
      <3>1. TopicOf[w] # TopicOf[Current]
        BY <1>0, <2>4 DEF OneWorkerEach
      <3>2. members'[TopicOf[w]] = members[TopicOf[w]] /\ pc'[w] = pc[w]
        BY <1>1, <2>2, <2>4, <3>1 DEF Join
      <3> QED BY <1>2, <3>2
    <2> QED BY <2>3, <2>4
  <1>5. CASE Turn
    <2>1. pc[w] # "absent"
      BY <1>5 DEF TurnsTaken, Turn, InBatch
    <2>2. \E l \in Labels : l # "absent" /\ pc' = [pc EXCEPT ![Current] = l]
      BY <1>0, <1>5, TurnLabels
    <2>3. pc'[w] # "absent"
      BY <1>1, <2>1, <2>2
    <2> QED BY <1>0, <1>3, <1>5, <2>1, <2>3, TurnKeeps
  <1>6. CASE Starts \/ Sleep \/ GivesUp
    BY <1>3, <1>6 DEF Starts, Sleep, GivesUp, vars, clientVars, brokerVars
  <1>7. CASE Surroundings \/ UNCHANGED cvars
    <2>1. UNCHANGED pc /\ UNCHANGED members
      BY <1>7 DEF Surroundings, Produce, Tick, Forget, Deliver, cvars, vars, clientVars, brokerVars
    <2> QED BY <1>3, <2>1
  <1> QED BY <1>4, <1>5, <1>6, <1>7, StepKinds

\* The committed offsets of a worker's topic are those it commits itself.
LEMMA OthersCommit ==
    ASSUME OneWorkerEach, Inv, CInv, [CNext]_cvars, NEW w \in Workers, NEW p \in Partitions,
           ~(w = Current /\ (Committed \/ Raise))
    PROVE  Begins(w, p)' = Begins(w, p)
  <1>0. TypeOK /\ Current \in Workers /\ TopicOf[w] \in Topics
    BY CurrentType, TopicsOfWorkers DEF Inv, CInv
  <1>1. CASE UNCHANGED committed
    BY <1>1 DEF Begins, CommittedOffset
  <1>2. CASE Committed \/ Raise
    <2>1. UNCHANGED committed \/ CommitPositions(Current)
      BY <1>2 DEF Committed, Commit, Raise, PollError, StoreError, Escape, SendError, CommitError
    <2>2. TopicOf[w] # TopicOf[Current]
      BY <1>0, <1>2 DEF OneWorkerEach
    <2>3. committed'[TopicOf[w]] = committed[TopicOf[w]]
      BY <1>0, <2>1, <2>2 DEF CommitPositions, TypeOK
    <2> QED BY <2>3 DEF Begins, CommittedOffset
  <1>3. CASE Poll \/ Within \/ Fetched \/ PutOff \/ Handled
    <2>1. ASSUME NEW q \in Partitions,
                 \/ PollFetch(Current, q) \/ Admit(Current, q) \/ Invoke(Current, q)
                 \/ Return(Current, q) \/ Retry(Current, q)
                 \/ DeadLetter(Current, q) \/ Defer(Current, q)
          PROVE  UNCHANGED committed
      BY <2>1 DEF PollFetch, Admit, Invoke, Return, Retry, DeadLetter, Defer, Prepare, brokerVars
    <2>2. ASSUME NEW q \in Partitions,
                 Duplicate(Current, q) \/ Succeed(Current, q) \/ Send(Current, q)
          PROVE  UNCHANGED committed
      BY <2>2 DEF Duplicate, Succeed, Send, brokerVars
    <2>3. ASSUME PollAssign(Current)
          PROVE  UNCHANGED committed
      BY <2>3 DEF PollAssign, brokerVars
    <2>4. ASSUME PollReturn(Current)
          PROVE  UNCHANGED committed
      BY <2>4 DEF PollReturn, brokerVars
    <2>5. UNCHANGED committed
      BY <1>3, <2>1, <2>2, <2>3, <2>4 DEF Poll, Within, Fetched, PutOff, Handled
    <2> QED BY <1>1, <2>5
  <1>4. CASE Construct
    BY <1>1, <1>4 DEF Construct, Build
  <1>5. CASE Starts \/ Sleep \/ GivesUp \/ Surroundings \/ UNCHANGED cvars
    BY <1>1, <1>5 DEF Starts, Sleep, GivesUp, Surroundings, Produce, Tick, Forget, Deliver,
                      cvars, vars, brokerVars
  <1> QED BY <1>2, <1>3, <1>4, <1>5, StepKinds DEF Turn

\* After a poll that has nothing for a partition its position is where the group
\* begins to read.
LEMMA NothingFetched ==
    ASSUME Inv, NEW w \in Workers, Fetches(w), NEW p \in Partitions \ toFetch[w], ~Holds(w, p)
    PROVE  position[w][p] = Begins(w, p)
  <1>1. hand[w][p].first \in Nat /\ hand[w][p].last \in Nat
    BY WorkerTypes
  <1>2. /\ hand[w][p].first = Begins(w, p) /\ hand[w][p].last = position[w][p]
        /\ hand[w][p].first <= hand[w][p].last
    BY DEF Fetches
  <1> QED BY <1>1, <1>2 DEF Holds

\* Where a poll goes on is where the group begins to read.
LEMMA PositionsStep ==
    ASSUME OneWorkerEach, Inv, CInv, TurnsTaken, SoleMembers, PositionsCommitted, [CNext]_cvars,
           \A w \in Workers : pc[w] = "poll" => Fetches(w)
    PROVE  PositionsCommitted'
  <1> SUFFICES ASSUME NEW w \in Workers, NEW p \in Partitions,
                      pc'[w] = "idle" \/ (pc'[w] = "poll" /\ p \in toFetch'[w])
               PROVE  position'[w][p] \in {NoOffset, Begins(w, p)'}
    BY DEF PositionsCommitted, Begins
  <1>0. TypeOK /\ CTypeOK /\ Current \in Workers /\ TopicOf[w] \in Topics
    BY CurrentType, TopicsOfWorkers DEF Inv, CInv
  <1>1. /\ pc \in [Workers -> Labels] /\ toFetch \in [Workers -> SUBSET Partitions]
        /\ position \in [Workers -> [Partitions -> Offsets]]
    BY <1>0 DEF TypeOK
  <1>2. pc[w] = "idle" \/ (pc[w] = "poll" /\ p \in toFetch[w]) =>
            position[w][p] \in {NoOffset, Begins(w, p)}
    BY DEF PositionsCommitted
  <1>3. CASE /\ pc'[w] = pc[w] /\ position'[w] = position[w] /\ toFetch'[w] = toFetch[w]
             /\ Begins(w, p)' = Begins(w, p)
    BY <1>2, <1>3
  <1>4. CASE Construct
    <2>1. Begins(w, p)' = Begins(w, p)
      BY <1>4, OthersCommit DEF Construct, Committed, Raise
    <2>2. /\ pc' = [pc EXCEPT ![Fleet[turn]] = "idle"] /\ UNCHANGED toFetch
          /\ position' = [position EXCEPT ![Fleet[turn]] = [q \in Partitions |-> NoOffset]]
      BY <1>4 DEF Construct, Build, Goto
    <2> QED BY <1>1, <1>3, <2>1, <2>2
  <1>5. CASE Turn /\ w # Current
    BY <1>0, <1>3, <1>5, TurnKeeps, OthersCommit
  <1>6. CASE Turn /\ w = Current
    <2>1. CASE Poll
      <3>1. Begins(w, p)' = Begins(w, p)
        BY <2>1 DEF Poll, PollAssign, brokerVars, Begins, CommittedOffset
      <3>2. position'[w][p] \in {NoOffset, position[w][p]} /\ pc[w] = "idle"
        BY <1>1, <1>6, <2>1 DEF Poll, PollAssign
      <3> QED BY <1>2, <3>1, <3>2
    <2>2. ASSUME NEW q \in Partitions, PollFetch(w, q)
          PROVE  position'[w][p] \in {NoOffset, Begins(w, p)'}
      <3>1. Begins(w, p)' = Begins(w, p)
        BY <2>2 DEF PollFetch, brokerVars, Begins, CommittedOffset
      <3>2. pc[w] = "poll" /\ pc'[w] = "poll" /\ toFetch'[w] = toFetch[w] \ {q}
        BY <1>1, <2>2 DEF PollFetch
      <3>3. \E x : position' = [position EXCEPT ![w][q] = x]
        BY <2>2 DEF PollFetch
      <3>4. position'[w][p] = position[w][p]
        BY <1>1, <3>2, <3>3
      <3> QED BY <1>2, <3>1, <3>2, <3>4
    <2>3. CASE Within
      <3>1. \E q \in Partitions : PollFetch(w, q)
        <4>1. ASSUME NEW q \in Partitions,
                     \/ Admit(w, q) \/ Invoke(w, q) \/ Return(w, q)
                     \/ Retry(w, q) \/ DeadLetter(w, q)
              PROVE  FALSE
          BY <1>1, <4>1 DEF Admit, Invoke, Return, Retry, DeadLetter, Prepare, Goto
        <4> QED BY <1>6, <2>3, <4>1 DEF Within
      <3> QED BY <2>2, <3>1
    <2>4. CASE Fetched
      <3>1. Begins(w, p)' = Begins(w, p)
        BY <1>6, <2>4 DEF Fetched, PollReturn, brokerVars, Begins, CommittedOffset
      <3>2. /\ pc[w] = "poll" /\ toFetch'[w] = {} /\ EmptyHanded(w)
            /\ position'[w][p] \in {NoOffset, Begins(w, p), position[w][p]}
        BY <1>1, <1>6, <2>4 DEF Fetched, PollReturn, Goto, Begins
      <3>3. CASE p \in toFetch[w]
        BY <1>2, <3>1, <3>2, <3>3
      <3>4. CASE p \notin toFetch[w]
        BY <3>1, <3>2, <3>4, NothingFetched DEF EmptyHanded
      <3> QED BY <3>3, <3>4
    <2>5. CASE PutOff \/ Handled \/ Raise
      BY <1>0, <1>1, <1>6, <2>5 DEF PutOff, Handled, Raise, Defer, Duplicate, Succeed, Send,
                     PollError, StoreError, Escape, SendError, CommitError, Die, Goto
    <2>6. CASE Committed
      <3>1. position'[w][p] = position[w][p]
        BY <1>6, <2>6 DEF Committed, Commit
      <3>2. committed'[TopicOf[w]][p] =
                IF position[w][p] = NoOffset THEN committed[TopicOf[w]][p] ELSE position[w][p]
        BY <1>0, <1>6, <2>6 DEF Committed, Commit, CommitPositions, TypeOK
      <3> QED BY <3>1, <3>2 DEF Begins, CommittedOffset
    <2> QED BY <1>6, <2>1, <2>3, <2>4, <2>5, <2>6 DEF Turn
  <1>7. CASE Starts \/ Sleep \/ GivesUp
    BY <1>3, <1>7 DEF Starts, Sleep, GivesUp, vars, clientVars, brokerVars, Begins, CommittedOffset
  <1>8. CASE Surroundings \/ UNCHANGED cvars
    <2>1. UNCHANGED <<pc, committed, position, toFetch>>
      BY <1>8 DEF Surroundings, Produce, Tick, Forget, Deliver, cvars, vars, clientVars, brokerVars
    <2> QED BY <1>3, <2>1 DEF Begins, CommittedOffset
  <1> QED BY <1>4, <1>5, <1>6, <1>7, <1>8, StepKinds

\* A fetch takes something of what is in a partition, as there is room.
LEMMA FetchStep ==
    ASSUME Inv, CInv, Current \in Workers, PositionsCommitted, NEW q \in Partitions,
           PollFetch(Current, q), Within, Fetches(Current),
           \A t \in Topics, p \in Partitions : ends[t][p] <= EndOffset(t, p)
    PROVE  Fetches(Current)'
  <1> DEFINE w == Current
             start == IF position[w][q] = NoOffset
                      THEN CommittedOffset(TopicOf[w], q) ELSE position[w][q]
             there == EndOffset(TopicOf[w], q) - start
             count == IF there < room[w] THEN there ELSE room[w]
  <1>0. TypeOK /\ CTypeOK /\ TopicOf[w] \in Topics
    BY TopicsOfWorkers DEF Inv, CInv
  <1>1. /\ position \in [Workers -> [Partitions -> Offsets]]
        /\ hand \in [Workers -> [Partitions -> [first : Nat, last : Nat]]]
        /\ toFetch \in [Workers -> SUBSET Partitions]
        /\ room \in [Workers -> 0 .. BatchSize]
    BY <1>0 DEF TypeOK
  <1>2. /\ Begins(w, q) \in Nat /\ EndOffset(TopicOf[w], q) \in Nat
        /\ Begins(w, q) <= EndOffset(TopicOf[w], q)
    BY WorkerTypes DEF Begins
  <1>3. pc[w] = "poll" /\ q \in toFetch[w] /\ room[w] > 0
    BY DEF PollFetch
  <1>4. start = Begins(w, q)
    BY <1>3 DEF PositionsCommitted, Begins
  <1>5. room[w] \in Nat /\ room[w] <= BatchSize /\ BatchSize \in Nat
    BY <1>1, WorkersAssumption
  <1>6. /\ position' = [position EXCEPT ![w][q] = start + count]
        /\ hand' = [hand EXCEPT ![w][q] = [first |-> start, last |-> start + count]]
        /\ room' = [room EXCEPT ![w] = @ - count]
        /\ toFetch' = [toFetch EXCEPT ![w] = @ \ {q}]
    BY DEF PollFetch
  <1>7. UNCHANGED <<committed, ends, place, crew, turn>>
    BY DEF PollFetch, brokerVars, Within, coopVars, callVars
  <1>8. /\ \A p \in Partitions : Begins(w, p)' = Begins(w, p)
        /\ w' = w
    BY <1>7 DEF Begins, CommittedOffset, Current
  <1>9. ends[TopicOf[w]][q] \in Nat /\ ends[TopicOf[w]][q] <= EndOffset(TopicOf[w], q)
    BY <1>0 DEF CTypeOK
  <1> HIDE DEF start, w
  <1>10. there \in Nat /\ count \in Nat /\ count <= room[w] /\ (count < room[w] => count = there)
    BY <1>2, <1>4, <1>5
  <1>11. there = EndOffset(TopicOf[w], q) - start
    OBVIOUS
  <1> HIDE DEF there, count
  <1>12. room'[w] = room[w] - count
    BY <1>1, <1>6 DEF w
  <1>13. /\ hand'[w][q] = [first |-> start, last |-> start + count]
         /\ position'[w][q] = start + count
    BY <1>1, <1>6 DEF w
  <1>14. \A p \in Partitions \ {q} : hand'[w][p] = hand[w][p] /\ position'[w][p] = position[w][p]
    BY <1>1, <1>6 DEF w
  <1>15. hand'[w][q].first < hand'[w][q].last \/ position'[w][q] >= ends[TopicOf[w]][q]
    BY <1>2, <1>3, <1>4, <1>5, <1>9, <1>10, <1>11, <1>13
  <1>16. ASSUME room'[w] < BatchSize
         PROVE  \E p \in Partitions : hand'[w][p].first < hand'[w][p].last
    <2>1. CASE count > 0
      <3>1. hand'[w][q].first < hand'[w][q].last
        BY <1>2, <1>4, <1>10, <1>13, <2>1
      <3> QED BY <3>1
    <2>2. CASE ~(count > 0)
      <3>1. room[w] < BatchSize
        BY <1>5, <1>10, <1>12, <1>16, <2>2
      <3>2. PICK p \in Partitions : Holds(w, p)
        BY <3>1 DEF Fetches, EmptyHanded, w
      <3>3. p # q => hand'[w][p].first < hand'[w][p].last
        BY <1>14, <3>2 DEF Holds
      <3>4. CASE p = q
        <4>1. HandEmptyBetweenBatches(w)
          BY DEF Inv, WorkerInv, w
        <4> QED BY <1>3, <3>2, <3>4, <4>1 DEF HandEmptyBetweenBatches
      <3> QED BY <3>3, <3>4
    <2> QED BY <2>1, <2>2
  <1>17. ASSUME NEW p \in Partitions, p \notin toFetch'[w]
         PROVE  /\ hand'[w][p].first = Begins(w, p)
                /\ hand'[w][p].last = position'[w][p]
                /\ hand'[w][p].first <= hand'[w][p].last
                /\ \/ hand'[w][p].first < hand'[w][p].last
                   \/ position'[w][p] >= ends[TopicOf[w]][p]
    <2>1. CASE p = q
      BY <1>2, <1>4, <1>10, <1>13, <1>15, <2>1
    <2>2. CASE p # q
      <3>1. p \notin toFetch[w]
        BY <1>1, <1>6, <1>17, <2>2 DEF w
      <3>2. /\ hand[w][p].first = Begins(w, p)
            /\ hand[w][p].last = position[w][p]
            /\ hand[w][p].first <= hand[w][p].last
            /\ hand[w][p].first < hand[w][p].last \/ position[w][p] >= ends[TopicOf[w]][p]
        BY <3>1 DEF Fetches, Holds, w
      <3>3. hand'[w][p] = hand[w][p] /\ position'[w][p] = position[w][p]
        BY <1>14, <2>2
      <3> QED BY <3>2, <3>3
    <2> QED BY <2>1, <2>2
  <1> QED
    BY <1>7, <1>8, <1>16, <1>17 DEF Fetches, EmptyHanded, Holds, w

\* A poll knows what it has taken.
LEMMA FetchesStep ==
    ASSUME Inv, CInv, TurnsTaken, SoleMembers, PositionsCommitted, [CNext]_cvars,
           \A v \in Workers : pc[v] = "poll" => Fetches(v),
           \A t \in Topics, p \in Partitions : ends[t][p] <= EndOffset(t, p),
           NEW w \in Workers, pc'[w] = "poll"
    PROVE  Fetches(w)'
  <1>0. TypeOK /\ CTypeOK /\ Current \in Workers
    BY CurrentType DEF Inv, CInv
  <1>1. pc \in [Workers -> Labels]
    BY <1>0 DEF TypeOK
  <1>2. CASE Construct
    <2>1. pc' = [pc EXCEPT ![Fleet[turn]] = "idle"] /\ pc[w] # "poll"
      BY <1>2 DEF Construct, Build, Goto, TurnsTaken
    <2> QED BY <1>1, <2>1
  <1>3. CASE Turn /\ w # Current
    BY <1>0, <1>3, TurnKeeps DEF TurnsTaken, Turn
  <1>4. CASE Turn /\ w = Current
    <2>1. PICK l \in Labels :
              /\ pc' = [pc EXCEPT ![Current] = l]
              /\ \/ Poll /\ l = "poll"
                 \/ Within /\ l \in {"poll", "admitted", "handler", "returned", "send"}
                 \/ l \in {"batch", "idle", "dead"}
      BY <1>0, <1>4, TurnLabels
    <2>2. CASE Poll
      <3>1. UNCHANGED Current
        BY <2>2 DEF Poll, Current
      <3>2. pc[w] = "idle"
        BY <1>4, <2>2 DEF Poll, PollAssign
      <3>3. members[TopicOf[w]] = <<ClientOf[w]>>
        BY <3>2 DEF SoleMembers
      <3>4. Assignment(TopicOf[w], ClientOf[w]) = Partitions
        BY <3>3, SoleAssignment, TopicsOfWorkers
      <3>5. toFetch'[w] = Partitions /\ room'[w] = BatchSize
        BY <1>0, <1>4, <2>2, <3>4 DEF Poll, PollAssign, TypeOK
      <3> QED BY <3>5, WorkersAssumption DEF Fetches
    <2>3. CASE Within
      <3>1. ASSUME NEW q \in Partitions,
                   \/ Admit(w, q) \/ Invoke(w, q) \/ Return(w, q)
                   \/ Retry(w, q) \/ DeadLetter(w, q)
            PROVE  FALSE
        BY <1>1, <3>1 DEF Admit, Invoke, Return, Retry, DeadLetter, Prepare, Goto
      <3>2. PICK q \in Partitions : PollFetch(w, q)
        BY <1>4, <2>3, <3>1 DEF Within
      <3>3. Fetches(Current)'
        BY <1>0, <1>4, <2>3, <3>2, FetchStep DEF PollFetch
      <3>4. UNCHANGED Current
        BY <2>3 DEF Within, Current, coopVars, callVars
      <3> QED BY <1>4, <3>3, <3>4 DEF Fetches, EmptyHanded, Holds, Begins, CommittedOffset
    <2> QED BY <1>1, <1>4, <2>1, <2>2, <2>3
  <1>5. CASE Starts \/ Sleep \/ GivesUp
    BY <1>5 DEF TurnsTaken, Starts, Sleep, GivesUp, NothingToDo, vars, clientVars
  <1>6. CASE Surroundings \/ UNCHANGED cvars
    <2>1. UNCHANGED <<pc, committed, position, toFetch, hand, room, ends>>
      BY <1>6 DEF Surroundings, Produce, Tick, Forget, Deliver, cvars, vars, clientVars,
                  brokerVars, coopVars, callVars
    <2> QED BY <2>1 DEF Fetches, EmptyHanded, Holds, Begins, CommittedOffset
  <1> QED BY <1>2, <1>3, <1>4, <1>5, <1>6, StepKinds

\* What was answered stays answered until the next round begins.
LEMMA AnsweredStays ==
    ASSUME Inv, CInv, [CNext]_cvars, NEW w \in Workers, NEW p \in Partitions,
           Begins(w, p)' = Begins(w, p), dueAt'[w] = dueAt[w],
           ends' = ends, began' = began, cut => cut',
           ends[TopicOf[w]][p] <= EndOffset(TopicOf[w], p),
           Answered(w, p)
    PROVE  Answered(w, p)'
  <1> DEFINE t == TopicOf[w]
             b == Begins(w, p)
  <1>0. t \in Topics /\ CTypeOK
    BY TopicsOfWorkers DEF CInv
  <1>1. /\ b \in Nat /\ EndOffset(t, p) \in Nat /\ ends[t][p] \in Nat
    BY <1>0, WorkerTypes DEF Begins, CTypeOK
  <1>2. CASE b >= ends[t][p] \/ cut
    BY <1>2 DEF Answered
  <1>3. CASE ~(b >= ends[t][p]) /\ ~cut
    <2>1. b + 1 \in 1 .. EndOffset(t, p)
      BY <1>1, <1>3
    <2>2. log'[t][p][b + 1] = log[t][p][b + 1]
      BY <1>0, <2>1, LogKeeps, CooperativeStep DEF EndOffset
    <2>3. RecordAt(t, p, b)' = RecordAt(t, p, b)
      BY <2>2 DEF RecordAt
    <2>4. HeadDue(w, p)' = HeadDue(w, p)
      BY <2>3 DEF HeadDue
    <2> QED BY <1>3, <2>4 DEF Answered
  <1> QED BY <1>2, <1>3

\* So does a worker whose turn is over.
LEMMA FinishedStays ==
    ASSUME Inv, CInv, [CNext]_cvars, NEW w \in Workers,
           \A p \in Partitions : Begins(w, p)' = Begins(w, p),
           dueAt'[w] = dueAt[w], ends' = ends, began' = began, cut => cut',
           \A t \in Topics, p \in Partitions : ends[t][p] <= EndOffset(t, p),
           Finished(w)
    PROVE  Finished(w)'
  <1>1. TopicOf[w] \in Topics
    BY TopicsOfWorkers
  <1>2. \A p \in Partitions : Answered(w, p)'
    BY <1>1, AnsweredStays DEF Finished
  <1>3. \A p \in Partitions : dueAt[w] = NoDue => Begins(w, p) >= ends[TopicOf[w]][p]
    BY DEF Finished
  <1> QED BY <1>2, <1>3 DEF Finished

\* A poll that brought something: what it has in hand begins where the group does,
\* and the other partitions are answered for, or there was no room for them.
LEMMA PutsBackFetched ==
    ASSUME Inv, CInv, SoleMembers, PositionsCommitted, Fetched, ~EmptyHanded(Current),
           Fetches(Current)
    PROVE  PutsBack(Current)'
  <1> DEFINE w == Current
             t == TopicOf[w]
  <1>0. TypeOK /\ CTypeOK /\ w \in Workers /\ t \in Topics
    BY CurrentType, TopicsOfWorkers DEF Inv, CInv
  <1>1. /\ pc[w] = "poll"
        /\ UNCHANGED <<hand, committed, ends, crew, turn>>
        /\ cut' = (cut \/ toFetch[w] # {})
    BY DEF Fetched, PollReturn, brokerVars
  <1>2. Assignment(t, ClientOf[w]) = Partitions
    <2>1. members[t] = <<ClientOf[w]>>
      BY <1>0, <1>1 DEF SoleMembers
    <2> QED BY <1>0, <2>1, SoleAssignment, TopicsOfWorkers
  <1>3. ASSUME NEW p \in Partitions
        PROVE  position'[w][p] = IF position[w][p] = NoOffset THEN Begins(w, p) ELSE position[w][p]
    BY <1>0, <1>2, <1>3 DEF Fetched, PollReturn, TypeOK, Begins
  <1>4. w' = w /\ \A p \in Partitions : Begins(w, p)' = Begins(w, p) /\ (Holds(w, p)' <=> Holds(w, p))
    BY <1>1 DEF Current, Begins, CommittedOffset, Holds
  <1> HIDE DEF w, t
  <1>5. ASSUME NEW p \in Partitions, Holds(w, p)
        PROVE  hand[w][p].first = Begins(w, p)
    <2>1. HandEmptyBetweenBatches(w)
      BY <1>0 DEF Inv, WorkerInv
    <2>2. p \notin toFetch[w]
      BY <1>1, <1>5, <2>1 DEF HandEmptyBetweenBatches
    <2> QED BY <2>2 DEF Fetches, w
  <1>6. ASSUME NEW p \in Partitions, ~Holds(w, p)
        PROVE  /\ position'[w][p] = Begins(w, p)
               /\ cut' \/ Begins(w, p) >= ends[t][p]
    <2>1. Begins(w, p) \in Nat
      BY <1>0, WorkerTypes DEF Begins
    <2>2. CASE p \in toFetch[w]
      <3>1. position[w][p] \in {NoOffset, Begins(w, p)}
        BY <1>0, <1>1, <2>2 DEF PositionsCommitted
      <3> QED BY <1>1, <1>3, <2>2, <3>1 DEF w
    <2>3. CASE p \notin toFetch[w]
      <3>1. position[w][p] = Begins(w, p)
        BY <1>0, <1>6, <2>3, NothingFetched DEF w
      <3>2. position[w][p] >= ends[t][p]
        BY <1>6, <2>3 DEF Fetches, w, t
      <3> QED BY <1>3, <2>1, <3>1, <3>2 DEF NoOffset
    <2> QED BY <2>2, <2>3
  <1>7. ~EmptyHanded(w)
    BY DEF w
  <1>8. /\ ~EmptyHanded(w)'
        /\ \A p \in Partitions :
              IF Holds(w, p)' THEN hand'[w][p].first = Begins(w, p)'
              ELSE position'[w][p] = Begins(w, p)' /\ (Begins(w, p)' >= ends'[TopicOf[w]][p] \/ cut')
    BY <1>1, <1>4, <1>5, <1>6, <1>7 DEF EmptyHanded, t
  <1>9. PutsBack(w)'
    BY <1>4, <1>8 DEF PutsBack, Answered, EmptyHanded
  <1> QED BY <1>4, <1>9 DEF w

\* A record that is put back: the scheduler hears of its due time, and of nothing
\* earlier than what it has heard.
LEMMA PutsBackDeferred ==
    ASSUME Inv, CInv, PutOff, PutsBack(Current), began <= now, pc[Current] # "wait",
           \A t \in Topics, p \in Partitions : ends[t][p] <= EndOffset(t, p)
    PROVE  PutsBack(Current)'
  <1> DEFINE w == Current
             t == TopicOf[w]
  <1>0. TypeOK /\ CTypeOK /\ w \in Workers /\ t \in Topics
    BY CurrentType, TopicsOfWorkers DEF Inv, CInv
  <1>1. PICK q \in Partitions :
            /\ Defer(w, q)
            /\ dueAt' = [dueAt EXCEPT ![w] =
                  IF @ = NoDue \/ Message(w, q).not_before < @ THEN Message(w, q).not_before ELSE @]
    BY DEF PutOff
  <1>2. /\ UNCHANGED <<committed, log, now, ends, began, cut, crew, turn>>
        /\ Holds(w, q)
        /\ position' = [position EXCEPT ![w][q] = hand[w][q].first]
        /\ hand' = [hand EXCEPT ![w][q] = Nothing]
    BY <1>1 DEF PutOff, Defer, PutBack, brokerVars, IsCurrent
  <1>3. ~Due(w, q)
    BY <1>1 DEF Defer
  <1>4. hand[w][q].first = Begins(w, q) /\ Message(w, q).not_before = HeadDue(w, q)
    BY <1>2 DEF PutsBack, Message, HeadDue
  <1>5. /\ Message(w, q).not_before \in Nat /\ now \in Nat /\ began \in Nat
        /\ dueAt[w] \in Nat \cup {NoDue}
    BY <1>0, <1>2, MessageInLog DEF Records, TypeOK, CTypeOK
  <1>6. /\ dueAt'[w] \in Nat /\ dueAt'[w] # NoDue /\ dueAt'[w] <= HeadDue(w, q) /\ began < HeadDue(w, q)
        /\ dueAt[w] # NoDue => dueAt'[w] <= dueAt[w]
    <2> HIDE DEF w
    <2>1. dueAt'[w] = IF dueAt[w] = NoDue \/ Message(w, q).not_before < dueAt[w]
                      THEN Message(w, q).not_before ELSE dueAt[w]
      BY <1>0, <1>1 DEF CTypeOK
    <2> QED BY <1>3, <1>4, <1>5, <2>1 DEF Due, NoDue
  <1>7. /\ w' = w /\ t' = t
        /\ \A p \in Partitions :
              /\ Begins(w, p)' = Begins(w, p)
              /\ HeadDue(w, p)' = HeadDue(w, p)
    BY <1>2 DEF Current, Begins, CommittedOffset, RecordAt, HeadDue
  <1>8. /\ hand'[w][q] = Nothing /\ position'[w][q] = hand[w][q].first
        /\ \A p \in Partitions \ {q} : hand'[w][p] = hand[w][p] /\ position'[w][p] = position[w][p]
    <2> HIDE DEF w
    <2> QED BY <1>0, <1>2 DEF TypeOK
  <1>9. ASSUME NEW p \in Partitions, p # q, ~Holds(w, p)
        PROVE  position[w][p] = Begins(w, p)
               /\ (Begins(w, p) >= ends[t][p] \/ cut \/ (began < HeadDue(w, p) /\ dueAt'[w] <= HeadDue(w, p)))
    <2>1. position[w][p] = Begins(w, p) /\ Answered(w, p)
      BY <1>9 DEF PutsBack
    <2>2. CASE Begins(w, p) >= ends[t][p] \/ cut
      BY <2>1, <2>2
    <2>3. CASE ~(Begins(w, p) >= ends[t][p]) /\ ~cut
      <3>1. dueAt[w] # NoDue /\ began < HeadDue(w, p) /\ dueAt[w] <= HeadDue(w, p)
        BY <2>1, <2>3 DEF Answered
      <3>2. HeadDue(w, p) \in Nat
        <4>1. /\ Begins(w, p) \in Nat /\ ends[t][p] \in Nat /\ EndOffset(t, p) \in Nat
          BY <1>0, WorkerTypes DEF Begins, CTypeOK
        <4>2. ends[t][p] <= EndOffset(t, p)
          BY <1>0
        <4>3. Begins(w, p) + 1 \in 1 .. EndOffset(t, p)
          BY <2>3, <4>1, <4>2
        <4>4. log[t][p] \in Seq(Records)
          BY <1>0 DEF TypeOK
        <4>5. log[t][p][Begins(w, p) + 1] \in Records
          BY <4>3, <4>4 DEF EndOffset
        <4> QED BY <4>5 DEF RecordAt, Records, HeadDue
      <3> QED BY <1>5, <1>6, <2>1, <3>1, <3>2
    <2> QED BY <2>2, <2>3
  <1>10. ASSUME NEW p \in Partitions
         PROVE  IF hand'[w][p].first < hand'[w][p].last THEN hand'[w][p].first = Begins(w, p)
                ELSE /\ position'[w][p] = Begins(w, p)
                     /\ \/ Begins(w, p) >= ends[t][p] \/ cut
                        \/ dueAt'[w] # NoDue /\ began < HeadDue(w, p) /\ dueAt'[w] <= HeadDue(w, p)
    <2>1. CASE p = q
      BY <1>4, <1>6, <1>8, <2>1 DEF Nothing
    <2>2. CASE p # q /\ Holds(w, p)
      <3>1. hand[w][p].first = Begins(w, p)
        BY <2>2 DEF PutsBack
      <3> QED BY <1>8, <2>2, <3>1 DEF Holds
    <2>3. CASE p # q /\ ~Holds(w, p)
      BY <1>6, <1>8, <1>9, <2>3 DEF Holds
    <2> QED BY <2>1, <2>2, <2>3
  <1>11. \A p \in Partitions :
              IF Holds(w, p)' THEN hand'[w][p].first = Begins(w, p)'
              ELSE position'[w][p] = Begins(w, p)' /\ Answered(w, p)'
    BY <1>2, <1>7, <1>10 DEF Holds, Answered
  <1> QED BY <1>6, <1>7, <1>11 DEF PutsBack

\* A batch of which nothing was handled, from the poll to the commit.
LEMMA PutsBackStep ==
    ASSUME Inv, CInv, TurnsTaken, SoleMembers, PositionsCommitted, RoundTrue, [CNext]_cvars,
           NEW w \in Workers, pc'[w] \in InBatch, ~busy'
    PROVE  PutsBack(w)'
  <1> USE DEF InBatch
  <1>0. TypeOK /\ CTypeOK /\ Current \in Workers /\ TopicOf[w] \in Topics
    BY CurrentType, TopicsOfWorkers DEF Inv, CInv
  <1>1. pc \in [Workers -> Labels]
    BY <1>0 DEF TypeOK
  <1>2. \A t \in Topics, p \in Partitions : ends[t][p] <= EndOffset(t, p)
    BY DEF RoundTrue
  <1>3. ASSUME UNCHANGED <<ends, began, cut, busy>>, dueAt'[w] = dueAt[w],
               hand'[w] = hand[w], position'[w] = position[w],
               \A p \in Partitions : Begins(w, p)' = Begins(w, p),
               pc[w] \in InBatch
        PROVE  PutsBack(w)'
    <2>1. PutsBack(w)
      BY <1>3 DEF RoundTrue
    <2>2. \A p \in Partitions : Answered(w, p) => Answered(w, p)'
      BY <1>0, <1>2, <1>3, AnsweredStays
    <2>3. /\ EmptyHanded(w)' <=> EmptyHanded(w)
          /\ \A p \in Partitions : Holds(w, p)' <=> Holds(w, p)
      BY <1>3 DEF EmptyHanded, Holds
    <2> QED BY <1>3, <2>1, <2>2, <2>3 DEF PutsBack
  <1>4. CASE Construct
    <2>1. pc' = [pc EXCEPT ![Fleet[turn]] = "idle"] /\ pc[w] \in {"absent", "idle"}
      BY <1>4 DEF Construct, Build, Goto, TurnsTaken
    <2> QED BY <1>1, <2>1
  <1>5. CASE Turn /\ w # Current
    BY <1>0, <1>5, TurnKeeps DEF TurnsTaken, Turn
  <1>6. CASE Turn /\ w = Current
    <2>1. pc[w] \in {"idle", "poll"} \cup InBatch
      BY <1>6 DEF TurnsTaken, Turn
    <2>2. PICK l \in Labels :
              /\ pc' = [pc EXCEPT ![Current] = l]
              /\ \/ Within /\ l \in {"poll", "admitted", "handler", "returned", "send"}
                 \/ Fetched /\ ~EmptyHanded(Current)
                 \/ PutOff
                 \/ Handled
                 \/ l \in {"poll", "idle", "dead"}
      BY <1>0, <1>6, TurnLabels
    <2>3. l \in InBatch
      BY <1>1, <1>6, <2>2
    <2>4. CASE Within
      <3>1. UNCHANGED <<ends, began, cut, busy, dueAt>>
        BY <2>4 DEF Within, coopVars, callVars
      <3>2. ASSUME NEW q \in Partitions,
                   \/ Admit(w, q) \/ Invoke(w, q) \/ Return(w, q)
                   \/ Retry(w, q) \/ DeadLetter(w, q)
            PROVE  PutsBack(w)'
        <4>1. UNCHANGED <<hand, position, committed>> /\ pc[w] \in {"wait"} \cup InBatch
          BY <3>2 DEF Admit, Invoke, Return, Ready, Retry, DeadLetter, Prepare, brokerVars
        <4> QED BY <1>3, <2>1, <3>1, <4>1 DEF Begins, CommittedOffset
      <3>3. ASSUME NEW q \in Partitions, PollFetch(w, q)
            PROVE  FALSE
        BY <1>1, <3>3 DEF PollFetch
      <3> QED BY <1>6, <2>4, <3>2, <3>3 DEF Within
    <2>5. CASE Fetched /\ ~EmptyHanded(Current)
      <3>1. Fetches(Current)
        BY <1>0, <2>5 DEF Fetched, PollReturn, RoundTrue
      <3>2. UNCHANGED Current
        BY <2>5 DEF Fetched, Current
      <3>3. PutsBack(Current)'
        BY <2>5, <3>1, PutsBackFetched
      <3> QED BY <1>6, <3>2, <3>3 DEF PutsBack, EmptyHanded, Holds, Answered, HeadDue, Begins,
                                      CommittedOffset, RecordAt
    <2>6. CASE PutOff
      <3>1. pc[w] = "batch" /\ ~busy
        BY <1>6, <2>1, <2>6 DEF PutOff, Defer
      <3>2. PutsBack(Current) /\ began <= now
        BY <1>6, <3>1 DEF RoundTrue
      <3>3. PutsBack(Current)'
        BY <1>2, <1>6, <2>6, <3>1, <3>2, PutsBackDeferred
      <3>4. UNCHANGED Current
        BY <2>6 DEF PutOff, Current
      <3> QED BY <1>6, <3>3, <3>4 DEF PutsBack, EmptyHanded, Holds, Answered, HeadDue, Begins,
                                      CommittedOffset, RecordAt
    <2>7. ~Handled
      BY DEF Handled
    <2> QED BY <2>2, <2>3, <2>4, <2>5, <2>6, <2>7
  <1>7. CASE Starts \/ Sleep \/ GivesUp
    BY <1>7 DEF TurnsTaken, Starts, Sleep, GivesUp, NothingToDo, vars, clientVars
  <1>8. CASE Surroundings \/ UNCHANGED cvars
    <2>1. UNCHANGED <<pc, committed, position, hand>> /\ UNCHANGED coopVars
      BY <1>8 DEF Surroundings, Produce, Tick, Forget, Deliver, cvars, vars, clientVars, brokerVars
    <2> QED BY <1>3, <2>1 DEF coopVars, callVars, Begins, CommittedOffset
  <1> QED BY <1>4, <1>5, <1>6, <1>7, <1>8, StepKinds

\* A poll that brought nothing has found every partition read to its end.
LEMMA FinishedEmpty ==
    ASSUME Inv, CInv, Fetched, EmptyHanded(Current), Fetches(Current)
    PROVE  \A v \in {Current} : Finished(v)'
  <1> SUFFICES ASSUME NEW w, w = Current
               PROVE  Finished(w)'
    OBVIOUS
  <1>0. TypeOK /\ w \in Workers
    BY CurrentType DEF Inv, CInv
  <1>1. room[w] = BatchSize /\ BatchSize > 0
    <2>1. room[w] \in 0 .. BatchSize /\ BatchSize \in Nat \ {0}
      BY <1>0, WorkersAssumption DEF TypeOK
    <2> QED BY <2>1 DEF Fetches
  <1>2. toFetch[w] = {} /\ UNCHANGED <<committed, ends>>
    BY <1>1 DEF Fetched, PollReturn, brokerVars
  <1>3. ASSUME NEW p \in Partitions
        PROVE  Begins(w, p) >= ends[TopicOf[w]][p]
    <2>1. ~Holds(w, p) /\ p \notin toFetch[w]
      BY <1>2 DEF EmptyHanded
    <2>2. position[w][p] >= ends[TopicOf[w]][p]
      BY <2>1 DEF Fetches
    <2>3. position[w][p] = Begins(w, p)
      BY <1>0, <2>1, NothingFetched
    <2> QED BY <2>2, <2>3
  <1> QED BY <1>2, <1>3 DEF Finished, Answered, Begins, CommittedOffset

\* A commit after a batch of which nothing was handled changes no offset.
LEMMA FinishedCommit ==
    ASSUME Inv, CInv, [CNext]_cvars, Turn, Committed, PutsBack(Current),
           \A t \in Topics, p \in Partitions : ends[t][p] <= EndOffset(t, p)
    PROVE  \A v \in {Current} : Finished(v)'
  <1> SUFFICES ASSUME NEW w, w = Current
               PROVE  Finished(w)'
    OBVIOUS
  <1>0. TypeOK /\ w \in Workers /\ TopicOf[w] \in Topics
    BY CurrentType, TopicsOfWorkers DEF Inv, CInv
  <1>1. UNCHANGED <<ends, began, cut, dueAt>> /\ EmptyHanded(w) /\ CommitPositions(w)
    BY DEF Committed, Commit
  <1>2. PutsBack(w)
    OBVIOUS
  <1>3. ASSUME NEW p \in Partitions
        PROVE  Begins(w, p)' = Begins(w, p) /\ Answered(w, p)'
    <2>1. position[w][p] = Begins(w, p) /\ Answered(w, p)
      BY <1>1, <1>2 DEF PutsBack, EmptyHanded
    <2>2. Begins(w, p) \in Nat
      BY <1>0, WorkerTypes DEF Begins
    <2>3. committed'[TopicOf[w]][p] = Begins(w, p)
      <3>1. committed' = [committed EXCEPT ![TopicOf[w]] = [q \in Partitions |->
                              IF position[w][q] = NoOffset THEN @[q] ELSE position[w][q]]]
        BY <1>1 DEF CommitPositions
      <3>2. committed \in [Topics -> [Partitions -> Offsets]]
        BY <1>0 DEF TypeOK
      <3> QED BY <1>0, <2>1, <2>2, <3>1, <3>2 DEF NoOffset
    <2>4. Begins(w, p)' = Begins(w, p)
      BY <2>2, <2>3 DEF Begins, CommittedOffset, NoOffset
    <2> QED BY <1>0, <1>1, <2>1, <2>4, AnsweredStays
  <1>4. dueAt[w] # NoDue
    BY <1>1, <1>2 DEF PutsBack
  <1> QED BY <1>1, <1>3, <1>4 DEF Finished

\* A worker whose turn is over has answered for its partitions, as long as nothing
\* was handled in the round.
LEMMA FinishedStep ==
    ASSUME OneWorkerEach, Inv, CInv, TurnsTaken, RoundTrue, [CNext]_cvars,
           place' # "raised", ~busy',
           NEW i \in 1 .. Len(crew'), place' = "poll" => i < turn'
    PROVE  \A v \in {crew'[i]} : Finished(v)'
  <1> SUFFICES ASSUME NEW w, w = crew'[i]
               PROVE  Finished(w)'
    OBVIOUS
  <1>0. /\ TypeOK /\ CTypeOK /\ Current \in Workers
        /\ \A t \in Topics, p \in Partitions : ends[t][p] <= EndOffset(t, p)
    BY CurrentType DEF Inv, CInv, RoundTrue
  <1>1. /\ Len(crew) \in Nat /\ turn \in Nat /\ turn \in 1 .. Len(crew) /\ Current = crew[turn]
        /\ \A j \in 1 .. Len(crew) : crew[j] \in Workers
        /\ \A j, k \in 1 .. Len(crew) : crew[j] = crew[k] => j = k
    BY <1>0, CurrentType, CrewDistinct DEF CTypeOK, Current
  <1>2. ASSUME crew' = crew, ends' = ends, began' = began, cut => cut', dueAt'[w] = dueAt[w],
               w \in Workers, \A p \in Partitions : Begins(w, p)' = Begins(w, p),
               place # "raised", ~busy, place = "poll" => i < turn
        PROVE  Finished(w)'
    <2>1. Finished(w)
      BY <1>2 DEF RoundTrue
    <2> QED BY <1>0, <1>2, <2>1, FinishedStays
  <1>3. CASE Construct
    <2>1. \A p \in Partitions, v \in Workers : Begins(v, p)' = Begins(v, p)
      BY <1>3, OthersCommit DEF Construct, Committed, Raise
    <2> QED BY <1>1, <1>2, <1>3, <2>1 DEF Construct
  <1>4. CASE Turn
    <2>1. /\ crew' = crew /\ ends' = ends /\ began' = began
          /\ cut => cut'
          /\ place = "poll" /\ i \in Nat
      BY <1>1, <1>4, TurnPlaces DEF Turn
    <2>2. ~busy
      BY <1>4 DEF Turn, Poll, Within, Fetched, PutOff, Handled, Committed, Raise,
                  coopVars, callVars
    <2>3. ASSUME i < turn
          PROVE  Finished(w)'
      <3>1. w \in Workers /\ w # Current
        BY <1>1, <2>1, <2>3
      <3>2. dueAt'[w] = dueAt[w]
        BY <1>0, <1>4, <3>1, TurnKeeps
      <3>3. \A p \in Partitions : Begins(w, p)' = Begins(w, p)
        BY <3>1, OthersCommit
      <3> QED BY <1>2, <2>1, <2>2, <2>3, <3>1, <3>2, <3>3
    <2>4. ASSUME i = turn, Committed
          PROVE  Finished(w)'
      <3>1. PutsBack(Current)
        BY <1>0, <2>2, <2>4 DEF Committed, Commit, RoundTrue, InBatch
      <3> QED BY <1>0, <1>1, <1>4, <2>1, <2>4, <3>1, FinishedCommit
    <2>5. ASSUME i = turn, Fetched, EmptyHanded(Current)
          PROVE  Finished(w)'
      <3>1. Fetches(Current)
        BY <1>0, <2>5 DEF Fetched, PollReturn, RoundTrue
      <3> QED BY <1>1, <2>1, <2>5, <3>1, FinishedEmpty
    <2>6. \/ i < turn
          \/ i = turn /\ (Committed \/ (Fetched /\ EmptyHanded(Current)))
      <3>1. \/ place' = "poll" /\ turn' = turn
            \/ /\ Committed \/ (Fetched /\ EmptyHanded(Current))
               /\ \/ place' = "poll" /\ turn' = turn + 1
                  \/ place' = "decide" /\ turn' = turn /\ turn = Len(crew)
        BY <1>4, TurnPlaces
      <3> QED BY <1>1, <2>1, <3>1
    <2> QED BY <2>3, <2>4, <2>5, <2>6
  <1>5. CASE Starts
    <2>1. place' = "poll" /\ turn' = 1 /\ i \in Nat /\ i >= 1
      BY <1>5 DEF Starts, StartRound
    <2> QED BY <2>1
  <1>6. CASE Sleep \/ GivesUp
    <2>1. /\ place = "decide" /\ UNCHANGED <<crew, ends, began, cut, dueAt, busy>>
          /\ UNCHANGED committed
      BY <1>6 DEF Sleep, GivesUp, NothingToDo, vars, brokerVars
    <2> QED BY <1>1, <1>2, <2>1 DEF Begins, CommittedOffset
  <1>7. CASE Surroundings \/ UNCHANGED cvars
    <2>1. UNCHANGED committed /\ UNCHANGED coopVars
      BY <1>7 DEF Surroundings, Produce, Tick, Forget, Deliver, cvars, vars, brokerVars
    <2> QED BY <1>1, <1>2, <2>1 DEF coopVars, callVars, Begins, CommittedOffset
  <1> QED BY <1>3, <1>4, <1>5, <1>6, <1>7, StepKinds

\* What a round has found out is still true after a step.
LEMMA RoundTrueStep ==
    ASSUME OneWorkerEach, Inv, CInv, TurnsTaken, SoleMembers, PositionsCommitted, RoundTrue,
           [CNext]_cvars
    PROVE  RoundTrue'
  <1>0. TypeOK /\ CTypeOK /\ CTypeOK'
    BY CInvStep DEF Inv, CInv
  <1>1. \A t \in Topics, p \in Partitions :
            /\ EndOffset(t, p) \in Nat /\ EndOffset(t, p)' \in Nat
            /\ EndOffset(t, p) <= EndOffset(t, p)'
    BY LogKeeps, CooperativeStep
  <1>2. /\ \A t \in Topics, p \in Partitions : ends[t][p] <= EndOffset(t, p)
        /\ \A v \in Workers : pc[v] = "poll" => Fetches(v)
        /\ began <= now
    BY DEF RoundTrue
  <1>3. (ends' = ends /\ began' = began) \/ Starts
    BY StepKinds, TurnPlaces
       DEF Construct, Sleep, GivesUp, Surroundings, cvars, coopVars, callVars
  <1>4. \A t \in Topics, p \in Partitions : ends'[t][p] <= EndOffset(t, p)'
    <2>1. CASE ends' = ends
      <3> SUFFICES ASSUME NEW t \in Topics, NEW p \in Partitions
                   PROVE  ends[t][p] <= EndOffset(t, p)'
        BY <2>1
      <3>1. ends[t][p] \in Nat
        BY <1>0 DEF CTypeOK
      <3> QED BY <1>1, <1>2, <3>1
    <2>2. CASE Starts
      <3>1. ends' = EndOffsets /\ UNCHANGED log
        BY <2>2 DEF Starts, StartRound, vars, brokerVars
      <3> QED BY <1>1, <3>1 DEF EndOffsets, EndOffset
    <2> QED BY <1>3, <2>1, <2>2
  <1>5. now \in Nat /\ now' \in Nat /\ now <= now'
    <2>1. TypeOK'
      BY InvStep, CooperativeStep DEF Inv
    <2>2. now' = now \/ now <= now'
      BY <1>0, CooperativeStep, TimePasses
    <2> QED BY <1>0, <2>1, <2>2 DEF TypeOK
  <1>6. began' <= now'
    <2>1. began \in Nat
      BY <1>0 DEF CTypeOK
    <2>2. CASE began' = began
      BY <1>2, <1>5, <2>1, <2>2
    <2>3. CASE Starts
      BY <1>5, <2>3 DEF Starts, StartRound
    <2> QED BY <1>3, <2>2, <2>3
  <1>7. \A w \in Workers : pc'[w] = "poll" => Fetches(w)'
    BY <1>2, FetchesStep
  <1>8. \A w \in Workers : pc'[w] \in InBatch /\ ~busy' => PutsBack(w)'
    BY PutsBackStep
  <1>9. ASSUME place' # "raised", ~busy', NEW i \in 1 .. Len(crew'), place' = "poll" => i < turn'
        PROVE  Finished(crew[i])'
    BY <1>9, FinishedStep
  <1> QED BY <1>4, <1>6, <1>7, <1>8, <1>9 DEF RoundTrue

\* What the scheduler knows where it stands.
LEMMA PlaceTrueStep ==
    ASSUME CInv, PlaceTrue, [CNext]_cvars
    PROVE  PlaceTrue'
  <1>1. CASE Construct
    <2>1. place = "new" /\ place' \in {"new", "returned"}
          /\ UNCHANGED <<call, crew, busy, dueAt, ends>>
      BY <1>1 DEF Construct
    <2> QED BY <2>1 DEF PlaceTrue
  <1>2. CASE Turn
    <2>1. crew' = crew /\ call' = call /\ place' \in {"poll", "decide", "raised"}
      BY <1>2, TurnPlaces
    <2> QED BY <2>1 DEF PlaceTrue
  <1>3. CASE Starts
    <2>1. place' = "poll" /\ (call' = "run" => crew' = Fleet)
      BY <1>3 DEF Starts, StartRound, PlaceTrue
    <2> QED BY <2>1 DEF PlaceTrue
  <1>4. CASE Sleep
    <2>1. /\ place' = "asleep" /\ call' = "run" /\ crew' = crew /\ call = "run"
          /\ ~busy' /\ dueAt' = dueAt
      BY <1>4 DEF Sleep
    <2>2. \A due \in DueTimes : wake' <= due
      BY <1>4 DEF Sleep
    <2>3. \A w \in Workers : dueAt[w] = NoDue \/ wake' <= dueAt[w]
      BY <2>2 DEF DueTimes
    <2> QED BY <2>1, <2>3 DEF PlaceTrue
  <1>5. CASE GivesUp
    <2>1. place' = "returned" /\ ~busy' /\ crew' = crew /\ call' = call /\ dueAt' = dueAt
      BY <1>5 DEF GivesUp, NothingToDo
    <2>2. ASSUME call = "run"
          PROVE  \A w \in Workers : dueAt[w] = NoDue
      BY <1>5, <2>2 DEF GivesUp, NothingToDo, DueTimes
    <2> QED BY <2>1, <2>2 DEF PlaceTrue
  <1>6. CASE Surroundings \/ UNCHANGED cvars
    <2>1. UNCHANGED coopVars
      BY <1>6 DEF Surroundings, cvars
    <2> QED BY <2>1 DEF PlaceTrue, coopVars, callVars
  <1> QED BY <1>1, <1>2, <1>3, <1>4, <1>5, <1>6, StepKinds

\* The last of two more words.
LEMMA LastWord ==
    ASSUME NEW T, NEW s \in Seq(T), NEW e \in Seq(T), Len(e) = 2
    PROVE  (s \o e)[Len(s) + 2] = e[2]
  <1>1. \A i \in 1 .. Len(s) + Len(e) :
            (s \o e)[i] = IF i <= Len(s) THEN s[i] ELSE e[i - Len(s)]
    BY ConcatProperties
  <1>2. Len(s) \in Nat
    OBVIOUS
  <1>3. ASSUME NEW n \in Nat, NEW i \in Nat, i = n + 2, n = Len(s)
        PROVE  (s \o e)[i] = e[2]
    <2>1. i \in 1 .. Len(s) + Len(e) /\ ~(i <= n) /\ i - n = 2
      BY <1>3
    <2>2. (s \o e)[i] = IF i <= n THEN s[i] ELSE e[i - n]
      BY <1>1, <1>3, <2>1, Zenon
    <2> QED BY <2>1, <2>2, Zenon
  <1>4. Len(s) + 2 \in Nat
    BY <1>2
  <1> QED BY <1>2, <1>3, <1>4, Zenon

\* Tiers with different delays are different topics.
LEMMA TierDelay ==
    ASSUME NEW a \in Nat, NEW b \in Nat, RetryTopic(Source, a) = RetryTopic(Source, b)
    PROVE  a = b
  <1> SUFFICES ASSUME NEW d \in Nat
               PROVE  RetryTopic(Source, d)[Len(Source) + 2] = d
    OBVIOUS
  <1> DEFINE T    == STRING \cup {"retry", d}
             tail == <<"retry", d>>
  <1>1. Source \in Seq(STRING)
    BY SourceAssumption
  <1>2. Source \in Seq(T)
    BY <1>1, SeqMonotonic
  <1>3. tail \in Seq(T) /\ Len(tail) = 2 /\ tail[2] = d
    OBVIOUS
  <1> HIDE DEF T, tail
  <1>4. (Source \o tail)[Len(Source) + 2] = d
    BY <1>2, <1>3, LastWord
  <1> QED BY <1>4 DEF RetryTopic, tail

\* A record that is due no earlier than those before it keeps a tier in order.
LEMMA OrderedAppend ==
    ASSUME TypeOK, TiersInOrder, now' \in Nat, now <= now',
           NEW u \in Topics, NEW r \in Records, AppendRecord(u, r),
           u \in ConsumedTopics =>
              /\ u = Source => r.not_before = 0
              /\ \A p \in Partitions : \A i \in 1 .. Len(log[u][p]) :
                    log[u][p][i].not_before <= r.not_before
              /\ \A n \in DOMAIN Delays :
                    u = RetryTopic(Source, Delays[n]) => r.not_before <= now + Delays[n]
    PROVE  TiersInOrder'
  <1> SUFFICES ASSUME NEW t \in ConsumedTopics, NEW p \in Partitions
               PROVE  /\ \A i, j \in 1 .. Len(log'[t][p]) :
                            i < j => log'[t][p][i].not_before <= log'[t][p][j].not_before
                      /\ \A i \in 1 .. Len(log'[t][p]) :
                            /\ t = Source => log'[t][p][i].not_before = 0
                            /\ \A n \in DOMAIN Delays :
                                  t = RetryTopic(Source, Delays[n]) =>
                                      log'[t][p][i].not_before <= now' + Delays[n]
    BY DEF TiersInOrder
  <1> DEFINE old == log[t][p]
             new == log'[t][p]
  <1>1. t \in Topics
    BY TopologyAssumption DEF ConsumedTopics, TopicsFor
  <1>2. old \in Seq(Records) /\ Len(old) \in Nat /\ now \in Nat /\ r.not_before \in Nat
    <2>1. old \in Seq(Records) /\ Len(old) \in Nat /\ now \in Nat
      BY <1>1 DEF TypeOK
    <2>2. r.not_before \in Nat
      BY DEF Records
    <2> QED BY <2>1, <2>2
  <1>3. /\ \A i, j \in 1 .. Len(old) : i < j => old[i].not_before <= old[j].not_before
        /\ \A i \in 1 .. Len(old) :
              /\ t = Source => old[i].not_before = 0
              /\ \A n \in DOMAIN Delays :
                    t = RetryTopic(Source, Delays[n]) => old[i].not_before <= now + Delays[n]
    BY DEF TiersInOrder
  <1>4. ASSUME NEW i \in 1 .. Len(old)
        PROVE  old[i].not_before \in Nat
    <2>1. old[i] \in Records
      BY <1>2
    <2> QED BY <2>1 DEF Records
  <1>5. \A n \in DOMAIN Delays : Delays[n] \in Nat
    BY PolicyAssumption
  <1>6. new = old \/ (t = u /\ new = Append(old, r))
    BY <1>1, AppendGrows
  <1>7. t = u => /\ t = Source => r.not_before = 0
                 /\ \A i \in 1 .. Len(old) : old[i].not_before <= r.not_before
                 /\ \A n \in DOMAIN Delays :
                       t = RetryTopic(Source, Delays[n]) => r.not_before <= now + Delays[n]
    OBVIOUS
  <1> HIDE DEF old, new
  <1>8. ASSUME NEW x \in Nat, NEW n \in DOMAIN Delays, x <= now + Delays[n]
        PROVE  x <= now' + Delays[n]
    BY <1>2, <1>5, <1>8
  <1>9. CASE new = old
    <2>1. \A i \in 1 .. Len(old) : \A n \in DOMAIN Delays :
              t = RetryTopic(Source, Delays[n]) => old[i].not_before <= now' + Delays[n]
      BY <1>3, <1>4, <1>8
    <2> QED BY <1>3, <1>9, <2>1 DEF new
  <1>10. CASE t = u /\ new = Append(old, r)
    <2>1. /\ Len(new) = Len(old) + 1 /\ new[Len(old) + 1] = r
          /\ \A i \in 1 .. Len(old) : new[i] = old[i]
      BY <1>2, <1>10
    <2>2. ASSUME NEW i \in 1 .. Len(new), NEW j \in 1 .. Len(new), i < j
          PROVE  new[i].not_before <= new[j].not_before
      <3>1. i \in 1 .. Len(old)
        BY <1>2, <2>1, <2>2
      <3>2. CASE j \in 1 .. Len(old)
        BY <1>3, <2>1, <2>2, <3>1, <3>2
      <3>3. CASE j = Len(old) + 1
        BY <1>7, <1>10, <2>1, <3>1, <3>3
      <3> QED BY <1>2, <2>1, <3>2, <3>3
    <2>3. ASSUME NEW i \in 1 .. Len(new)
          PROVE  /\ t = Source => new[i].not_before = 0
                 /\ \A n \in DOMAIN Delays :
                       t = RetryTopic(Source, Delays[n]) => new[i].not_before <= now' + Delays[n]
      <3>1. CASE i \in 1 .. Len(old)
        BY <1>3, <1>4, <1>8, <2>1, <3>1
      <3>2. CASE i = Len(old) + 1
        BY <1>2, <1>7, <1>8, <1>10, <2>1, <3>2
      <3> QED BY <1>2, <2>1, <3>1, <3>2
    <2> QED BY <2>2, <2>3 DEF new
  <1> QED BY <1>6, <1>9, <1>10

\* Time alone keeps the tiers in order.
LEMMA SameTiers ==
    ASSUME TypeOK, TiersInOrder, UNCHANGED log, now' \in Nat, now <= now'
    PROVE  TiersInOrder'
  <1> SUFFICES ASSUME NEW t \in ConsumedTopics, NEW p \in Partitions,
                      NEW i \in 1 .. Len(log[t][p]), NEW n \in DOMAIN Delays,
                      t = RetryTopic(Source, Delays[n])
               PROVE  log[t][p][i].not_before <= now' + Delays[n]
    BY DEF TiersInOrder
  <1>1. log[t][p] \in Seq(Records) /\ now \in Nat
    BY TopologyAssumption DEF TypeOK, ConsumedTopics, TopicsFor
  <1>2. log[t][p][i] \in Records
    BY <1>1
  <1>3. log[t][p][i].not_before \in Nat
    BY <1>2 DEF Records
  <1>4. Delays[n] \in Nat
    BY PolicyAssumption
  <1>5. log[t][p][i].not_before <= now + Delays[n]
    BY DEF TiersInOrder
  <1> QED BY <1>1, <1>3, <1>4, <1>5

\* While nothing has raised, only a producer writes to the source topic, and only
\* the worker whose turn it is to the others.
LEMMA WhoWrites ==
    ASSUME TypeOK, NothingLeft, place # "raised", [CNext]_cvars
    PROVE  UNCHANGED log \/ Produce \/ \E p \in Partitions : Send(Current, p)
  <1>1. CASE Construct
    BY <1>1 DEF Construct, Build
  <1>2. ASSUME NEW p \in Partitions,
               \/ PollFetch(Current, p) \/ Defer(Current, p) \/ Duplicate(Current, p)
               \/ Admit(Current, p) \/ Invoke(Current, p) \/ Return(Current, p)
               \/ Succeed(Current, p) \/ Retry(Current, p)
               \/ DeadLetter(Current, p)
        PROVE  UNCHANGED log
    BY <1>2 DEF PollFetch, Defer, Duplicate, Admit, Invoke, Return, Succeed, Retry, DeadLetter,
                Prepare, brokerVars
  <1>3. CASE Poll \/ Fetched \/ Committed \/ Raise
    BY <1>3 DEF Poll, Fetched, Committed, Raise, PollAssign, PollReturn, Commit, PollError,
                StoreError, Escape, SendError, CommitError, Die, brokerVars
  <1>4. CASE Turn
    BY <1>2, <1>3, <1>4 DEF Turn, Within, PutOff, Handled
  <1>5. CASE Starts \/ Sleep \/ GivesUp \/ UNCHANGED cvars
    BY <1>5 DEF Starts, Sleep, GivesUp, cvars, vars, brokerVars
  <1>6. CASE Surroundings
    <2>1. ASSUME NEW w \in Workers
          PROVE  ~Deliver(w)
      BY DEF Deliver, NothingLeft
    <2> QED BY <1>6, <2>1 DEF Surroundings, Tick, Forget, brokerVars
  <1> QED BY <1>1, <1>4, <1>5, <1>6, StepKinds

\* A tier gets its records in the order of their due times: the delay is the same
\* for all of them, and the clock does not go back.
LEMMA TiersInOrderStep ==
    ASSUME Inv, CInv, TurnsTaken, TiersInOrder, NextInOrder, NothingLeft, place # "raised",
           [CNext]_cvars
    PROVE  TiersInOrder'
  <1>0. TypeOK /\ Current \in Workers
    BY CurrentType DEF Inv, CInv
  <1>1. now \in Nat /\ now' \in Nat /\ now <= now'
    <2>1. TypeOK'
      BY InvStep, CooperativeStep DEF Inv
    <2>2. now' = now \/ now <= now'
      BY <1>0, CooperativeStep, TimePasses
    <2> QED BY <1>0, <2>1, <2>2 DEF TypeOK
  <1>2. CASE UNCHANGED log
    BY <1>0, <1>1, <1>2, SameTiers
  <1>3. CASE Produce
    <2> DEFINE r == Workload[roundRobin[Source] + 1]
    <2>1. Source \in Topics /\ Source \in ConsumedTopics
      BY TopologyAssumption DEF TopicsFor, ConsumedTopics
    <2>2. roundRobin[Source] + 1 \in 1 .. Len(Workload) /\ AppendRecord(Source, r)
      BY <1>0, <1>3, <2>1, WorkloadAssumption DEF Produce, TypeOK
    <2>3. r \in Records /\ r = NewRecord(r.event, r.key)
      BY <2>2, WorkloadAssumption
    <2>4. r.not_before = 0
      BY <2>3 DEF NewRecord
    <2> HIDE DEF r
    <2>5. \A p \in Partitions : \A i \in 1 .. Len(log[Source][p]) :
              log[Source][p][i].not_before = 0
      BY <2>1 DEF TiersInOrder
    <2>6. \A n \in DOMAIN Delays : Source # RetryTopic(Source, Delays[n])
      BY TopicsApart DEF RetryTopics
    <2> QED BY <1>0, <1>1, <2>1, <2>2, <2>3, <2>4, <2>5, <2>6, OrderedAppend
  <1>4. ASSUME NEW p \in Partitions, Send(Current, p)
        PROVE  TiersInOrder'
    <2> DEFINE u == outgoing[Current].topic
               r == outgoing[Current].record
    <2>1. pc[Current] = "send" /\ AppendRecord(u, r)
      BY <1>4 DEF Send
    <2>2. u \in Topics /\ r \in Records
      BY <1>0 DEF TypeOK
    <2>3. u \in ConsumedTopics =>
              /\ u # Source
              /\ \A q \in Partitions : \A i \in 1 .. Len(log[u][q]) :
                    log[u][q][i].not_before <= r.not_before
              /\ \A n \in DOMAIN Delays :
                    u = RetryTopic(Source, Delays[n]) => r.not_before <= now + Delays[n]
      BY <1>0, <2>1 DEF NextInOrder
    <2> HIDE DEF u, r
    <2> QED BY <1>0, <1>1, <2>1, <2>2, <2>3, OrderedAppend
  <1> QED BY <1>0, <1>2, <1>3, <1>4, WhoWrites

\* The due time of the copy that is about to be sent.
LEMMA NextHopDue ==
    ASSUME Inv, NEW w \in Workers, NEW p \in Partitions, Holds(w, p), NEW topic, NEW due \in Nat
    PROVE  /\ NextHop(w, p, topic, due).topic = topic
           /\ NextHop(w, p, topic, due).record.not_before = due
  <1> DEFINE r == FailureHeaders(TopicOf[w], p, hand[w][p].first, Message(w, p),
                                 ThisAttempt(w, p), due)
  <1>1. ASSUME NEW m \in Records, NEW e, NEW l, NEW a
        PROVE  [m EXCEPT !.event = e, !.origin = l, !.attempt = a,
                         !.not_before = due].not_before = due
    BY DEF Records
  <1>2. r.not_before = due
    BY <1>1, MessageInLog DEF FailureHeaders
  <1>3. NextHop(w, p, topic, due) = [topic |-> topic, record |-> r]
    BY DEF NextHop
  <1> HIDE DEF r
  <1> QED BY <1>2, <1>3

\* A copy is as late as every copy sent to its tier before.
LEMMA NextInOrderStep ==
    ASSUME Inv, CInv, TurnsTaken, TiersInOrder, NextInOrder, NothingLeft, place # "raised",
           [CNext]_cvars
    PROVE  NextInOrder'
  <1>0. TypeOK /\ Current \in Workers /\ pc \in [Workers -> Labels]
    BY CurrentType DEF Inv, CInv, TypeOK
  <1>1. now \in Nat /\ now' \in Nat /\ now <= now'
    <2>1. TypeOK'
      BY InvStep, CooperativeStep DEF Inv
    <2>2. now' = now \/ now <= now'
      BY <1>0, CooperativeStep, TimePasses
    <2> QED BY <1>0, <2>1, <2>2 DEF TypeOK
  <1> SUFFICES ASSUME NEW w \in Workers, pc'[w] = "send", outgoing'[w].topic \in ConsumedTopics
               PROVE  /\ outgoing'[w].topic # Source
                      /\ \A p \in Partitions : \A i \in 1 .. Len(log'[outgoing'[w].topic][p]) :
                            log'[outgoing'[w].topic][p][i].not_before
                                <= outgoing'[w].record.not_before
                      /\ \A n \in DOMAIN Delays :
                            outgoing'[w].topic = RetryTopic(Source, Delays[n]) =>
                                outgoing'[w].record.not_before <= now' + Delays[n]
    BY DEF NextInOrder
  <1> DEFINE u == outgoing[w].topic
             due == outgoing[w].record.not_before
  \* A copy that was prepared before.
  <1>2. ASSUME pc[w] = "send", outgoing' = outgoing,
               u # Source => \A p \in Partitions : log'[u][p] = log[u][p]
        PROVE  /\ u # Source
               /\ \A p \in Partitions : \A i \in 1 .. Len(log'[u][p]) :
                     log'[u][p][i].not_before <= due
               /\ \A n \in DOMAIN Delays :
                     u = RetryTopic(Source, Delays[n]) => due <= now' + Delays[n]
    <2>1. /\ u # Source
          /\ \A p \in Partitions : \A i \in 1 .. Len(log[u][p]) : log[u][p][i].not_before <= due
          /\ \A n \in DOMAIN Delays : u = RetryTopic(Source, Delays[n]) => due <= now + Delays[n]
      BY <1>2 DEF NextInOrder
    <2>2. due \in Nat
      <3>1. outgoing[w].record \in Records
        BY <1>0 DEF TypeOK
      <3> QED BY <3>1 DEF Records
    <2>3. \A n \in DOMAIN Delays : Delays[n] \in Nat
      BY PolicyAssumption
    <2>4. \A p \in Partitions : log'[u][p] = log[u][p]
      BY <1>2, <2>1
    <2> HIDE DEF u, due
    <2>5. \A n \in DOMAIN Delays : due <= now + Delays[n] => due <= now' + Delays[n]
      BY <1>1, <2>2, <2>3
    <2> QED BY <2>1, <2>4, <2>5
  <1>3. CASE Construct
    <2>1. pc' = [pc EXCEPT ![Fleet[turn]] = "idle"]
      BY <1>3 DEF Construct, Build, Goto
    <2>2. pc[w] \in {"absent", "idle"}
      BY <1>3 DEF Construct, TurnsTaken
    <2> QED BY <1>0, <2>1, <2>2
  <1>4. CASE Starts \/ Sleep \/ GivesUp \/ UNCHANGED cvars
    <2>1. UNCHANGED <<pc, outgoing, log>>
      BY <1>4 DEF Starts, Sleep, GivesUp, cvars, vars, brokerVars, clientVars
    <2> QED BY <1>2, <2>1
  <1>5. CASE Surroundings
    <2>1. ~Deliver(w) /\ \A v \in Workers : ~Deliver(v)
      BY DEF Deliver, NothingLeft
    <2>2. CASE Tick \/ Forget
      <3>1. UNCHANGED <<pc, outgoing, log>>
        BY <2>2 DEF Tick, Forget, brokerVars, clientVars
      <3> QED BY <1>2, <3>1
    <2>3. CASE Produce
      <3>1. UNCHANGED <<pc, outgoing>>
        BY <2>3 DEF Produce, clientVars
      <3>2. u \in Topics /\ Source \in Topics
        BY <1>0, TopologyAssumption DEF TypeOK, TopicsFor
      <3>3. \A p \in Partitions : u # Source => log'[u][p] = log[u][p]
        <4>1. log' = [log EXCEPT ![Source] = log'[Source]]
          BY <1>0, <2>3 DEF Produce, AppendRecord, TypeOK
        <4> QED BY <1>0, <3>2, <4>1 DEF TypeOK
      <3> QED BY <1>2, <3>1, <3>3
    <2> QED BY <1>5, <2>1, <2>2, <2>3 DEF Surroundings
  <1>6. CASE Turn
    <2>1. PICK l \in Labels :
              /\ pc' = [pc EXCEPT ![Current] = l]
              /\ \/ Poll /\ l = "poll"
                 \/ Within /\ l \in {"poll", "admitted", "handler", "returned", "send"}
                 \/ Fetched /\ ~EmptyHanded(Current) /\ l = "batch"
                 \/ Fetched /\ EmptyHanded(Current) /\ l = "idle"
                 \/ PutOff /\ l = "batch"
                 \/ Handled /\ l = "batch"
                 \/ Committed /\ l = "idle"
                 \/ Raise /\ l = "dead"
      BY <1>0, <1>6, TurnLabels
    <2>2. w = Current
      BY <1>0, <1>6, <2>1 DEF TurnsTaken, Turn
    <2>3. l = "send" /\ Within
      BY <1>0, <2>1, <2>2
    <2>4. PICK p \in Partitions : Retry(w, p) \/ DeadLetter(w, p)
      <3>1. ASSUME NEW p \in Partitions,
                   \/ PollFetch(Current, p)
                   \/ Admit(Current, p) \/ Invoke(Current, p) \/ Return(Current, p)
            PROVE  pc'[Current] # "send"
        BY <1>0, <3>1 DEF PollFetch, Admit, Invoke, Return, Goto
      <3> QED BY <2>2, <2>3, <3>1 DEF Within
    <2>5. Holds(w, p) /\ SourceTopic(TopicOf[w], Message(w, p)) = Source
      BY <2>4, OriginType DEF Retry, DeadLetter, IsCurrent
    <2>6. outgoing \in [Workers -> [topic : Topics, record : Records]]
      BY <1>0 DEF TypeOK
    <2>7. CASE DeadLetter(w, p)
      <3>1. outgoing'[w] = NextHop(w, p, DlqTopic(Source), 0)
        BY <2>5, <2>6, <2>7 DEF DeadLetter, Prepare
      <3>2. outgoing'[w].topic = DlqTopic(Source)
        BY <2>5, <3>1, NextHopDue
      <3> QED BY <3>2, TopicsApart
    <2>8. CASE Retry(w, p)
      <3> DEFINE a == ThisAttempt(w, p)
                 tier == RetryTopic(Source, Delays[a])
      <3>1. a \in DOMAIN Delays /\ Delays[a] \in Nat
        BY <2>8, PolicyAssumption DEF Retry
      <3>2. UNCHANGED <<log, now>>
        BY <2>8 DEF Retry, Prepare, brokerVars
      <3>3. outgoing'[w] = NextHop(w, p, tier, now + Delays[a])
        BY <2>5, <2>6, <2>8 DEF Retry, Prepare
      <3>4. outgoing'[w].topic = tier /\ outgoing'[w].record.not_before = now + Delays[a]
        BY <1>1, <2>5, <3>1, <3>3, NextHopDue
      <3>5. tier \in ConsumedTopics /\ tier # Source
        BY <3>1, TopicsApart DEF ConsumedTopics, RetryTopics
      <3>6. \A q \in Partitions : \A i \in 1 .. Len(log[tier][q]) :
                log[tier][q][i].not_before <= now + Delays[a]
        BY <3>1, <3>5 DEF TiersInOrder
      <3>7. ASSUME NEW n \in DOMAIN Delays, tier = RetryTopic(Source, Delays[n])
            PROVE  Delays[n] = Delays[a]
        <4>1. Delays[n] \in Nat
          BY PolicyAssumption
        <4> QED BY <3>1, <3>7, <4>1, TierDelay
      <3>8. now + Delays[a] <= now + Delays[a]
        BY <1>1, <3>1
      <3> HIDE DEF a, tier
      <3> QED BY <3>2, <3>4, <3>5, <3>6, <3>7, <3>8
    <2> QED BY <2>4, <2>7, <2>8
  <1> QED BY <1>3, <1>4, <1>5, <1>6, StepKinds

\* Only a send that raises leaves its copy with the producer, and it ends the call.
LEMMA NothingLeftStep ==
    ASSUME Inv, CInv, TurnsTaken, NothingLeft, [CNext]_cvars, place' # "raised"
    PROVE  NothingLeft'
  <1> SUFFICES ASSUME NEW w \in Workers
               PROVE  outgoing'[w] # NoMessage => pc'[w] = "send"
    BY DEF NothingLeft
  <1>0. /\ TypeOK /\ CTypeOK /\ Current \in Workers
        /\ pc \in [Workers -> Labels]
        /\ outgoing \in [Workers -> [topic : Topics, record : Records]]
    BY CurrentType DEF Inv, CInv, TypeOK
  <1>1. outgoing[w] # NoMessage => pc[w] = "send"
    BY DEF NothingLeft
  <1>2. CASE Construct
    <2>1. outgoing' = outgoing /\ pc[w] # "send"
      BY <1>2 DEF Construct, Build, TurnsTaken
    <2> QED BY <1>1, <2>1
  <1>3. CASE Turn /\ w # Current
    BY <1>0, <1>1, <1>3, TurnKeeps
  <1>4. CASE Turn /\ w = Current
    <2>1. ASSUME NEW p \in Partitions,
                 \/ PollFetch(w, p) \/ Defer(w, p) \/ Duplicate(w, p) \/ Admit(w, p)
                 \/ Invoke(w, p) \/ Return(w, p) \/ Succeed(w, p)
          PROVE  outgoing' = outgoing /\ pc[w] # "send"
      BY <2>1 DEF PollFetch, Defer, Duplicate, Admit, Ready, Invoke, Return, Succeed
    <2>2. ASSUME NEW p \in Partitions, Retry(w, p) \/ DeadLetter(w, p)
          PROVE  pc'[w] = "send"
      BY <1>0, <2>2 DEF Retry, DeadLetter, Prepare, Goto
    <2>3. ASSUME NEW p \in Partitions, Send(w, p)
          PROVE  outgoing'[w] = NoMessage
      BY <1>0, <2>3 DEF Send
    <2>4. CASE PollAssign(w) \/ PollReturn(w) \/ Commit(w)
      <3>1. outgoing' = outgoing /\ pc[w] # "send"
        BY <2>4 DEF PollAssign, PollReturn, Commit
      <3> QED BY <1>1, <3>1
    <2>5. ~Raise
      BY DEF Raise
    <2> QED BY <1>1, <1>4, <2>1, <2>2, <2>3, <2>4, <2>5
            DEF Turn, Poll, Within, Fetched, PutOff, Handled, Committed
  <1>5. CASE Starts \/ Sleep \/ GivesUp \/ UNCHANGED cvars
    <2>1. UNCHANGED <<pc, outgoing>>
      BY <1>5 DEF Starts, Sleep, GivesUp, cvars, vars, clientVars
    <2> QED BY <1>1, <2>1
  <1>6. CASE Surroundings
    <2>1. \A v \in Workers : ~Deliver(v)
      BY DEF Deliver, NothingLeft
    <2>2. UNCHANGED <<pc, outgoing>>
      BY <1>6, <2>1 DEF Surroundings, Produce, Tick, Forget, clientVars
    <2> QED BY <1>1, <2>2
  <1> QED BY <1>2, <1>3, <1>4, <1>5, <1>6, StepKinds

\* Before the fleet is built, nothing is written, and nothing is left to do.
LEMMA RoundInit == CInit => RoundInv
  <1> SUFFICES ASSUME CInit
               PROVE  RoundInv
    OBVIOUS
  <1>1. /\ place = "new" /\ call = "run" /\ crew = Fleet /\ turn = 1 /\ busy = FALSE
        /\ now = 0 /\ began = 0 /\ dueAt = [w \in Workers |-> NoDue] /\ ends = EndOffsets
        /\ log = [t \in Topics |-> [p \in Partitions |-> <<>>]]
        /\ committed = [t \in Topics |-> [p \in Partitions |-> NoOffset]]
        /\ members = [t \in Topics |-> <<>>]
        /\ pc = [w \in Workers |-> "absent"]
    BY DEF CInit, Init, BrokerInit
  <1>2. ConsumedTopics \subseteq Topics /\ \A w \in Workers : TopicOf[w] \in Topics
    BY TopicsOfWorkers, TopologyAssumption DEF ConsumedTopics, TopicsFor
  <1>3. Fleet \in Seq(Workers) /\ \A i \in 1 .. Len(Fleet) : Fleet[i] \in Workers /\ i >= 1
    BY FleetAssumption
  <1>4. \A t \in Topics, p \in Partitions : log[t][p] = <<>> /\ ends[t][p] = 0
    BY <1>1 DEF EndOffsets, EndOffset
  <1>5. \A w \in Workers, p \in Partitions : Begins(w, p) = 0
    BY <1>1, <1>2 DEF Begins, CommittedOffset
  <1>6. TurnsTaken
    BY <1>1, <1>3 DEF TurnsTaken
  <1>7. SoleMembers
    BY <1>1, <1>2 DEF SoleMembers
  <1>8. PositionsCommitted
    BY <1>1 DEF PositionsCommitted
  <1>9. RoundTrue
    <2>1. \A t \in Topics, p \in Partitions : ends[t][p] <= EndOffset(t, p)
      BY <1>4 DEF EndOffset
    <2>2. \A i \in 1 .. Len(crew) : Finished(crew[i])
      BY <1>1, <1>2, <1>3, <1>4, <1>5 DEF Finished, Answered
    <2> QED BY <1>1, <2>1, <2>2 DEF RoundTrue, InBatch
  <1>10. PlaceTrue
    BY <1>1, <1>4 DEF PlaceTrue
  <1>11. TiersInOrder
    BY <1>2, <1>4 DEF TiersInOrder
  <1>12. NextInOrder
    BY <1>1 DEF NextInOrder
  <1>13. NothingLeft
    BY DEF CInit, Init, NothingLeft
  <1> QED BY <1>6, <1>7, <1>8, <1>9, <1>10, <1>11, <1>12, <1>13 DEF RoundInv

\* Every part of the invariant of the rounds survives a step.
LEMMA RoundInvStep ==
    ASSUME OneWorkerEach, Inv, CInv, RoundInv, [CNext]_cvars
    PROVE  RoundInv'
  <1>0. TurnsTaken /\ SoleMembers /\ PositionsCommitted /\ RoundTrue /\ PlaceTrue
    BY DEF RoundInv
  <1>1. TurnsTaken' /\ SoleMembers' /\ PositionsCommitted' /\ RoundTrue' /\ PlaceTrue'
    <2>1. \A w \in Workers : pc[w] = "poll" => Fetches(w)
      BY <1>0 DEF RoundTrue
    <2>2. TurnsTaken'
      BY <1>0, TurnsTakenStep
    <2>3. SoleMembers'
      BY <1>0, SoleMembersStep
    <2>4. PositionsCommitted'
      BY <1>0, <2>1, PositionsStep
    <2>5. RoundTrue'
      BY <1>0, RoundTrueStep
    <2>6. PlaceTrue'
      BY <1>0, PlaceTrueStep
    <2> QED BY <2>2, <2>3, <2>4, <2>5, <2>6
  <1>2. CASE place = "raised"
    <2>1. place' = "raised"
      BY <1>2, StepKinds DEF Construct, Turn, Starts, Sleep, GivesUp, NothingToDo,
                             Surroundings, cvars, coopVars
    <2> QED BY <1>1, <2>1 DEF RoundInv
  <1>3. CASE place # "raised"
    <2>1. TurnsTaken /\ TiersInOrder /\ NextInOrder /\ NothingLeft
      BY <1>3 DEF RoundInv
    <2>2. TiersInOrder' /\ NextInOrder'
      BY <1>3, <2>1, TiersInOrderStep, NextInOrderStep
    <2>3. place' # "raised" => NothingLeft'
      BY <2>1, NothingLeftStep
    <2> QED BY <1>1, <2>2, <2>3 DEF RoundInv
  <1> QED BY <1>2, <1>3

-----------------------------------------------------------------------------
\* The invariants of the workers and of the scheduler hold in every reachable
\* state of the cooperative mode.
LEMMA CooperativeInvariance == CSpec => [](Inv /\ CInv)
  <1>1. CInit => Inv /\ CInv
    BY InitInv, CInitInv DEF CInit
  <1>2. Inv /\ CInv /\ [CNext]_cvars => (Inv /\ CInv)'
    BY InvStep, CInvStep, CooperativeStep
  <1> QED BY <1>1, <1>2, PTL DEF CSpec

\* The variables of the scheduler always have their types: the turn stays within
\* the fleet, and a call gives up after idle_rounds rounds.
THEOREM CooperativeTypes == CSpec => []CTypeOK
  <1>1. CInv => CTypeOK
    BY DEF CInv
  <1> QED BY <1>1, CooperativeInvariance, PTL

\* What the scheduler knows of a round (service.py, run_until_idle; worker.py, drain):
\* when each topic has one worker, the turns, the positions, what a round has found
\* out, and the order of the tiers are as RoundInv says in every reachable state.
THEOREM RoundInvariance ==
    ASSUME OneWorkerEach
    PROVE  CSpec => []RoundInv
  <1>1. CInit => RoundInv
    BY RoundInit
  <1>2. Inv /\ CInv /\ RoundInv /\ [CNext]_cvars => RoundInv'
    BY OneWorkerEach, RoundInvStep
  <1> QED BY <1>1, <1>2, CooperativeInvariance, PTL DEF CSpec

\* run_until_idle returns only when the whole ladder is done, and drain leaves no
\* more than what is behind a head that is not due, or a batch had no room for.
THEOREM ReturnsDone ==
    ASSUME OneWorkerEach
    PROVE  CSpec => []ReturnMeansDone
  <1> USE OneWorkerEach
  <1>1. Inv /\ CInv /\ RoundInv => ReturnMeansDone
    <2> SUFFICES ASSUME CInv, RoundInv, place = "returned",
                        NEW i \in 1 .. Len(crew), NEW p \in Partitions
                 PROVE  \/ Begins(crew[i], p) >= ends[TopicOf[crew[i]]][p]
                        \/ /\ call = "drain"
                           /\ cut \/ HeadDue(crew[i], p) > began
      BY DEF ReturnMeansDone, Range, Begins, HeadDue
    <2>1. CTypeOK /\ RoundTrue /\ PlaceTrue
      BY DEF CInv, RoundInv
    <2>2. Finished(crew[i])
      BY <2>1 DEF RoundTrue, PlaceTrue
    <2>3. CASE call = "run"
      <3>1. crew[i] \in Workers
        BY <2>1, CrewDistinct
      <3>2. dueAt[crew[i]] = NoDue
        BY <2>1, <2>3, <3>1 DEF PlaceTrue
      <3> QED BY <2>2, <3>2 DEF Finished
    <2>4. CASE call = "drain"
      <3>1. Answered(crew[i], p)
        BY <2>2 DEF Finished
      <3>2. began < HeadDue(crew[i], p) => HeadDue(crew[i], p) > began
        OBVIOUS
      <3> QED BY <2>4, <3>1, <3>2 DEF Answered
    <2> QED BY <2>1, <2>3, <2>4 DEF CTypeOK, Calls
  <1> QED BY <1>1, RoundInvariance, CooperativeInvariance, PTL

\* run_until_idle sleeps past nothing (worker.py, pending_due_at): when each topic of
\* the ladder has one worker, every record that is on it when the last round began
\* and is not committed is due no sooner than the sleep ends.
THEOREM SleepsNotPast ==
    ASSUME OneWorkerEach, EveryTopicServed
    PROVE  CSpec => []SleepMissesNothing
  <1> USE OneWorkerEach
  <1>1. Inv /\ CInv /\ RoundInv => SleepMissesNothing
    <2> SUFFICES ASSUME Inv, CInv, RoundInv, place = "asleep", ~cut,
                        NEW t \in ConsumedTopics, NEW p \in Partitions,
                        NEW o \in CommittedOffset(t, p) .. ends[t][p] - 1
                 PROVE  RecordAt(t, p, o).not_before >= wake
      BY DEF SleepMissesNothing, NothingDueInSleep
    <2>1. CTypeOK /\ TypeOK /\ RoundTrue /\ PlaceTrue /\ TiersInOrder
      BY DEF Inv, CInv, RoundInv
    <2>2. PICK w \in Workers : TopicOf[w] = t
      BY EveryTopicServed DEF EveryTopicServed
    <2>3. Finished(w)
      <3>1. PICK i \in 1 .. Len(Fleet) : Fleet[i] = w
        BY FleetComplete
      <3>2. crew = Fleet /\ ~busy
        BY <2>1 DEF PlaceTrue
      <3> QED BY <2>1, <3>1, <3>2 DEF RoundTrue
    <2>4. t \in Topics
      BY TopologyAssumption DEF ConsumedTopics, TopicsFor
    <2>5. /\ log[t][p] \in Seq(Records) /\ Len(log[t][p]) \in Nat /\ ends[t][p] \in Nat
          /\ Begins(w, p) \in Nat /\ wake \in Nat /\ dueAt[w] \in Nat \cup {NoDue}
      <3>1. /\ log[t][p] \in Seq(Records) /\ ends[t][p] \in Nat
            /\ wake \in Nat /\ dueAt[w] \in Nat \cup {NoDue}
        BY <2>1, <2>4 DEF TypeOK, CTypeOK
      <3>2. committed[t][p] \in Offsets
        BY <2>1, <2>4 DEF TypeOK
      <3> QED BY <2>2, <3>1, <3>2 DEF Begins, CommittedOffset, Offsets
    <2>6. ends[t][p] <= Len(log[t][p])
      BY <2>1, <2>4 DEF RoundTrue, EndOffset
    <2>7. Begins(w, p) <= o /\ o < ends[t][p] /\ o \in Int
      BY <2>2, <2>5 DEF Begins
    <2>8. dueAt[w] # NoDue /\ dueAt[w] <= HeadDue(w, p)
      BY <2>2, <2>3, <2>5, <2>7 DEF Finished, Answered
    <2>9. wake <= dueAt[w]
      BY <2>1, <2>8 DEF PlaceTrue
    <2> DEFINE head == log[t][p][Begins(w, p) + 1]
               here == log[t][p][o + 1]
    <2>10. Begins(w, p) + 1 \in 1 .. Len(log[t][p]) /\ o + 1 \in 1 .. Len(log[t][p])
      BY <2>5, <2>6, <2>7
    <2>11. head.not_before \in Nat /\ here.not_before \in Nat
      <3>1. head \in Records /\ here \in Records
        BY <2>5, <2>10
      <3> QED BY <3>1 DEF Records
    <2>12. head.not_before <= here.not_before
      <3>1. CASE o = Begins(w, p)
        BY <2>11, <3>1
      <3>2. CASE o # Begins(w, p)
        <4>1. Begins(w, p) + 1 < o + 1
          BY <2>5, <2>7, <3>2
        <4> QED BY <2>1, <2>10, <4>1 DEF TiersInOrder
      <3> QED BY <3>1, <3>2
    <2>13. HeadDue(w, p) = head.not_before /\ RecordAt(t, p, o) = here
      BY <2>2 DEF HeadDue, RecordAt
    <2> HIDE DEF head, here
    <2> QED BY <2>5, <2>8, <2>9, <2>11, <2>12, <2>13
  <1> QED BY <1>1, RoundInvariance, CooperativeInvariance, PTL

\* run_until_idle and drain are one of the interleavings of the worker threads.
THEOREM CooperativeImplementsThreads == CSpec => Spec
  <1>1. CInit => Init
    BY DEF CInit
  <1>2. CInv /\ [CNext]_cvars => [Next]_vars
    BY CooperativeStep
  <1> QED BY <1>1, <1>2, CooperativeInvariance, PTL DEF CSpec, Spec

\* At-least-once in the cooperative mode: neither a put-back nor an exception
\* that leaves the call commits past a record that was not handled.
THEOREM CooperativeAtLeastOnce == CSpec => ImplementsAtLeastOnce
  BY CooperativeImplementsThreads, Refinement, PTL
=============================================================================
