----------------------------- MODULE OnceProofs ----------------------------
(***************************************************************************)
(* What one worker per topic does to each event while no thread dies, no   *)
(* consumer is closed and the idempotency store drops nothing.             *)
(*                                                                         *)
(* NothingTwice: the one consumer of a topic keeps every partition of it,  *)
(* so its hand and its positions are beyond all that is settled, whatever  *)
(* batches were abandoned in between.  OneEach follows from it: the copy   *)
(* of a record is written in the step that settles the record.  And the    *)
(* one copy there is has headers that tell the truth (HeadersTrue).        *)
(*                                                                         *)
(* At the end, the fleet beside operators who replay dead letters.  What   *)
(* QInv says of the logs and of tries needs none of these premises; that   *)
(* copies are conserved (ReplayedOnce, its last conjunct) needs them.      *)
(***************************************************************************)
EXTENDS DeliveryProofs, DeadLetterQueue, FiniteSetTheorems
-----------------------------------------------------------------------------
(* One consumer has its topic for itself.                                  *)

\* The only member of the group is assigned every partition.
LEMMA SoleMember ==
    ASSUME NEW t \in Topics, NEW c, members[t] = <<c>>
    PROVE  Assignment(t, c) = Partitions
  <1>1. NumPartitions \div 1 = NumPartitions /\ NumPartitions % 1 = 0
    BY PartitionsAssumption
  <1>2. RangeBlock(0, 1) = Partitions
    BY <1>1, PartitionsAssumption DEF RangeBlock, Partitions
  <1>3. Len(members[t]) = 1 /\ {j \in 1 .. 1 : members[t][j] = c} = {1}
    OBVIOUS
  <1>4. Assignment(t, c) = UNION {RangeBlock(i - 1, 1) : i \in {1}}
    BY <1>3 DEF Assignment
  <1>5. Assignment(t, c) = RangeBlock(1 - 1, 1)
    BY <1>4
  <1> QED BY <1>2, <1>5

\* The steps of a worker that is left alone by the others keep it so.
LEMMA PollingKeeps ==
    ASSUME Inv, Inv', NEW w \in Workers, NothingTwice(w),
           \/ Build(w) \/ Finish(w) \/ PollAssign(w) \/ PollReturn(w)
           \/ \E p \in Partitions : PollFetch(w, p)
    PROVE  NothingTwice(w)'
  <1> DEFINE T == TopicOf[w]
  <1>1. TypeOK /\ TypeOK' /\ T \in Topics
    BY TopicsOfWorkers DEF Inv
  <1>2. pc[w] # "dead" /\ ~closed[w]
    BY DEF NothingTwice
  <1>3. HandEmptyBetweenBatches(w)
    BY DEF Inv, WorkerInv
  <1>4. \A p \in Partitions :
            /\ hand[w][p].first \in Nat /\ hand[w][p].last \in Nat /\ position[w][p] \in Int
            /\ CommittedOffset(T, p) \in Nat
    BY WorkerTypes
  <1>5. CASE Build(w)
    <2>1. /\ pc[w] \in {"absent", "finished"} /\ pc'[w] = "idle" /\ ~closed'[w]
          /\ position'[w] = [p \in Partitions |-> NoOffset]
          /\ hand' = hand /\ settled' = settled /\ committed' = committed
          /\ outgoing' = outgoing
      BY <1>1, <1>2, <1>5 DEF Build, Goto, TypeOK
    <2>2. members'[T] = <<ClientOf[w]>>
      <3>1. CASE pc[w] = "absent"
        <4>1. members[T] = <<>>
          BY <3>1 DEF NothingTwice
        <4>2. members'[T] = Append(<<>>, ClientOf[w])
          BY <1>1, <1>5, <4>1 DEF Build, Join, IsMember, TypeOK
        <4> QED BY <4>2
      <3>2. CASE pc[w] = "finished"
        <4>1. members[T] = <<ClientOf[w]>>
          BY <3>2 DEF NothingTwice
        <4>2. IsMember(T, ClientOf[w])
          BY <4>1 DEF IsMember
        <4> QED BY <1>1, <1>5, <4>1, <4>2 DEF Build, Join, TypeOK
      <3> QED BY <2>1, <3>1, <3>2
    <2>3. \A p \in Partitions : ~Holds(w, p)
      BY <1>3, <2>1 DEF HandEmptyBetweenBatches
    <2>4. \A p \in Partitions : \A o \in settled[T][p] : o < CommittedOffset(T, p)
      BY <2>1 DEF NothingTwice
    <2> QED BY <2>1, <2>2, <2>3, <2>4 DEF NothingTwice, Holds, CommittedOffset
  <1>6. CASE Finish(w)
    BY <1>1, <1>6 DEF Finish, Goto, TypeOK, NothingTwice, Holds, CommittedOffset, brokerVars
  <1>7. CASE PollAssign(w)
    <2>1. Assignment(T, ClientOf[w]) = Partitions
      BY <1>1, <1>7, SoleMember DEF PollAssign, NothingTwice
    <2>2. position' = position
      BY <1>1, <1>7, <2>1 DEF PollAssign, TypeOK
    <2> QED
      BY <1>1, <1>7, <2>2
         DEF PollAssign, Goto, TypeOK, NothingTwice, Holds, CommittedOffset, brokerVars
  <1>8. CASE PollReturn(w)
    <2>1. Assignment(T, ClientOf[w]) = Partitions
      BY <1>1, <1>8, SoleMember DEF PollReturn, NothingTwice
    <2>2. /\ pc[w] = "poll"
          /\ \A p \in Partitions :
                position'[w][p] = IF position[w][p] = NoOffset THEN CommittedOffset(T, p)
                                                               ELSE position[w][p]
      BY <1>1, <1>8, <2>1 DEF PollReturn, TypeOK
    <2>3. /\ pc'[w] \in {"idle", "batch"}
          /\ \A p \in Partitions : IF Holds(w, p) THEN hand'[w][p] = hand[w][p]
                                                  ELSE ~Holds(w, p)'
      BY <1>1, <1>8
         DEF PollReturn, Goto, TypeOK, EmptyHanded, Holds, NothingInHand, Nothing
    <2>4. UNCHANGED <<members, settled, committed, closed, outgoing>>
      BY <1>8 DEF PollReturn, brokerVars
    <2>5. \A p \in Partitions : position'[w][p] # NoOffset
      BY <1>4, <2>2 DEF NoOffset
    <2> QED
      BY <1>2, <1>4, <2>2, <2>3, <2>4, <2>5 DEF NothingTwice, Holds, CommittedOffset, NoOffset
  <1>9. ASSUME NEW p \in Partitions, PollFetch(w, p)
        PROVE  NothingTwice(w)'
    <2> DEFINE start == IF position[w][p] = NoOffset THEN CommittedOffset(T, p)
                                                     ELSE position[w][p]
               there == EndOffset(T, p) - start
               count == IF there < room[w] THEN there ELSE room[w]
    <2>1. pc[w] = "poll" /\ pc'[w] = "poll" /\ ~Holds(w, p)
      BY <1>3, <1>9 DEF PollFetch, HandEmptyBetweenBatches
    <2>2. \A o \in settled[T][p] : o < start
      BY <2>1 DEF NothingTwice
    <2>3. start \in Nat /\ count \in Nat
      <3>1. WithinLogs(w) /\ CommittedOffset(T, p) <= EndOffset(T, p) /\ EndOffset(T, p) \in Nat
        BY WorkerTypes DEF Inv, WorkerInv
      <3>2. room[w] \in Nat
        BY <1>1, WorkersAssumption DEF TypeOK
      <3>3. position[w][p] = NoOffset \/ position[w][p] \in Nat
        BY <1>1 DEF TypeOK, Offsets
      <3> QED BY <1>4, <3>1, <3>2, <3>3 DEF WithinLogs
    <2>4. /\ position' = [position EXCEPT ![w][p] = start + count]
          /\ hand' = [hand EXCEPT ![w][p] = [first |-> start, last |-> start + count]]
      BY <1>9 DEF PollFetch
    <2>5. UNCHANGED <<members, settled, committed, closed, outgoing>>
      BY <1>9 DEF PollFetch, brokerVars
    <2> HIDE DEF start, there, count
    <2>6. /\ position'[w][p] = start + count /\ start + count # NoOffset
          /\ hand'[w][p].first = start /\ hand'[w][p].last = start + count
      BY <1>1, <2>3, <2>4 DEF TypeOK, NoOffset
    <2>7. \A q \in Partitions : q # p => position'[w][q] = position[w][q] /\ hand'[w][q] = hand[w][q]
      BY <1>1, <2>4 DEF TypeOK
    <2>8. ASSUME NEW q \in Partitions
          PROVE  /\ Holds(w, q)' =>
                        /\ position'[w][q] = hand'[w][q].last
                        /\ \A o \in settled'[T][q] : o < hand'[w][q].first
                 /\ ~Holds(w, q)' /\ position'[w][q] # NoOffset =>
                        \A o \in settled'[T][q] : o < position'[w][q]
      <3>1. CASE q = p
        <4>1. settled[T][p] \subseteq Nat
          <5>1. settled \in [Topics -> [Partitions -> SUBSET Nat]]
            BY <1>1 DEF TypeOK
          <5> QED BY <1>1, <5>1
        <4>2. \A o \in settled'[T][p] : o < start /\ o < start + count
          BY <2>2, <2>3, <2>5, <4>1
        <4> QED BY <2>6, <3>1, <4>2
      <3>2. CASE q # p
        BY <2>5, <2>7, <3>2 DEF NothingTwice, Holds
      <3> QED BY <3>1, <3>2
    <2> QED BY <1>2, <2>1, <2>5, <2>8 DEF NothingTwice, CommittedOffset
  <1> QED BY <1>5, <1>6, <1>7, <1>8, <1>9

\* So do its steps with a batch in hand.
LEMMA BatchKeeps ==
    ASSUME Inv, Inv', NEW w \in Workers, NothingTwice(w), pc'[w] # "dead",
           \/ Commit(w)
           \/ \E p \in Partitions :
                 \/ Abandon(w, p) \/ Wait(w, p) \/ Defer(w, p) \/ Handles(w, p)
                 \/ Admit(w, p) \/ Invoke(w, p) \/ Return(w, p) \/ Retry(w, p) \/ DeadLetter(w, p)
    PROVE  NothingTwice(w)'
  <1> DEFINE T == TopicOf[w]
  <1>1. TypeOK /\ TypeOK' /\ T \in Topics
    BY TopicsOfWorkers DEF Inv
  <1>2. \A p \in Partitions :
            /\ hand[w][p].first \in Nat /\ hand[w][p].last \in Nat /\ position[w][p] \in Int
            /\ settled[T][p] \subseteq Nat
    <2>1. settled \in [Topics -> [Partitions -> SUBSET Nat]]
      BY <1>1 DEF TypeOK
    <2> QED BY <1>1, <2>1, WorkerTypes
  <1>0. /\ settled \in [Topics -> [Partitions -> SUBSET Nat]]
        /\ hand \in [Workers -> [Partitions -> [first : Nat, last : Nat]]]
        /\ position \in [Workers -> [Partitions -> Offsets]]
    BY <1>1 DEF TypeOK
  <1>3. CASE Commit(w)
    <2>1. /\ pc[w] = "batch" /\ pc'[w] = "idle" /\ EmptyHanded(w)
          /\ UNCHANGED <<members, settled, closed, position, outgoing>>
          /\ hand'[w] = NothingInHand
      BY <1>1, <1>3 DEF Commit, Goto, TypeOK
    <2>2. \A p \in Partitions : committed'[T][p] = position[w][p] /\ position[w][p] # NoOffset
      BY <1>1, <1>3, <2>1 DEF Commit, CommitPositions, TypeOK, NothingTwice
    <2>3. \A p \in Partitions : ~Holds(w, p)' /\ ~Holds(w, p)
      BY <2>1 DEF Holds, EmptyHanded, NothingInHand, Nothing
    <2> QED BY <2>1, <2>2, <2>3 DEF NothingTwice, CommittedOffset
  <1>4. ASSUME NEW p \in Partitions,
               \/ Wait(w, p) \/ Admit(w, p) \/ Invoke(w, p) \/ Return(w, p)
               \/ Retry(w, p) \/ DeadLetter(w, p)
        PROVE  NothingTwice(w)'
    <2>1. CASE Wait(w, p) \/ Admit(w, p) \/ Invoke(w, p) \/ Return(w, p)
      <3>1. /\ pc[w] \in {"batch", "wait", "admitted", "handler"}
            /\ pc'[w] \in {"wait", "admitted", "handler", "returned"}
            /\ UNCHANGED <<members, settled, committed, closed, position, hand, outgoing>>
        BY <1>1, <2>1 DEF Wait, Admit, Invoke, Return, Ready, Goto, TypeOK, brokerVars
      <3> QED BY <3>1 DEF NothingTwice, Holds, CommittedOffset
    <2>2. CASE Retry(w, p) \/ DeadLetter(w, p)
      <3>1. /\ pc[w] = "handler" /\ pc'[w] = "send"
            /\ UNCHANGED <<members, settled, committed, closed, position, hand>>
        BY <1>1, <2>2 DEF Retry, DeadLetter, Prepare, Goto, TypeOK, brokerVars
      <3> QED BY <3>1 DEF NothingTwice, Holds, CommittedOffset
    <2> QED BY <1>4, <2>1, <2>2
  <1>5. ASSUME NEW p \in Partitions, Abandon(w, p) \/ Defer(w, p)
        PROVE  NothingTwice(w)'
    <2>1. /\ pc[w] \in {"batch", "wait"} /\ pc'[w] = "batch" /\ PutBack(w, p) /\ Holds(w, p)
          /\ UNCHANGED <<members, settled, committed, closed, outgoing>>
      BY <1>1, <1>5 DEF Abandon, Defer, Goto, TypeOK, IsCurrent, brokerVars
    <2>2. /\ position'[w][p] = hand[w][p].first /\ position'[w][p] # NoOffset
          /\ ~Holds(w, p)'
          /\ \A o \in settled[T][p] : o < hand[w][p].first
      <3>1. position'[w][p] = hand[w][p].first /\ hand'[w][p] = Nothing
        BY <1>0, <2>1 DEF PutBack
      <3>2. \A o \in settled[T][p] : o < hand[w][p].first
        BY <2>1 DEF NothingTwice
      <3> QED BY <1>2, <3>1, <3>2 DEF Nothing, Holds, NoOffset
    <2>3. \A q \in Partitions : q # p => position'[w][q] = position[w][q] /\ hand'[w][q] = hand[w][q]
      BY <1>0, <2>1 DEF PutBack
    <2>4. ASSUME NEW q \in Partitions
          PROVE  /\ Holds(w, q)' =>
                        /\ position'[w][q] = hand'[w][q].last
                        /\ \A o \in settled'[T][q] : o < hand'[w][q].first
                 /\ ~Holds(w, q)' /\ position'[w][q] # NoOffset =>
                        \A o \in settled'[T][q] : o < position'[w][q]
                 /\ position'[w][q] # NoOffset
      <3>1. CASE q = p
        BY <2>1, <2>2, <3>1
      <3>2. CASE q # p
        BY <2>1, <2>3, <3>2 DEF NothingTwice, Holds
      <3> QED BY <3>1, <3>2
    <2> QED BY <2>1, <2>4 DEF NothingTwice
  <1>6. ASSUME NEW p \in Partitions, Handles(w, p)
        PROVE  NothingTwice(w)'
    <2>0. (pc[w] = "send" /\ outgoing'[w] = NoMessage) \/ (pc[w] # "send" /\ outgoing' = outgoing)
      <3>1. CASE Send(w, p)
        <4>1. outgoing \in [Workers -> [topic : Topics, record : Records]]
          BY <1>1 DEF TypeOK
        <4> QED BY <3>1, <4>1 DEF Send
      <3>2. CASE Duplicate(w, p) \/ Succeed(w, p)
        BY <3>2 DEF Duplicate, Ready, Succeed
      <3> QED BY <1>6, <3>1, <3>2 DEF Handles
    <2>1. /\ pc[w] \in {"batch", "wait", "returned", "send"} /\ pc'[w] = "batch"
          /\ Settle(w, p) /\ Holds(w, p)
          /\ UNCHANGED <<members, committed, closed, position>>
      BY <1>1, <1>6
         DEF Handles, Duplicate, Ready, Succeed, Send, Goto, TypeOK, IsCurrent, brokerVars
    <2>2. /\ settled'[T][p] = settled[T][p] \cup {hand[w][p].first}
          /\ hand'[w][p].first = hand[w][p].first + 1 /\ hand'[w][p].last = hand[w][p].last
      BY <1>0, <1>1, <2>1 DEF Settle
    <2>3. \A q \in Partitions : q # p =>
              settled'[T][q] = settled[T][q] /\ hand'[w][q] = hand[w][q]
      BY <1>0, <1>1, <2>1 DEF Settle
    <2>4. /\ \A o \in settled[T][p] : o < hand[w][p].first
          /\ position[w][p] = hand[w][p].last
      BY <2>1 DEF NothingTwice
    <2>5. \A o \in settled'[T][p] : o < hand'[w][p].first
      BY <1>2, <2>2, <2>4
    <2>6. hand'[w][p].first <= hand'[w][p].last
      BY <1>2, <2>1, <2>2 DEF Holds
    <2>7. ~Holds(w, p)' => hand'[w][p].first = position[w][p]
      BY <1>2, <2>2, <2>4, <2>6 DEF Holds
    <2>8. ASSUME NEW q \in Partitions
          PROVE  /\ Holds(w, q)' =>
                        /\ position'[w][q] = hand'[w][q].last
                        /\ \A o \in settled'[T][q] : o < hand'[w][q].first
                 /\ ~Holds(w, q)' /\ position'[w][q] # NoOffset =>
                        \A o \in settled'[T][q] : o < position'[w][q]
                 /\ position'[w][q] # NoOffset
      <3>1. position'[w][q] = position[w][q] /\ position[w][q] # NoOffset
        BY <2>1 DEF NothingTwice
      <3>2. CASE q = p
        BY <2>2, <2>4, <2>5, <2>7, <3>1, <3>2
      <3>3. CASE q # p
        BY <2>3, <3>1, <3>3 DEF NothingTwice, Holds
      <3> QED BY <3>2, <3>3
    <2> QED BY <2>0, <2>1, <2>8 DEF NothingTwice
  <1> QED BY <1>3, <1>4, <1>5, <1>6

\* A worker touches the offsets and the group of its own topic only.
LEMMA OtherTopics ==
    ASSUME TypeOK, NEW w \in Workers, NEW t \in Topics, t # TopicOf[w],
           Step(w) \/ Build(w) \/ \E drain \in BOOLEAN : Stop(w, drain)
    PROVE  settled'[t] = settled[t] /\ committed'[t] = committed[t] /\ members'[t] = members[t]
  <1>0. /\ settled \in [Topics -> [Partitions -> SUBSET Nat]]
        /\ committed \in [Topics -> [Partitions -> Offsets]]
        /\ members \in [Topics -> Seq(Clients)]
    BY DEF TypeOK
  <1>1. CASE Commit(w) \/ CommitError(w)
    BY <1>0, <1>1 DEF Commit, CommitError, CommitPositions, Die
  <1>2. CASE Build(w)
    BY <1>0, <1>2 DEF Build, Join
  <1>3. ASSUME NEW p \in Partitions, Handles(w, p)
        PROVE  settled'[t] = settled[t] /\ committed' = committed /\ members' = members
    BY <1>0, <1>3 DEF Handles, Duplicate, Succeed, Send, Settle, brokerVars
  <1>4. ASSUME NEW p \in Partitions,
               \/ PollFetch(w, p) \/ Abandon(w, p) \/ Wait(w, p) \/ Defer(w, p)
               \/ Admit(w, p) \/ Invoke(w, p) \/ Return(w, p) \/ Retry(w, p) \/ DeadLetter(w, p)
        PROVE  UNCHANGED <<settled, committed, members>>
    BY <1>4 DEF PollFetch, Abandon, Wait, Defer, Admit, Invoke, Return, Retry, DeadLetter,
                Prepare, brokerVars
  <1>5. CASE \/ Finish(w) \/ PollAssign(w) \/ PollReturn(w)
             \/ Escape(w) \/ PollError(w) \/ StoreError(w) \/ SendError(w)
             \/ \E drain \in BOOLEAN : Stop(w, drain)
    BY <1>5 DEF Finish, PollAssign, PollReturn, Escape, PollError, StoreError, SendError, Die,
                Stop, brokerVars
  <1> QED BY <1>1, <1>2, <1>3, <1>4, <1>5 DEF Step, Handles

\* With one worker per topic and no close, no step takes anything away from it.
LEMMA NothingTwiceStep ==
    ASSUME Inv, [Next]_vars, OneWorkerEach, NEW w \in Workers,
           \A v \in Workers : NothingTwice(v) /\ pc'[v] # "dead" /\ ~closed'[v]
    PROVE  NothingTwice(w)'
  <1>1. TypeOK /\ Inv' /\ TopicOf[w] \in Topics
    BY InvStep, TopicsOfWorkers DEF Inv
  <1>2. ASSUME NEW v \in Workers, Step(v) \/ Control(v)
        PROVE  Step(v) \/ Build(v) \/ \E drain \in BOOLEAN : Stop(v, drain)
    <2>1. ~Close(v)
      BY <1>1 DEF Close, TypeOK
    <2>2. ~Deliver(v)
      BY DEF Deliver, NothingTwice
    <2> QED BY <1>2, <2>1, <2>2 DEF Control
  <1>3. ASSUME NEW v \in Workers, v # w, Step(v) \/ Control(v)
        PROVE  NothingTwice(w)'
    <2>1. /\ pc'[w] = pc[w] /\ position'[w] = position[w] /\ hand'[w] = hand[w]
          /\ outgoing'[w] = outgoing[w]
      BY <1>1, <1>3, OthersUntouched
    <2>2. /\ settled'[TopicOf[w]] = settled[TopicOf[w]]
          /\ committed'[TopicOf[w]] = committed[TopicOf[w]]
          /\ members'[TopicOf[w]] = members[TopicOf[w]]
      BY <1>1, <1>2, <1>3, OtherTopics DEF OneWorkerEach
    <2> QED BY <2>1, <2>2 DEF NothingTwice, Holds, CommittedOffset
  <1>4. CASE Step(w) \/ Control(w)
    <2>1. CASE \E drain \in BOOLEAN : Stop(w, drain)
      <3>1. UNCHANGED <<pc, closed, outgoing, members, hand, position, settled, committed>>
        BY <2>1 DEF Stop, brokerVars
      <3>2. NothingTwice(w)
        OBVIOUS
      <3> QED BY <3>1, <3>2 DEF NothingTwice, Holds, CommittedOffset
    <2>2. CASE Escape(w) \/ PollError(w) \/ StoreError(w) \/ SendError(w) \/ CommitError(w)
      BY <1>1, <2>2 DEF Escape, PollError, StoreError, SendError, CommitError, Die, Goto, TypeOK
    <2> QED
      BY <1>1, <1>2, <1>4, <2>1, <2>2, PollingKeeps, BatchKeeps DEF Step, Handles
  <1>5. CASE Produce \/ Tick \/ Forget \/ UNCHANGED vars
    BY <1>5 DEF Produce, Tick, Forget, vars, clientVars, brokerVars, NothingTwice, Holds,
                CommittedOffset
  <1> QED BY <1>3, <1>4, <1>5 DEF Next
-----------------------------------------------------------------------------
(* What happens to a copy in a step.                                       *)

\* The record in hand is not settled.
LEMMA InHandUnsettled ==
    ASSUME Inv, NEW w \in Workers, NEW p \in Partitions, NothingTwice(w), Holds(w, p)
    PROVE  Unsettled(TopicOf[w], p, hand[w][p].first)
  <1>1. /\ hand[w][p].first \in 0 .. EndOffset(TopicOf[w], p) - 1
        /\ TopicOf[w] \in ConsumedTopics
    BY MessageInLog, TopicsOfWorkers
  <1>2. hand[w][p].first \in Nat /\ \A o \in settled[TopicOf[w]][p] : o < hand[w][p].first
    BY WorkerTypes DEF NothingTwice
  <1> QED BY <1>1, <1>2 DEF Unsettled

\* What is not settled after a step was not settled before it, or was not there.
LEMMA UnsettledBefore ==
    ASSUME Inv, [Next]_vars, NEW t \in ConsumedTopics, NEW p \in Partitions,
           NEW o \in 0 .. EndOffset(t, p) - 1, Unsettled(t, p, o)'
    PROVE  Unsettled(t, p, o)
  <1>1. t \in Topics
    BY TopologyAssumption DEF ConsumedTopics, TopicsFor
  <1> QED BY <1>1, Growth DEF Unsettled

\* In a call, the worker keeps what it has.
LEMMA InCallKept ==
    ASSUME TypeOK, [Next]_vars, NEW w \in Workers, pc[w] \in AtCall, pc'[w] = pc[w],
           ~Deliver(w)
    PROVE  hand'[w] = hand[w] /\ outgoing'[w] = outgoing[w]
  <1>1. CASE \/ Finish(w) \/ PollAssign(w) \/ PollReturn(w) \/ Commit(w) \/ Build(w)
             \/ Escape(w) \/ PollError(w) \/ StoreError(w) \/ SendError(w) \/ CommitError(w)
    BY <1>1, Elsewhere DEF AtCall
  <1>2. ASSUME NEW p \in Partitions,
               \/ PollFetch(w, p) \/ Abandon(w, p) \/ Wait(w, p) \/ Defer(w, p)
               \/ Duplicate(w, p) \/ Admit(w, p) \/ Invoke(w, p) \/ Return(w, p)
               \/ Succeed(w, p) \/ Retry(w, p) \/ DeadLetter(w, p) \/ Send(w, p)
        PROVE  FALSE
    <2>1. ~(PollFetch(w, p) \/ Abandon(w, p) \/ Wait(w, p) \/ Defer(w, p))
      BY DEF PollFetch, Abandon, Wait, Defer, AtCall
    <2>2. ~(Duplicate(w, p) \/ Admit(w, p))
      BY DEF Duplicate, Admit, Ready, AtCall
    <2>3. ~(Invoke(w, p) \/ Return(w, p) \/ Succeed(w, p) \/ Send(w, p))
      BY DEF Invoke, Return, Succeed, Send, Goto, TypeOK
    <2>4. ~(Retry(w, p) \/ DeadLetter(w, p))
      BY DEF Retry, DeadLetter, Prepare, Goto, TypeOK
    <2> QED BY <1>2, <2>1, <2>2, <2>3, <2>4
  <1>3. CASE Close(w) \/ \E drain \in BOOLEAN : Stop(w, drain)
    BY <1>3 DEF Close, Stop
  <1>4. ASSUME NEW v \in Workers, v # w, Step(v) \/ Control(v)
        PROVE  hand'[w] = hand[w] /\ outgoing'[w] = outgoing[w]
    BY <1>4, OthersUntouched
  <1>5. CASE Produce \/ Tick \/ Forget \/ UNCHANGED vars
    BY <1>5 DEF Produce, Tick, Forget, vars, clientVars
  <1> QED BY <1>1, <1>2, <1>3, <1>4, <1>5 DEF Next, Step, Control

\* From the answer of the store to the end of what is done with the record.
Calling(w) == pc[w] \in AtCall

\* A step in which no call begins or ends and nothing is written; time may pass.
Quiet ==
    /\ UNCHANGED log
    /\ Entered = {} /\ Moved("returned", "batch") = {} /\ Moved("handler", "send") = {}
    /\ now <= now'
    /\ \A w \in Workers :
          Calling(w) \/ Calling(w)' =>
              pc'[w] = pc[w] /\ hand'[w] = hand[w] /\ outgoing'[w] = outgoing[w]

\* The steps of a call.
CallStep(w, p) ==
    \/ Admit(w, p) \/ Invoke(w, p) \/ Return(w, p) \/ Succeed(w, p)
    \/ Retry(w, p) \/ DeadLetter(w, p) \/ Send(w, p)

\* A step is a new record, a step of a call, or nothing of the kind.
LEMMA Kinds ==
    ASSUME Inv, [Next]_vars, \A w \in Workers : NothingTwice(w) /\ pc'[w] # "dead"
    PROVE  Produce \/ Quiet \/ \E w \in Workers, p \in Partitions : CallStep(w, p)
  <1> SUFFICES ASSUME ~Produce, ~\E w \in Workers, p \in Partitions : CallStep(w, p)
               PROVE  Quiet
    OBVIOUS
  <1>0. TypeOK
    BY DEF Inv
  <1>1. ~\E w \in Workers : Deliver(w)
    BY DEF Deliver, NothingTwice
  <1>2. UNCHANGED log
    BY <1>1, WhoWrites DEF CallStep
  <1>3. Entered = {} /\ Moved("returned", "batch") = {} /\ Moved("handler", "send") = {}
    BY <1>0, OnlyCallsMove DEF CallStep
  <1>4. now <= now'
    BY <1>0, TimePasses DEF TypeOK
  <1>5. ASSUME NEW w \in Workers, Calling(w) \/ Calling(w)'
        PROVE  pc'[w] = pc[w] /\ hand'[w] = hand[w] /\ outgoing'[w] = outgoing[w]
    <2>1. pc'[w] = pc[w]
      BY <1>0, <1>5, Calls DEF CallStep, Calling, AtCall
    <2> QED BY <1>0, <1>1, <1>5, <2>1, InCallKept DEF Calling
  <1> QED BY <1>2, <1>3, <1>4, <1>5 DEF Quiet
-----------------------------------------------------------------------------
(* Each event has one copy that is not done with, or one conclusion.       *)

\* What a count of calls becomes.
LEMMA CountingAt ==
    ASSUME NEW count \in [Lineages -> Nat], NEW S, NEW k \in Lineages
    PROVE  Counting(count, S)[k] = IF k \in S THEN count[k] + 1 ELSE count[k]
  BY DEF Counting

\* Two copies of one event that are not done with are one.
LEMMA SameCopy ==
    ASSUME OneEach, NEW t \in ConsumedTopics, NEW u \in ConsumedTopics,
           NEW p \in Partitions, NEW q \in Partitions,
           NEW o \in 0 .. EndOffset(t, p) - 1, NEW i \in 0 .. EndOffset(u, q) - 1,
           Unsettled(t, p, o), Unsettled(u, q, i), LineageAt(t, p, o) = LineageAt(u, q, i)
    PROVE  t = u /\ p = q /\ o = i
  BY DEF OneEach

\* A lineage that a copy has is one the history counts.
LEMMA CopyIsLineage ==
    ASSUME Inv, Traced, NEW t \in Topics, NEW p \in Partitions,
           NEW o \in 0 .. EndOffset(t, p) - 1
    PROVE  LineageAt(t, p, o) \in Lineages /\ Began(LineageAt(t, p, o))
  <1>1. PICK l : l = LineageAt(t, p, o)
    OBVIOUS
  <1>2. Began(l)
    BY <1>1 DEF Traced, CopiesTrue, Began, IdOf
  <1> QED BY <1>1, <1>2, BeganIsLineage DEF Traced

\* Nothing is written, and no call returns but for a record that is done with.
LEMMA OneEachWithoutCopies ==
    ASSUME Inv, Traced, [Next]_vars, OneEach, UNCHANGED log,
           oks' = Counting(oks, Moved("returned", "batch")),
           \A l \in Moved("returned", "batch") :
               \E t \in ConsumedTopics, p \in Partitions :
                   \E o \in 0 .. EndOffset(t, p) - 1 :
                       /\ LineageAt(t, p, o) = l
                       /\ Unsettled(t, p, o) /\ ~Unsettled(t, p, o)'
    PROVE  OneEach'
  <1> DEFINE D == DlqTopic(Source)
  <1>0. ConsumedTopics \subseteq Topics
    BY TopologyAssumption DEF ConsumedTopics, TopicsFor
  <1>1. \A t, p, o : LineageAt(t, p, o)' = LineageAt(t, p, o) /\ EndOffset(t, p)' = EndOffset(t, p)
    BY DEF LineageAt, RecordAt, EndOffset
  <1>2. \A l : OnLog(D, l)' <=> OnLog(D, l)
    BY <1>1 DEF OnLog
  <1>3. \A t \in ConsumedTopics, p \in Partitions : \A o \in 0 .. EndOffset(t, p) - 1 :
            Unsettled(t, p, o)' => Unsettled(t, p, o)
    BY UnsettledBefore
  <1>4. oks \in [Lineages -> Nat]
    BY DEF Traced, HistoryTrue
  <1>5. \A l \in Lineages :
            oks'[l] = IF l \in Moved("returned", "batch") THEN oks[l] + 1 ELSE oks[l]
    BY <1>4, CountingAt
  <1>6. ASSUME NEW l \in Lineages, l \in Moved("returned", "batch")
        PROVE  oks[l] = 0 /\ ~OnLog(D, l)
    <2>1. PICK t \in ConsumedTopics, p \in Partitions :
              \E o \in 0 .. EndOffset(t, p) - 1 : LineageAt(t, p, o) = l /\ Unsettled(t, p, o)
      BY <1>6
    <2>2. PICK o \in 0 .. EndOffset(t, p) - 1 : LineageAt(t, p, o) = l /\ Unsettled(t, p, o)
      BY <2>1
    <2>3. ~Concluded(l)
      BY <2>2 DEF OneEach, Concluded, OnLog
    <2> QED BY <1>4, <2>3 DEF Concluded
  <1>7. ASSUME NEW t \in ConsumedTopics, NEW p \in Partitions, NEW o \in 0 .. EndOffset(t, p) - 1,
               Unsettled(t, p, o)'
        PROVE  ~Concluded(LineageAt(t, p, o))'
    <2>1. PICK l : l = LineageAt(t, p, o)
      OBVIOUS
    <2>2. l \in Lineages
      BY <1>0, <2>1, CopyIsLineage
    <2>3. ~Concluded(l)
      BY <1>3, <1>7, <2>1 DEF OneEach, Concluded, OnLog
    <2>4. l \notin Moved("returned", "batch")
      <3>1. SUFFICES ASSUME l \in Moved("returned", "batch")
                     PROVE  FALSE
        OBVIOUS
      <3>2. PICK u \in ConsumedTopics, q \in Partitions :
                \E i \in 0 .. EndOffset(u, q) - 1 :
                    LineageAt(u, q, i) = l /\ Unsettled(u, q, i) /\ ~Unsettled(u, q, i)'
        BY <3>1
      <3>3. PICK i \in 0 .. EndOffset(u, q) - 1 :
                LineageAt(u, q, i) = l /\ Unsettled(u, q, i) /\ ~Unsettled(u, q, i)'
        BY <3>2
      <3>4. t = u /\ p = q /\ o = i
        BY <1>3, <1>7, <2>1, <3>3, SameCopy
      <3> QED BY <1>7, <3>3, <3>4
    <2>5. ~Concluded(l)'
      BY <1>2, <1>5, <2>2, <2>3, <2>4 DEF Concluded
    <2>6. LineageAt(t, p, o)' = l
      BY <1>1, <2>1
    <2> QED BY <2>5, <2>6 DEF Concluded, OnLog
  <1>8. \A l \in Lineages : oks'[l] > 0 => oks'[l] = 1 /\ ~OnLog(D, l)'
    BY <1>2, <1>4, <1>5, <1>6 DEF OneEach
  <1>9. \A t, u \in ConsumedTopics, p, q \in Partitions :
          \A o \in 0 .. EndOffset(t, p)' - 1, i \in 0 .. EndOffset(u, q)' - 1 :
              /\ Unsettled(t, p, o)' /\ Unsettled(u, q, i)'
              /\ LineageAt(t, p, o)' = LineageAt(u, q, i)'
              => t = u /\ p = q /\ o = i
    BY <1>1, <1>3 DEF OneEach
  <1>10. \A p, q \in Partitions :
          \A o \in 0 .. EndOffset(D, p)' - 1, i \in 0 .. EndOffset(D, q)' - 1 :
              LineageAt(D, p, o)' = LineageAt(D, q, i)' => p = q /\ o = i
    BY <1>1 DEF OneEach
  <1> QED BY <1>1, <1>7, <1>8, <1>9, <1>10 DEF OneEach

\* One copy is written, of an event that has no other one and is not concluded.
LEMMA OneEachWithCopy ==
    ASSUME Inv, Traced, [Next]_vars, OneEach, oks' = oks,
           NEW v \in Topics, NEW a \in Partitions, NEW x \in 0 .. EndOffset(v, a)' - 1,
           NEW k \in Lineages, LineageAt(v, a, x)' = k, x \notin 0 .. EndOffset(v, a) - 1,
           ~Concluded(k),
           \A t \in Topics, p \in Partitions : \A o \in 0 .. EndOffset(t, p)' - 1 :
               o \in 0 .. EndOffset(t, p) - 1 \/ (t = v /\ p = a /\ o = x),
           \A t \in ConsumedTopics, p \in Partitions : \A o \in 0 .. EndOffset(t, p) - 1 :
               Unsettled(t, p, o)' => LineageAt(t, p, o) # k
    PROVE  OneEach'
  <1> DEFINE D == DlqTopic(Source)
  <1>0. ConsumedTopics \subseteq Topics /\ D \in Topics /\ D \notin ConsumedTopics
    BY TopologyAssumption, TopicsApart DEF ConsumedTopics, TopicsFor
  <1> HIDE DEF D
  <1>1. \A t \in Topics, p \in Partitions : \A o \in 0 .. EndOffset(t, p) - 1 :
            /\ LineageAt(t, p, o)' = LineageAt(t, p, o)
            /\ o \in 0 .. EndOffset(t, p)' - 1
    BY Stays
  <1>2. \A t \in ConsumedTopics, p \in Partitions : \A o \in 0 .. EndOffset(t, p) - 1 :
            Unsettled(t, p, o)' => Unsettled(t, p, o) /\ LineageAt(t, p, o)' # k
    BY <1>0, <1>1, UnsettledBefore
  <1>3. oks[k] = 0 /\ ~OnLog(D, k)
    BY DEF Concluded, Traced, HistoryTrue, D
  <1>4. \A p \in Partitions : \A o \in 0 .. EndOffset(D, p) - 1 : LineageAt(D, p, o)' # k
    BY <1>0, <1>1, <1>3 DEF OnLog
  <1>5. ASSUME NEW l, l # k, OnLog(D, l)'
        PROVE  OnLog(D, l)
    <2>1. PICK p \in Partitions : \E o \in 0 .. EndOffset(D, p)' - 1 : LineageAt(D, p, o)' = l
      BY <1>5 DEF OnLog, D
    <2>2. PICK o \in 0 .. EndOffset(D, p)' - 1 : LineageAt(D, p, o)' = l
      BY <2>1
    <2>3. o \in 0 .. EndOffset(D, p) - 1
      BY <1>0, <1>5, <2>2 DEF D
    <2> QED BY <1>0, <1>1, <2>2, <2>3 DEF OnLog
  <1>6. ASSUME NEW t \in ConsumedTopics, NEW u \in ConsumedTopics,
               NEW p \in Partitions, NEW q \in Partitions,
               NEW o \in 0 .. EndOffset(t, p)' - 1, NEW i \in 0 .. EndOffset(u, q)' - 1,
               Unsettled(t, p, o)', Unsettled(u, q, i)',
               LineageAt(t, p, o)' = LineageAt(u, q, i)'
        PROVE  t = u /\ p = q /\ o = i
    <2>1. /\ o \in 0 .. EndOffset(t, p) - 1 \/ (t = v /\ p = a /\ o = x)
          /\ i \in 0 .. EndOffset(u, q) - 1 \/ (u = v /\ q = a /\ i = x)
      BY <1>0
    <2>2. CASE o \in 0 .. EndOffset(t, p) - 1 /\ i \in 0 .. EndOffset(u, q) - 1
      BY <1>0, <1>1, <1>2, <1>6, <2>2, SameCopy
    <2>3. CASE o \notin 0 .. EndOffset(t, p) - 1 \/ i \notin 0 .. EndOffset(u, q) - 1
      BY <1>2, <1>6, <2>1, <2>3
    <2> QED BY <2>2, <2>3
  <1>7. ASSUME NEW t \in ConsumedTopics, NEW p \in Partitions, NEW o \in 0 .. EndOffset(t, p)' - 1,
               Unsettled(t, p, o)'
        PROVE  ~Concluded(LineageAt(t, p, o))'
    <2>1. PICK l : l = LineageAt(t, p, o)'
      OBVIOUS
    <2>2. CASE o \in 0 .. EndOffset(t, p) - 1
      <3>1. l = LineageAt(t, p, o) /\ Unsettled(t, p, o) /\ l # k
        BY <1>0, <1>1, <1>2, <1>7, <2>1, <2>2
      <3>2. ~Concluded(l)
        BY <2>2, <3>1 DEF OneEach, Concluded, OnLog
      <3>3. oks'[l] = oks[l] /\ ~OnLog(D, l)'
        BY <1>5, <3>1, <3>2 DEF Concluded, D
      <3>4. ~Concluded(l)'
        BY <3>2, <3>3 DEF Concluded, D
      <3> QED BY <2>1, <3>4 DEF Concluded, OnLog
    <2>3. CASE o \notin 0 .. EndOffset(t, p) - 1
      <3>1. t = v /\ p = a /\ o = x /\ v # D /\ l = k
        BY <1>0, <2>1, <2>3
      <3>2. ~OnLog(D, k)'
        <4>1. \A q \in Partitions : \A i \in 0 .. EndOffset(D, q)' - 1 :
                  i \in 0 .. EndOffset(D, q) - 1
          BY <1>0, <3>1
        <4> QED BY <1>4, <4>1 DEF OnLog, D
      <3>3. ~Concluded(k)'
        BY <1>3, <3>2 DEF Concluded, D
      <3> QED BY <2>1, <3>1, <3>3 DEF Concluded, OnLog
    <2> QED BY <2>2, <2>3
  <1>8. ASSUME NEW l \in Lineages, oks'[l] > 0
        PROVE  oks'[l] = 1 /\ ~OnLog(D, l)'
    <2>1. oks[l] = 1 /\ ~OnLog(D, l) /\ l # k
      BY <1>3, <1>8 DEF OneEach, D
    <2> QED BY <1>5, <2>1
  <1>9. ASSUME NEW p \in Partitions, NEW q \in Partitions,
               NEW o \in 0 .. EndOffset(D, p)' - 1, NEW i \in 0 .. EndOffset(D, q)' - 1,
               LineageAt(D, p, o)' = LineageAt(D, q, i)'
        PROVE  p = q /\ o = i
    <2>1. /\ o \in 0 .. EndOffset(D, p) - 1 \/ (D = v /\ p = a /\ o = x)
          /\ i \in 0 .. EndOffset(D, q) - 1 \/ (D = v /\ q = a /\ i = x)
      BY <1>0 DEF D
    <2>2. CASE o \in 0 .. EndOffset(D, p) - 1 /\ i \in 0 .. EndOffset(D, q) - 1
      BY <1>0, <1>1, <1>9, <2>2 DEF OneEach, D
    <2>3. CASE o \notin 0 .. EndOffset(D, p) - 1 \/ i \notin 0 .. EndOffset(D, q) - 1
      BY <1>4, <1>9, <2>1, <2>3 DEF D
    <2> QED BY <2>2, <2>3
  <1> QED BY <1>6, <1>7, <1>8, <1>9 DEF OneEach, D

\* What each step writes to the history.
LEMMA Observed ==
    ASSUME Observe
    PROVE  /\ tries' = Counting(tries, Entered)
           /\ oks' = Counting(oks, Moved("returned", "batch"))
           /\ \A l : /\ l \in DOMAIN failedAt' <=>
                            l \in DOMAIN failedAt \/ l \in Moved("handler", "send")
                     /\ l \in DOMAIN failedAt /\ l \notin Moved("handler", "send") =>
                            failedAt'[l] = failedAt[l]
                     /\ l \in Moved("handler", "send") => failedAt'[l] = now
  BY DEF Observe

LEMMA CountingType ==
    ASSUME NEW count \in [Lineages -> Nat], NEW S
    PROVE  Counting(count, S) \in [Lineages -> Nat]
  BY DEF Counting

\* Nothing counted, nothing changed.
LEMMA CountingNothing ==
    ASSUME NEW count \in [Lineages -> Nat]
    PROVE  Counting(count, {}) = count
  BY DEF Counting

\* The record a producer writes begins a lineage of its own.
LEMMA ProducedCopy ==
    ASSUME Inv, \A p \in Partitions : EndOffset(Source, p) <= roundRobin[Source], Produce
    PROVE  \E a \in Partitions : \E x \in 0 .. EndOffset(Source, a)' - 1 :
              /\ x \notin 0 .. EndOffset(Source, a) - 1
              /\ LineageAt(Source, a, x)' = <<Source, a, x>>
              /\ RecordAt(Source, a, x)'.attempt = 0
              /\ RecordAt(Source, a, x)'.origin = NoOrigin
              /\ <<Source, a, x>> \in Lineages
              /\ ~Began(<<Source, a, x>>)
              /\ \A t \in Topics, p \in Partitions : \A o \in 0 .. EndOffset(t, p)' - 1 :
                    o \in 0 .. EndOffset(t, p) - 1 \/ (t = Source /\ p = a /\ o = x)
  <1>1. TypeOK /\ Source \in Topics /\ roundRobin[Source] \in Nat /\ [Next]_vars
    BY TopologyAssumption DEF Inv, TopicsFor, TypeOK, Next
  <1>2. PICK n : n = roundRobin[Source]
    OBVIOUS
  <1>3. PICK r : r = Workload[n + 1]
    OBVIOUS
  <1>4. /\ r \in Records /\ r.attempt = 0 /\ r.origin = NoOrigin
        /\ AppendRecord(Source, r)
    <2>1. n + 1 \in 1 .. Len(Workload) /\ AppendRecord(Source, r)
      BY <1>1, <1>2, <1>3, WorkloadAssumption DEF Produce
    <2>2. r \in Records /\ r = NewRecord(r.event, r.key)
      BY <1>3, <2>1, WorkloadAssumption
    <2>3. r.attempt = 0 /\ r.origin = NoOrigin
      BY <2>2 DEF NewRecord
    <2> QED BY <2>1, <2>2, <2>3
  <1>5. PICK a \in Partitions : a = PartitionForKey(r.key, n)
    BY <1>1, <1>2, <1>4, PartitionType
  <1>6. PICK x : x = EndOffset(Source, a)
    OBVIOUS
  <1>7. /\ log[Source][a] \in Seq(Records)
        /\ log'[Source][a] = Append(log[Source][a], r)
    <2>1. log' = [log EXCEPT ![Source][a] = Append(@, r)]
      BY <1>2, <1>4, <1>5 DEF AppendRecord
    <2> QED BY <1>1, <2>1 DEF TypeOK
  <1>8. /\ x \in Nat /\ x \in 0 .. EndOffset(Source, a)' - 1
        /\ x \notin 0 .. EndOffset(Source, a) - 1
        /\ RecordAt(Source, a, x)' = r
    BY <1>6, <1>7 DEF EndOffset, RecordAt
  <1>9. \A t \in Topics, p \in Partitions : \A o \in 0 .. EndOffset(t, p)' - 1 :
            o \in 0 .. EndOffset(t, p) - 1 \/ (t = Source /\ p = a /\ o = x)
    BY <1>2, <1>3, <1>5, <1>6, ProducedAt
  <1>10. LineageAt(Source, a, x)' = <<Source, a, x>>
    BY <1>1, <1>8, ProducedAt
  <1>11. x < Len(Workload) /\ Len(Workload) \in Nat
    BY <1>1, <1>6, <1>8, WorkloadAssumption DEF Produce
  <1>12. <<Source, a, x>> \in Lineages
    BY <1>8, <1>11 DEF Lineages
  <1>13. ~Began(<<Source, a, x>>)
    BY <1>6, <1>8 DEF Began
  <1> QED BY <1>4, <1>8, <1>9, <1>10, <1>12, <1>13

\* The copy a worker writes has the lineage of the record in its hand.
LEMMA SentCopy ==
    ASSUME Inv, NEW w \in Workers, NEW p \in Partitions, Send(w, p), CopyOfHand(w)
    PROVE  \E v \in Topics, a \in Partitions : \E x \in 0 .. EndOffset(v, a)' - 1 :
              /\ v = outgoing[w].topic
              /\ x \notin 0 .. EndOffset(v, a) - 1
              /\ LineageAt(v, a, x)' = LineageAt(TopicOf[w], p, hand[w][p].first)
              /\ outgoing[w].record.origin = LineageAt(TopicOf[w], p, hand[w][p].first)
              /\ RecordAt(v, a, x)' = outgoing[w].record
              /\ \A t \in Topics, q \in Partitions : \A o \in 0 .. EndOffset(t, q)' - 1 :
                    o \in 0 .. EndOffset(t, q) - 1 \/ (t = v /\ q = a /\ o = x)
  <1>0. TypeOK /\ IsCurrent(w, p) /\ pc[w] = "send"
    BY DEF Inv, Send
  <1>1. PICK v \in Topics, r \in Records :
            /\ v = outgoing[w].topic /\ r = outgoing[w].record
            /\ AppendRecord(v, r)
    BY <1>0 DEF TypeOK, Send
  <1>2. PICK l : l = LineageAt(TopicOf[w], p, hand[w][p].first)
    OBVIOUS
  <1>3. r.origin = l /\ \A t, q, o : Lineage(t, q, o, r) = l
    BY <1>0, <1>1, <1>2, CopyInHand
  <1>4. PICK a \in Partitions : a = PartitionForKey(r.key, roundRobin[v])
    BY <1>0, <1>1, PartitionType
  <1>5. PICK x : x = EndOffset(v, a)
    OBVIOUS
  <1>6. /\ log[v][a] \in Seq(Records)
        /\ log'[v][a] = Append(log[v][a], r)
    <2>1. log' = [log EXCEPT ![v][a] = Append(@, r)]
      BY <1>1, <1>4 DEF AppendRecord
    <2> QED BY <1>0, <2>1 DEF TypeOK
  <1>7. /\ x \in 0 .. EndOffset(v, a)' - 1 /\ x \notin 0 .. EndOffset(v, a) - 1
        /\ RecordAt(v, a, x)' = r
    BY <1>5, <1>6 DEF EndOffset, RecordAt
  <1>8. \A t \in Topics, q \in Partitions : \A o \in 0 .. EndOffset(t, q)' - 1 :
            o \in 0 .. EndOffset(t, q) - 1 \/ (t = v /\ q = a /\ o = x)
    BY <1>0, <1>1, <1>4, <1>5, AppendedAt
  <1>9. LineageAt(v, a, x)' = l
    BY <1>3, <1>7 DEF LineageAt
  <1> QED BY <1>1, <1>2, <1>3, <1>7, <1>8, <1>9

\* A thread that handles the record in hand settles it: it was not settled, and is.
LEMMA HandledNow ==
    ASSUME Inv, [Next]_vars, NEW w \in Workers, NEW p \in Partitions, NothingTwice(w),
           Handles(w, p)
    PROVE  \E t \in ConsumedTopics : \E o \in 0 .. EndOffset(t, p) - 1 :
              /\ t = TopicOf[w] /\ o = hand[w][p].first
              /\ Unsettled(t, p, o) /\ ~Unsettled(t, p, o)'
  <1>1. Holds(w, p) /\ Settle(w, p)
    BY DEF Handles, Duplicate, Ready, Succeed, Send, IsCurrent
  <1>2. /\ Unsettled(TopicOf[w], p, hand[w][p].first)
        /\ hand[w][p].first \in 0 .. EndOffset(TopicOf[w], p) - 1
        /\ TopicOf[w] \in ConsumedTopics /\ TopicOf[w] \in Topics
    BY <1>1, InHandUnsettled, MessageInLog, TopicsOfWorkers
  <1>3. settled \in [Topics -> [Partitions -> SUBSET Nat]]
    BY DEF Inv, TypeOK
  <1>4. hand[w][p].first \in settled'[TopicOf[w]][p]
    BY <1>1, <1>2, <1>3 DEF Settle
  <1>5. PICK o \in 0 .. EndOffset(TopicOf[w], p) - 1 : o = hand[w][p].first
    BY <1>2
  <1>6. Unsettled(TopicOf[w], p, o) /\ ~Unsettled(TopicOf[w], p, o)'
    BY <1>2, <1>4, <1>5 DEF Unsettled
  <1> QED BY <1>2, <1>5, <1>6

\* Each event keeps to one copy that is not done with, or one conclusion.
LEMMA OneEachStep ==
    ASSUME Inv, Traced, [Next]_vars, Observe, OneEach,
           \A w \in Workers : NothingTwice(w) /\ pc'[w] # "dead"
    PROVE  OneEach'
  <1>0. TypeOK /\ oks \in [Lineages -> Nat] /\ ConsumedTopics \subseteq Topics
    BY TopologyAssumption DEF Inv, Traced, HistoryTrue, ConsumedTopics, TopicsFor
  <1>1. oks' = Counting(oks, Moved("returned", "batch"))
    BY Observed
  <1>2. CASE Quiet
    BY <1>1, <1>2, OneEachWithoutCopies DEF Quiet
  <1>3. CASE Produce
    <2>1. UNCHANGED pc
      BY <1>3 DEF Produce, clientVars
    <2>2. oks' = oks
      <3>1. Moved("returned", "batch") = {}
        BY <2>1 DEF Moved
      <3> QED BY <1>0, <1>1, <3>1, CountingNothing
    <2>3. Source \in Topics
      BY TopologyAssumption DEF TopicsFor
    <2>4. PICK a \in Partitions :
            \E x \in 0 .. EndOffset(Source, a)' - 1 :
              /\ x \notin 0 .. EndOffset(Source, a) - 1
              /\ LineageAt(Source, a, x)' = <<Source, a, x>>
              /\ <<Source, a, x>> \in Lineages
              /\ ~Began(<<Source, a, x>>)
              /\ \A t \in Topics, p \in Partitions : \A o \in 0 .. EndOffset(t, p)' - 1 :
                    o \in 0 .. EndOffset(t, p) - 1 \/ (t = Source /\ p = a /\ o = x)
      BY <1>3, ProducedCopy DEF Traced, SourceIsWorkload
    <2>5. PICK x \in 0 .. EndOffset(Source, a)' - 1 :
              /\ x \notin 0 .. EndOffset(Source, a) - 1
              /\ LineageAt(Source, a, x)' = <<Source, a, x>>
              /\ <<Source, a, x>> \in Lineages
              /\ ~Began(<<Source, a, x>>)
              /\ \A t \in Topics, p \in Partitions : \A o \in 0 .. EndOffset(t, p)' - 1 :
                    o \in 0 .. EndOffset(t, p) - 1 \/ (t = Source /\ p = a /\ o = x)
      BY <2>4
    <2>6. PICK k : k = <<Source, a, x>>
      OBVIOUS
    <2>7. ~Began(k) /\ k \in Lineages /\ LineageAt(Source, a, x)' = k
      BY <2>5, <2>6 DEF Began
    <2>8. \A t \in Topics, p \in Partitions : \A o \in 0 .. EndOffset(t, p) - 1 :
              LineageAt(t, p, o) # k
      BY <2>7, CopyIsLineage
    <2>9. ~Concluded(k)
      <3>1. oks[k] = 0
        BY <1>0, <2>7 DEF Traced, HistoryTrue
      <3>2. ~OnLog(DlqTopic(Source), k)
        BY <2>8, TopologyAssumption DEF OnLog, TopicsFor
      <3> QED BY <3>1, <3>2 DEF Concluded
    <2> QED BY <1>0, <2>2, <2>3, <2>5, <2>7, <2>8, <2>9, OneEachWithCopy
  <1>4. ASSUME NEW w \in Workers, NEW p \in Partitions, CallStep(w, p)
        PROVE  OneEach'
    <2>1. PICK l : l = LineageAt(TopicOf[w], p, hand[w][p].first)
      OBVIOUS
    <2>2. CASE \/ Admit(w, p) \/ Invoke(w, p) \/ Return(w, p)
               \/ Retry(w, p) \/ DeadLetter(w, p)
      <3>1. Moved("returned", "batch") = {}
        BY <1>0, <2>1, <2>2, CallsMove
      <3>2. UNCHANGED log
        BY <2>2 DEF Admit, Invoke, Return, Retry, DeadLetter, Prepare, brokerVars
      <3> QED BY <1>1, <3>1, <3>2, OneEachWithoutCopies
    <2>3. CASE Succeed(w, p)
      <3>1. Moved("returned", "batch") = {l}
        BY <1>0, <2>1, <2>3, CallsMove
      <3>2. UNCHANGED log
        BY <2>3 DEF Succeed, brokerVars
      <3>3. \E t \in ConsumedTopics : \E o \in 0 .. EndOffset(t, p) - 1 :
                LineageAt(t, p, o) = l /\ Unsettled(t, p, o) /\ ~Unsettled(t, p, o)'
        BY <2>1, <2>3, HandledNow DEF Handles
      <3> QED BY <1>1, <3>1, <3>2, <3>3, OneEachWithoutCopies
    <2>4. CASE Send(w, p)
      <3>1. oks' = oks
        <4>1. pc[w] = "send" /\ pc'[w] = "batch" /\ IsCurrent(w, p)
          BY <1>0, <2>4 DEF Send, Goto, TypeOK
        <4>2. Moved("returned", "batch") = {}
          BY <1>0, <4>1, OneMoves
        <4> QED BY <1>0, <1>1, <4>2, CountingNothing
      <3>2. PICK v \in Topics, a \in Partitions :
              \E x \in 0 .. EndOffset(v, a)' - 1 :
                  /\ x \notin 0 .. EndOffset(v, a) - 1
                  /\ LineageAt(v, a, x)' = l
                  /\ \A t \in Topics, q \in Partitions : \A o \in 0 .. EndOffset(t, q)' - 1 :
                        o \in 0 .. EndOffset(t, q) - 1 \/ (t = v /\ q = a /\ o = x)
        <4>1. CopyOfHand(w)
          BY <2>4 DEF Send, Traced, OutgoingTrue
        <4> QED BY <2>1, <2>4, <4>1, SentCopy
      <3>3. PICK x \in 0 .. EndOffset(v, a)' - 1 :
                  /\ x \notin 0 .. EndOffset(v, a) - 1
                  /\ LineageAt(v, a, x)' = l
                  /\ \A t \in Topics, q \in Partitions : \A o \in 0 .. EndOffset(t, q)' - 1 :
                        o \in 0 .. EndOffset(t, q) - 1 \/ (t = v /\ q = a /\ o = x)
        BY <3>2
      <3>4. PICK t \in ConsumedTopics :
                \E o \in 0 .. EndOffset(t, p) - 1 :
                    LineageAt(t, p, o) = l /\ Unsettled(t, p, o) /\ ~Unsettled(t, p, o)'
        BY <2>1, <2>4, HandledNow DEF Handles
      <3>5. PICK o \in 0 .. EndOffset(t, p) - 1 :
                    LineageAt(t, p, o) = l /\ Unsettled(t, p, o) /\ ~Unsettled(t, p, o)'
        BY <3>4
      <3>6. l \in Lineages
        BY <1>0, <3>5, CopyIsLineage
      <3>7. ~Concluded(l)
        BY <3>5 DEF OneEach, Concluded, OnLog
      <3>8. ASSUME NEW u \in ConsumedTopics, NEW q \in Partitions,
                   NEW i \in 0 .. EndOffset(u, q) - 1, Unsettled(u, q, i)',
                   LineageAt(u, q, i) = l
            PROVE  FALSE
        <4>1. Unsettled(u, q, i)
          BY <3>8, UnsettledBefore
        <4>2. u = t /\ q = p /\ i = o
          BY <3>5, <3>8, <4>1, SameCopy
        <4> QED BY <3>5, <3>8, <4>2
      <3> QED BY <3>1, <3>3, <3>6, <3>7, <3>8, OneEachWithCopy
    <2> QED BY <1>4, <2>2, <2>3, <2>4 DEF CallStep
  <1> QED BY <1>2, <1>3, <1>4, Kinds
-----------------------------------------------------------------------------
(* The headers of the copy that is not done with tell its history.         *)

\* No call of this copy begins, ends or goes on to its send.
LEMMA HeaderKept ==
    ASSUME Inv, Traced, [Next]_vars, Observe,
           NEW t \in Topics, NEW p \in Partitions, NEW o \in 0 .. EndOffset(t, p) - 1,
           HeaderTrue(t, p, o),
           LineageAt(t, p, o) \notin Entered,
           LineageAt(t, p, o) \notin Moved("handler", "send"),
           \A labels : labels \subseteq AtCall =>
               (InProgress(t, p, o, labels)' <=> InProgress(t, p, o, labels))
    PROVE  HeaderTrue(t, p, o)'
  <1>1. PICK r, l : r = RecordAt(t, p, o) /\ l = LineageAt(t, p, o)
    OBVIOUS
  <1>2. RecordAt(t, p, o)' = r /\ LineageAt(t, p, o)' = l
    BY <1>1, Stays
  <1>3. l \in Lineages /\ r \in Records
    <2>1. log[t][p] \in Seq(Records)
      BY DEF Inv, TypeOK
    <2>2. r \in Records
      BY <1>1, <2>1 DEF RecordAt, EndOffset
    <2> QED BY <1>1, <2>2, CopyIsLineage
  <1>4. tries'[l] = tries[l]
    BY <1>1, <1>3, Observed, CountingAt DEF Traced, HistoryTrue
  <1>5. Scheduled(l, r) => Scheduled(l, r)'
    BY <1>1, Observed DEF Scheduled
  <1>6. r.not_before <= now => r.not_before <= now'
    <2>1. now \in Nat /\ now' \in Nat /\ r.not_before \in Nat /\ now <= now'
      <3>1. TypeOK /\ TypeOK'
        BY TypeStep DEF Inv
      <3>2. now \in Nat /\ now' \in Nat
        BY <3>1 DEF TypeOK
      <3>3. r.not_before \in Nat
        BY <1>3 DEF Records
      <3> QED BY <3>1, <3>2, <3>3, TimePasses
    <2> QED BY <2>1
  <1>7. /\ InProgress(t, p, o, Called)' <=> InProgress(t, p, o, Called)
        /\ InProgress(t, p, o, {"admitted", "handler"})' <=>
               InProgress(t, p, o, {"admitted", "handler"})
        /\ InProgress(t, p, o, {"send"})' <=> InProgress(t, p, o, {"send"})
    <2>1. /\ Called \subseteq AtCall /\ {"admitted", "handler"} \subseteq AtCall
          /\ {"send"} \subseteq AtCall
      BY DEF Called, AtCall
    <2> QED BY <2>1
  <1>8. /\ tries[l] = r.attempt + (IF InProgress(t, p, o, Called) THEN 1 ELSE 0)
        /\ r.attempt > 0 /\ ~InProgress(t, p, o, {"send"}) => Scheduled(l, r)
        /\ InProgress(t, p, o, {"admitted", "handler"}) => r.not_before <= now
    BY <1>1 DEF HeaderTrue
  <1>9. /\ tries'[l] = r.attempt + (IF InProgress(t, p, o, Called)' THEN 1 ELSE 0)
        /\ r.attempt > 0 /\ ~InProgress(t, p, o, {"send"})' => Scheduled(l, r)'
        /\ InProgress(t, p, o, {"admitted", "handler"})' => r.not_before <= now'
    BY <1>4, <1>5, <1>6, <1>7, <1>8
  <1> QED BY <1>2, <1>9 DEF HeaderTrue, Scheduled

\* A worker is at work on one record only.
LEMMA OneInProgress ==
    ASSUME OneWorkerEach, NEW w \in Workers, NEW p \in Partitions, IsCurrent(w, p),
           NEW q \in Partitions, NEW o, NEW labels
    PROVE  InProgress(TopicOf[w], q, o, labels) <=>
               (pc[w] \in labels /\ q = p /\ o = hand[w][p].first)
  <1>1. \A v \in Workers : TopicOf[v] = TopicOf[w] => v = w
    BY DEF OneWorkerEach
  <1>2. IsCurrent(w, q) => q = p
    <2>1. IsCurrent(w, q) => CurrentPartition(w) = q /\ CurrentPartition(w) = p
      BY CurrentIsUnique
    <2> QED BY <2>1
  <1> QED BY <1>1, <1>2 DEF InProgress

\* The step of one worker leaves the work of the others, and its own work on other
\* records, as it is.
LEMMA OthersProgress ==
    ASSUME Inv, [Next]_vars, OneWorkerEach,
           NEW w \in Workers, NEW p \in Partitions, CallStep(w, p),
           NEW t \in Topics, NEW q \in Partitions, NEW o,
           ~(t = TopicOf[w] /\ q = p /\ o = hand[w][p].first),
           NEW labels, labels \subseteq AtCall
    PROVE  InProgress(t, q, o, labels)' <=> InProgress(t, q, o, labels)
  <1>1. TypeOK /\ IsCurrent(w, p) /\ Step(w)
    BY DEF Inv, CallStep, Step, Admit, Invoke, Return, Ready, Succeed, Retry, DeadLetter, Send
  <1>2. \A v \in Workers : v # w =>
            /\ pc'[v] = pc[v]
            /\ \A a \in Partitions : hand'[v][a] = hand[v][a] /\ (IsCurrent(v, a)' <=> IsCurrent(v, a))
    BY <1>1, OthersUntouched DEF IsCurrent, Holds
  <1>3. hand'[w] = hand[w] \/ pc'[w] \notin AtCall
    BY <1>1 DEF CallStep, Admit, Invoke, Return, Succeed, Retry, DeadLetter, Prepare, Send,
                Goto, TypeOK, AtCall
  <1>4. CASE t # TopicOf[w]
    BY <1>2, <1>4 DEF InProgress
  <1>5. CASE t = TopicOf[w]
    <2>1. ~InProgress(t, q, o, labels)
      <3>1. InProgress(TopicOf[w], q, o, labels) <=>
                (pc[w] \in labels /\ q = p /\ o = hand[w][p].first)
        BY <1>1, OneInProgress
      <3> QED BY <1>5, <3>1
    <2>2. ~InProgress(t, q, o, labels)'
      <3>1. CASE pc'[w] \notin AtCall
        BY <1>5, <3>1 DEF InProgress, OneWorkerEach
      <3>2. CASE hand'[w] = hand[w]
        <4>1. IsCurrent(w, q)' <=> IsCurrent(w, q)
          BY <3>2 DEF IsCurrent, Holds
        <4>2. IsCurrent(w, q) => q = p
          <5>1. IsCurrent(w, q) => CurrentPartition(w) = q /\ CurrentPartition(w) = p
            BY <1>1, CurrentIsUnique
          <5> QED BY <5>1
        <4> QED BY <1>5, <3>2, <4>1, <4>2 DEF InProgress, OneWorkerEach
      <3> QED BY <1>3, <3>1, <3>2
    <2> QED BY <2>1, <2>2
  <1> QED BY <1>4, <1>5

\* When nobody goes into or out of a call, all work stays as it is.
LEMMA QuietProgress ==
    ASSUME \A w \in Workers :
               Calling(w) \/ Calling(w)' => pc'[w] = pc[w] /\ hand'[w] = hand[w],
           NEW t, NEW p \in Partitions, NEW o, NEW labels, labels \subseteq AtCall
    PROVE  InProgress(t, p, o, labels)' <=> InProgress(t, p, o, labels)
  <1>1. ASSUME NEW w \in Workers
        PROVE  /\ pc[w] \in labels /\ IsCurrent(w, p) /\ hand[w][p].first = o =>
                      pc'[w] \in labels /\ IsCurrent(w, p)' /\ hand'[w][p].first = o
               /\ pc'[w] \in labels /\ IsCurrent(w, p)' /\ hand'[w][p].first = o =>
                      pc[w] \in labels /\ IsCurrent(w, p) /\ hand[w][p].first = o
    <2>1. CASE Calling(w) \/ Calling(w)'
      <3>1. pc'[w] = pc[w] /\ hand'[w] = hand[w]
        BY <2>1
      <3> QED BY <3>1 DEF IsCurrent, Holds
    <2>2. CASE ~(Calling(w) \/ Calling(w)')
      BY <2>2 DEF Calling
    <2> QED BY <2>1, <2>2
  <1> QED BY <1>1 DEF InProgress

\* Nobody is at work on a copy that is just written.
LEMMA WrittenIsNotInProgress ==
    ASSUME Inv, NEW t \in Topics, NEW p \in Partitions, NEW o, o \notin 0 .. EndOffset(t, p) - 1,
           \A w \in Workers : Calling(w)' => hand'[w] = hand[w],
           NEW labels, labels \subseteq AtCall
    PROVE  ~InProgress(t, p, o, labels)'
  <1> SUFFICES ASSUME NEW w \in Workers, TopicOf[w] = t, Calling(w)',
                      IsCurrent(w, p)', hand'[w][p].first = o
               PROVE  FALSE
    BY DEF InProgress, Calling
  <1>1. hand'[w] = hand[w]
    OBVIOUS
  <1>2. Holds(w, p) /\ hand[w][p].first = o
    BY <1>1 DEF IsCurrent, Holds
  <1> QED BY <1>2, MessageInLog

\* The headers of a copy nobody touches in a step of a worker.
LEMMA OthersHeaders ==
    ASSUME Inv, Traced, [Next]_vars, Observe, OneWorkerEach, OneEach, HeadersTrue,
           NEW w \in Workers, NEW p \in Partitions, CallStep(w, p), NothingTwice(w),
           NEW t \in ConsumedTopics, NEW q \in Partitions, NEW o \in 0 .. EndOffset(t, q) - 1,
           Unsettled(t, q, o)',
           ~(t = TopicOf[w] /\ q = p /\ o = hand[w][p].first)
    PROVE  HeaderTrue(t, q, o)'
  <1>1. TypeOK /\ IsCurrent(w, p) /\ Holds(w, p) /\ t \in Topics
    BY TopologyAssumption
       DEF Inv, CallStep, Admit, Invoke, Return, Ready, Succeed, Retry, DeadLetter, Send, IsCurrent,
           ConsumedTopics, TopicsFor
  <1>2. Unsettled(t, q, o) /\ HeaderTrue(t, q, o)
    BY UnsettledBefore DEF HeadersTrue
  <1>3. PICK l : l = LineageAt(TopicOf[w], p, hand[w][p].first)
    OBVIOUS
  <1>4. LineageAt(t, q, o) # l
    <2>1. /\ Unsettled(TopicOf[w], p, hand[w][p].first)
          /\ hand[w][p].first \in 0 .. EndOffset(TopicOf[w], p) - 1
          /\ TopicOf[w] \in ConsumedTopics
      BY <1>1, InHandUnsettled, MessageInLog, TopicsOfWorkers
    <2> QED BY <1>2, <1>3, <2>1, SameCopy
  <1>5. Entered \subseteq {l} /\ Moved("handler", "send") \subseteq {l}
    <2>1. CASE Send(w, p)
      <3>1. pc[w] = "send" /\ pc'[w] = "batch"
        BY <1>1, <2>1 DEF Send, Goto, TypeOK
      <3> QED BY <1>1, <3>1, OneMoves DEF Entered
    <2> QED BY <1>1, <1>3, <2>1, CallsMove DEF CallStep
  <1>6. \A labels : labels \subseteq AtCall =>
            (InProgress(t, q, o, labels)' <=> InProgress(t, q, o, labels))
    BY <1>1, OthersProgress
  <1> QED BY <1>1, <1>2, <1>4, <1>5, <1>6, HeaderKept

\* The headers of the copy in hand while its call begins, returns or fails.
LEMMA OwnHeader ==
    ASSUME Inv, Traced, [Next]_vars, Observe, OneWorkerEach, HeadersTrue,
           NEW w \in Workers, NEW p \in Partitions, NothingTwice(w),
           \/ Admit(w, p) \/ Invoke(w, p) \/ Return(w, p)
           \/ Retry(w, p) \/ DeadLetter(w, p),
           NEW t, t = TopicOf[w],
           NEW o, o = hand[w][p].first
    PROVE  HeaderTrue(t, p, o)'
  <1>1. /\ TypeOK /\ IsCurrent(w, p) /\ Holds(w, p)
        /\ t \in Topics /\ t \in ConsumedTopics
        /\ o \in 0 .. EndOffset(t, p) - 1
    BY MessageInLog, TopicsOfWorkers
       DEF Inv, Admit, Invoke, Return, Ready, Retry, DeadLetter, IsCurrent
  <1>2. HeaderTrue(t, p, o)
    BY <1>1, InHandUnsettled DEF HeadersTrue
  <1>3. PICK r, l : r = RecordAt(t, p, o) /\ l = LineageAt(t, p, o)
    OBVIOUS
  <1>4. RecordAt(t, p, o)' = r /\ LineageAt(t, p, o)' = l
    BY <1>1, <1>3, Stays
  <1>5. l \in Lineages /\ tries \in [Lineages -> Nat]
    BY <1>1, <1>3, CopyIsLineage DEF Traced, HistoryTrue
  <1>6. hand' = hand
    BY DEF Admit, Invoke, Return, Retry, DeadLetter, Prepare
  <1>7. IsCurrent(w, p)' /\ hand'[w][p].first = o
    BY <1>1, <1>6 DEF IsCurrent, Holds
  <1>8. \A labels : /\ InProgress(t, p, o, labels) <=> pc[w] \in labels
                    /\ InProgress(t, p, o, labels)' <=> pc'[w] \in labels
    BY <1>1, <1>7 DEF InProgress, OneWorkerEach
  <1>9. /\ tries[l] = r.attempt + (IF pc[w] \in Called THEN 1 ELSE 0)
        /\ (r.attempt > 0 /\ pc[w] # "send" => Scheduled(l, r))
        /\ (pc[w] \in {"admitted", "handler"} => r.not_before <= now)
    BY <1>2, <1>3, <1>8 DEF HeaderTrue
  <1>10. now' = now
    BY DEF Admit, Invoke, Return, Retry, DeadLetter, Prepare
  <1>11. CASE Admit(w, p) \/ Return(w, p)
    <2>1. /\ pc[w] # "send" /\ pc'[w] # "send" /\ (pc[w] \in Called <=> pc'[w] \in Called)
          /\ (pc'[w] \in {"admitted", "handler"} => r.not_before <= now)
      BY <1>1, <1>3, <1>11 DEF Admit, Return, Ready, Goto, TypeOK, Due, Message, Called
    <2>2. Entered = {} /\ Moved("handler", "send") = {}
      BY <1>1, <1>3, <1>11, CallsMove
    <2>3. tries' = tries
      BY <1>5, <2>2, Observed, CountingNothing
    <2>4. Scheduled(l, r) => Scheduled(l, r)'
      BY <2>2, Observed DEF Scheduled
    <2> QED BY <1>4, <1>8, <1>9, <1>10, <2>1, <2>3, <2>4 DEF HeaderTrue, Scheduled
  <1>12. CASE Invoke(w, p)
    <2>1. pc[w] = "admitted" /\ pc'[w] = "handler"
      BY <1>1, <1>12 DEF Invoke, Goto, TypeOK
    <2>2. Entered = {l} /\ Moved("handler", "send") = {}
      BY <1>1, <1>3, <1>12, CallsMove
    <2>3. tries'[l] = tries[l] + 1
      BY <1>5, <2>2, Observed, CountingAt
    <2>4. Scheduled(l, r) => Scheduled(l, r)'
      BY <2>2, Observed DEF Scheduled
    <2>5. tries[l] = r.attempt + 0 /\ (r.attempt > 0 => Scheduled(l, r)) /\ r.not_before <= now
      BY <1>9, <2>1 DEF Called
    <2>6. /\ tries'[l] = r.attempt + 1
          /\ r.attempt > 0 => Scheduled(l, r)'
          /\ r.not_before <= now'
      <3>1. r.attempt \in Nat
        <4>1. log[t][p] \in Seq(Records)
          BY <1>1 DEF TypeOK
        <4>2. r \in Records
          BY <1>1, <1>3, <4>1 DEF RecordAt, EndOffset
        <4> QED BY <4>2, PolicyAssumption DEF Records
      <3> QED BY <1>10, <2>3, <2>4, <2>5, <3>1
    <2> QED BY <1>4, <1>8, <2>1, <2>6 DEF HeaderTrue, Scheduled, Called
  <1>13. CASE Retry(w, p) \/ DeadLetter(w, p)
    <2>1. pc[w] = "handler" /\ pc'[w] = "send"
      BY <1>1, <1>13 DEF Retry, DeadLetter, Prepare, Goto, TypeOK
    <2>2. Entered = {}
      BY <1>1, <1>3, <1>13, CallsMove
    <2>3. tries' = tries
      BY <1>5, <2>2, Observed, CountingNothing
    <2>4. tries[l] = r.attempt + 1
      BY <1>9, <2>1 DEF Called
    <2> QED BY <1>4, <1>8, <2>1, <2>3, <2>4 DEF HeaderTrue, Called
  <1> QED BY <1>11, <1>12, <1>13

\* The copy that is about to be sent carries the attempt and the due time of the failure.
LEMMA NextHeaderTrueStep ==
    ASSUME Inv, Traced, [Next]_vars, Observe, OneWorkerEach, OneEach, HeadersTrue,
           NEW w \in Workers, \A v \in Workers : NothingTwice(v)
    PROVE  NextHeaderTrue(w)'
  <1>0. TypeOK
    BY DEF Inv
  <1> SUFFICES ASSUME NEW p \in Partitions, pc'[w] = "send", IsCurrent(w, p)'
               PROVE  /\ outgoing'[w].record.attempt = ThisAttempt(w, p)'
                      /\ outgoing'[w].topic \in ConsumedTopics =>
                            Scheduled(outgoing[w].record.origin, outgoing[w].record)'
    BY DEF NextHeaderTrue
  <1>1. CASE pc[w] = "send"
    <2>1. hand'[w] = hand[w] /\ outgoing'[w] = outgoing[w]
      BY <1>0, <1>1, InCallKept DEF AtCall, Deliver
    <2>2. IsCurrent(w, p) /\ Holds(w, p)
      BY <2>1 DEF IsCurrent, Holds
    <2>3. Message(w, p)' = Message(w, p)
      BY <2>1, <2>2, HandStays
    <2>4. PICK r \in Records, topic \in {outgoing[w].topic} :
              r = outgoing[w].record /\ topic = outgoing[w].topic
      BY <1>0 DEF TypeOK
    <2>5. /\ r.attempt = ThisAttempt(w, p)
          /\ topic \in ConsumedTopics => Scheduled(r.origin, r)
      BY <1>1, <2>2, <2>4 DEF HeadersTrue, NextHeaderTrue
    <2>6. r.origin \notin Moved("handler", "send")
      <3>1. SUFFICES ASSUME r.origin \in Moved("handler", "send")
                     PROVE  FALSE
        OBVIOUS
      <3>2. PICK v \in Workers, q \in Partitions : Retry(v, q) \/ DeadLetter(v, q)
        BY <1>0, <3>1, OnlyCallsMove
      <3>3. /\ IsCurrent(v, q) /\ Holds(v, q) /\ pc[v] = "handler"
            /\ r.origin = LineageAt(TopicOf[v], q, hand[v][q].first)
        BY <1>0, <3>1, <3>2, CallsMove DEF IsCurrent
      <3>4. r.origin = LineageAt(TopicOf[w], p, hand[w][p].first)
        <4>1. CopyOfHand(w)
          BY <1>1 DEF Traced, OutgoingTrue
        <4> QED BY <2>2, <2>4, <4>1, CopyInHand
      <3>5. /\ Unsettled(TopicOf[v], q, hand[v][q].first)
            /\ Unsettled(TopicOf[w], p, hand[w][p].first)
            /\ hand[v][q].first \in 0 .. EndOffset(TopicOf[v], q) - 1
            /\ hand[w][p].first \in 0 .. EndOffset(TopicOf[w], p) - 1
            /\ TopicOf[v] \in ConsumedTopics /\ TopicOf[w] \in ConsumedTopics
        BY <2>2, <3>3, InHandUnsettled, MessageInLog, TopicsOfWorkers
      <3>6. LineageAt(TopicOf[v], q, hand[v][q].first) = LineageAt(TopicOf[w], p, hand[w][p].first)
        BY <3>3, <3>4
      <3>7. TopicOf[v] = TopicOf[w]
        BY <3>5, <3>6, SameCopy
      <3> QED BY <1>1, <3>3, <3>7 DEF OneWorkerEach
    <2>7. Scheduled(r.origin, r) => Scheduled(r.origin, r)'
      BY <2>6, Observed DEF Scheduled
    <2> QED BY <2>1, <2>3, <2>4, <2>5, <2>7 DEF ThisAttempt, Scheduled
  <1>2. CASE pc[w] # "send"
    <2>1. PICK q \in Partitions : Retry(w, q) \/ DeadLetter(w, q)
      BY <1>0, <1>2, Calls
    <2>2. PICK topic \in Topics, due \in Nat :
              /\ Prepare(w, NextHop(w, q, topic, due))
              /\ topic \in ConsumedTopics =>
                    /\ ThisAttempt(w, q) \in DOMAIN Delays
                    /\ due = now + Delays[ThisAttempt(w, q)]
      BY <2>1, Failing
    <2>3. IsCurrent(w, q) /\ Holds(w, q)
      BY <2>1, Failing DEF IsCurrent
    <2>4. outgoing'[w] = NextHop(w, q, topic, due) /\ hand' = hand
      BY <1>0, <2>2 DEF Prepare, TypeOK
    <2>5. q = p
      <3>1. IsCurrent(w, p)
        BY <2>4 DEF IsCurrent, Holds
      <3>2. CurrentPartition(w) = q /\ CurrentPartition(w) = p
        BY <2>3, <3>1, CurrentIsUnique
      <3> QED BY <3>2
    <2>6. PICK r, l : r = outgoing'[w].record /\ l = LineageAt(TopicOf[w], p, hand[w][p].first)
      OBVIOUS
    <2>7. /\ r.origin = l /\ r.attempt = ThisAttempt(w, p) /\ r.not_before = due
          /\ outgoing'[w].topic = topic
      BY <2>3, <2>4, <2>5, <2>6, NextHopHeaders
    <2>8. ThisAttempt(w, p)' = ThisAttempt(w, p)
      BY <2>3, <2>4, <2>5, HandStays DEF ThisAttempt
    <2>9. l \in Moved("handler", "send")
      BY <1>0, <2>1, <2>5, <2>6, CallsMove
    <2>10. l \in DOMAIN failedAt' /\ failedAt'[l] = now
      BY <2>9, Observed
    <2>11. now \in Nat /\ (topic \in ConsumedTopics => Delays[ThisAttempt(w, p)] \in Nat)
      BY <1>0, <2>2, <2>5, PolicyAssumption DEF TypeOK
    <2>12. topic \in ConsumedTopics => failedAt'[l] + Delays[r.attempt] <= r.not_before
      BY <2>2, <2>5, <2>7, <2>10, <2>11
    <2> QED BY <2>6, <2>7, <2>8, <2>10, <2>11, <2>12 DEF Scheduled
  <1> QED BY <1>1, <1>2

\* The headers stay true.
LEMMA HeadersTrueStep ==
    ASSUME Inv, Traced, [Next]_vars, Observe, OneWorkerEach, OneEach, HeadersTrue,
           \A w \in Workers : NothingTwice(w) /\ pc'[w] # "dead"
    PROVE  HeadersTrue'
  <1>0. TypeOK /\ ConsumedTopics \subseteq Topics /\ tries \in [Lineages -> Nat]
    BY TopologyAssumption DEF Inv, ConsumedTopics, TopicsFor, Traced, HistoryTrue
  <1>1. \A w \in Workers : NextHeaderTrue(w)'
    BY NextHeaderTrueStep
  <1> SUFFICES ASSUME NEW t \in ConsumedTopics, NEW p \in Partitions,
                      NEW o \in 0 .. EndOffset(t, p)' - 1, Unsettled(t, p, o)'
               PROVE  HeaderTrue(t, p, o)'
    BY <1>1 DEF HeadersTrue
  <1>2. CASE Quiet
    <2>1. o \in 0 .. EndOffset(t, p) - 1
      BY <1>2 DEF Quiet, EndOffset
    <2>2. HeaderTrue(t, p, o)
      BY <2>1, UnsettledBefore DEF HeadersTrue
    <2>3. \A labels : labels \subseteq AtCall =>
              (InProgress(t, p, o, labels)' <=> InProgress(t, p, o, labels))
      BY <1>2, QuietProgress DEF Quiet
    <2> QED BY <1>0, <1>2, <2>1, <2>2, <2>3, HeaderKept DEF Quiet
  <1>3. CASE Produce
    <2>1. UNCHANGED <<pc, hand>>
      BY <1>3 DEF Produce, clientVars
    <2>2. Entered = {} /\ Moved("handler", "send") = {}
      BY <2>1 DEF Entered, Moved
    <2>3. CASE o \in 0 .. EndOffset(t, p) - 1
      <3>1. HeaderTrue(t, p, o)
        BY <2>3, UnsettledBefore DEF HeadersTrue
      <3>2. \A labels : labels \subseteq AtCall =>
                (InProgress(t, p, o, labels)' <=> InProgress(t, p, o, labels))
        BY <2>1, QuietProgress
      <3> QED BY <1>0, <2>2, <2>3, <3>1, <3>2, HeaderKept
    <2>4. CASE o \notin 0 .. EndOffset(t, p) - 1
      <3>1. /\ LineageAt(t, p, o)' = <<Source, p, o>>
            /\ RecordAt(t, p, o)'.attempt = 0
            /\ <<Source, p, o>> \in Lineages /\ ~Began(<<Source, p, o>>)
        <4> DEFINE New(a, x) ==
                      /\ LineageAt(Source, a, x)' = <<Source, a, x>>
                      /\ RecordAt(Source, a, x)'.attempt = 0
                      /\ <<Source, a, x>> \in Lineages /\ ~Began(<<Source, a, x>>)
        <4>1. \A q \in Partitions : EndOffset(Source, q) <= roundRobin[Source]
          BY DEF Traced, SourceIsWorkload
        <4>2. \E a \in Partitions : \E x \in 0 .. EndOffset(Source, a)' - 1 :
                  /\ New(a, x)
                  /\ \A v \in Topics, q \in Partitions : \A u \in 0 .. EndOffset(v, q)' - 1 :
                        u \in 0 .. EndOffset(v, q) - 1 \/ (v = Source /\ q = a /\ u = x)
          BY <1>3, <4>1, ProducedCopy
        <4> HIDE DEF New
        <4>3. New(p, o) /\ t = Source
          BY <1>0, <2>4, <4>2
        <4> QED BY <4>3 DEF New
      <3>2. tries' = tries /\ tries[<<Source, p, o>>] = 0
        <4>1. tries' = tries
          BY <1>0, <2>2, Observed, CountingNothing
        <4> QED BY <1>0, <3>1, <4>1 DEF Traced, HistoryTrue
      <3>3. \A labels \in {Called, {"admitted", "handler"}, {"send"}} :
                ~InProgress(t, p, o, labels)'
        BY <1>0, <2>1, <2>4, WrittenIsNotInProgress DEF Called, AtCall
      <3> QED BY <3>1, <3>2, <3>3 DEF HeaderTrue
    <2> QED BY <2>3, <2>4
  <1>4. ASSUME NEW w \in Workers, NEW q \in Partitions, CallStep(w, q)
        PROVE  HeaderTrue(t, p, o)'
    <2>1. CASE /\ o \in 0 .. EndOffset(t, p) - 1
               /\ ~(t = TopicOf[w] /\ p = q /\ o = hand[w][q].first)
      BY <1>4, <2>1, OthersHeaders
    <2>2. CASE t = TopicOf[w] /\ p = q /\ o = hand[w][q].first
      <3>1. CASE \/ Admit(w, q) \/ Invoke(w, q) \/ Return(w, q)
                 \/ Retry(w, q) \/ DeadLetter(w, q)
        BY <2>2, <3>1, OwnHeader
      <3>2. CASE Succeed(w, q) \/ Send(w, q)
        BY <2>2, <3>2, HandledNow DEF Handles
      <3> QED BY <1>4, <3>1, <3>2 DEF CallStep
    <2>3. CASE o \notin 0 .. EndOffset(t, p) - 1
      <3>1. Send(w, q)
        <4>1. CASE \/ Admit(w, q) \/ Invoke(w, q) \/ Return(w, q) \/ Succeed(w, q)
                   \/ Retry(w, q) \/ DeadLetter(w, q)
          <5>1. UNCHANGED log
            BY <4>1 DEF Admit, Invoke, Return, Succeed, Retry, DeadLetter, Prepare, brokerVars
          <5> QED BY <2>3, <5>1 DEF EndOffset
        <4> QED BY <1>4, <4>1 DEF CallStep
      <3>2. PICK l : l = LineageAt(TopicOf[w], q, hand[w][q].first)
        OBVIOUS
      <3>3. PICK r \in Records : r = outgoing[w].record
        BY <1>0 DEF TypeOK
      <3>4. /\ LineageAt(t, p, o)' = l /\ r.origin = l /\ RecordAt(t, p, o)' = r
            /\ outgoing[w].topic = t
        <4>1. CopyOfHand(w)
          BY <3>1 DEF Send, Traced, OutgoingTrue
        <4> QED BY <1>0, <2>3, <3>1, <3>2, <3>3, <4>1, SentCopy
      <3>5. /\ pc[w] = "send" /\ pc'[w] = "batch" /\ IsCurrent(w, q) /\ Holds(w, q)
            /\ now' = now
        BY <1>0, <3>1 DEF Send, Goto, TypeOK, IsCurrent
      <3>6. Moved("handler", "send") = {} /\ Entered = {}
        BY <1>0, <3>5, OneMoves DEF Entered
      <3>7. r.attempt = ThisAttempt(w, q) /\ Scheduled(l, r)
        BY <3>3, <3>4, <3>5 DEF HeadersTrue, NextHeaderTrue
      <3>8. tries[l] = ThisAttempt(w, q)
        <4>1. /\ TopicOf[w] \in ConsumedTopics
              /\ hand[w][q].first \in 0 .. EndOffset(TopicOf[w], q) - 1
              /\ Unsettled(TopicOf[w], q, hand[w][q].first)
          BY <3>5, TopicsOfWorkers, MessageInLog, InHandUnsettled
        <4>2. HeaderTrue(TopicOf[w], q, hand[w][q].first)
          BY <4>1 DEF HeadersTrue
        <4>3. InProgress(TopicOf[w], q, hand[w][q].first, Called)
          BY <3>5, OneInProgress DEF Called
        <4> QED BY <3>2, <4>2, <4>3 DEF HeaderTrue, ThisAttempt, Message
      <3>9. tries' = tries
        BY <1>0, <3>6, Observed, CountingNothing
      <3>10. Scheduled(l, r)'
        BY <3>6, <3>7, Observed DEF Scheduled
      <3>11. \A v \in Workers : Calling(v)' => hand'[v] = hand[v]
        <4>1. \A v \in Workers : v # w => hand'[v] = hand[v]
          BY <1>0, <3>1, OthersUntouched DEF Step
        <4> QED BY <3>5, <4>1 DEF Calling, AtCall
      <3>12. \A labels \in {Called, {"admitted", "handler"}, {"send"}} :
                 ~InProgress(t, p, o, labels)'
        BY <1>0, <2>3, <3>11, WrittenIsNotInProgress DEF Called, AtCall
      <3>13. tries'[l] = r.attempt + 0
        <4>1. r.attempt \in Nat
          BY <3>3, PolicyAssumption DEF Records
        <4> QED BY <3>7, <3>8, <3>9, <4>1
      <3> QED BY <3>4, <3>10, <3>12, <3>13 DEF HeaderTrue, Scheduled
    <2> QED BY <2>1, <2>2, <2>3
  <1> QED BY <1>2, <1>3, <1>4, Kinds
-----------------------------------------------------------------------------
(* Together: the invariant of a fleet with one worker per topic.           *)

\* What torn says.
LEMMA NotTorn ==
    ASSUME DNext, ~torn'
    PROVE  ~torn /\ \A w \in Workers : pc'[w] # "dead" /\ ~closed'[w]
  BY DEF DNext, Observe

\* There are no copies and no members at first.
LEMMA OnceInit ==
    ASSUME DInit
    PROVE  Once
  <1> USE DEF DInit, Init, BrokerInit
  <1>0. Source \in Topics /\ ConsumedTopics \subseteq Topics /\ DlqTopic(Source) \in Topics
    BY TopologyAssumption DEF ConsumedTopics, TopicsFor
  <1>1. ASSUME NEW w \in Workers
        PROVE  NothingTwice(w)
    <2>1. TopicOf[w] \in Topics
      BY TopicsOfWorkers
    <2>2. \A p \in Partitions : ~Holds(w, p)
      BY DEF Holds, NothingInHand, Nothing
    <2> QED BY <2>1, <2>2 DEF NothingTwice
  <1>2. \A t \in Topics, p \in Partitions : EndOffset(t, p) = 0
    BY DEF EndOffset
  <1>3. OneEach
    <2>1. \A l : ~OnLog(DlqTopic(Source), l)
      BY <1>0, <1>2 DEF OnLog
    <2> QED BY <1>0, <1>2, <2>1 DEF OneEach
  <1>4. HeadersTrue
    <2>1. \A w \in Workers : NextHeaderTrue(w)
      BY DEF NextHeaderTrue
    <2> QED BY <1>0, <1>2, <2>1 DEF HeadersTrue
  <1> QED BY <1>1, <1>3, <1>4 DEF Once

\* What is not torn by a step was not torn before it.
LEMMA OnceStep ==
    ASSUME Inv, Traced, OneWorkerEach, ~torn => Once, [DNext]_dvars
    PROVE  ~torn' => Once'
  <1>1. CASE UNCHANGED dvars
    <2> USE <1>1 DEF dvars, historyVars, vars, brokerVars, clientVars
    <2>1. /\ UNCHANGED <<log, settled, pc, hand, outgoing, tries, failedAt, now>>
          /\ \A t, p : EndOffset(t, p)' = EndOffset(t, p)
          /\ \A t, p, o : /\ RecordAt(t, p, o)' = RecordAt(t, p, o)
                          /\ LineageAt(t, p, o)' = LineageAt(t, p, o)
                          /\ Unsettled(t, p, o)' = Unsettled(t, p, o)
          /\ \A w, p : IsCurrent(w, p)' = IsCurrent(w, p) /\ Holds(w, p)' = Holds(w, p)
      BY DEF EndOffset, RecordAt, LineageAt, Unsettled, IsCurrent, Holds
    <2>2. ASSUME NEW w \in Workers
          PROVE  NothingTwice(w)' = NothingTwice(w)
      BY <2>1 DEF NothingTwice, CommittedOffset
    <2>3. OneEach' = OneEach
      BY <2>1 DEF OneEach, Concluded, OnLog
    <2>4. HeadersTrue' = HeadersTrue
      <3>1. \A t, p, o, labels : InProgress(t, p, o, labels)' = InProgress(t, p, o, labels)
        BY <2>1 DEF InProgress
      <3>2. \A l, r : Scheduled(l, r)' = Scheduled(l, r)
        BY <2>1 DEF Scheduled
      <3>3. \A t, p, o : HeaderTrue(t, p, o)' = HeaderTrue(t, p, o)
        BY <2>1, <3>1, <3>2 DEF HeaderTrue
      <3>4. \A w : NextHeaderTrue(w)' = NextHeaderTrue(w)
        BY <2>1, <3>2 DEF NextHeaderTrue, ThisAttempt, Message
      <3> QED BY <2>1, <3>3, <3>4 DEF HeadersTrue
    <2> QED BY <2>2, <2>3, <2>4 DEF Once
  <1>2. CASE DNext
    <2> SUFFICES ASSUME ~torn'
                 PROVE  Once'
      OBVIOUS
    <2>1. /\ [Next]_vars /\ Observe /\ Once
          /\ \A w \in Workers : pc'[w] # "dead" /\ ~closed'[w]
      BY <1>2, NotTorn DEF DNext
    <2>2. OneEach /\ HeadersTrue /\ \A w \in Workers : NothingTwice(w)
      BY <2>1 DEF Once
    <2>3. \A w \in Workers : NothingTwice(w)'
      BY <2>1, <2>2, NothingTwiceStep
    <2>4. OneEach' /\ HeadersTrue'
      BY <2>1, <2>2, OneEachStep, HeadersTrueStep
    <2> QED BY <2>3, <2>4 DEF Once
  <1> QED BY <1>1, <1>2

\* The invariant as a whole, with its premises inside: for every fleet, policy and
\* workload it is inductive.
THEOREM DeliveryInvariance == DSpec => []DInv
  <1>1. DInit => DInv
    BY InitInv, TracedInit, AccountedInit, OnceInit DEF DInit, DInv
  <1>2. DInv /\ [DNext]_dvars => DInv'
    <2> SUFFICES ASSUME DInv, [DNext]_dvars
                 PROVE  DInv'
      OBVIOUS
    <2>1. Inv' /\ Traced'
      BY InvStep, TracedStep, StepObserved DEF DInv
    <2>2. (Dedupe => IdsDistinct) => Accounted'
      BY AccountedStep, StepObserved DEF DInv
    <2>3. OneWorkerEach /\ ~torn' => Once'
      BY OnceStep DEF DInv
    <2>4. IdsDistinct' <=> IdsDistinct
      BY DEF IdsDistinct, EventIdOf
    <2>5. OneWorkerEach' <=> OneWorkerEach
      BY DEF OneWorkerEach
    <2> QED BY <2>1, <2>2, <2>3, <2>4, <2>5 DEF DInv
  <1> QED BY <1>1, <1>2, PTL DEF DSpec

\* What it says of a fleet with one worker per topic.
LEMMA OnceInvariance ==
    ASSUME OneWorkerEach
    PROVE  DSpec => [](Inv /\ Traced /\ (~torn => Once))
  <1>1. DInv => Inv /\ Traced /\ (~torn => Once)
    BY OneWorkerEach DEF DInv
  <1> QED BY <1>1, DeliveryInvariance, PTL

\* An event is concluded once (worker.py, "republish-before-commit"): while no thread
\* dies, no consumer is closed and the store drops nothing, it succeeds or has a dead
\* letter, not both and neither twice, also when workers are asked to stop.
THEOREM ConcludedAtMostOnce ==
    ASSUME OneWorkerEach
    PROVE  DSpec => []ConcludedOnce
  <1> USE OneWorkerEach
  <1>1. Inv /\ Traced /\ (~torn => Once) => ConcludedOnce
    <2> SUFFICES ASSUME Traced, OneEach, NEW l \in Lineages
                 PROVE  oks[l] + DlqCopies(l) <= 1
      BY DEF ConcludedOnce, Once
    <2> DEFINE D == DlqTopic(Source)
               copies == DeadLettersOf(l)
    <2>1. DlqCopies(l) = Cardinality(copies)
      BY DEF DlqCopies
    <2>2. oks[l] \in Nat
      BY DEF Traced, HistoryTrue
    <2>3. ASSUME NEW c \in copies
          PROVE  \E p \in Partitions : \E o \in 0 .. EndOffset(D, p) - 1 :
                    c = <<p, o>> /\ LineageAt(D, p, o) = l
      BY DEF DeadLettersOf, DlqPositions
    <2>4. CASE copies = {}
      <3>1. Cardinality(copies) = 0
        BY <2>4, FS_EmptySet
      <3> QED BY <2>1, <2>2, <3>1 DEF OneEach
    <2>5. CASE copies # {}
      <3>1. PICK c \in copies : TRUE
        BY <2>5
      <3>2. oks[l] = 0
        <4>1. OnLog(D, l)
          BY <2>3, <3>1 DEF OnLog
        <4> QED BY <2>2, <4>1 DEF OneEach
      <3>3. \A d \in copies : d = c
        BY <2>3 DEF OneEach
      <3>4. copies = {c}
        BY <3>1, <3>3
      <3>5. Cardinality(copies) = 1
        BY <3>4, FS_Singleton
      <3> QED BY <2>1, <3>2, <3>5
    <2> QED BY <2>4, <2>5
  <1> QED BY <1>1, OnceInvariance, PTL

\* max_attempts counts handler calls (retry.py): the attempt header of the record a
\* handler is called with is the number of calls before this one.
THEOREM AttemptsCounted ==
    ASSUME OneWorkerEach
    PROVE  DSpec => []AttemptHeaderCountsTries
  <1> USE OneWorkerEach
  <1>1. Inv /\ Traced /\ (~torn => Once) => AttemptHeaderCountsTries
    <2> SUFFICES ASSUME Inv, Once, NEW w \in Workers, NEW p \in Partitions,
                        pc[w] = "handler", IsCurrent(w, p)
                 PROVE  /\ tries[LineageInHand(w)] = ThisAttempt(w, p)
                        /\ ThisAttempt(w, p) <= MaxAttempts
      BY DEF AttemptHeaderCountsTries
    <2>1. Holds(w, p)
      BY DEF IsCurrent
    <2>2. HeaderTrue(TopicOf[w], p, hand[w][p].first)
      BY <2>1, InHandUnsettled, MessageInLog, TopicsOfWorkers DEF Once, HeadersTrue
    <2>3. InProgress(TopicOf[w], p, hand[w][p].first, Called)
      BY OneInProgress DEF Called
    <2>4. tries[LineageInHand(w)] = ThisAttempt(w, p)
      BY <2>2, <2>3, CurrentIsUnique DEF HeaderTrue, ThisAttempt, Message
    <2>5. Message(w, p).attempt \in Nat /\ Message(w, p).attempt < MaxAttempts
      BY <2>1, MessageInLog, TopicsOfWorkers, PolicyAssumption DEF Fits, Records
    <2>6. ThisAttempt(w, p) <= MaxAttempts
      BY <2>5, PolicyAssumption DEF ThisAttempt
    <2> QED BY <2>4, <2>6
  <1> QED BY <1>1, OnceInvariance, PTL

\* A retry waits for its delay (worker.py, _wait_until): it is called no sooner than the
\* delay of its tier after the failure it follows.
THEOREM BackoffKept ==
    ASSUME OneWorkerEach
    PROVE  DSpec => []BackoffRespected
  <1> USE OneWorkerEach
  <1>1. Inv /\ Traced /\ (~torn => Once) => BackoffRespected
    <2> SUFFICES ASSUME Inv, Once, NEW w \in Workers, NEW p \in Partitions,
                        pc[w] = "handler", IsCurrent(w, p), Message(w, p).attempt > 0
                 PROVE  now >= failedAt[LineageInHand(w)] + Delays[Message(w, p).attempt]
      BY DEF BackoffRespected
    <2>1. Holds(w, p)
      BY DEF IsCurrent
    <2>2. HeaderTrue(TopicOf[w], p, hand[w][p].first)
      BY <2>1, InHandUnsettled, MessageInLog, TopicsOfWorkers DEF Once, HeadersTrue
    <2>3. /\ InProgress(TopicOf[w], p, hand[w][p].first, {"admitted", "handler"})
          /\ ~InProgress(TopicOf[w], p, hand[w][p].first, {"send"})
      <3>1. pc[w] \in {"handler"} /\ pc[w] \notin {"send"}
        OBVIOUS
      <3> QED BY <3>1 DEF InProgress, OneWorkerEach
    <2>4. /\ Scheduled(LineageInHand(w), Message(w, p))
          /\ Message(w, p).not_before <= now
      BY <2>2, <2>3, CurrentIsUnique DEF HeaderTrue, Message
    <2>5. /\ Message(w, p).not_before \in Nat /\ now \in Nat
          /\ failedAt[LineageInHand(w)] \in Nat
          /\ Delays[Message(w, p).attempt] \in Nat
      <3>1. Message(w, p) \in Records /\ Message(w, p).attempt < MaxAttempts
        BY <2>1, MessageInLog, TopicsOfWorkers DEF Fits
      <3>2. Message(w, p).attempt \in 1 .. MaxAttempts - 1
        BY <3>1, PolicyAssumption DEF Records
      <3> QED BY <2>4, <3>1, <3>2, PolicyAssumption DEF Records, Scheduled, Inv, TypeOK
    <2> QED BY <2>4, <2>5 DEF Scheduled
  <1> QED BY <1>1, OnceInvariance, PTL
-----------------------------------------------------------------------------
(* The dead-letter topic, and the operators that replay it.                *)

\* The dead letters, by partition and offset.
LEMMA DeadLetterAt ==
    ASSUME NEW po
    PROVE  po \in DlqPositions <=>
              \E p \in Partitions : \E o \in 0 .. EndOffset(Dlq, p) - 1 : po = <<p, o>>
  BY DEF DlqPositions, Dlq

\* A dead letter is the failed copy of a record of the source topic.
LEMMA DeadLetterType ==
    ASSUME Inv, NEW p \in Partitions, NEW o \in 0 .. EndOffset(Dlq, p) - 1
    PROVE  /\ RecordAt(Dlq, p, o) \in Records
           /\ RecordAt(Dlq, p, o).origin \in Origins
           /\ RecordAt(Dlq, p, o).origin # NoOrigin
           /\ LineageAt(Dlq, p, o)[1] = Source
  <1>1. Dlq \in Topics /\ Dlq # Source
    BY TopologyAssumption, TopicsApart DEF Dlq, TopicsFor
  <1>2. log[Dlq][p] \in Seq(Records)
    BY <1>1 DEF Inv, TypeOK
  <1>3. o + 1 \in 1 .. Len(log[Dlq][p])
    BY <1>2 DEF EndOffset
  <1>4. RecordAt(Dlq, p, o) \in Records /\ Fits(Dlq, RecordAt(Dlq, p, o))
    BY <1>1, <1>2, <1>3 DEF RecordAt, Inv, LogsWellAddressed
  <1>5. RecordAt(Dlq, p, o).origin # NoOrigin
    BY <1>1, <1>4 DEF Fits
  <1>6. RecordAt(Dlq, p, o).origin \in Origins
    BY <1>4, <1>5 DEF Records
  <1>7. \A x \in Origins : x[1] = Source
    BY DEF Origins
  <1> QED BY <1>4, <1>5, <1>6, <1>7 DEF LineageAt, Lineage

\* What a replay sends has all its tries before it, and knows where it came from.
LEMMA ReplayType ==
    ASSUME NEW r \in Records, r.origin # NoOrigin
    PROVE  ReplayHeaders(r) \in Records /\ Fits(Source, ReplayHeaders(r))
  <1> DEFINE c == ReplayHeaders(r)
  <1>1. c = [r EXCEPT !.attempt = 0, !.not_before = 0]
    BY DEF ReplayHeaders
  <1>2. 0 \in 0 .. MaxAttempts /\ 0 < MaxAttempts
    BY PolicyAssumption
  <1> HIDE DEF c
  <1>3. c \in Records /\ c.origin = r.origin /\ c.attempt = 0
    BY <1>1, <1>2 DEF Records
  <1> QED BY <1>2, <1>3 DEF Fits, c

\* replay_all is one append to the source topic.
LEMMA ReplayAppends ==
    ASSUME QInv, NEW a \in Operators, NEW entry, ReplayOne(a, entry)
    PROVE  /\ \E r \in Records : Fits(Source, r) /\ AppendRecord(Source, r)
           /\ UNCHANGED <<committed, members, now, marks, settled, faults, clientVars>>
  <1>1. entry \in DlqPositions
    BY DEF ReplayOne, QInv, ApprovedExist
  <1>2. PICK p \in Partitions : \E o \in 0 .. EndOffset(Dlq, p) - 1 : entry = <<p, o>>
    BY <1>1, DeadLetterAt
  <1>3. PICK o \in 0 .. EndOffset(Dlq, p) - 1 : entry = <<p, o>>
    BY <1>2
  <1>4. AppendRecord(LineageAt(Dlq, p, o)[1], ReplayHeaders(RecordAt(Dlq, p, o)))
    BY <1>3 DEF ReplayOne
  <1>5. /\ RecordAt(Dlq, p, o) \in Records /\ RecordAt(Dlq, p, o).origin # NoOrigin
        /\ LineageAt(Dlq, p, o)[1] = Source
    BY DeadLetterType DEF QInv
  <1>6. UNCHANGED <<committed, members, now, marks, settled, faults, clientVars>>
    BY DEF ReplayOne
  <1> QED BY <1>4, <1>5, <1>6, ReplayType

\* A record that fits its topic may be appended at any time, by whoever it is.
LEMMA AppendKeepsInv ==
    ASSUME Inv, NEW t \in Topics, NEW r \in Records, Fits(t, r), AppendRecord(t, r),
           UNCHANGED <<committed, members, now, marks, settled, faults, clientVars>>
    PROVE  Inv'
  <1>0. TypeOK
    BY DEF Inv
  <1>1. TypeOK'
    BY <1>0, AppendType DEF TypeOK, clientVars
  <1>2. ASSUME NEW u \in Topics, NEW p \in Partitions
        PROVE  /\ EndOffset(u, p) \in Nat /\ EndOffset(u, p)' \in Nat
               /\ EndOffset(u, p) <= EndOffset(u, p)'
               /\ CommittedOffset(u, p)' = CommittedOffset(u, p)
               /\ CommittedOffset(u, p) \in Nat
    <2>1. log[u][p] \in Seq(Records)
      BY <1>0 DEF TypeOK
    <2>2. log'[u][p] = log[u][p] \/ log'[u][p] = Append(log[u][p], r)
      BY <1>0, AppendGrows
    <2>3. CommittedOffset(u, p)' = CommittedOffset(u, p) /\ CommittedOffset(u, p) \in Nat
      BY <1>0 DEF CommittedOffset, TypeOK, Offsets
    <2> QED BY <2>1, <2>2, <2>3 DEF EndOffset
  <1>3. ASSUME NEW u \in Topics, NEW p \in Partitions, NEW i \in 1 .. Len(log'[u][p])
        PROVE  Fits(u, log'[u][p][i])
    <2>1. log[u][p] \in Seq(Records)
      BY <1>0 DEF TypeOK
    <2>2. \A j \in 1 .. Len(log[u][p]) : Fits(u, log[u][p][j])
      BY DEF Inv, LogsWellAddressed
    <2>3. CASE log'[u][p] = log[u][p]
      BY <2>2, <2>3
    <2>4. CASE u = t /\ log'[u][p] = Append(log[u][p], r)
      <3>1. CASE i \in 1 .. Len(log[u][p])
        BY <2>1, <2>2, <2>4, <3>1
      <3>2. CASE i = Len(log[u][p]) + 1
        BY <2>1, <2>4, <3>2
      <3> QED BY <2>1, <2>4, <3>1, <3>2
    <2> QED BY <1>0, <2>3, <2>4, AppendGrows
  <1>4. LogsWellAddressed'
    BY <1>3 DEF LogsWellAddressed, Fits
  <1>5. CommittedWithinLogs'
    <2>1. \A u \in Topics, p \in Partitions : CommittedOffset(u, p) <= EndOffset(u, p)
      BY DEF Inv, CommittedWithinLogs
    <2>2. \A u \in Topics, p \in Partitions : CommittedOffset(u, p)' <= EndOffset(u, p)'
      BY <1>2, <2>1
    <2> QED BY <2>2 DEF CommittedWithinLogs
  <1>6. NothingCommittedUnsettled'
    BY <1>2 DEF Inv, NothingCommittedUnsettled
  <1>7. ASSUME NEW w \in Workers
        PROVE  WorkerInv(w)'
    <2>1. /\ pc' = pc /\ position' = position /\ hand' = hand /\ toFetch' = toFetch
          /\ outgoing' = outgoing /\ settled' = settled
      BY DEF clientVars
    <2>2. WorkerInv(w) /\ TopicOf[w] \in Topics
      BY TopicsOfWorkers DEF Inv
    <2>3. WithinLogs(w)'
      BY <1>2, <2>1, <2>2, WorkerTypes DEF WorkerInv, WithinLogs
    <2>4. OutgoingFits(w)' /\ HandEmptyBetweenBatches(w)'
      BY <2>1, <2>2 DEF WorkerInv, OutgoingFits, Fits, HandEmptyBetweenBatches, Holds
    <2>5. SettledBelowHand(w)' /\ SettledBelowPosition(w)'
      BY <2>1, <2>2 DEF WorkerInv, SettledBelowHand, SettledBelowPosition, Holds, Live
    <2> QED BY <2>3, <2>4, <2>5 DEF WorkerInv
  <1> QED BY <1>1, <1>4, <1>5, <1>6, <1>7 DEF Inv

\* A step of the system is one of the workers, or a replay, or none of either.
LEMMA WhoMoves ==
    ASSUME QInv, [QNext]_qvars
    PROVE  \/ [Next]_vars
           \/ /\ \E r \in Records : Fits(Source, r) /\ AppendRecord(Source, r)
              /\ UNCHANGED <<committed, members, now, marks, settled, faults, clientVars>>
  <1>1. ASSUME NEW a \in Operators, Preview(a) \/ ReplayError(a)
        PROVE  UNCHANGED vars
    BY <1>1 DEF Preview, ReplayError, dvars
  <1>2. ASSUME DNext
        PROVE  Next
    BY <1>2 DEF DNext
  <1>3. CASE UNCHANGED qvars
    BY <1>3 DEF qvars, dvars
  <1> QED BY <1>1, <1>2, <1>3, ReplayAppends DEF QNext

\* A replay is no exception to the invariant of the workers.
LEMMA ReplayedInvStep ==
    ASSUME QInv, [QNext]_qvars
    PROVE  Inv'
  <1>1. Source \in Topics
    BY TopologyAssumption DEF TopicsFor
  <1> QED BY <1>1, WhoMoves, InvStep, AppendKeepsInv DEF QInv

\* A dead letter is never taken off its topic.
LEMMA DeadLettersStay ==
    ASSUME QInv, [QNext]_qvars
    PROVE  \A po \in DlqPositions :
              po \in DlqPositions' /\ RecordAt(Dlq, po[1], po[2])' = RecordAt(Dlq, po[1], po[2])
  <1> SUFFICES ASSUME NEW p \in Partitions, NEW o \in 0 .. EndOffset(Dlq, p) - 1
               PROVE  /\ <<p, o>> \in DlqPositions'
                      /\ RecordAt(Dlq, p, o)' = RecordAt(Dlq, p, o)
    BY DeadLetterAt
  <1>1. Dlq \in Topics /\ Dlq # Source /\ Source \in Topics
    BY TopologyAssumption, TopicsApart DEF Dlq, TopicsFor
  <1>2. /\ o \in 0 .. EndOffset(Dlq, p)' - 1
        /\ RecordAt(Dlq, p, o)' = RecordAt(Dlq, p, o)
    <2>1. CASE [Next]_vars
      BY <1>1, <2>1, Stays DEF QInv
    <2>2. ASSUME NEW r \in Records, AppendRecord(Source, r)
          PROVE  log'[Dlq][p] = log[Dlq][p]
      BY <1>1, <2>2, AppendGrows DEF QInv, Inv
    <2> QED BY <2>1, <2>2, WhoMoves DEF EndOffset, RecordAt
  <1> QED BY <1>2 DEF DlqPositions, Dlq

\* An operator approves what it has read, and that stays on the topic.
LEMMA ApprovedExistStep ==
    ASSUME QInv, [QNext]_qvars
    PROVE  ApprovedExist'
  <1>1. DlqPositions \subseteq DlqPositions'
    BY DeadLettersStay
  <1>2. ApprovedExist
    BY DEF QInv
  <1>3. ASSUME NEW a \in Operators, Preview(a)
        PROVE  ApprovedExist'
    <2>1. \E chosen \in SUBSET DlqPositions : approved' = [approved EXCEPT ![a] = chosen]
      BY <1>3 DEF Preview, Selections, Limited
    <2> QED BY <1>1, <1>2, <2>1 DEF ApprovedExist
  <1>4. ASSUME NEW a \in Operators, NEW entry, ReplayError(a) \/ ReplayOne(a, entry)
        PROVE  ApprovedExist'
    <2>1. \E rest \in SUBSET approved[a] : approved' = [approved EXCEPT ![a] = rest]
      BY <1>4 DEF ReplayError, ReplayOne
    <2> QED BY <1>1, <1>2, <2>1 DEF ApprovedExist
  <1>5. CASE approved' = approved
    BY <1>1, <1>2, <1>5 DEF ApprovedExist
  <1> QED BY <1>3, <1>4, <1>5 DEF QNext, qvars, replayVars

\* The failure that makes a dead letter is that of the last try.
LEMMA LastTry ==
    ASSUME Inv, "permanent" \notin Failures,
           NEW w \in Workers, NEW p \in Partitions, DeadLetter(w, p)
    PROVE  ThisAttempt(w, p) = MaxAttempts
  <1>1. Holds(w, p) /\ ThisAttempt(w, p) \notin 1 .. MaxAttempts - 1
    BY PolicyAssumption DEF DeadLetter, IsCurrent
  <1>2. /\ Message(w, p).attempt \in 0 .. MaxAttempts
        /\ Message(w, p).attempt < MaxAttempts
    BY <1>1, MessageInLog, TopicsOfWorkers DEF Fits, Records
  <1> QED BY <1>1, <1>2, PolicyAssumption DEF ThisAttempt

\* A copy on its way to the dead-letter topic was prepared after the last try.
LEMMA LastTryBehindStep ==
    ASSUME QInv, [QNext]_qvars, NEW w \in Workers
    PROVE  LastTryBehind(w)'
  <1>0. Inv /\ TypeOK /\ LastTryBehind(w)
    BY DEF QInv, Inv
  <1>1. CASE UNCHANGED clientVars
    BY <1>0, <1>1 DEF LastTryBehind, clientVars
  <1>2. CASE [Next]_vars /\ pc'[w] = "send" /\ pc[w] # "send"
    <2> SUFFICES ASSUME "permanent" \notin Failures, outgoing'[w].topic = Dlq
                 PROVE  outgoing'[w].record.attempt = MaxAttempts
      BY DEF LastTryBehind
    <2>1. PICK p \in Partitions : Retry(w, p) \/ DeadLetter(w, p)
      BY <1>0, <1>2, Calls
    <2>2. PICK topic \in Topics, due \in Nat :
              /\ Prepare(w, NextHop(w, p, topic, due))
              /\ topic \in ConsumedTopics => ThisAttempt(w, p) \in DOMAIN Delays
      BY <1>0, <2>1, Failing
    <2>3. Holds(w, p)
      BY <1>0, <2>1, Failing DEF IsCurrent
    <2>4. outgoing'[w] = NextHop(w, p, topic, due)
      BY <1>0, <2>2 DEF Prepare, TypeOK
    <2>5. outgoing'[w].topic = topic /\ outgoing'[w].record.attempt = ThisAttempt(w, p)
      BY <1>0, <2>3, <2>4, NextHopHeaders
    <2>6. ~Retry(w, p)
      <3> SUFFICES ASSUME Retry(w, p)
                   PROVE  FALSE
        OBVIOUS
      <3>1. PICK n \in DOMAIN Delays, at \in Nat :
                Prepare(w, NextHop(w, p, RetryTopic(Source, Delays[n]), at))
        <4>1. now + Delays[ThisAttempt(w, p)] \in Nat
          BY <1>0, PolicyAssumption DEF Retry, TypeOK
        <4> QED BY <1>0, <2>3, <4>1, OriginType DEF Retry
      <3>2. outgoing'[w] = NextHop(w, p, RetryTopic(Source, Delays[n]), at)
        BY <1>0, <3>1 DEF Prepare, TypeOK
      <3>3. outgoing'[w].topic = RetryTopic(Source, Delays[n])
        BY <1>0, <2>3, <3>2, NextHopHeaders
      <3>4. RetryTopic(Source, Delays[n]) \in ConsumedTopics
        BY <3>1 DEF RetryTopics, ConsumedTopics
      <3> QED BY <3>3, <3>4, TopicsApart DEF Dlq
    <2> QED BY <1>0, <2>1, <2>5, <2>6, LastTry
  <1>3. CASE [Next]_vars /\ (pc[w] = "send" \/ pc'[w] # "send")
    <2>1. outgoing'[w] = outgoing[w] \/ (outgoing'[w] = NoMessage /\ pc'[w] # "send")
      BY <1>0, <1>3, OutgoingKept
    <2> QED BY <1>0, <1>3, <2>1 DEF LastTryBehind
  <1> QED BY <1>1, <1>2, <1>3, WhoMoves

\* Only such copies are written to the dead-letter topic, by no replay.
LEMMA TriedInFullStep ==
    ASSUME QInv, [QNext]_qvars
    PROVE  DeadLettersTriedInFull'
  <1> SUFFICES ASSUME "permanent" \notin Failures,
                      NEW p \in Partitions, NEW o \in 0 .. EndOffset(Dlq, p)' - 1
               PROVE  RecordAt(Dlq, p, o)'.attempt = MaxAttempts
    BY DEF DeadLettersTriedInFull, DlqPositions, Dlq
  <1>0. /\ Inv /\ TypeOK /\ Dlq \in Topics /\ Source \in Topics /\ Dlq # Source
        /\ \A w \in Workers : LastTryBehind(w)
    BY TopologyAssumption, TopicsApart DEF QInv, Inv, Dlq, TopicsFor
  <1>1. CASE o \in 0 .. EndOffset(Dlq, p) - 1
    <2>1. <<p, o>> \in DlqPositions
      BY <1>1, DeadLetterAt
    <2>2. RecordAt(Dlq, p, o)' = RecordAt(Dlq, p, o)
      BY <2>1, DeadLettersStay
    <2>3. RecordAt(Dlq, p, o).attempt = MaxAttempts
      BY <2>1 DEF QInv, DeadLettersTriedInFull
    <2> QED BY <2>2, <2>3
  <1>2. ASSUME NEW w \in Workers, Held(w), AppendRecord(outgoing[w].topic, outgoing[w].record),
               o \notin 0 .. EndOffset(Dlq, p) - 1
        PROVE  RecordAt(Dlq, p, o)'.attempt = MaxAttempts
    <2>1. outgoing[w].topic \in Topics /\ outgoing[w].record \in Records
      BY <1>0 DEF TypeOK
    <2>2. outgoing[w].topic = Dlq /\ RecordAt(Dlq, p, o)' = outgoing[w].record
      BY <1>0, <1>2, <2>1, AppendedAt
    <2> QED BY <1>0, <1>2, <2>2 DEF LastTryBehind, Held
  <1>3. CASE Produce
    BY <1>0, <1>1, <1>3, ProducedAt
  <1>4. CASE UNCHANGED log
    BY <1>1, <1>4 DEF EndOffset
  <1>5. ASSUME NEW r \in Records, AppendRecord(Source, r)
        PROVE  o \in 0 .. EndOffset(Dlq, p) - 1
    BY <1>0, <1>5, AppendedAt
  <1> QED BY <1>1, <1>2, <1>3, <1>4, <1>5, WhoMoves, WhoAppends

-----------------------------------------------------------------------------
(* Copies are conserved, with replays beside the workers.                  *)

\* The copies that are not done with: what is not settled is not committed.
LEMMA CopyAt ==
    ASSUME Inv, NEW l, NEW c
    PROVE  c \in CopiesOf(l) <=>
              \E t \in ConsumedTopics, p \in Partitions : \E o \in 0 .. EndOffset(t, p) - 1 :
                  c = <<t, p, o>> /\ Unsettled(t, p, o) /\ LineageAt(t, p, o) = l
  <1>1. ASSUME NEW t \in ConsumedTopics, NEW p \in Partitions, NEW o
        PROVE  (o \in CommittedOffset(t, p) .. EndOffset(t, p) - 1 /\ o \notin settled[t][p])
                  <=> Unsettled(t, p, o)
    <2>1. t \in Topics
      BY TopologyAssumption DEF ConsumedTopics, TopicsFor
    <2>2. CommittedOffset(t, p) \in Nat /\ EndOffset(t, p) \in Nat
      <3>1. log[t][p] \in Seq(Records) /\ committed[t][p] \in Offsets
        BY <2>1 DEF Inv, TypeOK
      <3> QED BY <3>1 DEF CommittedOffset, EndOffset, Offsets
    <2>3. \A n \in 0 .. CommittedOffset(t, p) - 1 : n \in settled[t][p]
      BY <2>1 DEF Inv, NothingCommittedUnsettled
    <2> QED BY <2>2, <2>3 DEF Unsettled
  <1> DEFINE S(t, p) == {n \in CommittedOffset(t, p) .. EndOffset(t, p) - 1 :
                            n \notin settled[t][p] /\ LineageAt(t, p, n) = l}
  <1>2. ASSUME NEW t \in ConsumedTopics, NEW p \in Partitions, NEW o
        PROVE  o \in S(t, p) <=> Unsettled(t, p, o) /\ LineageAt(t, p, o) = l
    BY <1>1
  <1> DEFINE C(t, p) == {<<t, p, o>> : o \in S(t, p)}
  <1>3. CopiesOf(l) = UNION {C(t, p) : t \in ConsumedTopics, p \in Partitions}
    BY DEF CopiesOf
  <1> HIDE DEF S
  <1>4. \A t, p : c \in C(t, p) <=> \E o \in S(t, p) : c = <<t, p, o>>
    OBVIOUS
  <1> HIDE DEF C
  <1>5. c \in CopiesOf(l) <=> \E t \in ConsumedTopics, p \in Partitions : c \in C(t, p)
    BY <1>3
  <1>6. \A t, p, o : Unsettled(t, p, o) => o \in 0 .. EndOffset(t, p) - 1
    BY DEF Unsettled
  <1> QED BY <1>2, <1>4, <1>5, <1>6

LEMMA CopiesAre ==
    Inv => \A l, c : c \in CopiesOf(l) <=>
              \E t \in ConsumedTopics, p \in Partitions : \E o \in 0 .. EndOffset(t, p) - 1 :
                  c = <<t, p, o>> /\ Unsettled(t, p, o) /\ LineageAt(t, p, o) = l
  BY CopyAt

\* The same after the step.
LEMMA CopyAtNext ==
    (Inv => \A l, c : c \in CopiesOf(l) <=>
              \E t \in ConsumedTopics, p \in Partitions : \E o \in 0 .. EndOffset(t, p) - 1 :
                  c = <<t, p, o>> /\ Unsettled(t, p, o) /\ LineageAt(t, p, o) = l)'
  BY CopiesAre, PTL

\* What is on a log stays there.
CopiesStay ==
    \A t \in Topics, p \in Partitions : \A o \in 0 .. EndOffset(t, p) - 1 :
        /\ o \in 0 .. EndOffset(t, p)' - 1
        /\ RecordAt(t, p, o)' = RecordAt(t, p, o)
        /\ LineageAt(t, p, o)' = LineageAt(t, p, o)

LEMMA CopiesStayStep ==
    ASSUME QInv, [QNext]_qvars
    PROVE  CopiesStay
  <1>1. Inv /\ TypeOK /\ Source \in Topics
    BY TopologyAssumption DEF QInv, Inv, TopicsFor
  <1>2. CASE [Next]_vars
    BY <1>1, <1>2, Stays DEF CopiesStay
  <1>3. ASSUME NEW r \in Records, AppendRecord(Source, r),
               NEW t \in Topics, NEW p \in Partitions, NEW o \in 0 .. EndOffset(t, p) - 1
        PROVE  /\ o \in 0 .. EndOffset(t, p)' - 1
               /\ RecordAt(t, p, o)' = RecordAt(t, p, o)
    <2>1. log[t][p] \in Seq(Records)
      BY <1>1 DEF TypeOK
    <2>2. log'[t][p] = log[t][p] \/ log'[t][p] = Append(log[t][p], r)
      BY <1>1, <1>3, AppendGrows
    <2>3. Len(log[t][p]) \in Nat /\ o + 1 \in 1 .. Len(log[t][p]) /\ o \in 0 .. Len(log[t][p]) - 1
      BY <2>1 DEF EndOffset
    <2>4. CASE log'[t][p] = log[t][p]
      BY <2>4 DEF EndOffset, RecordAt
    <2>5. CASE log'[t][p] = Append(log[t][p], r)
      <3>1. Len(log'[t][p]) = Len(log[t][p]) + 1 /\ log'[t][p][o + 1] = log[t][p][o + 1]
        BY <2>1, <2>3, <2>5, AppendProperties
      <3> QED BY <2>3, <3>1 DEF EndOffset, RecordAt
    <2> QED BY <2>2, <2>4, <2>5
  <1>4. ASSUME NEW r \in Records, AppendRecord(Source, r),
               NEW t \in Topics, NEW p \in Partitions, NEW o \in 0 .. EndOffset(t, p) - 1
        PROVE  LineageAt(t, p, o)' = LineageAt(t, p, o)
    <2>1. RecordAt(t, p, o)' = RecordAt(t, p, o)
      BY <1>3, <1>4
    <2> QED BY <2>1 DEF LineageAt, Lineage
  <1>5. ASSUME NEW r \in Records, AppendRecord(Source, r)
        PROVE  CopiesStay
    BY <1>3, <1>4, <1>5 DEF CopiesStay
  <1> QED BY <1>2, <1>5, WhoMoves

\* Of what was there, at most the copy at one place is settled.
OnlySettles(gone) ==
    \A t \in ConsumedTopics, p \in Partitions : \A o \in 0 .. EndOffset(t, p) - 1 :
        Unsettled(t, p, o)' <=> Unsettled(t, p, o) /\ <<t, p, o>> # gone

NothingWritten == \A t \in Topics, p \in Partitions : EndOffset(t, p)' = EndOffset(t, p)

\* One copy of l is written.
Written(v, a, x, l) ==
    /\ v \in Topics /\ a \in Partitions
    /\ x \in 0 .. EndOffset(v, a)' - 1 /\ x \notin 0 .. EndOffset(v, a) - 1
    /\ LineageAt(v, a, x)' = l /\ x \notin settled'[v][a]
    /\ \A t \in Topics, p \in Partitions : \A o \in 0 .. EndOffset(t, p)' - 1 :
          o \in 0 .. EndOffset(t, p) - 1 \/ (t = v /\ p = a /\ o = x)

\* What becomes of the copies that are not done with, and of the dead letters.
LEMMA CopiesSettled ==
    ASSUME Inv, Inv', CopiesStay, NothingWritten, NEW gone, OnlySettles(gone), NEW l
    PROVE  /\ CopiesOf(l)' = CopiesOf(l) \ {gone}
           /\ DeadLettersOf(l)' = DeadLettersOf(l)
  <1>0. ConsumedTopics \subseteq Topics /\ Dlq \in Topics
    BY TopologyAssumption DEF ConsumedTopics, TopicsFor, Dlq
  <1>1. \A t \in Topics, p \in Partitions : \A o \in 0 .. EndOffset(t, p) - 1 :
            LineageAt(t, p, o)' = LineageAt(t, p, o)
    BY DEF CopiesStay
  <1>2. ASSUME NEW c
        PROVE  c \in CopiesOf(l)' <=> c \in CopiesOf(l) \ {gone}
    <2>1. c \in CopiesOf(l)' <=>
              \E t \in ConsumedTopics, p \in Partitions : \E o \in 0 .. EndOffset(t, p) - 1 :
                  c = <<t, p, o>> /\ Unsettled(t, p, o)' /\ LineageAt(t, p, o)' = l
      BY <1>0, CopyAtNext DEF NothingWritten
    <2>2. c \in CopiesOf(l) <=>
              \E t \in ConsumedTopics, p \in Partitions : \E o \in 0 .. EndOffset(t, p) - 1 :
                  c = <<t, p, o>> /\ Unsettled(t, p, o) /\ LineageAt(t, p, o) = l
      BY CopyAt
    <2> QED BY <1>0, <1>1, <2>1, <2>2 DEF OnlySettles
  <1>3. DlqPositions' = DlqPositions
    BY <1>0 DEF DlqPositions, NothingWritten, Dlq
  <1>4. \A po \in DlqPositions :
            LineageAt(Dlq, po[1], po[2])' = LineageAt(Dlq, po[1], po[2])
    BY <1>0, <1>1, DeadLetterAt
  <1>5. DeadLettersOf(l)' = DeadLettersOf(l)
    BY <1>3, <1>4 DEF DeadLettersOf, Dlq
  <1> QED BY <1>2, <1>5

LEMMA CopiesWritten ==
    ASSUME Inv, Inv', CopiesStay, NEW gone, OnlySettles(gone), NEW l,
           NEW v, NEW a, NEW x, NEW k, Written(v, a, x, k)
    PROVE  /\ CopiesOf(l)' = (CopiesOf(l) \ {gone})
                  \cup (IF l = k /\ v \in ConsumedTopics THEN {<<v, a, x>>} ELSE {})
           /\ <<v, a, x>> \notin CopiesOf(l)
           /\ DeadLettersOf(l)' = DeadLettersOf(l)
                  \cup (IF l = k /\ v = Dlq THEN {<<a, x>>} ELSE {})
           /\ v = Dlq => <<a, x>> \notin DeadLettersOf(l)
  <1>0. ConsumedTopics \subseteq Topics /\ Dlq \in Topics
    BY TopologyAssumption DEF ConsumedTopics, TopicsFor, Dlq
  <1>1. \A t \in Topics, p \in Partitions : \A o \in 0 .. EndOffset(t, p) - 1 :
            o \in 0 .. EndOffset(t, p)' - 1 /\ LineageAt(t, p, o)' = LineageAt(t, p, o)
    BY DEF CopiesStay
  <1>2. \A c : c \in CopiesOf(l) <=>
              \E t \in ConsumedTopics, p \in Partitions : \E o \in 0 .. EndOffset(t, p) - 1 :
                  c = <<t, p, o>> /\ Unsettled(t, p, o) /\ LineageAt(t, p, o) = l
    BY CopyAt
  <1>3. \A c : c \in CopiesOf(l)' <=>
              \E t \in ConsumedTopics, p \in Partitions : \E o \in 0 .. EndOffset(t, p)' - 1 :
                  c = <<t, p, o>> /\ Unsettled(t, p, o)' /\ LineageAt(t, p, o)' = l
    BY CopyAtNext
  <1>4. v \in ConsumedTopics => Unsettled(v, a, x)'
    BY DEF Written, Unsettled
  <1>5. ASSUME NEW c \in CopiesOf(l)'
        PROVE  \/ c \in CopiesOf(l) \ {gone}
               \/ l = k /\ v \in ConsumedTopics /\ c = <<v, a, x>>
    <2>1. PICK t \in ConsumedTopics, p \in Partitions : \E o \in 0 .. EndOffset(t, p)' - 1 :
              c = <<t, p, o>> /\ Unsettled(t, p, o)' /\ LineageAt(t, p, o)' = l
      BY <1>3, <1>5
    <2>2. PICK o \in 0 .. EndOffset(t, p)' - 1 :
              c = <<t, p, o>> /\ Unsettled(t, p, o)' /\ LineageAt(t, p, o)' = l
      BY <2>1
    <2>3. CASE o \in 0 .. EndOffset(t, p) - 1
      BY <1>0, <1>1, <1>2, <2>2, <2>3 DEF OnlySettles
    <2>4. CASE t = v /\ p = a /\ o = x
      BY <2>2, <2>4 DEF Written
    <2> QED BY <1>0, <2>3, <2>4 DEF Written
  <1>6. ASSUME NEW c \in CopiesOf(l), c # gone
        PROVE  c \in CopiesOf(l)'
    BY <1>0, <1>1, <1>2, <1>3, <1>6 DEF OnlySettles
  <1>7. l = k /\ v \in ConsumedTopics => <<v, a, x>> \in CopiesOf(l)'
    BY <1>3, <1>4 DEF Written
  <1>8. <<v, a, x>> \notin CopiesOf(l)
    BY <1>2 DEF Written
  <1>9. \A po : po \in DeadLettersOf(l) <=>
            \E p \in Partitions : \E o \in 0 .. EndOffset(Dlq, p) - 1 :
                po = <<p, o>> /\ LineageAt(Dlq, p, o) = l
    BY DeadLetterAt DEF DeadLettersOf, Dlq
  <1>10. \A po : po \in DeadLettersOf(l)' <=>
            \E p \in Partitions : \E o \in 0 .. EndOffset(Dlq, p)' - 1 :
                po = <<p, o>> /\ LineageAt(Dlq, p, o)' = l
    BY DEF DeadLettersOf, DlqPositions, Dlq
  <1>11. ASSUME NEW po \in DeadLettersOf(l)'
         PROVE  po \in DeadLettersOf(l) \/ (l = k /\ v = Dlq /\ po = <<a, x>>)
    <2>1. PICK p \in Partitions : \E o \in 0 .. EndOffset(Dlq, p)' - 1 :
              po = <<p, o>> /\ LineageAt(Dlq, p, o)' = l
      BY <1>10, <1>11
    <2>2. PICK o \in 0 .. EndOffset(Dlq, p)' - 1 : po = <<p, o>> /\ LineageAt(Dlq, p, o)' = l
      BY <2>1
    <2>3. CASE o \in 0 .. EndOffset(Dlq, p) - 1
      BY <1>0, <1>1, <1>9, <2>2, <2>3
    <2>4. CASE Dlq = v /\ p = a /\ o = x
      BY <2>2, <2>4 DEF Written
    <2> QED BY <1>0, <2>3, <2>4 DEF Written
  <1>12. ASSUME NEW po \in DeadLettersOf(l)
         PROVE  po \in DeadLettersOf(l)'
    BY <1>0, <1>1, <1>9, <1>10
  <1>13. l = k /\ v = Dlq => <<a, x>> \in DeadLettersOf(l)'
    BY <1>10 DEF Written
  <1>14. v = Dlq => <<a, x>> \notin DeadLettersOf(l)
    BY <1>9 DEF Written
  <1>15. CopiesOf(l)' = (CopiesOf(l) \ {gone})
                  \cup (IF l = k /\ v \in ConsumedTopics THEN {<<v, a, x>>} ELSE {})
    BY <1>1, <1>5, <1>6, <1>7, <1>8
  <1>16. DeadLettersOf(l)' = DeadLettersOf(l)
                  \cup (IF l = k /\ v = Dlq THEN {<<a, x>>} ELSE {})
    BY <1>11, <1>12, <1>13
  <1> QED BY <1>8, <1>14, <1>15, <1>16

\* The parts of a lineage.
LEMMA LineageParts ==
    ASSUME NEW l \in Lineages
    PROVE  l[2] \in Partitions /\ l[3] \in Nat /\ l = <<Source, l[2], l[3]>>
  <1>1. Len(Workload) \in Nat
    BY WorkloadAssumption
  <1> QED BY <1>1 DEF Lineages

\* The record a lineage starts from stays; it comes to be there when a producer
\* writes it.
LEMMA OriginalStays ==
    ASSUME Inv, Inv', CopiesStay, NEW l, Original(l)
    PROVE  Original(l)'
  <1>1. l \in Lineages /\ l[2] \in Partitions /\ l[3] \in Nat /\ Source \in Topics
    BY LineageParts, TopologyAssumption DEF Original, TopicsFor
  <1>2. log[Source][l[2]] \in Seq(Records)
    BY <1>1 DEF Inv, TypeOK
  <1>3. l[3] \in 0 .. EndOffset(Source, l[2]) - 1
    BY <1>1, <1>2 DEF Original, EndOffset
  <1>4. /\ l[3] \in 0 .. EndOffset(Source, l[2])' - 1
        /\ RecordAt(Source, l[2], l[3])' = RecordAt(Source, l[2], l[3])
    BY <1>1, <1>3 DEF CopiesStay
  <1>5. l[3] < EndOffset(Source, l[2])'
    <2>1. log'[Source][l[2]] \in Seq(Records)
      BY <1>1 DEF Inv, TypeOK
    <2> QED BY <1>4, <2>1 DEF EndOffset
  <1> QED BY <1>1, <1>4, <1>5 DEF Original

LEMMA OriginalIs ==
    ASSUME Inv, Inv', CopiesStay, NEW l,
           \A p \in Partitions : \A o \in 0 .. EndOffset(Source, p)' - 1 :
               \/ o \in 0 .. EndOffset(Source, p) - 1
               \/ RecordAt(Source, p, o)'.origin # NoOrigin
               \/ l # <<Source, p, o>>
    PROVE  Original(l)' <=> Original(l)
  <1> SUFFICES ASSUME Original(l)'
               PROVE  Original(l)
    BY OriginalStays
  <1>1. l \in Lineages /\ l[2] \in Partitions /\ l[3] \in Nat /\ Source \in Topics
        /\ l = <<Source, l[2], l[3]>>
    BY LineageParts, TopologyAssumption DEF Original, TopicsFor
  <1>2. log'[Source][l[2]] \in Seq(Records) /\ log[Source][l[2]] \in Seq(Records)
    BY <1>1 DEF Inv, TypeOK
  <1>3. l[3] \in 0 .. EndOffset(Source, l[2])' - 1
    BY <1>1, <1>2 DEF Original, EndOffset
  <1>4. RecordAt(Source, l[2], l[3])'.origin = NoOrigin
    BY DEF Original
  <1>5. l[3] \in 0 .. EndOffset(Source, l[2]) - 1
    BY <1>1, <1>3, <1>4
  <1>6. RecordAt(Source, l[2], l[3])' = RecordAt(Source, l[2], l[3])
    BY <1>1, <1>5 DEF CopiesStay
  <1>7. l[3] < EndOffset(Source, l[2])
    BY <1>2, <1>5 DEF EndOffset
  <1> QED BY <1>1, <1>4, <1>6, <1>7 DEF Original

\* The replays of a lineage that there are, and one more.
LEMMA ReplaysFinite ==
    ASSUME replayed \in Seq(DlqPositions), NEW l
    PROVE  IsFiniteSet(ReplaysOf(l)) /\ Len(replayed) + 1 \notin ReplaysOf(l)
  <1>1. Len(replayed) \in Nat
    OBVIOUS
  <1>2. IsFiniteSet(1 .. Len(replayed))
    BY <1>1, FS_Interval
  <1>3. ReplaysOf(l) \in SUBSET (1 .. Len(replayed))
    BY DEF ReplaysOf
  <1>4. IsFiniteSet(ReplaysOf(l))
    BY <1>2, <1>3, FS_Subset
  <1> QED BY <1>1, <1>3, <1>4

LEMMA DlqLineageStays ==
    ASSUME CopiesStay, NEW po \in DlqPositions
    PROVE  LineageAt(Dlq, po[1], po[2])' = LineageAt(Dlq, po[1], po[2])
  <1>1. PICK p \in Partitions : \E o \in 0 .. EndOffset(Dlq, p) - 1 : po = <<p, o>>
    BY DeadLetterAt
  <1>2. Dlq \in Topics
    BY TopologyAssumption DEF Dlq, TopicsFor
  <1> QED BY <1>1, <1>2 DEF CopiesStay

LEMMA ReplaysStay ==
    ASSUME CopiesStay, replayed \in Seq(DlqPositions), NEW l
    PROVE  /\ replayed' = replayed => ReplaysOf(l)' = ReplaysOf(l)
           /\ \A entry \in DlqPositions : replayed' = Append(replayed, entry) =>
                 ReplaysOf(l)' = ReplaysOf(l)
                     \cup (IF LineageAt(Dlq, entry[1], entry[2]) = l
                           THEN {Len(replayed) + 1} ELSE {})
  <1>0. Len(replayed) \in Nat
    OBVIOUS
  <1>1. ASSUME NEW po \in DlqPositions
        PROVE  LineageAt(Dlq, po[1], po[2])' = LineageAt(Dlq, po[1], po[2])
    BY DlqLineageStays
  <1>2. \A i \in 1 .. Len(replayed) : replayed[i] \in DlqPositions
    OBVIOUS
  <1>3. ASSUME NEW i \in 1 .. Len(replayed), replayed'[i] = replayed[i]
        PROVE  LineageAt(Dlq, replayed[i][1], replayed[i][2])'
                   = LineageAt(Dlq, replayed[i][1], replayed[i][2])
    <2>1. PICK po \in DlqPositions : po = replayed[i]
      BY <1>2
    <2> QED BY <1>1, <1>3, <2>1 DEF LineageAt, RecordAt
  <1>4. CASE replayed' = replayed
    BY <1>3, <1>4 DEF ReplaysOf
  <1>5. ASSUME NEW entry \in DlqPositions, replayed' = Append(replayed, entry)
        PROVE  ReplaysOf(l)' = ReplaysOf(l)
                     \cup (IF LineageAt(Dlq, entry[1], entry[2]) = l
                           THEN {Len(replayed) + 1} ELSE {})
    <2>1. PICK n : n = Len(replayed) + 1
      OBVIOUS
    <2>2. /\ Len(replayed') = n
          /\ \A i \in 1 .. Len(replayed) : replayed'[i] = replayed[i]
          /\ replayed'[n] = entry
      BY <1>5, <2>1
    <2>3. LineageAt(Dlq, replayed[n][1], replayed[n][2])' = LineageAt(Dlq, entry[1], entry[2])
      BY <1>1, <2>2 DEF LineageAt, RecordAt
    <2>4. \A i : i \in ReplaysOf(l)' <=>
              i \in 1 .. n /\ LineageAt(Dlq, replayed[i][1], replayed[i][2])' = l
      BY <2>2 DEF ReplaysOf
    <2>5. \A i : i \in ReplaysOf(l) <=>
              /\ i \in 1 .. Len(replayed)
              /\ LineageAt(Dlq, replayed[i][1], replayed[i][2]) = l
      BY DEF ReplaysOf
    <2>6. \A i : i \in 1 .. n <=> i \in 1 .. Len(replayed) \/ i = n
      BY <1>0, <2>1
    <2>7. \A i : i \in ReplaysOf(l)' <=>
              \/ i \in ReplaysOf(l)
              \/ i = n /\ LineageAt(Dlq, entry[1], entry[2]) = l
      BY <1>3, <2>2, <2>3, <2>4, <2>5, <2>6
    <2> QED BY <2>1, <2>7
  <1> QED BY <1>4, <1>5

\* The parts of the count are finite, so that adding to them and taking from them
\* is arithmetic.
LEMMA ConservedParts ==
    ASSUME ReplayedOnce, NEW l \in Lineages
    PROVE  /\ IsFiniteSet(CopiesOf(l)) /\ IsFiniteSet(DeadLettersOf(l))
           /\ IsFiniteSet(ReplaysOf(l))
           /\ Cardinality(CopiesOf(l)) \in Nat /\ Cardinality(DeadLettersOf(l)) \in Nat
           /\ Cardinality(ReplaysOf(l)) \in Nat
           /\ oks[l] \in Nat /\ dropped[l] \in Nat
           /\ Cardinality(CopiesOf(l)) + oks[l] + dropped[l] + Cardinality(DeadLettersOf(l))
                  = (IF Original(l) THEN 1 ELSE 0) + Cardinality(ReplaysOf(l))
  <1>1. /\ Conserved(l)
        /\ oks \in [Lineages -> Nat] /\ dropped \in [Lineages -> Nat]
        /\ replayed \in Seq(DlqPositions)
    BY DEF ReplayedOnce
  <1>2. IsFiniteSet(CopiesOf(l)) /\ IsFiniteSet(DeadLettersOf(l)) /\ IsFiniteSet(ReplaysOf(l))
    BY <1>1, ReplaysFinite DEF Conserved
  <1>3. /\ Cardinality(CopiesOf(l)) \in Nat /\ Cardinality(DeadLettersOf(l)) \in Nat
        /\ Cardinality(ReplaysOf(l)) \in Nat
    BY <1>2, FS_CardinalityType
  <1>4. oks[l] \in Nat /\ dropped[l] \in Nat
    BY <1>1
  <1> QED BY <1>1, <1>2, <1>3, <1>4 DEF Conserved, DlqCopies

\* The entries that do not change in a step.
LEMMA SameCount ==
    ASSUME ReplayedOnce, NEW l \in Lineages,
           CopiesOf(l)' = CopiesOf(l), DeadLettersOf(l)' = DeadLettersOf(l),
           oks'[l] = oks[l], dropped'[l] = dropped[l],
           Original(l)' <=> Original(l), ReplaysOf(l)' = ReplaysOf(l)
    PROVE  Conserved(l)'
  <1>1. Conserved(l)
    BY DEF ReplayedOnce
  <1> QED BY <1>1 DEF Conserved, DlqCopies

\* A copy is done with: handled, or dropped as a duplicate.
LEMMA OneDone ==
    ASSUME ReplayedOnce, NEW l \in Lineages,
           NEW gone \in CopiesOf(l), CopiesOf(l)' = CopiesOf(l) \ {gone},
           DeadLettersOf(l)' = DeadLettersOf(l),
           \/ oks'[l] = oks[l] + 1 /\ dropped'[l] = dropped[l]
           \/ oks'[l] = oks[l] /\ dropped'[l] = dropped[l] + 1,
           Original(l)' <=> Original(l), ReplaysOf(l)' = ReplaysOf(l)
    PROVE  Conserved(l)'
  <1>1. /\ IsFiniteSet(CopiesOf(l)')
        /\ Cardinality(CopiesOf(l)') = Cardinality(CopiesOf(l)) - 1
    BY ConservedParts, FS_RemoveElement
  <1>2. Cardinality(CopiesOf(l)') + oks'[l] + dropped'[l] + Cardinality(DeadLettersOf(l)')
            = (IF Original(l)' THEN 1 ELSE 0) + Cardinality(ReplaysOf(l)')
    <2>1. oks'[l] + dropped'[l] = oks[l] + dropped[l] + 1
          /\ oks'[l] \in Nat /\ dropped'[l] \in Nat
      BY ConservedParts
    <2>2. (IF Original(l)' THEN 1 ELSE 0) = (IF Original(l) THEN 1 ELSE 0)
      OBVIOUS
    <2> QED BY <1>1, <2>1, <2>2, ConservedParts
  <1>3. IsFiniteSet(DeadLettersOf(l)')
    BY ConservedParts
  <1> QED BY <1>1, <1>2, <1>3 DEF Conserved, DlqCopies

\* A copy is replaced by the next one, on a retry or on the dead-letter topic.
LEMMA OneMovesOn ==
    ASSUME ReplayedOnce, NEW l \in Lineages, NEW gone \in CopiesOf(l), NEW c,
           \/ /\ CopiesOf(l)' = (CopiesOf(l) \ {gone}) \cup {c} /\ c \notin CopiesOf(l)
              /\ DeadLettersOf(l)' = DeadLettersOf(l)
           \/ /\ CopiesOf(l)' = CopiesOf(l) \ {gone}
              /\ DeadLettersOf(l)' = DeadLettersOf(l) \cup {c} /\ c \notin DeadLettersOf(l),
           oks'[l] = oks[l], dropped'[l] = dropped[l],
           Original(l)' <=> Original(l), ReplaysOf(l)' = ReplaysOf(l)
    PROVE  Conserved(l)'
  <1>1. PICK rest : rest = CopiesOf(l) \ {gone}
    OBVIOUS
  <1>2. IsFiniteSet(rest) /\ Cardinality(rest) = Cardinality(CopiesOf(l)) - 1
    BY <1>1, ConservedParts, FS_RemoveElement
  <1>3. CASE /\ CopiesOf(l)' = rest \cup {c} /\ c \notin rest
             /\ DeadLettersOf(l)' = DeadLettersOf(l)
    <2>1. /\ IsFiniteSet(CopiesOf(l)')
          /\ Cardinality(CopiesOf(l)') = Cardinality(CopiesOf(l))
      <3>1. IsFiniteSet(rest \cup {c}) /\ Cardinality(rest \cup {c}) = Cardinality(rest) + 1
        BY <1>2, <1>3, FS_AddElement
      <3> QED BY <1>2, <1>3, <3>1, ConservedParts
    <2>2. Cardinality(CopiesOf(l)') + oks'[l] + dropped'[l] + Cardinality(DeadLettersOf(l)')
              = (IF Original(l)' THEN 1 ELSE 0) + Cardinality(ReplaysOf(l)')
      BY <1>3, <2>1, ConservedParts
    <2> QED BY <1>3, <2>1, <2>2, ConservedParts DEF Conserved, DlqCopies
  <1>4. CASE /\ CopiesOf(l)' = rest
             /\ DeadLettersOf(l)' = DeadLettersOf(l) \cup {c} /\ c \notin DeadLettersOf(l)
    <2>1. /\ IsFiniteSet(DeadLettersOf(l)')
          /\ Cardinality(DeadLettersOf(l)') = Cardinality(DeadLettersOf(l)) + 1
      BY <1>4, ConservedParts, FS_AddElement
    <2>2. Cardinality(CopiesOf(l)') + oks'[l] + dropped'[l] + Cardinality(DeadLettersOf(l)')
              = (IF Original(l)' THEN 1 ELSE 0) + Cardinality(ReplaysOf(l)')
      BY <1>2, <1>4, <2>1, ConservedParts
    <2> QED BY <1>2, <1>4, <2>1, <2>2 DEF Conserved, DlqCopies
  <1> QED BY <1>1, <1>3, <1>4

\* A copy is made, by a producer or by a replay.
LEMMA OneMore ==
    ASSUME ReplayedOnce, NEW l \in Lineages, NEW c,
           CopiesOf(l)' = CopiesOf(l) \cup {c}, c \notin CopiesOf(l),
           DeadLettersOf(l)' = DeadLettersOf(l),
           oks'[l] = oks[l], dropped'[l] = dropped[l],
           \/ ~Original(l) /\ Original(l)' /\ ReplaysOf(l)' = ReplaysOf(l)
           \/ /\ Original(l)' <=> Original(l)
              /\ ReplaysOf(l)' = ReplaysOf(l) \cup {Len(replayed) + 1}
    PROVE  Conserved(l)'
  <1>1. /\ IsFiniteSet(CopiesOf(l)')
        /\ Cardinality(CopiesOf(l)') = Cardinality(CopiesOf(l)) + 1
    BY ConservedParts, FS_AddElement
  <1>2. ReplaysOf(l)' = ReplaysOf(l) \cup {Len(replayed) + 1} =>
            Cardinality(ReplaysOf(l)') = Cardinality(ReplaysOf(l)) + 1
    <2>1. Len(replayed) + 1 \notin ReplaysOf(l)
      BY ReplaysFinite DEF ReplayedOnce
    <2> QED BY <2>1, ConservedParts, FS_AddElement
  <1>3. Cardinality(CopiesOf(l)') + oks'[l] + dropped'[l] + Cardinality(DeadLettersOf(l)')
            = (IF Original(l)' THEN 1 ELSE 0) + Cardinality(ReplaysOf(l)')
    <2>1. PICK copies \in Nat : copies = Cardinality(CopiesOf(l))
      BY ConservedParts
    <2>2. PICK ok \in Nat : ok = oks[l]
      BY ConservedParts
    <2>3. PICK drop \in Nat : drop = dropped[l]
      BY ConservedParts
    <2>4. PICK dead \in Nat : dead = Cardinality(DeadLettersOf(l))
      BY ConservedParts
    <2>5. PICK again \in Nat : again = Cardinality(ReplaysOf(l))
      BY ConservedParts
    <2>6. PICK first \in {0, 1} : first = IF Original(l) THEN 1 ELSE 0
      OBVIOUS
    <2>7. copies + ok + drop + dead = first + again
      BY <2>1, <2>2, <2>3, <2>4, <2>5, <2>6, ConservedParts
    <2>8. PICK more \in Nat : more = (IF Original(l)' THEN 1 ELSE 0) + Cardinality(ReplaysOf(l)')
                               /\ more = first + again + 1
      <3>1. CASE ~Original(l) /\ Original(l)' /\ ReplaysOf(l)' = ReplaysOf(l)
        BY <2>5, <2>6, <3>1
      <3>2. CASE /\ Original(l)' <=> Original(l)
                 /\ ReplaysOf(l)' = ReplaysOf(l) \cup {Len(replayed) + 1}
        BY <1>2, <2>5, <2>6, <3>2
      <3> QED BY <3>1, <3>2
    <2>9. (copies + 1) + ok + drop + dead = more
      BY <2>7, <2>8
    <2>10. /\ Cardinality(CopiesOf(l)') = copies + 1 /\ oks'[l] = ok /\ dropped'[l] = drop
           /\ Cardinality(DeadLettersOf(l)') = dead
      BY <1>1, <2>1, <2>2, <2>3, <2>4
    <2> QED BY <2>8, <2>9, <2>10
  <1>4. IsFiniteSet(DeadLettersOf(l)')
    BY ConservedParts
  <1> QED BY <1>1, <1>3, <1>4 DEF Conserved, DlqCopies

\* When nothing is handled, no copy is settled.
LEMMA SettlesNothing ==
    ASSUME Inv, CopiesStay, settled' = settled
    PROVE  OnlySettles(<<>>) /\ \A l : <<>> \notin CopiesOf(l)
  <1>1. \A t, p, o : <<t, p, o>> # <<>>
    OBVIOUS
  <1>2. ConsumedTopics \subseteq Topics
    BY TopologyAssumption DEF ConsumedTopics, TopicsFor
  <1>3. OnlySettles(<<>>)
    BY <1>1, <1>2 DEF OnlySettles, Unsettled, CopiesStay
  <1>4. ASSUME NEW l
        PROVE  <<>> \notin CopiesOf(l)
    BY <1>1, CopyAt
  <1> QED BY <1>3, <1>4

\* What a worker handles is the copy in its hand, which was not done with.
LEMMA SettlesHand ==
    ASSUME Inv, CopiesStay, NEW w \in Workers, NEW p \in Partitions,
           NothingTwice(w), Handles(w, p)
    PROVE  /\ OnlySettles(<<TopicOf[w], p, hand[w][p].first>>)
           /\ \A l : <<TopicOf[w], p, hand[w][p].first>> \in CopiesOf(l) <=>
                         l = LineageAt(TopicOf[w], p, hand[w][p].first)
  <1>1. Holds(w, p) /\ Settle(w, p)
    BY DEF Handles, Duplicate, Ready, Succeed, Send, IsCurrent
  <1>2. PICK t, o : t = TopicOf[w] /\ o = hand[w][p].first
    OBVIOUS
  <1>3. /\ t \in ConsumedTopics /\ t \in Topics /\ Unsettled(t, p, o)
        /\ o \in 0 .. EndOffset(t, p) - 1
    BY <1>1, <1>2, InHandUnsettled, MessageInLog, TopicsOfWorkers
  <1>4. /\ settled'[t][p] = settled[t][p] \cup {o}
        /\ \A u \in Topics, q \in Partitions : u # t \/ q # p => settled'[u][q] = settled[u][q]
    <2>1. settled \in [Topics -> [Partitions -> SUBSET Nat]]
      BY DEF Inv, TypeOK
    <2> QED BY <1>1, <1>2, <1>3, <2>1 DEF Settle
  <1>5. ConsumedTopics \subseteq Topics
    BY TopologyAssumption DEF ConsumedTopics, TopicsFor
  <1>6. ASSUME NEW u \in ConsumedTopics, NEW q \in Partitions, NEW i \in 0 .. EndOffset(u, q) - 1
        PROVE  Unsettled(u, q, i)' <=> Unsettled(u, q, i) /\ <<u, q, i>> # <<t, p, o>>
    <2>1. i \in 0 .. EndOffset(u, q)' - 1
      BY <1>5, <1>6 DEF CopiesStay
    <2>2. i \in settled'[u][q] <=> i \in settled[u][q] \/ (u = t /\ q = p /\ i = o)
      BY <1>4, <1>5
    <2> QED BY <2>1, <2>2 DEF Unsettled
  <1>7. OnlySettles(<<t, p, o>>)
    BY <1>6 DEF OnlySettles
  <1>8. ASSUME NEW l
        PROVE  <<t, p, o>> \in CopiesOf(l) <=> l = LineageAt(t, p, o)
    BY <1>3, CopyAt
  <1> QED BY <1>2, <1>7, <1>8

\* The other threads stay where they are, with what they have.
LEMMA OthersStay ==
    ASSUME TypeOK, OneWorkerEach, NEW w \in Workers, Step(w), NEW v \in Workers, v # w
    PROVE  pc'[v] = pc[v] /\ settled'[TopicOf[v]] = settled[TopicOf[v]]
  <1>1. pc'[v] = pc[v]
    BY OthersUntouched
  <1>2. TopicOf[v] \in Topics /\ TopicOf[v] # TopicOf[w]
    BY TopicsOfWorkers DEF OneWorkerEach
  <1>3. settled'[TopicOf[v]] = settled[TopicOf[v]]
    BY <1>2, OtherTopics
  <1> QED BY <1>1, <1>3

\* The call that returns is the one of the worker that moves.
LEMMA NoCallReturns ==
    ASSUME TypeOK, OneWorkerEach, NEW w \in Workers, Step(w), pc[w] # "returned"
    PROVE  Moved("returned", "batch") = {}
  <1>1. \A v \in Workers : v # w => pc'[v] = pc[v]
    BY OthersStay
  <1>2. \A v \in Workers : ~(pc[v] = "returned" /\ pc'[v] = "batch")
    BY <1>1
  <1> QED BY <1>2 DEF Moved

\* What is dropped is what Duplicate settles.
LEMMA DroppedIs ==
    ASSUME Inv, OneWorkerEach
    PROVE  /\ settled' = settled => DroppedNow = {}
           /\ \A w \in Workers, p \in Partitions :
                 Succeed(w, p) \/ Send(w, p) => DroppedNow = {}
           /\ \A w \in Workers, p \in Partitions :
                 Duplicate(w, p) /\ NothingTwice(w) =>
                     DroppedNow = {LineageAt(TopicOf[w], p, hand[w][p].first)}
  <1> DEFINE drops(v) == /\ pc[v] \in {"batch", "wait"} /\ pc'[v] = "batch"
                         /\ settled'[TopicOf[v]] # settled[TopicOf[v]]
  <1>0. TypeOK
    BY DEF Inv
  <1>1. DroppedNow = {LineageInHand(v) : v \in {w \in Workers : drops(w)}}
    BY DEF DroppedNow
  <1>2. ASSUME settled' = settled
        PROVE  DroppedNow = {}
    <2>1. \A v \in Workers : ~drops(v)
      BY <1>2
    <2> QED BY <1>1, <2>1
  <1>3. ASSUME NEW w \in Workers, NEW p \in Partitions, Handles(w, p)
        PROVE  \A v \in Workers : v # w => ~drops(v)
    <2>1. Step(w)
      BY <1>3 DEF Handles, Step
    <2> QED BY <1>0, <2>1, OthersStay
  <1>4. ASSUME NEW w \in Workers, NEW p \in Partitions, Succeed(w, p) \/ Send(w, p)
        PROVE  DroppedNow = {}
    <2>1. ~drops(w)
      BY <1>4 DEF Succeed, Send
    <2>2. \A v \in Workers : ~drops(v)
      BY <1>3, <1>4, <2>1 DEF Handles
    <2> QED BY <1>1, <2>2
  <1>5. ASSUME NEW w \in Workers, NEW p \in Partitions, Duplicate(w, p), NothingTwice(w)
        PROVE  DroppedNow = {LineageAt(TopicOf[w], p, hand[w][p].first)}
    <2>1. IsCurrent(w, p) /\ Settle(w, p) /\ pc[w] \in {"batch", "wait"} /\ pc'[w] = "batch"
      BY <1>0, <1>5 DEF Duplicate, Ready, Goto, TypeOK
    <2>2. LineageInHand(w) = LineageAt(TopicOf[w], p, hand[w][p].first)
      BY <2>1, CurrentIsUnique
    <2>3. hand[w][p].first \notin settled[TopicOf[w]][p]
      BY <1>5, <2>1, InHandUnsettled DEF IsCurrent, Unsettled
    <2>4. hand[w][p].first \in settled'[TopicOf[w]][p]
      <3>1. settled \in [Topics -> [Partitions -> SUBSET Nat]] /\ TopicOf[w] \in Topics
        BY <1>0, TopicsOfWorkers DEF TypeOK
      <3> QED BY <2>1, <3>1 DEF Settle
    <2>5. drops(w)
      BY <2>1, <2>3, <2>4
    <2>6. \A v \in Workers : drops(v) <=> v = w
      BY <1>3, <1>5, <2>5 DEF Handles
    <2> QED BY <1>1, <2>2, <2>6
  <1> QED BY <1>2, <1>4, <1>5

\* The record a producer writes is the original of a lineage of its own.
LEMMA ProduceWrites ==
    ASSUME Inv, Inv', SettledWithinLogs, Produce,
           \A p \in Partitions : EndOffset(Source, p) <= roundRobin[Source]
    PROVE  \E a \in Partitions, k \in Lineages : \E x \in 0 .. EndOffset(Source, a)' - 1 :
              /\ k = <<Source, a, x>>
              /\ Written(Source, a, x, k)
              /\ ~Original(k) /\ Original(k)'
  <1>1. Source \in Topics /\ [Next]_vars
    BY TopologyAssumption DEF TopicsFor, Next
  <1>2. PICK a \in Partitions :
            \E x \in 0 .. EndOffset(Source, a)' - 1 :
              /\ x \notin 0 .. EndOffset(Source, a) - 1
              /\ LineageAt(Source, a, x)' = <<Source, a, x>>
              /\ RecordAt(Source, a, x)'.origin = NoOrigin
              /\ <<Source, a, x>> \in Lineages
              /\ \A t \in Topics, p \in Partitions : \A o \in 0 .. EndOffset(t, p)' - 1 :
                    o \in 0 .. EndOffset(t, p) - 1 \/ (t = Source /\ p = a /\ o = x)
    BY ProducedCopy
  <1>3. PICK x \in 0 .. EndOffset(Source, a)' - 1 :
              /\ x \notin 0 .. EndOffset(Source, a) - 1
              /\ LineageAt(Source, a, x)' = <<Source, a, x>>
              /\ RecordAt(Source, a, x)'.origin = NoOrigin
              /\ <<Source, a, x>> \in Lineages
              /\ \A t \in Topics, p \in Partitions : \A o \in 0 .. EndOffset(t, p)' - 1 :
                    o \in 0 .. EndOffset(t, p) - 1 \/ (t = Source /\ p = a /\ o = x)
    BY <1>2
  <1>4. PICK k : k = <<Source, a, x>>
    OBVIOUS
  <1>5. k \in Lineages /\ k[2] = a /\ k[3] = x
    BY <1>3, <1>4
  <1>6. x \notin settled'[Source][a]
    BY <1>1, <1>3, WrittenIsUnsettled
  <1>7. Written(Source, a, x, k)
    BY <1>1, <1>3, <1>4, <1>6 DEF Written
  <1>8. log[Source][a] \in Seq(Records) /\ log'[Source][a] \in Seq(Records)
    BY <1>1 DEF Inv, TypeOK
  <1>9. ~Original(k) /\ Original(k)'
    BY <1>3, <1>5, <1>8 DEF Original, EndOffset
  <1> QED BY <1>4, <1>5, <1>7, <1>9

\* The copy a worker sends is one of the record in its hand, and says so.
LEMMA SendWrites ==
    ASSUME Inv, SettledWithinLogs, [Next]_vars,
           NEW w \in Workers, NEW p \in Partitions, Send(w, p), CopyOfHand(w),
           NEW k, k = LineageAt(TopicOf[w], p, hand[w][p].first)
    PROVE  \E v \in ConsumedTopics \cup {Dlq}, a \in Partitions :
              \E x \in 0 .. EndOffset(v, a)' - 1 :
                  Written(v, a, x, k) /\ RecordAt(v, a, x)'.origin # NoOrigin
  <1>1. Holds(w, p)
    BY DEF Send, IsCurrent
  <1>2. k # NoOrigin
    BY <1>1, OriginType DEF LineageAt, Message
  <1>3. PICK v \in Topics, a \in Partitions :
            \E x \in 0 .. EndOffset(v, a)' - 1 :
              /\ x \notin 0 .. EndOffset(v, a) - 1
              /\ LineageAt(v, a, x)' = k
              /\ RecordAt(v, a, x)'.origin = k
              /\ \A t \in Topics, q \in Partitions : \A o \in 0 .. EndOffset(t, q)' - 1 :
                    o \in 0 .. EndOffset(t, q) - 1 \/ (t = v /\ q = a /\ o = x)
    BY SentCopy
  <1>4. PICK x \in 0 .. EndOffset(v, a)' - 1 :
              /\ x \notin 0 .. EndOffset(v, a) - 1
              /\ LineageAt(v, a, x)' = k
              /\ RecordAt(v, a, x)'.origin = k
              /\ \A t \in Topics, q \in Partitions : \A o \in 0 .. EndOffset(t, q)' - 1 :
                    o \in 0 .. EndOffset(t, q) - 1 \/ (t = v /\ q = a /\ o = x)
    BY <1>3
  <1>5. x \notin settled'[v][a]
    BY <1>4, WrittenIsUnsettled
  <1>6. Written(v, a, x, k)
    BY <1>4, <1>5 DEF Written
  <1>7. v \in ConsumedTopics \cup {Dlq}
    BY TopologyAssumption DEF TopicsFor, ConsumedTopics, Dlq
  <1> QED BY <1>2, <1>4, <1>6, <1>7

\* What a replay writes to the source topic is a copy too.
LEMMA ReplayWrites ==
    ASSUME QInv, SettledWithinLogs, NEW b \in Operators, NEW entry, ReplayOne(b, entry)
    PROVE  /\ entry \in DlqPositions
           /\ \E a \in Partitions : \E x \in 0 .. EndOffset(Source, a)' - 1 :
                 /\ Written(Source, a, x, LineageAt(Dlq, entry[1], entry[2]))
                 /\ RecordAt(Source, a, x)'.origin # NoOrigin
  <1>0. TypeOK /\ Inv /\ Source \in Topics
    BY TopologyAssumption DEF QInv, Inv, TopicsFor
  <1>1. entry \in DlqPositions
    BY DEF ReplayOne, QInv, ApprovedExist
  <1>2. PICK q \in Partitions : \E i \in 0 .. EndOffset(Dlq, q) - 1 : entry = <<q, i>>
    BY <1>1, DeadLetterAt
  <1>3. PICK i \in 0 .. EndOffset(Dlq, q) - 1 : entry = <<q, i>>
    BY <1>2
  <1>4. PICK k : k = LineageAt(Dlq, q, i)
    OBVIOUS
  <1>5. PICK r : r = ReplayHeaders(RecordAt(Dlq, q, i))
    OBVIOUS
  <1>6. /\ r \in Records /\ r.origin # NoOrigin /\ r.origin = k
        /\ AppendRecord(Source, r) /\ settled' = settled
    <2>1. /\ RecordAt(Dlq, q, i) \in Records /\ RecordAt(Dlq, q, i).origin # NoOrigin
          /\ LineageAt(Dlq, q, i)[1] = Source
      BY <1>0, DeadLetterType
    <2>2. r \in Records
      BY <1>5, <2>1, ReplayType
    <2>3. r.origin = RecordAt(Dlq, q, i).origin
      BY <1>5, <2>1 DEF ReplayHeaders, Records
    <2>4. k = RecordAt(Dlq, q, i).origin
      BY <1>4, <2>1 DEF LineageAt, Lineage
    <2> QED BY <1>3, <1>5, <2>1, <2>2, <2>3, <2>4 DEF ReplayOne
  <1>7. PICK a \in Partitions : a = PartitionForKey(r.key, roundRobin[Source])
    BY <1>0, <1>6, PartitionType
  <1>8. PICK x : x = EndOffset(Source, a)
    OBVIOUS
  <1>9. /\ log[Source][a] \in Seq(Records)
        /\ log'[Source][a] = Append(log[Source][a], r)
    <2>1. log' = [log EXCEPT ![Source][a] = Append(@, r)]
      BY <1>6, <1>7 DEF AppendRecord
    <2> QED BY <1>0, <2>1 DEF TypeOK
  <1>10. /\ x \in 0 .. EndOffset(Source, a)' - 1 /\ x \notin 0 .. EndOffset(Source, a) - 1
         /\ RecordAt(Source, a, x)' = r
    BY <1>8, <1>9 DEF EndOffset, RecordAt
  <1>11. \A t \in Topics, p \in Partitions : \A o \in 0 .. EndOffset(t, p)' - 1 :
             o \in 0 .. EndOffset(t, p) - 1 \/ (t = Source /\ p = a /\ o = x)
    BY <1>0, <1>6, <1>7, <1>8, AppendedAt
  <1>12. LineageAt(Source, a, x)' = k
    BY <1>6, <1>10 DEF LineageAt, Lineage
  <1>13. x \notin settled'[Source][a]
    BY <1>0, <1>6, <1>10 DEF SettledWithinLogs
  <1>14. Written(Source, a, x, k)
    BY <1>0, <1>10, <1>11, <1>12, <1>13 DEF Written
  <1>15. k = LineageAt(Dlq, entry[1], entry[2])
    BY <1>3, <1>4
  <1> QED BY <1>1, <1>6, <1>10, <1>14, <1>15

\* A copy that says where it comes from is no original.
LEMMA CopyIsNoOriginal ==
    ASSUME Inv, Inv', CopiesStay, NEW l,
           \/ NothingWritten
           \/ \E k : \E v \in Topics, a \in Partitions : \E x \in 0 .. EndOffset(v, a)' - 1 :
                 Written(v, a, x, k) /\ RecordAt(v, a, x)'.origin # NoOrigin
    PROVE  Original(l)' <=> Original(l)
  <1>0. Source \in Topics
    BY TopologyAssumption DEF TopicsFor
  <1>1. CASE NothingWritten
    BY <1>0, <1>1, OriginalIs DEF NothingWritten
  <1>2. ASSUME NEW v \in Topics, NEW a \in Partitions, NEW k,
               NEW x \in 0 .. EndOffset(v, a)' - 1,
               Written(v, a, x, k), RecordAt(v, a, x)'.origin # NoOrigin
        PROVE  Original(l)' <=> Original(l)
    <2>1. \A p \in Partitions : \A o \in 0 .. EndOffset(Source, p)' - 1 :
               o \in 0 .. EndOffset(Source, p) - 1 \/ RecordAt(Source, p, o)'.origin # NoOrigin
      BY <1>0, <1>2 DEF Written
    <2> QED BY <2>1, OriginalIs
  <1> QED BY <1>1, <1>2

\* The workers and the producers conserve the copies.
LEMMA WorkersConserve ==
    ASSUME Inv, Inv', CopiesStay, ReplayedOnce, OneWorkerEach, Next, Observe,
           dropped' = Counting(dropped, DroppedNow), replayed' = replayed,
           \A w \in Workers : pc'[w] # "dead",
           NEW l \in Lineages
    PROVE  Conserved(l)'
  <1>0. /\ TypeOK /\ [Next]_vars /\ SettledWithinLogs
        /\ \A w \in Workers : NothingTwice(w) /\ pc[w] # "dead"
        /\ \A w \in Workers : pc[w] = "send" => CopyOfHand(w)
        /\ \A p \in Partitions : EndOffset(Source, p) <= roundRobin[Source]
        /\ oks \in [Lineages -> Nat] /\ dropped \in [Lineages -> Nat]
        /\ ReplaysOf(l)' = ReplaysOf(l)
    BY ReplaysStay DEF Inv, ReplayedOnce, CopiesDescend, NothingTwice
  <1>1. /\ oks'[l] = IF l \in Moved("returned", "batch") THEN oks[l] + 1 ELSE oks[l]
        /\ dropped'[l] = IF l \in DroppedNow THEN dropped[l] + 1 ELSE dropped[l]
    BY <1>0, Observed, CountingAt
  <1>2. UNCHANGED log => NothingWritten
    BY DEF NothingWritten, EndOffset
  <1>3. CASE Produce
    <2>1. UNCHANGED settled /\ UNCHANGED pc
      BY <1>3 DEF Produce, clientVars
    <2>2. oks'[l] = oks[l] /\ dropped'[l] = dropped[l]
      <3>1. Moved("returned", "batch") = {}
        BY <2>1 DEF Moved
      <3> QED BY <1>1, <2>1, <3>1, DroppedIs
    <2>3. OnlySettles(<<>>) /\ <<>> \notin CopiesOf(l)
      BY <2>1, SettlesNothing
    <2>4. PICK a \in Partitions, k \in Lineages : \E x \in 0 .. EndOffset(Source, a)' - 1 :
              /\ k = <<Source, a, x>>
              /\ Written(Source, a, x, k)
              /\ ~Original(k) /\ Original(k)'
      BY <1>0, <1>3, ProduceWrites
    <2>5. PICK x \in 0 .. EndOffset(Source, a)' - 1 :
              /\ k = <<Source, a, x>>
              /\ Written(Source, a, x, k)
              /\ ~Original(k) /\ Original(k)'
      BY <2>4
    <2>6. Source \in ConsumedTopics /\ Source # Dlq
      BY TopicsApart DEF ConsumedTopics, Dlq
    <2>7. /\ CopiesOf(l)' = CopiesOf(l) \cup (IF l = k THEN {<<Source, a, x>>} ELSE {})
          /\ <<Source, a, x>> \notin CopiesOf(l)
          /\ DeadLettersOf(l)' = DeadLettersOf(l)
      <3>0. Written(Source, a, x, k)
        BY <2>5
      <3>1. /\ CopiesOf(l)' = (CopiesOf(l) \ {<<>>})
                  \cup (IF l = k /\ Source \in ConsumedTopics THEN {<<Source, a, x>>} ELSE {})
            /\ <<Source, a, x>> \notin CopiesOf(l)
            /\ DeadLettersOf(l)' = DeadLettersOf(l)
                  \cup (IF l = k /\ Source = Dlq THEN {<<a, x>>} ELSE {})
        BY <2>3, <3>0, CopiesWritten
      <3> QED BY <2>3, <2>6, <3>1
    <2>8. CASE l = k
      BY <1>0, <2>2, <2>5, <2>7, <2>8, OneMore
    <2>9. CASE l # k
      <3>1. Original(l)' <=> Original(l)
        <4>1. \A p \in Partitions : \A o \in 0 .. EndOffset(Source, p)' - 1 :
                  o \in 0 .. EndOffset(Source, p) - 1 \/ l # <<Source, p, o>>
          <5>1. Source \in Topics
            BY TopologyAssumption DEF TopicsFor
          <5> QED BY <2>5, <2>9, <5>1 DEF Written
        <4> QED BY <4>1, OriginalIs
      <3>2. CopiesOf(l)' = CopiesOf(l)
        BY <2>7, <2>9
      <3> QED BY <1>0, <2>2, <2>7, <3>1, <3>2, SameCount
    <2> QED BY <2>8, <2>9
  <1>4. ASSUME NEW w \in Workers, NEW p \in Partitions, Handles(w, p)
        PROVE  Conserved(l)'
    <2>1. PICK k : k = LineageAt(TopicOf[w], p, hand[w][p].first)
      OBVIOUS
    <2>2. PICK gone : gone = <<TopicOf[w], p, hand[w][p].first>>
      OBVIOUS
    <2>3. OnlySettles(gone) /\ (gone \in CopiesOf(l) <=> l = k)
      BY <1>0, <1>4, <2>1, <2>2, SettlesHand
    <2>4. IsCurrent(w, p) /\ Step(w)
      BY <1>4 DEF Handles, Duplicate, Ready, Succeed, Send, Step
    <2>5. CASE Succeed(w, p) \/ Duplicate(w, p)
      <3>1. NothingWritten
        BY <1>2, <2>5 DEF Succeed, Duplicate, brokerVars
      <3>2. /\ CopiesOf(l)' = CopiesOf(l) \ {gone}
            /\ DeadLettersOf(l)' = DeadLettersOf(l)
            /\ Original(l)' <=> Original(l)
        BY <2>3, <3>1, CopiesSettled, CopyIsNoOriginal
      <3>3. \/ Moved("returned", "batch") = {k} /\ DroppedNow = {}
            \/ Moved("returned", "batch") = {} /\ DroppedNow = {k}
        <4>1. CASE Succeed(w, p)
          BY <1>0, <2>1, <4>1, CallsMove, DroppedIs
        <4>2. CASE Duplicate(w, p)
          <5>1. pc[w] # "returned"
            BY <4>2 DEF Duplicate, Ready
          <5> QED BY <1>0, <2>1, <2>4, <4>2, <5>1, NoCallReturns, DroppedIs
        <4> QED BY <2>5, <4>1, <4>2
      <3>4. CASE l = k
        BY <1>0, <1>1, <2>3, <3>2, <3>3, <3>4, OneDone
      <3>5. CASE l # k
        BY <1>0, <1>1, <2>3, <3>2, <3>3, <3>5, SameCount
      <3> QED BY <3>4, <3>5
    <2>6. CASE Send(w, p)
      <3>1. oks'[l] = oks[l] /\ dropped'[l] = dropped[l]
        <4>1. pc[w] # "returned"
          BY <2>6 DEF Send
        <4>2. Moved("returned", "batch") = {} /\ DroppedNow = {}
          BY <1>0, <2>4, <2>6, <4>1, NoCallReturns, DroppedIs
        <4> QED BY <1>1, <4>2
      <3>2. CopyOfHand(w)
        BY <1>0, <2>6 DEF Send
      <3>3. PICK v \in ConsumedTopics \cup {Dlq}, a \in Partitions :
              \E x \in 0 .. EndOffset(v, a)' - 1 :
                  Written(v, a, x, k) /\ RecordAt(v, a, x)'.origin # NoOrigin
        BY <1>0, <2>1, <2>6, <3>2, SendWrites
      <3>4. PICK x \in 0 .. EndOffset(v, a)' - 1 :
                  Written(v, a, x, k) /\ RecordAt(v, a, x)'.origin # NoOrigin
        BY <3>3
      <3>5. /\ CopiesOf(l)' = (CopiesOf(l) \ {gone})
                  \cup (IF l = k /\ v \in ConsumedTopics THEN {<<v, a, x>>} ELSE {})
            /\ <<v, a, x>> \notin CopiesOf(l)
            /\ DeadLettersOf(l)' = DeadLettersOf(l)
                  \cup (IF l = k /\ v = Dlq THEN {<<a, x>>} ELSE {})
            /\ v = Dlq => <<a, x>> \notin DeadLettersOf(l)
        <4>1. OnlySettles(gone) /\ Written(v, a, x, k)
          BY <2>3, <3>4
        <4> QED BY <4>1, CopiesWritten
      <3>6. Original(l)' <=> Original(l)
        <4>1. v \in Topics
          BY <3>4 DEF Written
        <4> QED BY <3>4, <4>1, CopyIsNoOriginal
      <3>7. Dlq \notin ConsumedTopics
        BY TopicsApart DEF Dlq
      <3>8. CASE l = k /\ v \in ConsumedTopics
        <4>1. /\ CopiesOf(l)' = (CopiesOf(l) \ {gone}) \cup {<<v, a, x>>}
              /\ DeadLettersOf(l)' = DeadLettersOf(l)
          BY <3>5, <3>7, <3>8
        <4> QED BY <1>0, <2>3, <3>1, <3>5, <3>6, <3>8, <4>1, OneMovesOn
      <3>9. CASE l = k /\ v = Dlq
        <4>1. /\ CopiesOf(l)' = CopiesOf(l) \ {gone}
              /\ DeadLettersOf(l)' = DeadLettersOf(l) \cup {<<a, x>>}
          BY <3>5, <3>7, <3>9
        <4> QED BY <1>0, <2>3, <3>1, <3>5, <3>6, <3>9, <4>1, OneMovesOn
      <3>10. CASE l # k
        <4>1. CopiesOf(l)' = CopiesOf(l) /\ DeadLettersOf(l)' = DeadLettersOf(l)
          BY <2>3, <3>5, <3>10
        <4> QED BY <1>0, <3>1, <3>6, <4>1, SameCount
      <3> QED BY <3>8, <3>9, <3>10
    <2> QED BY <1>4, <2>5, <2>6 DEF Handles
  <1>5. CASE ~Produce /\ ~\E w \in Workers, p \in Partitions : Handles(w, p)
    <2>1. settled' = settled
      BY <1>0, <1>5, WhoHandles
    <2>2. NothingWritten
      <3>1. \A w \in Workers : ~Deliver(w)
        BY <1>0 DEF Deliver, NothingTwice
      <3>2. UNCHANGED log
        BY <1>0, <1>5, <3>1, WhoWrites DEF Handles
      <3> QED BY <1>2, <3>2
    <2>3. oks'[l] = oks[l] /\ dropped'[l] = dropped[l]
      <3>1. Moved("returned", "batch") = {}
        BY <1>0, <1>5, OnlyCallsMove DEF Handles
      <3> QED BY <1>1, <2>1, <3>1, DroppedIs
    <2>4. OnlySettles(<<>>) /\ <<>> \notin CopiesOf(l)
      BY <2>1, SettlesNothing
    <2>5. /\ CopiesOf(l)' = CopiesOf(l) \ {<<>>}
          /\ DeadLettersOf(l)' = DeadLettersOf(l)
          /\ Original(l)' <=> Original(l)
      BY <2>2, <2>4, CopiesSettled, CopyIsNoOriginal
    <2> QED BY <1>0, <2>3, <2>4, <2>5, SameCount
  <1> QED BY <1>3, <1>4, <1>5

\* A replay makes one more copy.
LEMMA ReplayConserves ==
    ASSUME QInv, Inv', CopiesStay, ReplayedOnce, NEW b \in Operators, NEW entry,
           ReplayOne(b, entry), NEW l \in Lineages
    PROVE  Conserved(l)'
  <1>0. /\ Inv /\ SettledWithinLogs /\ replayed \in Seq(DlqPositions)
        /\ replayed' = Append(replayed, entry)
        /\ settled' = settled /\ oks' = oks /\ dropped' = dropped
    BY DEF QInv, ReplayedOnce, ReplayOne, historyVars
  <1>1. PICK k : k = LineageAt(Dlq, entry[1], entry[2])
    OBVIOUS
  <1>2. PICK a \in Partitions : \E x \in 0 .. EndOffset(Source, a)' - 1 :
            Written(Source, a, x, k) /\ RecordAt(Source, a, x)'.origin # NoOrigin
    BY <1>0, <1>1, ReplayWrites
  <1>3. PICK x \in 0 .. EndOffset(Source, a)' - 1 :
            Written(Source, a, x, k) /\ RecordAt(Source, a, x)'.origin # NoOrigin
    BY <1>2
  <1>4. Source \in ConsumedTopics /\ Source \in Topics /\ Source # Dlq
    BY TopicsApart, TopologyAssumption DEF ConsumedTopics, Dlq, TopicsFor
  <1>5. /\ CopiesOf(l)' = CopiesOf(l) \cup (IF l = k THEN {<<Source, a, x>>} ELSE {})
        /\ <<Source, a, x>> \notin CopiesOf(l)
        /\ DeadLettersOf(l)' = DeadLettersOf(l)
    <2>1. OnlySettles(<<>>) /\ <<>> \notin CopiesOf(l)
      BY <1>0, SettlesNothing
    <2>2. /\ CopiesOf(l)' = (CopiesOf(l) \ {<<>>})
                \cup (IF l = k /\ Source \in ConsumedTopics THEN {<<Source, a, x>>} ELSE {})
          /\ <<Source, a, x>> \notin CopiesOf(l)
          /\ DeadLettersOf(l)' = DeadLettersOf(l)
                \cup (IF l = k /\ Source = Dlq THEN {<<a, x>>} ELSE {})
      BY <1>0, <1>3, <2>1, CopiesWritten
    <2> QED BY <1>4, <2>1, <2>2
  <1>6. Original(l)' <=> Original(l)
    BY <1>0, <1>3, <1>4, CopyIsNoOriginal
  <1>7. ReplaysOf(l)' = ReplaysOf(l) \cup (IF l = k THEN {Len(replayed) + 1} ELSE {})
    <2>1. entry \in DlqPositions
      BY <1>0, ReplayWrites
    <2> QED BY <1>0, <1>1, <2>1, ReplaysStay
  <1>8. CASE l = k
    BY <1>0, <1>5, <1>6, <1>7, <1>8, OneMore
  <1>9. CASE l # k
    <2>1. CopiesOf(l)' = CopiesOf(l) /\ ReplaysOf(l)' = ReplaysOf(l)
      BY <1>5, <1>7, <1>9
    <2> QED BY <1>0, <1>5, <1>6, <2>1, SameCount
  <1> QED BY <1>8, <1>9

\* Who moves what the count is about, and who leaves it alone.
LEMMA CountSteps ==
    ASSUME [QNext]_qvars
    PROVE  \/ DNext /\ dropped' = Counting(dropped, DroppedNow) /\ replayed' = replayed
           \/ \E entry : \E b \in Operators : ReplayOne(b, entry)
           \/ UNCHANGED <<vars, historyVars, dropped, replayed>>
  <1>1. ASSUME NEW b \in Operators, Preview(b) \/ ReplayError(b)
        PROVE  UNCHANGED <<vars, historyVars, dropped, replayed>>
    BY <1>1 DEF Preview, ReplayError, dvars
  <1>2. CASE UNCHANGED qvars
    BY <1>2 DEF qvars, dvars, replayVars
  <1> QED BY <1>1, <1>2 DEF QNext

\* What is not torn was not torn before.
LEMMA NotTornBefore ==
    ASSUME [QNext]_qvars, ~torn'
    PROVE  ~torn
  BY CountSteps, NotTorn DEF ReplayOne, historyVars

\* The counter of the source topic is drawn for every record on it, by producers
\* and by replays.
LEMMA RoundRobinAhead ==
    ASSUME QInv, [QNext]_qvars,
           \A p \in Partitions : EndOffset(Source, p) <= roundRobin[Source]
    PROVE  \A p \in Partitions : EndOffset(Source, p)' <= roundRobin'[Source]
  <1>0. Inv /\ TypeOK /\ Source \in Topics
    BY TopologyAssumption DEF QInv, Inv, TopicsFor
  <1>1. CASE UNCHANGED <<log, roundRobin>>
    BY <1>1 DEF EndOffset
  <1>2. ASSUME NEW t \in Topics, NEW r \in Records, AppendRecord(t, r),
               NEW p \in Partitions
        PROVE  EndOffset(Source, p)' <= roundRobin'[Source]
    <2>1. /\ log[Source][p] \in Seq(Records)
          /\ roundRobin \in [Topics -> Nat] /\ EndOffset(Source, p) <= roundRobin[Source]
      BY <1>0 DEF TypeOK
    <2>2. \/ log'[Source][p] = log[Source][p]
          \/ Source = t /\ log'[Source][p] = Append(log[Source][p], r)
      BY <1>0, <1>2, AppendGrows
    <2>3. roundRobin' = [roundRobin EXCEPT ![t] = @ + 1]
      BY <1>2 DEF AppendRecord
    <2>4. roundRobin[Source] \in Nat /\ EndOffset(Source, p) \in Nat
      BY <1>0, <2>1 DEF EndOffset
    <2>5. CASE Source = t
      <3>1. roundRobin'[Source] = roundRobin[Source] + 1
        BY <1>0, <2>1, <2>3, <2>5
      <3>2. EndOffset(Source, p)' <= EndOffset(Source, p) + 1
        BY <2>1, <2>2, <2>4 DEF EndOffset
      <3>3. EndOffset(Source, p)' \in Nat
        BY <2>1, <2>2, <2>4 DEF EndOffset
      <3> QED BY <2>1, <2>4, <3>1, <3>2, <3>3
    <2>6. CASE Source # t
      <3>1. roundRobin'[Source] = roundRobin[Source]
        BY <1>0, <2>1, <2>3, <2>6
      <3> QED BY <2>1, <2>2, <2>6, <3>1 DEF EndOffset
    <2> QED BY <2>5, <2>6
  <1>3. ASSUME Produce
        PROVE  \E r \in Records : AppendRecord(Source, r)
    <2>1. roundRobin[Source] + 1 \in 1 .. Len(Workload)
      <3>1. roundRobin[Source] \in Nat /\ roundRobin[Source] < Len(Workload)
        BY <1>0, <1>3 DEF Produce, TypeOK
      <3> QED BY <3>1, WorkloadAssumption
    <2> QED BY <1>3, <2>1, WorkloadAssumption DEF Produce
  <1>4. ASSUME NEW w \in Workers
        PROVE  outgoing[w].topic \in Topics /\ outgoing[w].record \in Records
    BY <1>0 DEF TypeOK
  <1> QED BY <1>0, <1>1, <1>2, <1>3, <1>4, WhoMoves, WhoAppends

\* Where every copy that is written descends from a record of the workload, every
\* copy does.
LEMMA DescentStays ==
    ASSUME Inv, Inv', CopiesStay, CopiesDescend,
           \/ NothingWritten
           \/ \E k : \E v \in Topics, a \in Partitions : \E x \in 0 .. EndOffset(v, a)' - 1 :
                 Written(v, a, x, k) /\ Original(k)'
    PROVE  \A t \in Topics, p \in Partitions : \A o \in 0 .. EndOffset(t, p)' - 1 :
               \E l : l = LineageAt(t, p, o)' /\ Original(l)'
  <1> TAKE t \in Topics, p \in Partitions
  <1> TAKE o \in 0 .. EndOffset(t, p)' - 1
  <1>1. CASE o \in 0 .. EndOffset(t, p) - 1
    <2>1. PICK l : l = LineageAt(t, p, o)
      OBVIOUS
    <2>2. Original(l)
      BY <1>1, <2>1 DEF CopiesDescend, Original
    <2>3. Original(l)' /\ LineageAt(t, p, o)' = l
      BY <1>1, <2>1, <2>2, OriginalStays DEF CopiesStay
    <2> QED BY <2>3
  <1>2. CASE o \notin 0 .. EndOffset(t, p) - 1
    <2>1. ~NothingWritten
      BY <1>2 DEF NothingWritten
    <2>2. PICK k : \E v \in Topics, a \in Partitions : \E x \in 0 .. EndOffset(v, a)' - 1 :
              Written(v, a, x, k) /\ Original(k)'
      BY <2>1
    <2>3. PICK v \in Topics, a \in Partitions : \E x \in 0 .. EndOffset(v, a)' - 1 :
              Written(v, a, x, k) /\ Original(k)'
      BY <2>2
    <2>4. PICK x \in 0 .. EndOffset(v, a)' - 1 : Written(v, a, x, k) /\ Original(k)'
      BY <2>3
    <2>5. t = v /\ p = a /\ o = x
      BY <1>2, <2>4 DEF Written
    <2> QED BY <2>4, <2>5 DEF Written
  <1> QED BY <1>1, <1>2

\* All that workers, producers and replays write descends from such a record.
LEMMA WritesDescend ==
    ASSUME QInv, Inv', CopiesStay, ReplayedOnce, [QNext]_qvars
    PROVE  \/ NothingWritten
           \/ \E k : \E v \in Topics, a \in Partitions : \E x \in 0 .. EndOffset(v, a)' - 1 :
                 Written(v, a, x, k) /\ Original(k)'
  <1>0. /\ Inv /\ SettledWithinLogs /\ CopiesDescend /\ Source \in Topics /\ Dlq \in Topics
        /\ ConsumedTopics \subseteq Topics
    BY TopologyAssumption DEF QInv, ReplayedOnce, TopicsFor, Dlq, ConsumedTopics
  <1>1. CASE UNCHANGED log
    BY <1>1 DEF NothingWritten, EndOffset
  <1>2. CASE Produce
    <2>1. PICK a \in Partitions, k \in Lineages : \E x \in 0 .. EndOffset(Source, a)' - 1 :
              Written(Source, a, x, k) /\ Original(k)'
      BY <1>0, <1>2, ProduceWrites DEF CopiesDescend
    <2> QED BY <1>0, <2>1
  <1>3. ASSUME NEW w \in Workers, NEW p \in Partitions, Send(w, p), [Next]_vars
        PROVE  \E k : \E v \in Topics, a \in Partitions : \E x \in 0 .. EndOffset(v, a)' - 1 :
                 Written(v, a, x, k) /\ Original(k)'
    <2>1. pc[w] = "send" /\ Holds(w, p)
      BY <1>3 DEF Send, IsCurrent
    <2>2. PICK k : k = LineageAt(TopicOf[w], p, hand[w][p].first)
      OBVIOUS
    <2>3. Original(k)
      <3>1. hand[w][p].first \in 0 .. EndOffset(TopicOf[w], p) - 1 /\ TopicOf[w] \in Topics
        BY <1>0, <2>1, MessageInLog, TopicsOfWorkers
      <3> QED BY <1>0, <2>2, <3>1 DEF CopiesDescend, Original
    <2>4. Original(k)'
      BY <1>0, <2>3, OriginalStays
    <2>5. CopyOfHand(w)
      BY <1>0, <2>1 DEF CopiesDescend
    <2>6. PICK v \in ConsumedTopics \cup {Dlq}, a \in Partitions :
              \E x \in 0 .. EndOffset(v, a)' - 1 : Written(v, a, x, k)
      BY <1>0, <1>3, <2>2, <2>5, SendWrites
    <2> QED BY <1>0, <2>4, <2>6
  <1>4. ASSUME NEW b \in Operators, NEW entry, ReplayOne(b, entry)
        PROVE  \E k : \E v \in Topics, a \in Partitions : \E x \in 0 .. EndOffset(v, a)' - 1 :
                 Written(v, a, x, k) /\ Original(k)'
    <2>1. PICK k : k = LineageAt(Dlq, entry[1], entry[2])
      OBVIOUS
    <2>2. Original(k)
      <3>1. PICK p \in Partitions : \E o \in 0 .. EndOffset(Dlq, p) - 1 : entry = <<p, o>>
        BY <1>0, <1>4, ReplayWrites, DeadLetterAt
      <3>2. PICK o \in 0 .. EndOffset(Dlq, p) - 1 : entry = <<p, o>>
        BY <3>1
      <3>3. k = LineageAt(Dlq, p, o)
        BY <2>1, <3>2
      <3> QED BY <1>0, <3>3 DEF CopiesDescend, Original
    <2>3. Original(k)'
      BY <1>0, <2>2, OriginalStays
    <2>4. PICK a \in Partitions : \E x \in 0 .. EndOffset(Source, a)' - 1 :
              Written(Source, a, x, k)
      BY <1>0, <1>4, <2>1, ReplayWrites
    <2> QED BY <1>0, <2>3, <2>4
  <1>5. CASE [Next]_vars
    <2>1. ~\E w \in Workers : Deliver(w)
      BY DEF Deliver, ReplayedOnce, NothingTwice
    <2> QED BY <1>1, <1>2, <1>3, <1>5, <2>1, WhoWrites
  <1>6. CASE UNCHANGED <<vars, historyVars, dropped, replayed>>
    BY <1>1, <1>6 DEF vars, brokerVars
  <1> QED BY <1>4, <1>5, <1>6, CountSteps DEF DNext

LEMMA CopiesDescendStep ==
    ASSUME QInv, Inv', CopiesStay, ReplayedOnce, [QNext]_qvars
    PROVE  CopiesDescend'
  <1>0. /\ Inv /\ TypeOK /\ CopiesDescend
        /\ \A w \in Workers : pc[w] # "dead" /\ (pc[w] = "send" => CopyOfHand(w))
    BY DEF QInv, Inv, ReplayedOnce, NothingTwice, CopiesDescend
  <1>1. \A p \in Partitions : EndOffset(Source, p)' <= roundRobin'[Source]
    BY <1>0, RoundRobinAhead DEF CopiesDescend
  <1>2. ASSUME NEW t \in Topics, NEW p \in Partitions, NEW o \in 0 .. EndOffset(t, p)' - 1
        PROVE  Original(LineageAt(t, p, o))'
    <2>1. PICK l : l = LineageAt(t, p, o)' /\ Original(l)'
      BY <1>0, DescentStays, WritesDescend
    <2> QED BY <2>1 DEF Original, EndOffset, RecordAt
  <1>3. ASSUME NEW w \in Workers, pc'[w] = "send"
        PROVE  CopyOfHand(w)'
    <2>1. CASE [Next]_vars
      BY <1>0, <1>3, <2>1, CopyOfHandStep
    <2>2. CASE UNCHANGED clientVars
      <3>1. CopyOfHand(w)
        BY <1>0, <1>3, <2>2 DEF clientVars
      <3>2. PICK p \in Partitions :
                /\ IsCurrent(w, p)
                /\ outgoing[w].record.origin = LineageAt(TopicOf[w], p, hand[w][p].first)
        BY <3>1 DEF CopyOfHand
      <3>3. PICK o : o = hand[w][p].first
        OBVIOUS
      <3>4. o \in 0 .. EndOffset(TopicOf[w], p) - 1 /\ TopicOf[w] \in Topics
        BY <1>0, <3>2, <3>3, MessageInLog, TopicsOfWorkers DEF IsCurrent
      <3>5. LineageAt(TopicOf[w], p, o)' = LineageAt(TopicOf[w], p, o)
        BY <3>4 DEF CopiesStay
      <3>6. hand' = hand /\ outgoing' = outgoing /\ IsCurrent(w, p)'
        BY <2>2, <3>2 DEF clientVars, IsCurrent, Holds
      <3>7. LineageAt(TopicOf[w], p, hand[w][p].first)'
                = LineageAt(TopicOf[w], p, hand[w][p].first)
        BY <3>3, <3>5, <3>6 DEF LineageAt, RecordAt
      <3> QED BY <3>2, <3>6, <3>7 DEF CopyOfHand
    <2> QED BY <2>1, <2>2, WhoMoves
  <1> QED BY <1>1, <1>2, <1>3 DEF CopiesDescend

\* A step that tears nothing conserves the copies.
LEMMA ReplayedOnceStep ==
    ASSUME QInv, [QNext]_qvars, OneWorkerEach, ~torn'
    PROVE  ReplayedOnce'
  <1>0. /\ Inv /\ Inv' /\ CopiesStay /\ ReplayedOnce
        /\ \A w \in Workers : NothingTwice(w)
        /\ SettledWithinLogs /\ replayed \in Seq(DlqPositions)
        /\ oks \in [Lineages -> Nat] /\ dropped \in [Lineages -> Nat]
    BY NotTornBefore, ReplayedInvStep, CopiesStayStep DEF QInv, ReplayedOnce
  <1>1. CopiesDescend'
    BY <1>0, CopiesDescendStep
  <1>2. DlqPositions \subseteq DlqPositions'
    BY DeadLettersStay
  <1>3. CASE DNext /\ dropped' = Counting(dropped, DroppedNow) /\ replayed' = replayed
    <2>1. /\ Next /\ Observe
          /\ \A w \in Workers : pc'[w] # "dead" /\ ~closed'[w]
      BY <1>3, NotTorn DEF DNext
    <2>2. \A w \in Workers : NothingTwice(w)'
      BY <1>0, <2>1, NothingTwiceStep
    <2>3. SettledWithinLogs'
      BY <1>0, <2>1, SettledWithinLogsStep
    <2>4. replayed' \in Seq(DlqPositions')
      BY <1>0, <1>2, <1>3
    <2>5. oks' \in [Lineages -> Nat] /\ dropped' \in [Lineages -> Nat]
      <3>1. oks' = Counting(oks, Moved("returned", "batch"))
        BY <2>1, Observed
      <3> QED BY <1>0, <1>3, <3>1, CountingType
    <2>6. \A l \in Lineages : Conserved(l)'
      BY <1>0, <1>3, <2>1, WorkersConserve
    <2> QED BY <1>1, <2>2, <2>3, <2>4, <2>5, <2>6 DEF ReplayedOnce
  <1>4. ASSUME NEW b \in Operators, NEW entry, ReplayOne(b, entry)
        PROVE  ReplayedOnce'
    <2>1. /\ UNCHANGED <<committed, members, clientVars, settled, oks, dropped>>
          /\ replayed' = Append(replayed, entry)
      BY <1>4 DEF ReplayOne, historyVars
    <2>2. \A w \in Workers : NothingTwice(w)'
      BY <1>0, <2>1 DEF NothingTwice, clientVars, Holds, CommittedOffset
    <2>3. SettledWithinLogs'
      BY <1>0, <2>1 DEF SettledWithinLogs, CopiesStay
    <2>4. replayed' \in Seq(DlqPositions')
      <3>1. entry \in DlqPositions
        BY <1>0, <1>4, ReplayWrites
      <3>2. replayed' \in Seq(DlqPositions)
        BY <1>0, <2>1, <3>1
      <3> QED BY <1>2, <3>2
    <2>5. \A l \in Lineages : Conserved(l)'
      BY <1>0, <1>4, ReplayConserves
    <2> QED BY <1>0, <1>1, <2>1, <2>2, <2>3, <2>4, <2>5 DEF ReplayedOnce
  <1>5. CASE UNCHANGED <<vars, historyVars, dropped, replayed>>
    <2>1. /\ [Next]_vars /\ UNCHANGED <<log, settled, oks, dropped, replayed>>
          /\ \A w \in Workers : pc'[w] # "dead" /\ ~closed'[w]
      BY <1>0, <1>5 DEF vars, brokerVars, clientVars, historyVars, NothingTwice
    <2>2. \A w \in Workers : NothingTwice(w)'
      BY <1>0, <2>1, NothingTwiceStep
    <2>3. SettledWithinLogs'
      BY <1>0, <2>1, SettledWithinLogsStep
    <2>4. replayed' \in Seq(DlqPositions')
      BY <1>0, <1>2, <2>1
    <2>5. ASSUME NEW l \in Lineages
          PROVE  Conserved(l)'
      <3>1. NothingWritten
        BY <2>1 DEF NothingWritten, EndOffset
      <3>2. OnlySettles(<<>>) /\ <<>> \notin CopiesOf(l)
        BY <1>0, <2>1, SettlesNothing
      <3>3. /\ CopiesOf(l)' = CopiesOf(l) \ {<<>>}
            /\ DeadLettersOf(l)' = DeadLettersOf(l)
            /\ Original(l)' <=> Original(l)
            /\ ReplaysOf(l)' = ReplaysOf(l)
        BY <1>0, <2>1, <3>1, <3>2, CopiesSettled, CopyIsNoOriginal, ReplaysStay
      <3> QED BY <1>0, <2>1, <3>2, <3>3, SameCount
    <2> QED BY <1>0, <1>1, <2>1, <2>2, <2>3, <2>4, <2>5 DEF ReplayedOnce
  <1> QED BY <1>3, <1>4, <1>5, CountSteps

\* There is nothing to count at first.
LEMMA ReplayedOnceInit == QInit => ReplayedOnce
  <1> SUFFICES ASSUME QInit
               PROVE  ReplayedOnce
    OBVIOUS
  <1>1. DInit /\ Inv /\ Once
    BY InitInv, OnceInit DEF QInit, DInit
  <1>2. \A t \in Topics, p \in Partitions :
            EndOffset(t, p) = 0 /\ settled[t][p] = {} /\ roundRobin[t] = 0
    BY <1>1 DEF DInit, Init, BrokerInit, EndOffset
  <1>3. Source \in Topics /\ Dlq \in Topics /\ ConsumedTopics \subseteq Topics
    BY TopologyAssumption DEF TopicsFor, Dlq, ConsumedTopics
  <1>4. CopiesDescend /\ SettledWithinLogs
    BY <1>1, <1>2, <1>3 DEF DInit, Init, CopiesDescend, SettledWithinLogs
  <1>5. ASSUME NEW l \in Lineages
        PROVE  Conserved(l)
    <2>1. CopiesOf(l) = {}
      BY <1>1, <1>2, <1>3, CopyAt
    <2>2. DeadLettersOf(l) = {}
      BY <1>2, <1>3, DeadLetterAt DEF DeadLettersOf
    <2>3. ReplaysOf(l) = {}
      BY DEF QInit, ReplaysOf
    <2>4. ~Original(l)
      BY <1>2, <1>3, LineageParts DEF Original
    <2>5. oks[l] = 0 /\ dropped[l] = 0
      BY DEF QInit, DInit
    <2> QED BY <2>1, <2>2, <2>3, <2>4, <2>5, FS_EmptySet DEF Conserved, DlqCopies
  <1>6. replayed \in Seq(DlqPositions)
    BY DEF QInit
  <1>7. oks \in [Lineages -> Nat] /\ dropped \in [Lineages -> Nat]
    BY DEF QInit, DInit
  <1> QED BY <1>1, <1>4, <1>5, <1>6, <1>7 DEF ReplayedOnce, Once

\* Nothing is approved, on a log or with a producer at first.
LEMMA QInitInv == QInit => QInv
  <1> SUFFICES ASSUME QInit
               PROVE  QInv
    OBVIOUS
  <1>1. Init /\ Inv
    BY InitInv DEF QInit, DInit
  <1>2. \A p \in Partitions : EndOffset(Dlq, p) = 0
    BY <1>1, TopologyAssumption DEF Init, BrokerInit, EndOffset, TopicsFor, Dlq
  <1>3. DlqPositions = {}
    BY <1>2, DeadLetterAt
  <1>4. ApprovedExist /\ DeadLettersTriedInFull
    BY <1>3 DEF QInit, ApprovedExist, DeadLettersTriedInFull
  <1>5. \A w \in Workers : LastTryBehind(w)
    BY <1>1 DEF Init, LastTryBehind
  <1> QED BY <1>1, <1>4, <1>5, ReplayedOnceInit DEF QInv

\* While operators replay what they like, as often as they like, the invariant of the
\* workers holds: replay_all puts no record on the source topic that the workers
\* could not have found there.
THEOREM ReplayInvariance == QSpec => []QInv
  <1>1. QInit => QInv
    BY QInitInv
  <1>2. QInv /\ [QNext]_qvars => QInv'
    BY ReplayedInvStep, ApprovedExistStep, TriedInFullStep, LastTryBehindStep,
       ReplayedOnceStep DEF QInv
  <1> QED BY <1>1, <1>2, PTL DEF QSpec

\* Where each topic has one worker, and while no thread dies, no consumer is closed and
\* the store drops nothing, copies are conserved: however often a dead letter is
\* replayed, the record and each replay of it are at every moment one waiting copy, one
\* success, one dropped duplicate or one dead letter.
THEOREM CopiesAccountedFor ==
    ASSUME OneWorkerEach
    PROVE  QSpec => []CopiesConserved
  <1>1. QInv => CopiesConserved
    <2> SUFFICES ASSUME QInv, ~torn, NEW l \in Lineages, OnLog(Source, l)
                 PROVE  Cardinality(CopiesOf(l)) + oks[l] + dropped[l] + DlqCopies(l)
                            = 1 + Cardinality(ReplaysOf(l))
      BY DEF CopiesConserved
    <2>1. ReplayedOnce /\ Source \in Topics
      BY TopologyAssumption DEF QInv, TopicsFor
    <2>2. Original(l)
      <3>1. PICK p \in Partitions : \E o \in 0 .. EndOffset(Source, p) - 1 :
                LineageAt(Source, p, o) = l
        BY DEF OnLog
      <3> QED BY <2>1, <3>1 DEF ReplayedOnce, CopiesDescend
    <2>3. Conserved(l)
      BY <2>1 DEF ReplayedOnce
    <2> QED BY <2>2, <2>3 DEF Conserved
  <1> QED BY <1>1, ReplayInvariance, PTL

\* A replayed event climbs the whole ladder again (replay_headers resets x-attempt):
\* without permanent errors, every dead letter had max_attempts tries since it was
\* written or last replayed, whatever else died or was replayed meanwhile.
THEOREM TriedInFull == QSpec => []DeadLettersTriedInFull
  <1>1. QInv => DeadLettersTriedInFull
    BY DEF QInv
  <1> QED BY <1>1, ReplayInvariance, PTL

\* Replays and workers together implement the abstract at-least-once log: a replay
\* is an arrival.
THEOREM ReplayRefinement == QSpec => ImplementsAtLeastOnce
  <1>1. QInit => Promise!Init
    BY PromiseInit DEF QInit, DInit
  <1>2. QInv /\ [QNext]_qvars => [Promise!Next]_(Promise!absVars)
    <2> SUFFICES ASSUME QInv, [QNext]_qvars
                 PROVE  Promise!Next \/ UNCHANGED Promise!absVars
      OBVIOUS
    <2>1. CASE [Next]_vars
      BY <2>1, PromiseStep DEF QInv
    <2>2. ASSUME NEW r \in Records, AppendRecord(Source, r), UNCHANGED <<committed, settled>>
          PROVE  Promise!Next
      <3>1. Source \in Topics /\ TypeOK
        BY TopologyAssumption DEF QInv, Inv, TopicsFor
      <3>2. PICK q \in Partitions : Promise!Grow(Source, q)
        BY <2>2, <3>1, AppendLengthens
      <3>3. Promise!Arrive(Source, q)
        BY <2>2, <3>2 DEF Promise!Arrive, CommittedOffset
      <3> QED BY <3>1, <3>3 DEF Promise!Next
    <2> QED BY <2>1, <2>2, WhoMoves
  <1> QED BY <1>1, <1>2, ReplayInvariance, PTL DEF QSpec, ImplementsAtLeastOnce, Promise!Spec
=============================================================================
