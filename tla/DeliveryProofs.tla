--------------------------- MODULE DeliveryProofs ---------------------------
(***************************************************************************)
(* No event is lost, and none is called again after it succeeded.          *)
(*                                                                         *)
(* Traced follows the identity of an event: every copy, on a log or with a *)
(* producer, carries the id of the record it descends from, which stays on *)
(* the source topic, and what is marked in the store is the id of an event *)
(* that succeeded.  Accounted follows its copies: an offset is settled by  *)
(* a success, by a duplicate of an event that succeeded, or after the next *)
(* copy is written.  With Inv, that nothing unsettled is committed away,   *)
(* an event without conclusion has a copy that a worker will come to.      *)
(* Both hold for any number of workers and consumers of a topic, through   *)
(* every death, rebalance, failed call and late commit.                    *)
(***************************************************************************)
EXTENDS Delivery, WorkerProofs
-----------------------------------------------------------------------------
(* One step, seen from the logs.                                           *)

\* A worker has one current partition.
LEMMA CurrentIsUnique ==
    ASSUME NEW w \in Workers, NEW p \in Partitions, IsCurrent(w, p)
    PROVE  /\ CurrentPartition(w) = p
           /\ LineageInHand(w) = LineageAt(TopicOf[w], p, hand[w][p].first)
  <1>1. Partitions \subseteq Int
    BY PartitionsAssumption DEF Partitions
  <1>2. \A q \in Partitions : IsCurrent(w, q) => q = p
    BY <1>1 DEF IsCurrent
  <1>3. CurrentPartition(w) = p
    BY <1>2 DEF CurrentPartition
  <1> QED BY <1>3 DEF LineageInHand

\* What an offset holds stays, with its lineage and its id.
LEMMA Stays ==
    ASSUME Inv, [Next]_vars, NEW t \in Topics, NEW p \in Partitions,
           NEW o \in 0 .. EndOffset(t, p) - 1
    PROVE  /\ o \in 0 .. EndOffset(t, p)' - 1
           /\ RecordAt(t, p, o)' = RecordAt(t, p, o)
           /\ LineageAt(t, p, o)' = LineageAt(t, p, o)
           /\ IdAt(t, p, o)' = IdAt(t, p, o)
  <1>1. TypeOK /\ log[t][p] \in Seq(Records)
    BY DEF Inv, TypeOK
  <1>2. \/ log'[t][p] = log[t][p]
        \/ \E r \in Records : log'[t][p] = Append(log[t][p], r)
    BY <1>1, LogStep, AppendGrows
  <1>3. o \in 0 .. EndOffset(t, p)' - 1 /\ RecordAt(t, p, o)' = RecordAt(t, p, o)
    BY <1>1, <1>2 DEF EndOffset, RecordAt
  <1> QED BY <1>3 DEF LineageAt, IdAt

\* So does the beginning of a lineage.
LEMMA BeginningStays ==
    ASSUME Inv, [Next]_vars, NEW l, Began(l)
    PROVE  Began(l)' /\ IdOf(l)' = IdOf(l)
  <1>1. /\ l[2] \in Partitions /\ l[3] \in Nat
        /\ l[3] < EndOffset(Source, l[2])
        /\ l \in Origins
    BY DEF Began, Origins
  <1>2. /\ Source \in Topics
        /\ EndOffset(Source, l[2]) \in Nat /\ EndOffset(Source, l[2])' \in Nat
    <2>1. Source \in Topics
      BY TopologyAssumption DEF TopicsFor
    <2>2. log[Source][l[2]] \in Seq(Records) /\ log'[Source][l[2]] \in Seq(Records)
      BY <1>1, <2>1, TypeStep DEF Inv, TypeOK
    <2> QED BY <2>1, <2>2 DEF EndOffset
  <1>3. /\ l[3] \in 0 .. EndOffset(Source, l[2])' - 1
        /\ IdAt(Source, l[2], l[3])' = IdAt(Source, l[2], l[3])
    BY <1>1, <1>2, Stays
  <1> QED BY <1>1, <1>2, <1>3 DEF Began, IdOf

\* The copies that are with a producer.
Held(w) == pc[w] = "send" \/ outgoing[w] # NoMessage

\* Only producers and workers with a copy to send write to the logs.
LEMMA WhoWrites ==
    ASSUME [Next]_vars
    PROVE  \/ UNCHANGED <<log, roundRobin>>
           \/ Produce
           \/ \E w \in Workers : Deliver(w) \/ \E p \in Partitions : Send(w, p)
  <1>1. ASSUME NEW w \in Workers, NEW p \in Partitions,
               \/ PollFetch(w, p) \/ Abandon(w, p) \/ Wait(w, p) \/ Defer(w, p)
               \/ Duplicate(w, p) \/ Admit(w, p) \/ Invoke(w, p) \/ Return(w, p)
               \/ Succeed(w, p) \/ Retry(w, p)
               \/ DeadLetter(w, p)
        PROVE  UNCHANGED <<log, roundRobin>>
    BY <1>1 DEF PollFetch, Abandon, Wait, Defer, Duplicate, Admit, Invoke, Return, Succeed, Retry,
                DeadLetter, Prepare, brokerVars
  <1>2. ASSUME NEW w \in Workers,
               \/ Finish(w) \/ PollAssign(w) \/ PollReturn(w) \/ Commit(w)
               \/ Escape(w) \/ PollError(w) \/ StoreError(w) \/ SendError(w) \/ CommitError(w)
               \/ Build(w) \/ Close(w) \/ \E drain \in BOOLEAN : Stop(w, drain)
        PROVE  UNCHANGED <<log, roundRobin>>
    BY <1>2 DEF Finish, PollAssign, PollReturn, Escape, PollError, StoreError, SendError,
                CommitError, Die, Commit, Build, Close, Stop, brokerVars
  <1>3. CASE Tick \/ Forget \/ UNCHANGED vars
    BY <1>3 DEF Tick, Forget, vars, brokerVars
  <1> QED
    BY <1>1, <1>2, <1>3 DEF Next, Step, Control

\* What a worker writes is the copy that is with its producer.
LEMMA WhoAppends ==
    ASSUME [Next]_vars
    PROVE  \/ UNCHANGED <<log, roundRobin>>
           \/ Produce
           \/ \E w \in Workers :
                 Held(w) /\ AppendRecord(outgoing[w].topic, outgoing[w].record)
  <1>1. ASSUME NEW w \in Workers, Deliver(w) \/ \E p \in Partitions : Send(w, p)
        PROVE  Held(w) /\ AppendRecord(outgoing[w].topic, outgoing[w].record)
    BY <1>1 DEF Send, Deliver, Held
  <1> QED BY <1>1, WhoWrites

\* What an offset holds after an append: what it held, or the record appended.
LEMMA AppendedAt ==
    ASSUME TypeOK, NEW t \in Topics, NEW r \in Records, AppendRecord(t, r),
           NEW u \in Topics, NEW q \in Partitions, NEW o \in 0 .. EndOffset(u, q)' - 1
    PROVE  \/ o \in 0 .. EndOffset(u, q) - 1
           \/ /\ u = t /\ o = EndOffset(u, q)
              /\ q = PartitionForKey(r.key, roundRobin[t])
              /\ RecordAt(u, q, o)' = r
  <1> DEFINE p == PartitionForKey(r.key, roundRobin[t])
  <1>1. log' = [log EXCEPT ![t][p] = Append(@, r)]
    BY DEF AppendRecord
  <1>2. p \in Partitions
    BY PartitionType
  <1> HIDE DEF p
  <1>3. log[u][q] \in Seq(Records)
    BY DEF TypeOK
  <1>4. CASE u = t /\ q = p
    <2>1. log'[u][q] = Append(log[u][q], r)
      BY <1>1, <1>2, <1>4 DEF TypeOK
    <2> QED BY <1>3, <1>4, <2>1 DEF EndOffset, RecordAt, p
  <1>5. CASE ~(u = t /\ q = p)
    <2>1. log'[u][q] = log[u][q]
      BY <1>1, <1>2, <1>5 DEF TypeOK
    <2> QED BY <2>1 DEF EndOffset
  <1> QED BY <1>4, <1>5

\* A producer adds a record of the workload to the source topic.
LEMMA ProducedAt ==
    ASSUME Inv, Produce, NEW u \in Topics, NEW q \in Partitions,
           NEW o \in 0 .. EndOffset(u, q)' - 1
    PROVE  \/ o \in 0 .. EndOffset(u, q) - 1
           \/ /\ u = Source /\ o = EndOffset(u, q)
              /\ q = PartitionForKey(Workload[roundRobin[Source] + 1].key, roundRobin[Source])
              /\ RecordAt(u, q, o)' = Workload[roundRobin[Source] + 1]
              /\ RecordAt(u, q, o)'.origin = NoOrigin
              /\ LineageAt(u, q, o)' = <<Source, q, o>>
  <1> DEFINE r == Workload[roundRobin[Source] + 1]
  <1>1. TypeOK /\ Source \in Topics
    BY TopologyAssumption DEF Inv, TopicsFor
  <1>2. AppendRecord(Source, r) /\ roundRobin[Source] + 1 \in 1 .. Len(Workload)
    BY <1>1, WorkloadAssumption DEF Produce, TypeOK
  <1>3. r \in Records /\ r = NewRecord(r.event, r.key)
    BY <1>2, WorkloadAssumption
  <1> HIDE DEF r
  <1>4. r.origin = NoOrigin
    BY <1>3 DEF NewRecord
  <1>5. \/ o \in 0 .. EndOffset(u, q) - 1
        \/ /\ u = Source /\ o = EndOffset(u, q) /\ RecordAt(u, q, o)' = r
           /\ q = PartitionForKey(r.key, roundRobin[Source])
    BY <1>1, <1>2, <1>3, AppendedAt
  <1>6. RecordAt(u, q, o)' = r => LineageAt(u, q, o)' = <<u, q, o>>
    BY <1>4 DEF LineageAt, Lineage
  <1> QED BY <1>4, <1>5, <1>6 DEF r
-----------------------------------------------------------------------------
(* One step, seen from a worker.                                           *)

\* A thread moves by a step of its own, or is built.
LEMMA Mover ==
    ASSUME TypeOK, [Next]_vars, NEW w \in Workers, pc'[w] # pc[w]
    PROVE  Step(w) \/ Build(w)
  <1>1. Next
    BY DEF vars, clientVars
  <1>2. ~(Produce \/ Tick \/ Forget)
    BY DEF Produce, Tick, Forget, clientVars
  <1>3. PICK v \in Workers : Step(v) \/ Control(v)
    BY <1>1, <1>2 DEF Next
  <1>4. v = w
    BY <1>3, OthersUntouched
  <1>5. ~(Close(w) \/ Deliver(w) \/ \E drain \in BOOLEAN : Stop(w, drain))
    BY DEF Close, Deliver, Stop
  <1> QED BY <1>3, <1>4, <1>5 DEF Control

\* Where a worker is from the answer of the store to the end of the send.
AtCall == {"admitted", "handler", "returned", "send"}

\* The steps that go nowhere near the handler.
LEMMA Elsewhere ==
    ASSUME TypeOK, NEW w \in Workers,
           \/ Finish(w) \/ PollAssign(w) \/ PollReturn(w) \/ Commit(w) \/ Build(w)
           \/ Escape(w) \/ PollError(w) \/ StoreError(w) \/ SendError(w) \/ CommitError(w)
    PROVE  /\ pc'[w] \in {"idle", "poll", "batch", "finished", "dead"}
           /\ pc[w] \in AtCall => pc'[w] = "dead"
  <1>1. CASE Finish(w) \/ PollAssign(w) \/ PollReturn(w) \/ Commit(w) \/ Build(w)
    BY <1>1 DEF Finish, PollAssign, PollReturn, Commit, Build, Goto, TypeOK, AtCall
  <1>2. CASE Escape(w) \/ PollError(w) \/ StoreError(w) \/ SendError(w) \/ CommitError(w)
    BY <1>2 DEF Escape, PollError, StoreError, SendError, CommitError, Die, Goto, TypeOK
  <1> QED BY <1>1, <1>2

\* The places around a call, and the actions that lead from one to the next.
LEMMA Calls ==
    ASSUME TypeOK, [Next]_vars, NEW w \in Workers, pc'[w] # pc[w]
    PROVE  /\ pc'[w] = "admitted" => \E p \in Partitions : Admit(w, p)
           /\ pc'[w] = "handler" => \E p \in Partitions : Invoke(w, p)
           /\ pc'[w] = "returned" => \E p \in Partitions : Return(w, p)
           /\ pc'[w] = "send" => \E p \in Partitions : Retry(w, p) \/ DeadLetter(w, p)
           /\ pc[w] = "admitted" => pc'[w] = "dead" \/ \E p \in Partitions : Invoke(w, p)
           /\ pc[w] = "handler" =>
                 \/ pc'[w] = "dead"
                 \/ \E p \in Partitions : Return(w, p) \/ Retry(w, p) \/ DeadLetter(w, p)
           /\ pc[w] = "returned" => pc'[w] = "dead" \/ \E p \in Partitions : Succeed(w, p)
           /\ pc[w] = "send" => pc'[w] = "dead" \/ \E p \in Partitions : Send(w, p)
  <1>1. Step(w) \/ Build(w)
    BY Mover
  <1>2. CASE \/ Finish(w) \/ PollAssign(w) \/ PollReturn(w) \/ Commit(w) \/ Build(w)
             \/ Escape(w) \/ PollError(w) \/ StoreError(w) \/ SendError(w) \/ CommitError(w)
    BY <1>2, Elsewhere DEF AtCall
  <1>3. ASSUME NEW p \in Partitions,
               \/ PollFetch(w, p) \/ Abandon(w, p) \/ Wait(w, p) \/ Defer(w, p)
               \/ Duplicate(w, p)
        PROVE  pc[w] \notin AtCall /\ pc'[w] \notin AtCall
    BY <1>3 DEF PollFetch, Abandon, Wait, Defer, Duplicate, Ready, Goto, TypeOK, AtCall
  <1>4. ASSUME NEW p \in Partitions
        PROVE  /\ Admit(w, p) => pc[w] \notin AtCall /\ pc'[w] = "admitted"
               /\ Invoke(w, p) => pc[w] = "admitted" /\ pc'[w] = "handler"
               /\ Return(w, p) => pc[w] = "handler" /\ pc'[w] = "returned"
    BY DEF Admit, Invoke, Return, Ready, Goto, TypeOK, AtCall
  <1>5. ASSUME NEW p \in Partitions
        PROVE  /\ Succeed(w, p) => pc[w] = "returned" /\ pc'[w] = "batch"
               /\ Send(w, p) => pc[w] = "send" /\ pc'[w] = "batch"
    BY DEF Succeed, Send, Goto, TypeOK
  <1>6. ASSUME NEW p \in Partitions, Retry(w, p) \/ DeadLetter(w, p)
        PROVE  pc'[w] = "send" /\ pc[w] = "handler"
    BY <1>6 DEF Retry, DeadLetter, Prepare, Goto, TypeOK
  <1>7. CASE \E p \in Partitions : \/ PollFetch(w, p) \/ Abandon(w, p) \/ Wait(w, p)
                                   \/ Defer(w, p) \/ Duplicate(w, p)
    BY <1>3, <1>7 DEF AtCall
  <1>8. CASE \E p \in Partitions : Admit(w, p) \/ Invoke(w, p) \/ Return(w, p)
    BY <1>4, <1>8 DEF AtCall
  <1>9. CASE \E p \in Partitions : \/ Succeed(w, p) \/ Send(w, p)
                                   \/ Retry(w, p) \/ DeadLetter(w, p)
    BY <1>5, <1>6, <1>9
  <1> QED
    BY <1>1, <1>2, <1>7, <1>8, <1>9 DEF Step

-----------------------------------------------------------------------------
(* What the invariant says of one record.                                  *)

\* A lineage that began is one of those the workload can give.
LEMMA BeganIsLineage ==
    ASSUME Inv, SourceIsWorkload, NEW l, Began(l)
    PROVE  l \in Lineages
  <1>1. l \in {Source} \X Partitions \X Nat /\ l[3] < EndOffset(Source, l[2])
    BY DEF Began, Origins
  <1>2. PICK p \in Partitions, o \in Nat : l = <<Source, p, o>>
    BY <1>1
  <1>3. o < EndOffset(Source, p) /\ EndOffset(Source, p) <= roundRobin[Source]
        /\ roundRobin[Source] <= Len(Workload)
    BY <1>1, <1>2 DEF SourceIsWorkload
  <1>4. Source \in Topics
    BY TopologyAssumption DEF TopicsFor
  <1>5. log[Source][p] \in Seq(Records)
    BY <1>4 DEF Inv, TypeOK
  <1>6. EndOffset(Source, p) \in Nat /\ roundRobin[Source] \in Nat /\ Len(Workload) \in Nat
    BY <1>4, <1>5, WorkloadAssumption DEF Inv, TypeOK, EndOffset
  <1>7. o \in 0 .. Len(Workload) - 1
    BY <1>3, <1>6
  <1> QED BY <1>2, <1>7 DEF Lineages

\* The record in hand descends from a record of the source topic, whose id it has.
LEMMA InHand ==
    ASSUME Inv, CopiesTrue, NEW w \in Workers, NEW p \in Partitions, Holds(w, p)
    PROVE  /\ hand[w][p].first \in 0 .. EndOffset(TopicOf[w], p) - 1
           /\ Began(LineageAt(TopicOf[w], p, hand[w][p].first))
           /\ MessageId(w, p) = IdOf(LineageAt(TopicOf[w], p, hand[w][p].first))
  <1>1. hand[w][p].first \in 0 .. EndOffset(TopicOf[w], p) - 1 /\ TopicOf[w] \in Topics
    BY MessageInLog, TopicsOfWorkers
  <1>2. MessageId(w, p) = IdAt(TopicOf[w], p, hand[w][p].first)
    BY DEF MessageId, Message, IdAt
  <1> QED BY <1>1, <1>2 DEF CopiesTrue

\* No event id is the absent one.
LEMMA IdsAreIds == NoId \notin EventIds
  <1>1. \A x : <<x>> # << >>
    OBVIOUS
  <1>2. \A x, y : <<x, y>> # << >>
    OBVIOUS
  <1> QED BY <1>1, <1>2 DEF NoId, EventIds

\* A copy with the producer is well formed, and its lineage is in its origin.
LEMMA HeldCopy ==
    ASSUME Inv, NEW w \in Workers, OutgoingTrue(w), Held(w)
    PROVE  /\ outgoing[w].topic \in Topics /\ outgoing[w].topic # Source
           /\ outgoing[w].record \in Records
           /\ Began(outgoing[w].record.origin)
           /\ \A t, p, o : /\ Lineage(t, p, o, outgoing[w].record) = outgoing[w].record.origin
                           /\ EventIdOf(t, o, outgoing[w].record) = IdOf(outgoing[w].record.origin)
  <1>1. outgoing[w].topic \in Topics /\ outgoing[w].record \in Records
    BY DEF Inv, TypeOK
  <1>2. /\ Began(outgoing[w].record.origin) /\ outgoing[w].topic # Source
        /\ outgoing[w].record.event = IdOf(outgoing[w].record.origin)
        /\ outgoing[w].record.event # NoId
    BY DEF OutgoingTrue, Held
  <1>3. \A x \in Origins : x # NoOrigin
    BY DEF Origins, NoOrigin
  <1>4. outgoing[w].record.origin # NoOrigin
    BY <1>2, <1>3 DEF Began
  <1> QED BY <1>1, <1>2, <1>4 DEF Lineage, EventIdOf

\* The copy about to be sent is traced to the record in hand, wherever it is written.
LEMMA CopyInHand ==
    ASSUME NEW w \in Workers, NEW p \in Partitions, CopyOfHand(w), IsCurrent(w, p)
    PROVE  /\ outgoing[w].record.origin = LineageAt(TopicOf[w], p, hand[w][p].first)
           /\ \A t, q, o : Lineage(t, q, o, outgoing[w].record) = outgoing[w].record.origin
  <1>1. PICK a \in Partitions :
            /\ IsCurrent(w, a)
            /\ outgoing[w].record.origin = LineageAt(TopicOf[w], a, hand[w][a].first)
    BY DEF CopyOfHand
  <1>2. CurrentPartition(w) = a /\ CurrentPartition(w) = p
    BY <1>1, CurrentIsUnique
  <1>3. \A t, q, o : LineageAt(t, q, o) # NoOrigin
    BY DEF LineageAt, Lineage, NoOrigin
  <1> QED BY <1>1, <1>2, <1>3 DEF Lineage
-----------------------------------------------------------------------------
(* Every copy can be traced.                                               *)

\* The records that are written next are copies of the one in hand, copies a producer
\* held, or new ones on the source topic.
LEMMA CopiesTrueStep ==
    ASSUME Inv, Traced, [Next]_vars
    PROVE  CopiesTrue'
  <1>0. TypeOK
    BY DEF Inv
  <1> SUFFICES ASSUME NEW t \in Topics, NEW p \in Partitions,
                      NEW o \in 0 .. EndOffset(t, p)' - 1
               PROVE  /\ Began(LineageAt(t, p, o))'
                      /\ IdAt(t, p, o)' = IdOf(LineageAt(t, p, o))'
                      /\ t = Source => RecordAt(t, p, o)'.origin = NoOrigin
    BY DEF CopiesTrue
  <1>1. CASE o \in 0 .. EndOffset(t, p) - 1
    <2> DEFINE l == LineageAt(t, p, o)
    <2>1. Began(l) /\ IdAt(t, p, o) = IdOf(l) /\ (t = Source => RecordAt(t, p, o).origin = NoOrigin)
      BY <1>1 DEF Traced, CopiesTrue
    <2>2. l' = l /\ IdAt(t, p, o)' = IdAt(t, p, o) /\ RecordAt(t, p, o)' = RecordAt(t, p, o)
      BY <1>1, Stays
    <2> HIDE DEF l
    <2>3. \A k : Began(k) => Began(k)' /\ IdOf(k)' = IdOf(k)
      BY BeginningStays
    <2> QED BY <2>1, <2>2, <2>3 DEF l
  <1>2. CASE Produce /\ o \notin 0 .. EndOffset(t, p) - 1
    <2>1. t = Source /\ RecordAt(t, p, o)'.origin = NoOrigin /\ LineageAt(t, p, o)' = <<Source, p, o>>
      BY <1>2, ProducedAt
    <2>2. o \in Nat /\ o < EndOffset(t, p)'
      <3>1. log'[t][p] \in Seq(Records)
        BY TypeStep DEF TypeOK
      <3> QED BY <3>1 DEF EndOffset
    <2>3. Began(<<Source, p, o>>)'
      BY <2>1, <2>2 DEF Began, Origins
    <2> QED BY <2>1, <2>3 DEF IdOf
  <1>3. ASSUME NEW w \in Workers, Held(w), AppendRecord(outgoing[w].topic, outgoing[w].record),
               o \notin 0 .. EndOffset(t, p) - 1
        PROVE  /\ Began(LineageAt(t, p, o))'
               /\ IdAt(t, p, o)' = IdOf(LineageAt(t, p, o))'
               /\ t = Source => RecordAt(t, p, o)'.origin = NoOrigin
    <2> DEFINE r == outgoing[w].record
               l == r.origin
    <2>1. /\ outgoing[w].topic \in Topics /\ outgoing[w].topic # Source
          /\ r \in Records /\ Began(l)
          /\ Lineage(t, p, o, r) = l /\ EventIdOf(t, o, r) = IdOf(l)
      BY <1>3, HeldCopy DEF Traced
    <2>2. t = outgoing[w].topic /\ RecordAt(t, p, o)' = r
      BY <1>0, <1>3, <2>1, AppendedAt
    <2>3. LineageAt(t, p, o)' = l /\ IdAt(t, p, o)' = IdOf(l)
      BY <2>1, <2>2 DEF LineageAt, IdAt
    <2> HIDE DEF l, r
    <2>4. \A k : Began(k) => Began(k)' /\ IdOf(k)' = IdOf(k)
      BY BeginningStays
    <2> QED BY <2>1, <2>2, <2>3, <2>4 DEF Began, IdOf
  <1>4. CASE UNCHANGED <<log, roundRobin>>
    BY <1>1, <1>4 DEF EndOffset
  <1> QED BY <1>1, <1>2, <1>3, <1>4, WhoAppends

\* Only the producer writes to the source topic: no worker retries to it.
LEMMA SourceIsWorkloadStep ==
    ASSUME Inv, Traced, [Next]_vars
    PROVE  SourceIsWorkload'
  <1>0. TypeOK /\ Source \in Topics /\ Len(Workload) \in Nat
    BY TopologyAssumption, WorkloadAssumption DEF Inv, TopicsFor
  <1>1. roundRobin[Source] \in Nat /\ \A p \in Partitions : EndOffset(Source, p) \in Nat
    <2>1. \A p \in Partitions : log[Source][p] \in Seq(Records)
      BY <1>0 DEF TypeOK
    <2> QED BY <1>0, <2>1 DEF TypeOK, EndOffset
  <1>2. SourceIsWorkload
    BY DEF Traced
  <1>3. CASE roundRobin'[Source] = roundRobin[Source] /\ log'[Source] = log[Source]
    <2>1. \A p \in Partitions, o \in Nat :
              /\ EndOffset(Source, p)' = EndOffset(Source, p)
              /\ RecordAt(Source, p, o)' = RecordAt(Source, p, o)
      BY <1>3 DEF EndOffset, RecordAt
    <2> QED BY <1>2, <1>3, <2>1 DEF SourceIsWorkload
  <1>4. ASSUME NEW w \in Workers, Held(w), AppendRecord(outgoing[w].topic, outgoing[w].record)
        PROVE  roundRobin'[Source] = roundRobin[Source] /\ log'[Source] = log[Source]
    <2>1. outgoing[w].topic \in Topics /\ outgoing[w].topic # Source
      BY <1>4, HeldCopy DEF Traced
    <2> QED BY <1>0, <1>4, <2>1 DEF AppendRecord, TypeOK
  <1>5. CASE Produce
    <2> DEFINE n == roundRobin[Source]
    <2> DEFINE Distinct(p, q, o, u) ==
                   \E i, j \in 1 .. n :
                       /\ RecordAt(Source, p, o) = Workload[i]
                       /\ RecordAt(Source, q, u) = Workload[j]
                       /\ i = j => p = q /\ o = u
    <2>0. \A p, q \in Partitions :
              \A o \in 0 .. EndOffset(Source, p) - 1, u \in 0 .. EndOffset(Source, q) - 1 :
                  Distinct(p, q, o, u)
      BY <1>2 DEF SourceIsWorkload
    <2> HIDE DEF Distinct
    <2>1. n < Len(Workload) /\ roundRobin'[Source] = n + 1
      BY <1>0, <1>5 DEF Produce, AppendRecord, TypeOK
    <2>2. \A p \in Partitions : EndOffset(Source, p)' <= EndOffset(Source, p) + 1
      <3> SUFFICES ASSUME NEW p \in Partitions
                   PROVE  EndOffset(Source, p)' <= EndOffset(Source, p) + 1
        OBVIOUS
      <3>1. \/ log'[Source][p] = log[Source][p]
            \/ \E r \in Records : log'[Source][p] = Append(log[Source][p], r)
        BY <1>0, LogStep, AppendGrows
      <3>2. log[Source][p] \in Seq(Records)
        BY <1>0 DEF TypeOK
      <3> QED BY <3>1, <3>2 DEF EndOffset
    <2>3. ASSUME NEW p \in Partitions
          PROVE  EndOffset(Source, p)' <= roundRobin'[Source]
      <3>1. EndOffset(Source, p)' \in Nat
        <4>1. log'[Source][p] \in Seq(Records)
          BY <1>0, TypeStep DEF TypeOK
        <4> QED BY <4>1 DEF EndOffset
      <3>2. EndOffset(Source, p) <= n
        BY <1>2 DEF SourceIsWorkload
      <3> QED BY <1>1, <2>1, <2>2, <2>3, <3>1, <3>2
    <2>4. ASSUME NEW p \in Partitions, NEW q \in Partitions,
                 NEW o \in 0 .. EndOffset(Source, p)' - 1,
                 NEW u \in 0 .. EndOffset(Source, q)' - 1
          PROVE  \E i, j \in 1 .. roundRobin'[Source] :
                     /\ RecordAt(Source, p, o)' = Workload[i]
                     /\ RecordAt(Source, q, u)' = Workload[j]
                     /\ i = j => p = q /\ o = u
      <3> USE <1>0, <1>1, <2>1
      <3>1. \A a \in Partitions : \A x \in 0 .. EndOffset(Source, a) - 1 :
                RecordAt(Source, a, x)' = RecordAt(Source, a, x)
        BY Stays
      <3>2. \A a \in Partitions : \A x \in 0 .. EndOffset(Source, a) - 1 :
                \E i \in 1 .. n : RecordAt(Source, a, x) = Workload[i]
        BY <2>0 DEF Distinct
      <3>3. \A a \in Partitions : \A x \in 0 .. EndOffset(Source, a)' - 1 :
                \/ x \in 0 .. EndOffset(Source, a) - 1
                \/ /\ x = EndOffset(Source, a)
                   /\ a = PartitionForKey(Workload[n + 1].key, n)
                   /\ RecordAt(Source, a, x)' = Workload[n + 1]
        BY <1>5, ProducedAt
      <3> DEFINE Old(a, x) == x \in 0 .. EndOffset(Source, a) - 1
      <3> HIDE DEF n
      <3>4. CASE Old(p, o) /\ Old(q, u)
        <4>0. /\ o \in 0 .. EndOffset(Source, p) - 1
              /\ u \in 0 .. EndOffset(Source, q) - 1
          BY <3>4
        <4>1. Distinct(p, q, o, u)
          BY <2>0, <4>0
        <4>2. PICK i, j \in 1 .. n :
                  /\ RecordAt(Source, p, o) = Workload[i]
                  /\ RecordAt(Source, q, u) = Workload[j]
                  /\ i = j => p = q /\ o = u
          BY <4>1 DEF Distinct
        <4>3. i \in 1 .. n + 1 /\ j \in 1 .. n + 1
          BY DEF n
        <4>4. RecordAt(Source, p, o)' = Workload[i]
          BY <3>1, <3>4, <4>2
        <4>5. RecordAt(Source, q, u)' = Workload[j]
          BY <3>1, <3>4, <4>2
        <4>6. i = j => p = q /\ o = u
          BY <4>2
        <4>7. roundRobin'[Source] = n + 1
          BY <2>1
        <4> QED BY <4>3, <4>4, <4>5, <4>6, <4>7
      <3>5. CASE Old(p, o) /\ ~Old(q, u)
        <4>1. PICK i \in 1 .. n : RecordAt(Source, p, o) = Workload[i]
          BY <3>2, <3>5
        <4>2. i \in 1 .. n + 1 /\ n + 1 \in 1 .. n + 1 /\ i # n + 1
          BY DEF n
        <4> QED BY <3>1, <3>3, <3>5, <4>1, <4>2
      <3>6. CASE ~Old(p, o) /\ Old(q, u)
        <4>1. PICK j \in 1 .. n : RecordAt(Source, q, u) = Workload[j]
          BY <3>2, <3>6
        <4>2. j \in 1 .. n + 1 /\ n + 1 \in 1 .. n + 1 /\ j # n + 1
          BY DEF n
        <4> QED BY <3>1, <3>3, <3>6, <4>1, <4>2
      <3>7. CASE ~Old(p, o) /\ ~Old(q, u)
        <4>1. n + 1 \in 1 .. n + 1
          BY DEF n
        <4> QED BY <3>3, <3>7, <4>1
      <3> QED BY <3>4, <3>5, <3>6, <3>7
    <2> QED BY <2>1, <2>3, <2>4, <1>1 DEF SourceIsWorkload
  <1> QED BY <1>3, <1>4, <1>5, WhoAppends

\* A failed call prepares a copy for another topic: for a retry tier with the due time
\* of that tier.
LEMMA Failing ==
    ASSUME Inv, NEW w \in Workers, NEW p \in Partitions, Retry(w, p) \/ DeadLetter(w, p)
    PROVE  /\ IsCurrent(w, p)
           /\ \E topic \in Topics, due \in Nat :
                 /\ topic # Source
                 /\ Prepare(w, NextHop(w, p, topic, due))
                 /\ topic \in ConsumedTopics =>
                       /\ ThisAttempt(w, p) \in DOMAIN Delays
                       /\ due = now + Delays[ThisAttempt(w, p)]
  <1>0. IsCurrent(w, p) /\ Holds(w, p)
    BY DEF Retry, DeadLetter, IsCurrent
  <1>1. SourceTopic(TopicOf[w], Message(w, p)) = Source
    BY <1>0, OriginType
  <1>2. CASE Retry(w, p)
    <2> DEFINE due   == now + Delays[ThisAttempt(w, p)]
               topic == RetryTopic(Source, Delays[ThisAttempt(w, p)])
    <2>1. ThisAttempt(w, p) \in DOMAIN Delays
      BY <1>2 DEF Retry
    <2>2. topic \in RetryTopics(Source, Delays)
      BY <2>1 DEF RetryTopics
    <2>3. topic \in Topics /\ topic # Source
      BY <2>2, TopologyAssumption, TopicsApart DEF TopicsFor
    <2>4. due \in Nat
      <3>1. now \in Nat /\ Delays[ThisAttempt(w, p)] \in Nat
        BY <2>1, PolicyAssumption DEF Inv, TypeOK
      <3> QED BY <3>1
    <2>5. Prepare(w, NextHop(w, p, topic, due))
      BY <1>1, <1>2 DEF Retry
    <2> HIDE DEF topic
    <2> QED BY <1>0, <2>1, <2>3, <2>4, <2>5
  <1>3. CASE DeadLetter(w, p)
    <2> DEFINE topic == DlqTopic(Source)
    <2>1. topic \in Topics /\ topic # Source /\ topic \notin ConsumedTopics
      BY TopologyAssumption, TopicsApart DEF TopicsFor
    <2>2. Prepare(w, NextHop(w, p, topic, 0))
      BY <1>1, <1>3 DEF DeadLetter
    <2> HIDE DEF topic
    <2> QED BY <1>0, <2>1, <2>2
  <1> QED BY <1>2, <1>3

\* The headers of the copy that is prepared.
LEMMA NextHopHeaders ==
    ASSUME Inv, NEW w \in Workers, NEW p \in Partitions, Holds(w, p),
           NEW topic, NEW due
    PROVE  /\ NextHop(w, p, topic, due).topic = topic
           /\ LET r == NextHop(w, p, topic, due).record
              IN  /\ r.origin = LineageAt(TopicOf[w], p, hand[w][p].first)
                  /\ r.event = MessageId(w, p)
                  /\ r.attempt = ThisAttempt(w, p)
                  /\ r.not_before = due
  <1> DEFINE m == Message(w, p)
             r == NextHop(w, p, topic, due).record
  <1>1. m \in Records
    BY MessageInLog
  <1>2. r = [m EXCEPT !.event = MessageId(w, p),
                      !.origin = LineageAt(TopicOf[w], p, hand[w][p].first),
                      !.attempt = ThisAttempt(w, p), !.not_before = due]
    BY DEF NextHop, FailureHeaders, MessageId, LineageAt, Message
  <1>3. NextHop(w, p, topic, due).topic = topic
    BY DEF NextHop
  <1> HIDE DEF m, r
  <1>4. /\ r.origin = LineageAt(TopicOf[w], p, hand[w][p].first)
        /\ r.event = MessageId(w, p)
        /\ r.attempt = ThisAttempt(w, p)
        /\ r.not_before = due
    BY <1>1, <1>2 DEF Records
  <1> QED BY <1>3, <1>4 DEF r

\* A copy stays with the producer as it is, until it is sent or lost.
LEMMA OutgoingKept ==
    ASSUME TypeOK, [Next]_vars, NEW w \in Workers, pc[w] = "send" \/ pc'[w] # "send"
    PROVE  /\ outgoing'[w] = outgoing[w] \/ (outgoing'[w] = NoMessage /\ pc'[w] # "send")
           /\ pc[w] = "send" /\ pc'[w] = "send" => hand'[w] = hand[w]
  <1> USE DEF TypeOK, Goto
  <1>1. CASE Finish(w) \/ PollAssign(w) \/ PollReturn(w) \/ Commit(w)
    BY <1>1 DEF Finish, PollAssign, PollReturn, Commit
  <1>2. CASE Escape(w) \/ PollError(w) \/ StoreError(w) \/ SendError(w) \/ CommitError(w)
    BY <1>2 DEF Escape, PollError, StoreError, SendError, CommitError, Die
  <1>3. ASSUME NEW p \in Partitions,
               \/ PollFetch(w, p) \/ Abandon(w, p) \/ Wait(w, p) \/ Defer(w, p)
               \/ Duplicate(w, p) \/ Admit(w, p) \/ Invoke(w, p) \/ Return(w, p) \/ Succeed(w, p)
        PROVE  outgoing'[w] = outgoing[w] /\ pc[w] # "send"
    BY <1>3 DEF PollFetch, Abandon, Wait, Defer, Duplicate, Admit, Invoke, Return, Succeed, Ready
  <1>4. ASSUME NEW p \in Partitions, Retry(w, p) \/ DeadLetter(w, p)
        PROVE  FALSE
    BY <1>4 DEF Retry, DeadLetter, Prepare
  <1>5. ASSUME NEW p \in Partitions, Send(w, p)
        PROVE  outgoing'[w] = NoMessage /\ pc'[w] = "batch"
    BY <1>5 DEF Send
  <1>6. CASE Build(w) \/ Deliver(w)
    BY <1>6 DEF Build, Deliver
  <1>7. CASE Close(w) \/ \E drain \in BOOLEAN : Stop(w, drain)
    BY <1>7 DEF Close, Stop
  <1>8. ASSUME NEW v \in Workers, v # w, Step(v) \/ Control(v)
        PROVE  outgoing'[w] = outgoing[w] /\ hand'[w] = hand[w]
    BY <1>8, OthersUntouched
  <1>9. CASE Produce \/ Tick \/ Forget \/ UNCHANGED vars
    BY <1>9 DEF Produce, Tick, Forget, vars, clientVars
  <1> QED
    BY <1>1, <1>2, <1>3, <1>4, <1>5, <1>6, <1>7, <1>8, <1>9 DEF Next, Step, Control

\* The record in hand stays what it is.
LEMMA HandStays ==
    ASSUME Inv, [Next]_vars, NEW w \in Workers, NEW p \in Partitions, Holds(w, p),
           hand'[w] = hand[w]
    PROVE  /\ LineageAt(TopicOf[w], p, hand[w][p].first)' =
                  LineageAt(TopicOf[w], p, hand[w][p].first)
           /\ Message(w, p)' = Message(w, p)
           /\ IsCurrent(w, p)' <=> IsCurrent(w, p)
  <1>1. PICK o \in 0 .. EndOffset(TopicOf[w], p) - 1 : o = hand[w][p].first
    BY MessageInLog
  <1>2. RecordAt(TopicOf[w], p, o)' = RecordAt(TopicOf[w], p, o)
    BY <1>1, TopicsOfWorkers, Stays
  <1>3. RecordAt(TopicOf[w], p, hand[w][p].first)' = RecordAt(TopicOf[w], p, hand[w][p].first)
    BY <1>1, <1>2 DEF RecordAt
  <1> QED BY <1>3 DEF LineageAt, Lineage, Message, IsCurrent, Holds

\* Until it is sent, the copy and the hand stay together.
LEMMA CopyOfHandStep ==
    ASSUME Inv, [Next]_vars, NEW w \in Workers, pc[w] = "send" => CopyOfHand(w),
           pc'[w] = "send"
    PROVE  CopyOfHand(w)'
  <1>0. TypeOK
    BY DEF Inv
  <1>1. CASE pc[w] # "send"
    <2>1. PICK p \in Partitions : Retry(w, p) \/ DeadLetter(w, p)
      BY <1>0, <1>1, Calls
    <2>2. PICK topic \in Topics, due \in Nat : Prepare(w, NextHop(w, p, topic, due))
      BY <2>1, Failing
    <2>3. IsCurrent(w, p) /\ Holds(w, p)
      BY <2>1, Failing DEF IsCurrent
    <2> DEFINE l == LineageAt(TopicOf[w], p, hand[w][p].first)
    <2>4. NextHop(w, p, topic, due).record.origin = l
      BY <2>2, <2>3, NextHopHeaders
    <2>5. outgoing'[w] = NextHop(w, p, topic, due) /\ hand' = hand
      BY <1>0, <2>2 DEF Prepare, TypeOK
    <2>6. IsCurrent(w, p)' /\ l' = l
      BY <2>3, <2>5, HandStays
    <2> QED BY <2>4, <2>5, <2>6 DEF CopyOfHand
  <1>2. CASE pc[w] = "send"
    <2>1. outgoing'[w] = outgoing[w] /\ hand'[w] = hand[w]
      BY <1>0, <1>2, OutgoingKept
    <2>2. PICK p \in Partitions :
              /\ IsCurrent(w, p)
              /\ outgoing[w].record.origin = LineageAt(TopicOf[w], p, hand[w][p].first)
      BY <1>2 DEF CopyOfHand
    <2> QED BY <2>1, <2>2, HandStays DEF CopyOfHand, IsCurrent
  <1> QED BY <1>1, <1>2

\* A copy that is prepared has the headers of the record in hand.
LEMMA OutgoingTrueStep ==
    ASSUME Inv, Traced, [Next]_vars, NEW w \in Workers
    PROVE  OutgoingTrue(w)'
  <1>0. TypeOK /\ TopicOf[w] \in Topics
    BY TopicsOfWorkers DEF Inv
  <1>1. \A k : Began(k) => Began(k)' /\ IdOf(k)' = IdOf(k)
    BY BeginningStays
  <1>2. OutgoingTrue(w)
    BY DEF Traced
  <1>3. CASE pc'[w] = "send" /\ pc[w] # "send"
    <2>1. PICK p \in Partitions : Retry(w, p) \/ DeadLetter(w, p)
      BY <1>0, <1>3, Calls
    <2>2. PICK topic \in Topics, due \in Nat : topic # Source /\ Prepare(w, NextHop(w, p, topic, due))
      BY <2>1, Failing
    <2>3. IsCurrent(w, p) /\ Holds(w, p)
      BY <2>1, Failing DEF IsCurrent
    <2> DEFINE l == LineageAt(TopicOf[w], p, hand[w][p].first)
               r == NextHop(w, p, topic, due).record
    <2>4. /\ r.origin = l /\ r.event = MessageId(w, p)
          /\ NextHop(w, p, topic, due).topic # Source
      BY <2>2, <2>3, NextHopHeaders
    <2>5. /\ Began(l) /\ MessageId(w, p) = IdOf(l)
          /\ hand[w][p].first \in 0 .. EndOffset(TopicOf[w], p) - 1
      BY <2>3, InHand DEF Traced
    <2>6. r.event # NoId
      BY <2>3, <2>4, MessageIdType, IdsAreIds
    <2>7. outgoing'[w] = NextHop(w, p, topic, due) /\ hand' = hand
      BY <1>0, <2>2 DEF Prepare, TypeOK
    <2>8. l' = l
      BY <2>3, <2>7, HandStays
    <2>9. outgoing'[w].record.origin = l'
      BY <2>4, <2>7, <2>8
    <2>10. /\ Began(outgoing[w].record.origin)'
           /\ outgoing'[w].record.event = IdOf(outgoing[w].record.origin)'
      <3> HIDE DEF l
      <3>1. Began(l)' /\ IdOf(l)' = IdOf(l)
        BY <1>1, <2>5, <2>8 DEF Began, IdOf
      <3> QED BY <2>4, <2>5, <2>7, <2>9, <3>1 DEF Began, IdOf
    <2>11. CopyOfHand(w)'
      BY <1>3, CopyOfHandStep
    <2> QED BY <2>4, <2>6, <2>7, <2>9, <2>10, <2>11 DEF OutgoingTrue
  <1>4. CASE pc[w] = "send" /\ pc'[w] = "send"
    <2>1. outgoing'[w] = outgoing[w]
      BY <1>0, <1>4, OutgoingKept
    <2>2. CopyOfHand(w)'
      BY <1>2, <1>4, CopyOfHandStep DEF OutgoingTrue
    <2> QED BY <1>1, <1>2, <1>4, <2>1, <2>2 DEF OutgoingTrue, Began, IdOf
  <1>5. CASE pc'[w] # "send"
    <2>1. outgoing'[w] = outgoing[w] \/ outgoing'[w] = NoMessage
      BY <1>0, <1>5, OutgoingKept
    <2> QED BY <1>1, <1>2, <1>5, <2>1 DEF OutgoingTrue, NoMessage
  <1> QED BY <1>3, <1>4, <1>5

\* Only what is in hand is settled, and what is in hand is in the log.
LEMMA SettledWithinLogsStep ==
    ASSUME Inv, SettledWithinLogs, [Next]_vars
    PROVE  SettledWithinLogs'
  <1> SUFFICES ASSUME NEW t \in Topics, NEW p \in Partitions, NEW o \in settled'[t][p]
               PROVE  o \in 0 .. EndOffset(t, p)' - 1
    BY DEF SettledWithinLogs
  <1>1. CASE o \in settled[t][p]
    <2>1. o \in 0 .. EndOffset(t, p) - 1
      BY <1>1 DEF SettledWithinLogs
    <2> QED BY <2>1, Stays
  <1>2. CASE o \notin settled[t][p]
    <2>1. PICK w \in Workers, q \in Partitions : Holds(w, q) /\ Settle(w, q)
      BY <1>2, SettledStep
    <2>2. t = TopicOf[w] /\ p = q /\ o = hand[w][q].first
      <3>1. settled \in [Topics -> [Partitions -> SUBSET Nat]] /\ TopicOf[w] \in Topics
        BY TopicsOfWorkers DEF Inv, TypeOK
      <3> QED BY <1>2, <2>1, <3>1 DEF Settle
    <2>3. o \in 0 .. EndOffset(t, p) - 1
      BY <2>1, <2>2, MessageInLog
    <2> QED BY <2>3, Stays
  <1> QED BY <1>1, <1>2
-----------------------------------------------------------------------------
(* What the history records.                                               *)

\* One thread moves in a step, with the record in its hand.
LEMMA OneMoves ==
    ASSUME TypeOK, [Next]_vars, NEW w \in Workers, NEW p \in Partitions, IsCurrent(w, p),
           pc'[w] # pc[w]
    PROVE  /\ Moved(pc[w], pc'[w]) = {LineageAt(TopicOf[w], p, hand[w][p].first)}
           /\ \A from, to : <<from, to>> # <<pc[w], pc'[w]>> /\ from # to => Moved(from, to) = {}
  <1>1. \A v \in Workers : v # w => pc'[v] = pc[v]
    <2> SUFFICES ASSUME NEW v \in Workers, v # w
                 PROVE  pc'[v] = pc[v]
      OBVIOUS
    <2> QED BY Mover, OthersUntouched DEF Control
  <1>2. LineageInHand(w) = LineageAt(TopicOf[w], p, hand[w][p].first)
    BY CurrentIsUnique
  <1>3. Moved(pc[w], pc'[w]) = {LineageInHand(w)}
    BY <1>1 DEF Moved
  <1>4. \A from, to : <<from, to>> # <<pc[w], pc'[w]>> /\ from # to => Moved(from, to) = {}
    BY <1>1 DEF Moved
  <1> QED BY <1>2, <1>3, <1>4

\* The actions around a handler call, with the lineage of the record: those that the
\* history counts, and the rest, which it does not.
LEMMA CallsMove ==
    ASSUME TypeOK, [Next]_vars, NEW w \in Workers, NEW p \in Partitions,
           NEW l, l = LineageAt(TopicOf[w], p, hand[w][p].first)
    PROVE  /\ Admit(w, p) =>
                /\ IsCurrent(w, p) /\ pc'[w] = "admitted" /\ Admitted = {l}
                /\ Entered = {} /\ Moved("returned", "batch") = {} /\ Moved("handler", "send") = {}
           /\ Invoke(w, p) =>
                /\ IsCurrent(w, p) /\ pc[w] = "admitted" /\ pc'[w] = "handler"
                /\ Entered = {l} /\ Moved("returned", "batch") = {} /\ Moved("handler", "send") = {}
           /\ Return(w, p) =>
                /\ IsCurrent(w, p) /\ pc[w] = "handler" /\ pc'[w] = "returned"
                /\ Entered = {} /\ Moved("returned", "batch") = {} /\ Moved("handler", "send") = {}
           /\ Succeed(w, p) =>
                /\ IsCurrent(w, p) /\ pc[w] = "returned" /\ pc'[w] = "batch"
                /\ Entered = {} /\ Moved("returned", "batch") = {l} /\ Moved("handler", "send") = {}
           /\ Retry(w, p) \/ DeadLetter(w, p) =>
                /\ IsCurrent(w, p) /\ pc[w] = "handler" /\ pc'[w] = "send"
                /\ Entered = {} /\ Moved("returned", "batch") = {} /\ Moved("handler", "send") = {l}
  <1>1. ASSUME IsCurrent(w, p), pc'[w] # pc[w]
        PROVE  /\ Moved(pc[w], pc'[w]) = {l}
               /\ \A from, to : <<from, to>> # <<pc[w], pc'[w]>> /\ from # to => Moved(from, to) = {}
    BY <1>1, OneMoves
  <1>2. ASSUME Admit(w, p)
        PROVE  /\ IsCurrent(w, p) /\ pc'[w] = "admitted" /\ Admitted = {l}
               /\ Entered = {} /\ Moved("returned", "batch") = {} /\ Moved("handler", "send") = {}
    <2>1. IsCurrent(w, p) /\ pc[w] \in {"batch", "wait"} /\ pc'[w] = "admitted"
      BY <1>2 DEF Admit, Ready, Goto, TypeOK
    <2> QED BY <1>1, <2>1 DEF Entered, Admitted
  <1>3. ASSUME Invoke(w, p)
        PROVE  /\ IsCurrent(w, p) /\ pc[w] = "admitted" /\ pc'[w] = "handler"
               /\ Entered = {l} /\ Moved("returned", "batch") = {} /\ Moved("handler", "send") = {}
    <2>1. IsCurrent(w, p) /\ pc[w] = "admitted" /\ pc'[w] = "handler"
      BY <1>3 DEF Invoke, Goto, TypeOK
    <2> QED BY <1>1, <2>1 DEF Entered
  <1>4. ASSUME Return(w, p)
        PROVE  /\ IsCurrent(w, p) /\ pc[w] = "handler" /\ pc'[w] = "returned"
               /\ Entered = {} /\ Moved("returned", "batch") = {} /\ Moved("handler", "send") = {}
    <2>1. IsCurrent(w, p) /\ pc[w] = "handler" /\ pc'[w] = "returned"
      BY <1>4 DEF Return, Goto, TypeOK
    <2> QED BY <1>1, <2>1 DEF Entered
  <1>5. ASSUME Succeed(w, p)
        PROVE  /\ IsCurrent(w, p) /\ pc[w] = "returned" /\ pc'[w] = "batch"
               /\ Entered = {} /\ Moved("returned", "batch") = {l} /\ Moved("handler", "send") = {}
    <2>1. IsCurrent(w, p) /\ pc[w] = "returned" /\ pc'[w] = "batch"
      BY <1>5 DEF Succeed, Goto, TypeOK
    <2> QED BY <1>1, <2>1 DEF Entered
  <1>6. ASSUME Retry(w, p) \/ DeadLetter(w, p)
        PROVE  /\ IsCurrent(w, p) /\ pc[w] = "handler" /\ pc'[w] = "send"
               /\ Entered = {} /\ Moved("returned", "batch") = {} /\ Moved("handler", "send") = {l}
    <2>1. IsCurrent(w, p) /\ pc[w] = "handler" /\ pc'[w] = "send"
      BY <1>6 DEF Retry, DeadLetter, Prepare, Goto, TypeOK
    <2> QED BY <1>1, <2>1 DEF Entered
  <1> QED BY <1>2, <1>3, <1>4, <1>5, <1>6

\* Nothing else makes a move that the history records.
LEMMA OnlyCallsMove ==
    ASSUME TypeOK, [Next]_vars
    PROVE  /\ Admitted # {} => \E w \in Workers, p \in Partitions : Admit(w, p)
           /\ Entered # {} => \E w \in Workers, p \in Partitions : Invoke(w, p)
           /\ Moved("returned", "batch") # {} =>
                 \E w \in Workers, p \in Partitions : Succeed(w, p)
           /\ Moved("handler", "send") # {} =>
                 \E w \in Workers, p \in Partitions : Retry(w, p) \/ DeadLetter(w, p)
  BY Calls DEF Admitted, Entered, Moved

\* Only a call that returned marks an event.
LEMMA WhoMarks ==
    ASSUME [Next]_vars
    PROVE  \/ marks' \subseteq marks
           \/ \E w \in Workers, p \in Partitions : Succeed(w, p)
  <1>1. ASSUME NEW w \in Workers, NEW p \in Partitions,
               \/ PollFetch(w, p) \/ Abandon(w, p) \/ Wait(w, p) \/ Defer(w, p)
               \/ Duplicate(w, p) \/ Admit(w, p) \/ Invoke(w, p) \/ Return(w, p)
               \/ Retry(w, p) \/ DeadLetter(w, p)
               \/ Send(w, p)
        PROVE  marks' = marks
    BY <1>1 DEF PollFetch, Abandon, Wait, Defer, Duplicate, Admit, Invoke, Return, Retry,
                DeadLetter,
                Prepare, Send
  <1>2. ASSUME NEW w \in Workers,
               \/ Finish(w) \/ PollAssign(w) \/ PollReturn(w) \/ Commit(w)
               \/ Escape(w) \/ PollError(w) \/ StoreError(w) \/ SendError(w) \/ CommitError(w)
               \/ Build(w) \/ Close(w) \/ Deliver(w) \/ \E drain \in BOOLEAN : Stop(w, drain)
        PROVE  marks' = marks
    BY <1>2 DEF Finish, PollAssign, PollReturn, Escape, PollError, StoreError, SendError,
                CommitError, Die, Commit, Build, Close, Deliver, Stop
  <1>3. CASE Produce \/ Tick \/ Forget \/ UNCHANGED vars
    BY <1>3 DEF Produce, Tick, Forget, vars
  <1> QED
    BY <1>1, <1>2, <1>3 DEF Next, Step, Control

\* The call that returns marks the id of its record, in the same step; nothing else
\* marks one.
LEMMA HistoryTrueStep ==
    ASSUME Inv, Traced, [Next]_vars, Observe \/ UNCHANGED dvars
    PROVE  HistoryTrue'
  <1>0. TypeOK /\ HistoryTrue /\ SourceIsWorkload
    BY DEF Inv, Traced
  <1>1. \A k : Began(k) => Began(k)' /\ IdOf(k)' = IdOf(k) /\ k \in Lineages
    BY <1>0, BeginningStays, BeganIsLineage
  <1>2. CASE UNCHANGED dvars
    BY <1>0, <1>1, <1>2 DEF HistoryTrue, dvars, historyVars, vars
  <1>3. CASE Observe
    <2>1. \A l \in Entered \cup Moved("returned", "batch") : Began(l)
      <3>1. ASSUME NEW w \in Workers, NEW p \in Partitions, IsCurrent(w, p)
            PROVE  Began(LineageAt(TopicOf[w], p, hand[w][p].first))
        BY <3>1, InHand DEF Traced, IsCurrent
      <3> QED BY <1>0, <3>1, OnlyCallsMove, CallsMove
    <2>2. /\ tries' = Counting(tries, Entered)
          /\ oks' = Counting(oks, Moved("returned", "batch"))
          /\ ~forgot' => ~forgot /\ marks \subseteq marks'
      BY <1>3 DEF Observe
    <2>3. tries' \in [Lineages -> Nat] /\ oks' \in [Lineages -> Nat]
      BY <1>0, <2>2 DEF HistoryTrue, Counting
    <2>4. ASSUME NEW l \in Lineages
          PROVE  /\ tries'[l] > 0 => tries[l] > 0 \/ l \in Entered
                 /\ oks'[l] > 0 => oks[l] > 0 \/ l \in Moved("returned", "batch")
                 /\ l \in Moved("returned", "batch") \/ oks[l] > 0 => oks'[l] > 0
      BY <1>0, <2>2 DEF HistoryTrue, Counting
    <2>5. \A l \in Lineages : tries'[l] > 0 \/ oks'[l] > 0 => Began(l) /\ Began(l)'
      BY <1>0, <1>1, <2>1, <2>4 DEF HistoryTrue
    <2>6. ASSUME NEW w \in Workers, NEW p \in Partitions, Succeed(w, p)
          PROVE  LET l == LineageAt(TopicOf[w], p, hand[w][p].first)
                 IN  /\ Moved("returned", "batch") = {l}
                     /\ Began(l)
                     /\ marks' = IF Dedupe THEN marks \cup {IdOf(l)} ELSE marks
      <3>1. IsCurrent(w, p) /\ Holds(w, p)
        BY <2>6 DEF Succeed, IsCurrent
      <3> QED BY <1>0, <2>6, <3>1, CallsMove, InHand DEF Traced, Succeed
    <2>7. ASSUME NEW l \in Lineages, Dedupe, ~forgot', oks'[l] > 0
          PROVE  IdOf(l)' \in marks'
      <3>1. Began(l) /\ IdOf(l)' = IdOf(l)
        BY <1>1, <2>5, <2>7
      <3>2. CASE oks[l] > 0
        BY <1>0, <2>2, <2>7, <3>1, <3>2 DEF HistoryTrue
      <3>3. CASE l \in Moved("returned", "batch")
        BY <1>0, <2>6, <2>7, <3>1, <3>3, OnlyCallsMove
      <3> QED BY <2>4, <2>7, <3>2, <3>3
    <2>8. ASSUME NEW id \in marks'
          PROVE  Dedupe /\ \E l \in Lineages : oks'[l] > 0 /\ IdOf(l)' = id
      <3>1. CASE id \in marks
        <4>1. Dedupe /\ \E l \in Lineages : oks[l] > 0 /\ IdOf(l) = id
          BY <1>0, <3>1 DEF HistoryTrue
        <4>2. PICK l \in Lineages : oks[l] > 0 /\ IdOf(l) = id
          BY <4>1
        <4>3. Began(l)
          BY <1>0, <4>2 DEF HistoryTrue
        <4> QED BY <1>1, <2>4, <4>1, <4>2, <4>3
      <3>2. CASE id \notin marks
        <4>1. PICK w \in Workers, p \in Partitions : Succeed(w, p)
          BY <3>2, WhoMarks
        <4> DEFINE l == LineageAt(TopicOf[w], p, hand[w][p].first)
        <4>2. /\ Moved("returned", "batch") = {l} /\ Began(l)
              /\ Dedupe /\ id = IdOf(l)
          BY <2>6, <3>2, <4>1
        <4> HIDE DEF l
        <4>3. PICK k : k = l
          OBVIOUS
        <4>4. k \in Lineages /\ IdOf(k)' = IdOf(k) /\ IdOf(k) = id /\ k \in Moved("returned", "batch")
          BY <1>1, <4>2, <4>3 DEF IdOf
        <4> QED BY <2>4, <4>2, <4>4
      <3> QED BY <3>1, <3>2
    <2> QED BY <2>3, <2>5, <2>7, <2>8 DEF HistoryTrue
  <1> QED BY <1>2, <1>3

\* Where every copy can be traced to in a step, it can be traced to in the next.
LEMMA TracedStep ==
    ASSUME Inv, Traced, [Next]_vars, Observe \/ UNCHANGED dvars
    PROVE  Traced'
  BY CopiesTrueStep, SourceIsWorkloadStep, OutgoingTrueStep, HistoryTrueStep,
     SettledWithinLogsStep DEF Traced

\* Nothing is written, held or marked at first.
LEMMA TracedInit ==
    ASSUME DInit
    PROVE  Traced
  <1>1. /\ Source \in Topics
        /\ roundRobin[Source] = 0
        /\ \A t \in Topics, p \in Partitions : EndOffset(t, p) = 0 /\ settled[t][p] = {}
        /\ \A w \in Workers : pc[w] # "send" /\ outgoing[w] = NoMessage
        /\ marks = {}
    BY TopologyAssumption DEF DInit, Init, BrokerInit, EndOffset, TopicsFor
  <1>2. Len(Workload) \in Nat
    BY WorkloadAssumption
  <1>3. CopiesTrue /\ SourceIsWorkload /\ SettledWithinLogs
    BY <1>1, <1>2 DEF CopiesTrue, SourceIsWorkload, SettledWithinLogs
  <1>4. \A w \in Workers : OutgoingTrue(w)
    BY <1>1 DEF OutgoingTrue
  <1>5. HistoryTrue
    BY <1>1 DEF HistoryTrue, DInit
  <1> QED BY <1>3, <1>4, <1>5 DEF Traced
-----------------------------------------------------------------------------
(* No event is lost.                                                       *)

\* Two records of the source topic with one id are one record.
LEMMA IdsApart ==
    ASSUME Inv, Traced, IdsDistinct, NEW k, NEW l, Began(k), Began(l), IdOf(k) = IdOf(l)
    PROVE  k = l
  <1>1. k \in Lineages /\ l \in Lineages
    BY BeganIsLineage DEF Traced
  <1>2. PICK p \in Partitions, o \in 0 .. Len(Workload) - 1 : k = <<Source, p, o>>
    BY <1>1 DEF Lineages
  <1>3. PICK q \in Partitions, u \in 0 .. Len(Workload) - 1 : l = <<Source, q, u>>
    BY <1>1 DEF Lineages
  <1>4. /\ o < EndOffset(Source, p) /\ u < EndOffset(Source, q)
        /\ EndOffset(Source, p) \in Nat /\ EndOffset(Source, q) \in Nat
        /\ Len(Workload) \in Nat /\ roundRobin[Source] \in Nat
        /\ roundRobin[Source] <= Len(Workload)
    <2>1. Source \in Topics
      BY TopologyAssumption DEF TopicsFor
    <2>2. log[Source][p] \in Seq(Records) /\ log[Source][q] \in Seq(Records)
      BY <2>1 DEF Inv, TypeOK
    <2> QED
      BY <1>2, <1>3, <2>1, <2>2, WorkloadAssumption
         DEF Began, EndOffset, Inv, TypeOK, Traced, SourceIsWorkload
  <1>5. o \in 0 .. EndOffset(Source, p) - 1 /\ u \in 0 .. EndOffset(Source, q) - 1
    BY <1>4
  <1>6. PICK i, j \in 1 .. roundRobin[Source] :
            /\ RecordAt(Source, p, o) = Workload[i]
            /\ RecordAt(Source, q, u) = Workload[j]
            /\ i = j => p = q /\ o = u
    BY <1>5 DEF Traced, SourceIsWorkload
  <1>7. i \in 1 .. Len(Workload) /\ j \in 1 .. Len(Workload)
    BY <1>4
  <1>8. EventIdOf(Source, o, Workload[i]) = EventIdOf(Source, u, Workload[j])
    BY <1>2, <1>3, <1>6 DEF IdOf, IdAt
  <1>9. CASE i = j
    BY <1>2, <1>3, <1>6, <1>9
  <1>10. CASE NumPartitions = 1 /\ o = u
    <2>1. p = q
      BY <1>10 DEF Partitions
    <2> QED BY <1>2, <1>3, <1>10, <2>1
  <1> QED BY <1>7, <1>8, <1>9, <1>10 DEF IdsDistinct

\* A copy that is written is not settled yet.
LEMMA WrittenIsUnsettled ==
    ASSUME Inv, SettledWithinLogs, [Next]_vars, NEW t \in Topics, NEW p \in Partitions,
           NEW o \in 0 .. EndOffset(t, p)' - 1, o \notin 0 .. EndOffset(t, p) - 1
    PROVE  o \notin settled'[t][p]
  <1>1. o \notin settled[t][p]
    BY DEF SettledWithinLogs
  <1>2. ASSUME NEW w \in Workers, NEW q \in Partitions, Holds(w, q), Settle(w, q)
        PROVE  o \notin settled'[t][p]
    <2>1. hand[w][q].first \in 0 .. EndOffset(TopicOf[w], q) - 1
      BY <1>2, MessageInLog
    <2>2. TopicOf[w] \in Topics /\ settled \in [Topics -> [Partitions -> SUBSET Nat]]
      BY TopicsOfWorkers DEF Inv, TypeOK
    <2>3. CASE t = TopicOf[w] /\ p = q
      <3>1. settled'[t][p] = settled[t][p] \cup {hand[w][q].first}
        BY <1>2, <2>2, <2>3 DEF Settle
      <3> QED BY <1>1, <2>1, <2>3, <3>1
    <2>4. CASE ~(t = TopicOf[w] /\ p = q)
      <3>1. settled'[t][p] = settled[t][p]
        BY <1>2, <2>2, <2>4 DEF Settle
      <3> QED BY <1>1, <3>1
    <2> QED BY <2>3, <2>4
  <1> QED BY <1>1, <1>2, SettledStep

\* A copy that stops being unsettled was in the hand of a worker that handled it.
LEMMA HandledInHand ==
    ASSUME Inv, [Next]_vars, NEW t \in Topics, NEW p \in Partitions,
           NEW o \in settled'[t][p], o \notin settled[t][p]
    PROVE  \E w \in Workers :
              TopicOf[w] = t /\ hand[w][p].first = o /\ IsCurrent(w, p) /\ Handles(w, p)
  <1>1. PICK w \in Workers, q \in Partitions : Handles(w, q)
    BY WhoHandles
  <1>2. IsCurrent(w, q) /\ Settle(w, q)
    BY <1>1 DEF Handles, Duplicate, Ready, Succeed, Send
  <1>3. t = TopicOf[w] /\ p = q /\ o = hand[w][q].first
    <2>1. settled \in [Topics -> [Partitions -> SUBSET Nat]] /\ TopicOf[w] \in Topics
      BY TopicsOfWorkers DEF Inv, TypeOK
    <2> QED BY <1>2, <2>1 DEF Settle
  <1> QED BY <1>1, <1>2, <1>3

\* What is concluded stays concluded.
LEMMA ConcludedStays ==
    ASSUME Inv, Traced, [Next]_vars, Observe \/ UNCHANGED dvars, NEW l \in Lineages, Concluded(l)
    PROVE  Concluded(l)'
  <1>1. CASE oks[l] > 0
    <2>1. CASE UNCHANGED dvars
      BY <1>1, <2>1 DEF dvars, historyVars, Concluded
    <2>2. CASE Observe
      BY <1>1, <2>2 DEF Observe, Counting, Concluded, Traced, HistoryTrue
    <2> QED BY <2>1, <2>2
  <1>2. CASE OnLog(DlqTopic(Source), l)
    <2>1. DlqTopic(Source) \in Topics
      BY TopologyAssumption DEF TopicsFor
    <2>2. PICK p \in Partitions :
              \E o \in 0 .. EndOffset(DlqTopic(Source), p) - 1 :
                  LineageAt(DlqTopic(Source), p, o) = l
      BY <1>2 DEF OnLog
    <2>3. PICK o \in 0 .. EndOffset(DlqTopic(Source), p) - 1 :
              LineageAt(DlqTopic(Source), p, o) = l
      BY <2>2
    <2>4. /\ o \in 0 .. EndOffset(DlqTopic(Source), p)' - 1
          /\ LineageAt(DlqTopic(Source), p, o)' = l
      BY <2>1, <2>3, Stays
    <2> QED BY <2>4 DEF Concluded, OnLog
  <1> QED BY <1>1, <1>2 DEF Concluded

\* Handling the copy in hand concludes its event or hands the event on.
LEMMA HandlingAccounts ==
    ASSUME Inv, Traced, [Next]_vars, Observe \/ UNCHANGED dvars, Dedupe => IdsDistinct,
           NEW w \in Workers, NEW p \in Partitions, IsCurrent(w, p), Handles(w, p),
           NEW l, l = LineageAt(TopicOf[w], p, hand[w][p].first)
    PROVE  \/ Concluded(l)'
           \/ \E t \in ConsumedTopics, q \in Partitions : \E o \in 0 .. EndOffset(t, q)' - 1 :
                 Unsettled(t, q, o)' /\ LineageAt(t, q, o)' = l
  <1>0. TypeOK /\ Holds(w, p) /\ HistoryTrue
    BY DEF Inv, Traced, IsCurrent
  <1>1. Began(l) /\ l \in Lineages /\ MessageId(w, p) = IdOf(l)
    <2>1. Began(l) /\ MessageId(w, p) = IdOf(l)
      BY <1>0, InHand DEF Traced, Began, IdOf
    <2> QED BY <2>1, BeganIsLineage DEF Traced
  <1>2. CASE Succeed(w, p)
    <2>1. l \in Moved("returned", "batch")
      BY <1>0, <1>2, CallsMove
    <2>2. Observe
      <3>1. pc' # pc
        BY <1>2 DEF Succeed, Goto, Inv, TypeOK
      <3> QED BY <3>1 DEF dvars, vars, clientVars
    <2>3. oks'[l] > 0
      BY <1>0, <1>1, <2>1, <2>2 DEF Observe, Counting, HistoryTrue
    <2> QED BY <2>3 DEF Concluded
  <1>3. CASE Duplicate(w, p)
    <2>1. IdOf(l) \in marks
      BY <1>1, <1>3 DEF Duplicate
    <2>2. Dedupe /\ \E k \in Lineages : oks[k] > 0 /\ IdOf(k) = IdOf(l)
      BY <1>0, <2>1 DEF HistoryTrue
    <2>3. PICK k \in Lineages : oks[k] > 0 /\ IdOf(k) = IdOf(l)
      BY <2>2
    <2>4. Began(k)
      BY <1>0, <2>3 DEF HistoryTrue
    <2>5. k = l
      BY <1>1, <2>2, <2>3, <2>4, IdsApart
    <2>6. Concluded(l)
      BY <2>3, <2>5 DEF Concluded
    <2> QED BY <1>1, <2>6, ConcludedStays
  <1>4. CASE Send(w, p)
    <2>1. pc[w] = "send" /\ AppendRecord(outgoing[w].topic, outgoing[w].record)
      BY <1>4 DEF Send
    <2>2. PICK t \in Topics, r \in Records :
              /\ t = outgoing[w].topic /\ r = outgoing[w].record
              /\ AppendRecord(t, r)
      BY <2>1, HeldCopy DEF Held, Traced
    <2>3. \A u, a, b : Lineage(u, a, b, r) = l
      <3>1. CopyOfHand(w)
        BY <2>1 DEF Traced, OutgoingTrue
      <3> QED BY <1>1, <2>2, <3>1, CopyInHand
    <2>4. PICK q \in Partitions : q = PartitionForKey(r.key, roundRobin[t])
      BY <1>0, <2>2, PartitionType
    <2>5. PICK o : o = EndOffset(t, q)
      OBVIOUS
    <2>6. /\ log[t][q] \in Seq(Records)
          /\ log'[t][q] = Append(log[t][q], r)
      <3>1. log' = [log EXCEPT ![t][q] = Append(@, r)]
        BY <2>2, <2>4 DEF AppendRecord
      <3> QED BY <1>0, <3>1 DEF TypeOK
    <2>7. /\ o \in 0 .. EndOffset(t, q)' - 1 /\ o \notin 0 .. EndOffset(t, q) - 1
          /\ RecordAt(t, q, o)' = r
      BY <2>5, <2>6 DEF EndOffset, RecordAt
    <2>8. o \notin settled'[t][q] /\ LineageAt(t, q, o)' = l
      BY <2>3, <2>7, WrittenIsUnsettled DEF LineageAt, Traced
    <2>9. t \in ConsumedTopics \/ t = DlqTopic(Source)
      BY TopologyAssumption DEF TopicsFor, ConsumedTopics
    <2> QED BY <2>7, <2>8, <2>9 DEF Unsettled, Concluded, OnLog
  <1> QED BY <1>2, <1>3, <1>4 DEF Handles

\* Every record of the source topic stays accounted for.
LEMMA AccountedStep ==
    ASSUME Inv, Traced, Accounted, [Next]_vars, Observe \/ UNCHANGED dvars,
           Dedupe => IdsDistinct
    PROVE  Accounted'
  <1> SUFFICES ASSUME NEW p \in Partitions, NEW i \in 0 .. EndOffset(Source, p)' - 1
               PROVE  \/ Concluded(<<Source, p, i>>)'
                      \/ \E t \in ConsumedTopics, q \in Partitions :
                            \E o \in 0 .. EndOffset(t, q)' - 1 :
                                Unsettled(t, q, o)' /\ LineageAt(t, q, o)' = <<Source, p, i>>
    BY DEF Accounted
  <1> DEFINE l == <<Source, p, i>>
  <1>1. Source \in Topics /\ Source \in ConsumedTopics /\ ConsumedTopics \subseteq Topics
    BY TopologyAssumption DEF ConsumedTopics, TopicsFor
  <1>2. CASE i \notin 0 .. EndOffset(Source, p) - 1
    <2>1. i \notin settled'[Source][p]
      BY <1>1, <1>2, WrittenIsUnsettled DEF Traced
    <2>2. LineageAt(Source, p, i)' = l
      BY <1>1, CopiesTrueStep DEF CopiesTrue, LineageAt, Lineage
    <2> QED BY <1>1, <2>1, <2>2 DEF Unsettled
  <1>3. CASE i \in 0 .. EndOffset(Source, p) - 1
    <2>1. Began(l) /\ l \in Lineages
      <3>1. LineageAt(Source, p, i) = l /\ Began(LineageAt(Source, p, i))
        BY <1>1, <1>3 DEF Traced, CopiesTrue, LineageAt, Lineage
      <3> QED BY <3>1, BeganIsLineage DEF Traced
    <2>2. CASE Concluded(l)
      BY <2>1, <2>2, ConcludedStays
    <2>3. CASE ~Concluded(l)
      <3>1. PICK t \in ConsumedTopics, q \in Partitions :
                \E o \in 0 .. EndOffset(t, q) - 1 :
                    Unsettled(t, q, o) /\ LineageAt(t, q, o) = l
        BY <1>3, <2>3 DEF Accounted
      <3>2. PICK o \in 0 .. EndOffset(t, q) - 1 :
                Unsettled(t, q, o) /\ LineageAt(t, q, o) = l
        BY <3>1
      <3>3. /\ o \in 0 .. EndOffset(t, q)' - 1
            /\ LineageAt(t, q, o)' = l
        BY <1>1, <3>2, Stays
      <3>4. CASE o \notin settled'[t][q]
        BY <3>2, <3>3, <3>4 DEF Unsettled
      <3>5. CASE o \in settled'[t][q]
        <4>1. PICK w \in Workers :
                  /\ TopicOf[w] = t /\ hand[w][q].first = o
                  /\ IsCurrent(w, q) /\ Handles(w, q)
          BY <1>1, <3>2, <3>5, HandledInHand DEF Unsettled
        <4>2. l = LineageAt(TopicOf[w], q, hand[w][q].first)
          BY <3>2, <4>1
        <4>3. PICK k : k = l
          OBVIOUS
        <4>4. \/ Concluded(k)'
              \/ \E u \in ConsumedTopics, a \in Partitions :
                    \E x \in 0 .. EndOffset(u, a)' - 1 :
                        Unsettled(u, a, x)' /\ LineageAt(u, a, x)' = k
          BY <4>1, <4>2, <4>3, HandlingAccounts
        <4> QED BY <4>3, <4>4
      <3> QED BY <3>4, <3>5
    <2> QED BY <2>2, <2>3
  <1> QED BY <1>2, <1>3

\* Nothing is on the source topic at first.
LEMMA AccountedInit ==
    ASSUME DInit
    PROVE  Accounted
  <1>1. \A p \in Partitions : EndOffset(Source, p) = 0
    BY TopologyAssumption DEF DInit, Init, BrokerInit, EndOffset, TopicsFor
  <1> QED BY <1>1 DEF Accounted

\* What the history adds leaves the workers as they are.
LEMMA StepObserved ==
    ASSUME [DNext]_dvars
    PROVE  [Next]_vars /\ (Observe \/ UNCHANGED dvars)
  BY DEF DNext, dvars

\* Every copy of an event can be traced to the record a producer wrote.
THEOREM Tracing == DSpec => [](Inv /\ Traced)
  <1>1. DInit => Inv /\ Traced
    BY InitInv, TracedInit DEF DInit
  <1>2. Inv /\ Traced /\ [DNext]_dvars => Inv' /\ Traced'
    BY InvStep, TracedStep, StepObserved
  <1> QED BY <1>1, <1>2, PTL DEF DSpec

\* What is not settled is not committed away.
LEMMA UnsettledIsPending ==
    ASSUME Inv, NEW t \in ConsumedTopics, NEW p \in Partitions,
           NEW o \in 0 .. EndOffset(t, p) - 1, Unsettled(t, p, o),
           NEW l, l = LineageAt(t, p, o)
    PROVE  Pending(l)
  <1>1. t \in Topics
    BY TopologyAssumption DEF ConsumedTopics, TopicsFor
  <1>2. CommittedOffset(t, p) \in Nat /\ EndOffset(t, p) \in Nat
    BY <1>1 DEF Inv, TypeOK, CommittedOffset, EndOffset, Offsets, NoOffset
  <1>3. o \notin 0 .. CommittedOffset(t, p) - 1
    BY <1>1 DEF Inv, NothingCommittedUnsettled, Unsettled
  <1>4. o \in CommittedOffset(t, p) .. EndOffset(t, p) - 1
    BY <1>2, <1>3
  <1> QED BY <1>4 DEF Pending, Unsettled

\* No event is lost (worker.py, "Order of operations"): whatever dies, is stopped,
\* is redelivered or fails to be sent, an event on the source topic was handled, is
\* a dead letter, or has a copy that some worker still has to come to.  With an
\* idempotency store this needs event ids that tell the events apart; the run
\* no_event_id shows how it fails without.
THEOREM NothingLost ==
    ASSUME Dedupe => IdsDistinct
    PROVE  DSpec => []NoEventLost
  <1> USE Dedupe => IdsDistinct
  <1>1. DInit => Accounted
    BY AccountedInit
  <1>2. Inv /\ Traced /\ Accounted /\ [DNext]_dvars => Accounted'
    BY AccountedStep, StepObserved
  <1>3. Inv /\ Traced /\ Accounted => NoEventLost
    <2> SUFFICES ASSUME Inv, Traced, Accounted,
                        NEW l \in Lineages, OnLog(Source, l), ~Concluded(l)
                 PROVE  Pending(l)
      BY DEF NoEventLost
    <2>1. Source \in Topics /\ ConsumedTopics \subseteq Topics
      BY TopologyAssumption DEF ConsumedTopics, TopicsFor
    <2>2. PICK p \in Partitions :
              \E i \in 0 .. EndOffset(Source, p) - 1 : LineageAt(Source, p, i) = l
      BY DEF OnLog
    <2>3. PICK i \in 0 .. EndOffset(Source, p) - 1 : LineageAt(Source, p, i) = l
      BY <2>2
    <2>4. l = <<Source, p, i>>
      BY <2>1, <2>3 DEF Traced, CopiesTrue, LineageAt, Lineage
    <2>5. PICK t \in ConsumedTopics, q \in Partitions :
              \E o \in 0 .. EndOffset(t, q) - 1 :
                  Unsettled(t, q, o) /\ LineageAt(t, q, o) = <<Source, p, i>>
      BY <2>4 DEF Accounted
    <2> QED BY <2>4, <2>5, UnsettledIsPending
  <1> QED BY <1>1, <1>2, <1>3, Tracing, PTL DEF DSpec

\* A success is remembered (idempotency.py, "a short memory of event ids it has
\* already completed"): while the store drops nothing, no worker that asks for
\* an event that was marked is told to call the handler.
THEOREM SuccessRemembered == DSpec => SuccessIsRemembered
  <1>1. Inv /\ Traced /\ [DNext]_dvars =>
            [Dedupe /\ ~forgot => \A l \in Admitted : oks[l] = 0]_dvars
    <2> SUFFICES ASSUME Inv, Traced, [Next]_vars, Dedupe, ~forgot, NEW l \in Admitted
                 PROVE  oks[l] = 0
      BY StepObserved
    <2>1. PICK w \in Workers, p \in Partitions : Admit(w, p)
      BY OnlyCallsMove DEF Inv
    <2>2. /\ IsCurrent(w, p) /\ Holds(w, p)
          /\ l = LineageAt(TopicOf[w], p, hand[w][p].first)
      BY <2>1, CallsMove DEF Inv, IsCurrent
    <2>3. Began(l) /\ MessageId(w, p) = IdOf(l)
      BY <2>2, InHand DEF Traced
    <2>4. l \in Lineages /\ IdOf(l) \notin marks
      BY <2>1, <2>3, BeganIsLineage DEF Traced, Admit
    <2> QED BY <2>4 DEF Traced, HistoryTrue
  <1> QED BY <1>1, Tracing, PTL DEF DSpec, SuccessIsRemembered
=============================================================================
