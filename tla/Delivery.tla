------------------------------ MODULE Delivery ------------------------------
(***************************************************************************)
(* What the fleet of workers does to one event on its way from the source  *)
(* topic through the ladder.  The workers of Worker.tla are observed: the  *)
(* added variables record what happened to each lineage, the position on   *)
(* the source topic that all copies of one record carry in their headers.  *)
(***************************************************************************)
EXTENDS Worker

VARIABLES
    tries,    \* lineage -> calls of the handler
    oks,      \* lineage -> calls that returned and were marked (Outcome.OK)
    failedAt, \* lineage -> the time its last failure was scheduled from
    forgot,   \* the idempotency store has dropped an event
    torn      \* so it has, or a thread has died, or its consumer was closed under it

historyVars == <<tries, oks, failedAt, forgot, torn>>
dvars == <<vars, historyVars>>

\* The positions the records of the workload can come to have.
Lineages == {Source} \X Partitions \X (0 .. Len(Workload) - 1)

LineageAt(t, p, o) == Lineage(t, p, o, RecordAt(t, p, o))

CurrentPartition(w) == CHOOSE p \in Partitions : IsCurrent(w, p)

LineageInHand(w) ==
    LET p == CurrentPartition(w) IN LineageAt(TopicOf[w], p, hand[w][p].first)

\* The lineages whose worker goes from one place to the other in this step.
Moved(from, to) ==
    {LineageInHand(w) : w \in {v \in Workers : pc[v] = from /\ pc'[v] = to}}

\* Those the store has not seen when a worker asks; those whose call begins.
Admitted == Moved("batch", "admitted") \cup Moved("wait", "admitted")
Entered == Moved("admitted", "handler")

Counting(count, lineages) ==
    [l \in Lineages |-> IF l \in lineages THEN count[l] + 1 ELSE count[l]]

Observe ==
    /\ tries' = Counting(tries, Entered)
    /\ oks' = Counting(oks, Moved("returned", "batch"))
    /\ failedAt' = [l \in DOMAIN failedAt \cup Moved("handler", "send") |->
                       IF l \in Moved("handler", "send") THEN now ELSE failedAt[l]]
    /\ forgot' = (forgot \/ ~(marks \subseteq marks'))
    /\ torn' = (torn \/ forgot' \/ \E w \in Workers : pc'[w] = "dead" \/ closed'[w])

DInit ==
    /\ Init
    /\ tries = [l \in Lineages |-> 0]
    /\ oks = [l \in Lineages |-> 0]
    /\ failedAt = [l \in {} |-> 0]
    /\ forgot = FALSE /\ torn = FALSE

DNext == Next /\ Observe

DSpec == DInit /\ [][DNext]_dvars

\* Each thread is scheduled, time passes, and a worker that is gone is built
\* again (the container restarts).
Fairness ==
    /\ WF_vars(Produce) /\ WF_vars(Tick)
    /\ \A w \in Workers : WF_vars(Step(w) \/ Build(w))

FairSpec == DSpec /\ Fairness
-----------------------------------------------------------------------------
OnLog(t, l) ==
    \E p \in Partitions : \E o \in 0 .. EndOffset(t, p) - 1 : LineageAt(t, p, o) = l

\* A copy some worker still has to come to.
Pending(l) ==
    \E t \in ConsumedTopics, p \in Partitions :
        \E o \in CommittedOffset(t, p) .. EndOffset(t, p) - 1 :
            o \notin settled[t][p] /\ LineageAt(t, p, o) = l

Concluded(l) == oks[l] > 0 \/ OnLog(DlqTopic(Source), l)

\* No event is lost, whatever crashes, stops and failed sends happen: it was
\* handled, or it is a dead letter, or a copy of it waits on a topic some
\* worker consumes, at an offset that is not committed away.
NoEventLost ==
    \A l \in Lineages : OnLog(Source, l) => Concluded(l) \/ Pending(l)

DlqPositions == UNION {{p} \X (0 .. EndOffset(DlqTopic(Source), p) - 1) : p \in Partitions}

DeadLettersOf(l) == {po \in DlqPositions : LineageAt(DlqTopic(Source), po[1], po[2]) = l}

DlqCopies(l) == Cardinality(DeadLettersOf(l))

\* While no thread dies, no consumer is closed and the store drops nothing, an
\* event is concluded once: it succeeds or is dead-lettered, not both, not twice,
\* also when a worker is asked to stop with records in hand.
ConcludedOnce == ~torn => \A l \in Lineages : oks[l] + DlqCopies(l) <= 1

\* idempotency.py:8: "the worker keeps a short memory of event ids it has already
\* completed".  Once one worker has marked an event, none that comes to it after
\* that calls the handler, with a redelivery or with a copy on another topic,
\* whatever crashed meanwhile.  (seen, the call and mark are three steps: a worker
\* that asked before may still begin its call, and a call whose thread ends before
\* mark is made again.)
SuccessIsRemembered ==
    [][Dedupe /\ ~forgot => \A l \in Admitted : oks[l] = 0]_dvars

\* max_attempts counts handler calls: the header of a copy is the number of
\* calls made before this one (as long as no copy is torn off its commit), and
\* none is made beyond max_attempts.
AttemptHeaderCountsTries ==
    ~torn => \A w \in Workers, p \in Partitions :
        (pc[w] = "handler" /\ IsCurrent(w, p)) =>
            /\ tries[LineageInHand(w)] = ThisAttempt(w, p)
            /\ ThisAttempt(w, p) <= MaxAttempts

\* A retry is called no sooner than the delay of its tier after the failure it
\* follows, however the copies were queued in between.
BackoffRespected ==
    ~torn => \A w \in Workers, p \in Partitions :
        (pc[w] = "handler" /\ IsCurrent(w, p) /\ Message(w, p).attempt > 0) =>
            now >= failedAt[LineageInHand(w)] + Delays[Message(w, p).attempt]

\* retry.py:12: "because every record on orders.retry.3s was scheduled with the
\* same 3-second delay, the records are due in exactly the order they are
\* stored".  (Two workers may read the clock in one order and append in the
\* other.)
RetryTopicsInDueOrder ==
    \A t \in RetryTopics(Source, Delays), p \in Partitions :
        \A i, j \in 1 .. EndOffset(t, p) :
            i < j => log[t][p][i].not_before <= log[t][p][j].not_before

\* Every event a producer wrote is in the end handled or a dead letter: a head
\* record that is not due holds up its partition, but not forever.
EveryEventConcludes == \A l \in Lineages : OnLog(Source, l) ~> Concluded(l)

\* When nothing more is produced, the group catches up on every topic of the
\* ladder and stays there: its lag is 0 for good, also after a late commit of a
\* worker that was closed or abandoned its batch.
BacklogDrains ==
    <>[](\A t \in ConsumedTopics, p \in Partitions : CommittedOffset(t, p) = EndOffset(t, p))
-----------------------------------------------------------------------------
(***************************************************************************)
(* Why: the inductive invariant, beside Inv of Worker.tla.  Each copy can  *)
(* be traced to the record it descends from; each record of the source     *)
(* topic is accounted for; and as long as nothing is torn, there is one    *)
(* copy of it that is not done with, or one conclusion.                    *)
(***************************************************************************)
IdAt(t, p, o) == EventIdOf(t, o, RecordAt(t, p, o))

\* The record that a lineage starts from is there, and has the id of the event.
Began(l) == l \in Origins /\ l[3] < EndOffset(Source, l[2])
IdOf(l) == IdAt(Source, l[2], l[3])

\* Every copy has the id of the record it descends from.  The records of the
\* source topic descend from none.
CopiesTrue ==
    \A t \in Topics, p \in Partitions : \A o \in 0 .. EndOffset(t, p) - 1 :
        /\ Began(LineageAt(t, p, o))
        /\ IdAt(t, p, o) = IdOf(LineageAt(t, p, o))
        /\ t = Source => RecordAt(t, p, o).origin = NoOrigin

\* They are records of the workload, no two of them the same one.
SourceIsWorkload ==
    /\ roundRobin[Source] <= Len(Workload)
    /\ \A p \in Partitions : EndOffset(Source, p) <= roundRobin[Source]
    /\ \A p, q \in Partitions :
          \A o \in 0 .. EndOffset(Source, p) - 1, u \in 0 .. EndOffset(Source, q) - 1 :
              \E i, j \in 1 .. roundRobin[Source] :
                  /\ RecordAt(Source, p, o) = Workload[i]
                  /\ RecordAt(Source, q, u) = Workload[j]
                  /\ i = j => p = q /\ o = u

\* The copy about to be sent is one of the record in hand.
CopyOfHand(w) ==
    \E p \in Partitions :
        /\ IsCurrent(w, p)
        /\ outgoing[w].record.origin = LineageAt(TopicOf[w], p, hand[w][p].first)

\* A copy that is with the producer is a copy of such a record.
OutgoingTrue(w) ==
    LET r == outgoing[w].record
    IN  /\ pc[w] = "send" \/ outgoing[w] # NoMessage =>
              /\ Began(r.origin)
              /\ r.event = IdOf(r.origin) /\ r.event # NoId
              /\ outgoing[w].topic # Source
        /\ pc[w] = "send" => CopyOfHand(w)

\* What is marked succeeded; what succeeded is marked, until the store forgets.
HistoryTrue ==
    /\ oks \in [Lineages -> Nat] /\ tries \in [Lineages -> Nat]
    /\ \A l \in Lineages : tries[l] > 0 \/ oks[l] > 0 => Began(l)
    /\ \A l \in Lineages : Dedupe /\ ~forgot /\ oks[l] > 0 => IdOf(l) \in marks
    /\ \A id \in marks : Dedupe /\ \E l \in Lineages : oks[l] > 0 /\ IdOf(l) = id

SettledWithinLogs ==
    \A t \in Topics, p \in Partitions : settled[t][p] \subseteq 0 .. EndOffset(t, p) - 1

Traced ==
    /\ CopiesTrue
    /\ SourceIsWorkload
    /\ \A w \in Workers : OutgoingTrue(w)
    /\ HistoryTrue
    /\ SettledWithinLogs

\* No two records of the workload can come to have one id on the source topic.
\* (In one partition, no two are at one offset.)
IdsDistinct ==
    \A i, j \in 1 .. Len(Workload), o, u \in 0 .. Len(Workload) - 1 :
        i # j /\ (NumPartitions = 1 => o # u) =>
            EventIdOf(Source, o, Workload[i]) # EventIdOf(Source, u, Workload[j])

Unsettled(t, p, o) ==
    t \in ConsumedTopics /\ o \in 0 .. EndOffset(t, p) - 1 /\ o \notin settled[t][p]

Accounted ==
    \A p \in Partitions : \A i \in 0 .. EndOffset(Source, p) - 1 :
        \/ Concluded(<<Source, p, i>>)
        \/ \E t \in ConsumedTopics, q \in Partitions : \E o \in 0 .. EndOffset(t, q) - 1 :
              Unsettled(t, q, o) /\ LineageAt(t, q, o) = <<Source, p, i>>
-----------------------------------------------------------------------------
\* The worker at work on a record in hand, at one of the labels.
InProgress(t, p, o, labels) ==
    \E w \in Workers :
        /\ TopicOf[w] = t /\ pc[w] \in labels
        /\ IsCurrent(w, p) /\ hand[w][p].first = o

\* One consumer has its topic for itself: what it still has to come to is what
\* is not settled.
NothingTwice(w) ==
    /\ pc[w] # "dead" /\ ~closed[w] /\ (outgoing[w] # NoMessage => pc[w] = "send")
    /\ members[TopicOf[w]] = IF pc[w] = "absent" THEN <<>> ELSE <<ClientOf[w]>>
    /\ \A p \in Partitions :
          /\ Holds(w, p) =>
                /\ position[w][p] = hand[w][p].last
                /\ \A o \in settled[TopicOf[w]][p] : o < hand[w][p].first
          /\ ~Holds(w, p) /\ position[w][p] # NoOffset =>
                \A o \in settled[TopicOf[w]][p] : o < position[w][p]
          /\ pc[w] \in {"absent", "idle", "finished", "poll"} =>
                \A o \in settled[TopicOf[w]][p] : o < CommittedOffset(TopicOf[w], p)
          /\ pc[w] \in {"batch", "wait", "admitted", "handler", "returned", "send"} =>
                position[w][p] # NoOffset

\* A lineage has one copy that is not done with, or it succeeded once, or it has one
\* dead letter.
OneEach ==
    /\ \A t, u \in ConsumedTopics, p, q \in Partitions :
          \A o \in 0 .. EndOffset(t, p) - 1, i \in 0 .. EndOffset(u, q) - 1 :
              /\ Unsettled(t, p, o) /\ Unsettled(u, q, i)
              /\ LineageAt(t, p, o) = LineageAt(u, q, i)
              => t = u /\ p = q /\ o = i
    /\ \A t \in ConsumedTopics, p \in Partitions : \A o \in 0 .. EndOffset(t, p) - 1 :
          Unsettled(t, p, o) => ~Concluded(LineageAt(t, p, o))
    /\ \A l \in Lineages : oks[l] > 0 => oks[l] = 1 /\ ~OnLog(DlqTopic(Source), l)
    /\ \A p, q \in Partitions :
          \A o \in 0 .. EndOffset(DlqTopic(Source), p) - 1,
             i \in 0 .. EndOffset(DlqTopic(Source), q) - 1 :
              LineageAt(DlqTopic(Source), p, o) = LineageAt(DlqTopic(Source), q, i)
              => p = q /\ o = i

\* The last failure of the event, and the delay it was scheduled with.
Scheduled(l, r) ==
    /\ l \in DOMAIN failedAt /\ failedAt[l] \in Nat
    /\ failedAt[l] + Delays[r.attempt] <= r.not_before

\* From the start of the handler call to the end of what follows it.
Called == {"handler", "returned", "send"}

\* The headers of a copy that is not done with.
HeaderTrue(t, p, o) ==
    LET r == RecordAt(t, p, o)
        l == LineageAt(t, p, o)
    IN  /\ tries[l] = r.attempt + (IF InProgress(t, p, o, Called) THEN 1 ELSE 0)
        /\ r.attempt > 0 /\ ~InProgress(t, p, o, {"send"}) => Scheduled(l, r)
        /\ InProgress(t, p, o, {"admitted", "handler"}) => r.not_before <= now

\* The headers of the copy about to be sent.
NextHeaderTrue(w) ==
    \A p \in Partitions :
        pc[w] = "send" /\ IsCurrent(w, p) =>
            /\ outgoing[w].record.attempt = ThisAttempt(w, p)
            /\ outgoing[w].topic \in ConsumedTopics =>
                  Scheduled(outgoing[w].record.origin, outgoing[w].record)

HeadersTrue ==
    /\ \A t \in ConsumedTopics, p \in Partitions : \A o \in 0 .. EndOffset(t, p) - 1 :
          Unsettled(t, p, o) => HeaderTrue(t, p, o)
    /\ \A w \in Workers : NextHeaderTrue(w)

Once ==
    /\ \A w \in Workers : NothingTwice(w)
    /\ OneEach
    /\ HeadersTrue

DInv ==
    /\ Inv
    /\ Traced
    /\ (Dedupe => IdsDistinct) => Accounted
    /\ OneWorkerEach /\ ~torn => Once
=============================================================================
