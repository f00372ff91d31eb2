-------------------------- MODULE DeadLetterQueue --------------------------
(***************************************************************************)
(* dlq.py beside the workers: operators read the dead-letter topic and     *)
(* send what they choose back to its original topic, one record after the  *)
(* other, while the workers of Delivery.tla go on.  A read takes what is   *)
(* there (its consumer group is thrown away, and moves no offset), and     *)
(* leaves it there.  Records are replayed once the producers are done.     *)
(***************************************************************************)
EXTENDS Delivery

CONSTANTS
    Operators,  \* those who use a DeadLetterQueue of Source
    Filtered,   \* TRUE: they select by any filter; FALSE: by the default one
    Limits,     \* the limits they give (no limit is one beyond all records)
    MaxReplays  \* bound: how many records are replayed

ASSUME ReplaysAssumption ==
    Filtered \in BOOLEAN /\ Limits \subseteq Nat \ {0} /\ MaxReplays \in Nat

VARIABLES
    approved,  \* what each operator still has to send: <<partition, offset>>
    replayed,  \* history: the dead letters sent back, in order: <<partition, offset>>
    dropped    \* history, lineage -> copies dropped as duplicates

replayVars == <<approved, replayed, dropped>>
qvars == <<dvars, replayVars>>

Dlq == DlqTopic(Source)

QInit ==
    /\ DInit
    /\ approved = [a \in Operators |-> {}]
    /\ replayed = <<>>
    /\ dropped = [l \in Lineages |-> 0]

Selections == IF Filtered THEN SUBSET DlqPositions ELSE {DlqPositions}

\* What a limit leaves of a selection.  The source orders by failure time, which
\* records do not keep here: any order.
Limited(selected, limit) ==
    {chosen \in SUBSET selected :
        \/ chosen = selected /\ Cardinality(selected) <= limit
        \/ Cardinality(chosen) = limit}

\* entries and matching: all dead letters are read, and some selected.  (Nobody reads
\* when no replay is left under the bound.)
Preview(a) ==
    /\ roundRobin[Source] >= Len(Workload)
    /\ Len(replayed) < MaxReplays
    /\ approved[a] = {}
    /\ \E selected \in Selections, limit \in Limits :
          \E chosen \in Limited(selected, limit) :
              chosen # {} /\ approved' = [approved EXCEPT ![a] = chosen]
    /\ UNCHANGED <<dvars, replayed, dropped>>

\* replay_all: one record of the list is sent.
ReplayOne(a, entry) ==
    /\ Len(replayed) < MaxReplays
    /\ entry \in approved[a]
    /\ LET record == RecordAt(Dlq, entry[1], entry[2])
           source == LineageAt(Dlq, entry[1], entry[2])[1]
       IN  AppendRecord(source, ReplayHeaders(record))
    /\ approved' = [approved EXCEPT ![a] = @ \ {entry}]
    /\ replayed' = Append(replayed, entry)
    /\ UNCHANGED <<committed, members, now, marks, settled, faults, clientVars,
                   historyVars, dropped>>

\* replay_all: send raises, and the rest of the list is not sent.  (A copy that
\* was written all the same is ReplayOne before this.)
ReplayError(a) ==
    /\ approved[a] # {}
    /\ approved' = [approved EXCEPT ![a] = {}]
    /\ UNCHANGED <<dvars, replayed, dropped>>

\* The lineage of a copy that is settled in this step and was not called for.
DroppedNow ==
    {LineageInHand(w) : w \in {v \in Workers :
        pc[v] \in {"batch", "wait"} /\ pc'[v] = "batch"
        /\ settled'[TopicOf[v]] # settled[TopicOf[v]]}}

QNext ==
    \/ DNext /\ dropped' = Counting(dropped, DroppedNow) /\ UNCHANGED <<approved, replayed>>
    \/ \E a \in Operators :
          \/ Preview(a) \/ ReplayError(a)
          \/ \E p \in Partitions, o \in 0 .. MaxReplays + Len(Workload) :
                ReplayOne(a, <<p, o>>)

QSpec == QInit /\ [][QNext]_qvars
-----------------------------------------------------------------------------
\* The copies of an event some worker still has to come to.
CopiesOf(l) ==
    UNION {{<<t, p, o>> : o \in
        {n \in CommittedOffset(t, p) .. EndOffset(t, p) - 1 :
            n \notin settled[t][p] /\ LineageAt(t, p, n) = l}} :
                t \in ConsumedTopics, p \in Partitions}

\* The replays of it, by their place in the history.
ReplaysOf(l) ==
    {i \in 1 .. Len(replayed) : LineageAt(Dlq, replayed[i][1], replayed[i][2]) = l}

\* Copies are conserved.  With one worker for each topic, and while no thread dies,
\* no consumer is closed and the store drops nothing, the record a producer wrote
\* and each replay of it make one copy, and that copy is at every moment in one
\* place: before a worker, handled, dropped as a duplicate, or a dead letter.
CopiesConserved ==
    ~torn => \A l \in Lineages : OnLog(Source, l) =>
        Cardinality(CopiesOf(l)) + oks[l] + dropped[l] + DlqCopies(l)
            = 1 + Cardinality(ReplaysOf(l))

\* A replay gets the full ladder again: unless the error is permanent, a dead
\* letter was always tried max_attempts times since it was written or replayed.
DeadLettersTriedInFull ==
    "permanent" \notin Failures =>
        \A po \in DlqPositions : RecordAt(Dlq, po[1], po[2]).attempt = MaxAttempts

\* dlq.py:178, in replay: "after a bad deploy you replay five records, watch them
\* land, then replay the rest".  What was replayed is not replayed again.  (A
\* replay leaves the dead letter where it is, and the next one takes it again.)
CanaryThenRest == \A i, j \in 1 .. Len(replayed) : replayed[i] = replayed[j] => i = j
-----------------------------------------------------------------------------
(***************************************************************************)
(* Why dead letters are tried in full, and copies are conserved: the       *)
(* inductive invariant. Inv of Worker.tla survives a replay, for a         *)
(* replayed record fits the source topic again; what is approved is there; *)
(* a copy on its way to the dead-letter topic has all its tries behind it; *)
(* and with one worker for each topic and nothing torn, each step keeps    *)
(* the count of copies (ReplayedOnce).                                     *)
(***************************************************************************)
ApprovedExist == \A a \in Operators : approved[a] \subseteq DlqPositions

LastTryBehind(w) ==
    /\ "permanent" \notin Failures
    /\ pc[w] = "send" \/ outgoing[w] # NoMessage
    /\ outgoing[w].topic = Dlq
    => outgoing[w].record.attempt = MaxAttempts

\* The record of a producer that a lineage starts from is there.
Original(l) ==
    /\ l \in Lineages
    /\ l[3] < EndOffset(Source, l[2])
    /\ RecordAt(Source, l[2], l[3]).origin = NoOrigin

\* Why copies are conserved: each descends from a record of the workload, and the
\* only consumer of a topic settles it once, when its next copy is written.
CopiesDescend ==
    /\ \A p \in Partitions : EndOffset(Source, p) <= roundRobin[Source]
    /\ \A t \in Topics, p \in Partitions : \A o \in 0 .. EndOffset(t, p) - 1 :
          Original(LineageAt(t, p, o))
    /\ \A w \in Workers : pc[w] = "send" => CopyOfHand(w)

Conserved(l) ==
    /\ IsFiniteSet(CopiesOf(l)) /\ IsFiniteSet(DeadLettersOf(l))
    /\ Cardinality(CopiesOf(l)) + oks[l] + dropped[l] + DlqCopies(l)
           = (IF Original(l) THEN 1 ELSE 0) + Cardinality(ReplaysOf(l))

ReplayedOnce ==
    /\ \A w \in Workers : NothingTwice(w)
    /\ SettledWithinLogs
    /\ CopiesDescend
    /\ replayed \in Seq(DlqPositions)
    /\ oks \in [Lineages -> Nat] /\ dropped \in [Lineages -> Nat]
    /\ \A l \in Lineages : Conserved(l)

QInv ==
    /\ Inv
    /\ ApprovedExist
    /\ DeadLettersTriedInFull
    /\ \A w \in Workers : LastTryBehind(w)
    /\ OneWorkerEach /\ ~torn => ReplayedOnce
=============================================================================
