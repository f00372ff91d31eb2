---------------------------- MODULE Idempotency ----------------------------
(***************************************************************************)
(* idempotency.py, InMemoryIdempotencyStore: a bounded memory of processed *)
(* event ids, each with the time it expires, in the order of last use      *)
(* (oldest first).  Every operation runs under the store's lock and is one *)
(* action; the clock is the environment's.  mark and the eviction it ends  *)
(* with read the clock once each, and are taken to read the same time.     *)
(***************************************************************************)
EXTENDS Integers, Sequences, SequencesExt

CONSTANTS
    Ids,      \* event ids
    MaxSize,  \* max_size
    TTL,      \* ttl
    MaxNow    \* bound: the clock stops here

ASSUME StoreAssumption == MaxSize \in Nat \ {0} /\ TTL \in Nat \ {0}
ASSUME ClockAssumption == MaxNow \in Nat

VARIABLES
    now,       \* Clock.now()
    entries,   \* _entries: id and expires_at, in the order of the dictionary
    markedAt,  \* history: when each id was last marked, Never if it was not
    uses       \* history: all ids ever remembered, by last use

vars == <<now, entries, markedAt, uses>>

Never == -1 - TTL

Entry == [id : Ids, expires : Nat]

Init == now = 0 /\ entries = <<>> /\ markedAt = [e \in Ids |-> Never] /\ uses = <<>>

Remembered == {entries[i].id : i \in 1 .. Len(entries)}

EntryOf(e) == CHOOSE i \in 1 .. Len(entries) : entries[i].id = e

\* The dictionary without the entry of e.
Without(e) == IF e \in Remembered THEN RemoveAt(entries, EntryOf(e)) ELSE entries

\* e becomes the id used last.
Touch(e) ==
    \/ /\ \A i \in 1 .. Len(uses) : uses[i] # e
       /\ uses' = Append(uses, e)
    \/ \E i \in 1 .. Len(uses) : uses[i] = e /\ uses' = Append(RemoveAt(uses, i), e)
-----------------------------------------------------------------------------
\* _evict: the leading run of expired entries goes, then the oldest entries
\* until the rest fits.
Live(list) ==
    LET unexpired == {i \in 1 .. Len(list) : list[i].expires > now}
        first == IF unexpired = {} THEN Len(list) + 1
                 ELSE CHOOSE i \in unexpired : \A j \in unexpired : i <= j
    IN  SubSeq(list, first, Len(list))

\* Faulty variant of Evict: expired entries go, whatever the size of the rest.
EvictExpiredOnly(list) == Live(list)

Evict(list) ==
    LET live == Live(list)
        excess == IF Len(live) > MaxSize THEN Len(live) - MaxSize ELSE 0
    IN  SubSeq(live, excess + 1, Len(live))

\* Faulty variant of Mark: an id marked again keeps its place in the order.
MarkInPlace(e) ==
    /\ entries' = Evict(
           IF e \in Remembered THEN [entries EXCEPT ![EntryOf(e)].expires = now + TTL]
           ELSE Append(entries, [id |-> e, expires |-> now + TTL]))
    /\ markedAt' = [markedAt EXCEPT ![e] = now]
    /\ Touch(e)
    /\ UNCHANGED now

\* mark: a new expiry, at the end of the order.
Mark(e) ==
    /\ entries' = Evict(Append(Without(e), [id |-> e, expires |-> now + TTL]))
    /\ markedAt' = [markedAt EXCEPT ![e] = now]
    /\ Touch(e)
    /\ UNCHANGED now

\* seen of an id that is not remembered, or whose entry has expired and goes.
SeenNot(e) ==
    /\ e \in Remembered => entries[EntryOf(e)].expires <= now
    /\ entries' = Without(e)
    /\ UNCHANGED <<now, markedAt, uses>>

\* Faulty variant of Seen: being asked for renews the expiry.
SeenRenews(e) ==
    /\ e \in Remembered /\ entries[EntryOf(e)].expires > now
    /\ entries' = Append(Without(e), [id |-> e, expires |-> now + TTL])
    /\ Touch(e)
    /\ UNCHANGED <<now, markedAt>>

\* seen of a remembered id: it becomes the last used, and its expiry stays.
Seen(e) ==
    /\ e \in Remembered /\ entries[EntryOf(e)].expires > now
    /\ entries' = Append(Without(e), entries[EntryOf(e)])
    /\ Touch(e)
    /\ UNCHANGED <<now, markedAt>>

Tick == now < MaxNow /\ now' = now + 1 /\ UNCHANGED <<entries, markedAt, uses>>

Next == Tick \/ \E e \in Ids : Mark(e) \/ SeenNot(e) \/ Seen(e)

Spec == Init /\ [][Next]_vars
-----------------------------------------------------------------------------
\* Every variable has its type, each id has one entry, and the store keeps to
\* its size cap ("the size cap keeps a traffic spike from turning the dedupe
\* cache into the reason the process runs out of memory").
TypeOK ==
    /\ now \in Nat
    /\ entries \in Seq(Entry)
    /\ \A i, j \in 1 .. Len(entries) : entries[i].id = entries[j].id => i = j
    /\ Len(entries) <= MaxSize
    /\ markedAt \in [Ids -> Nat \cup {Never}]
    /\ uses \in Seq(Ids)

\* An event is dropped as a duplicate only within ttl of its last mark, however
\* often it is asked for in between.
DuplicatesAreFresh ==
    \A e \in Ids :
        (e \in Remembered /\ entries[EntryOf(e)].expires > now) => markedAt[e] + TTL > now

\* The inductive invariant: an entry expires ttl after the last mark of its id, and
\* the entries are in the order in which their ids were used last.
ExpiryFromMark ==
    \A i \in 1 .. Len(entries) : entries[i].expires = markedAt[entries[i].id] + TTL

\* The entries of a list are in the order of a history of uses.
InOrder(list, history) ==
    /\ \A k \in 1 .. Len(list) : \E i \in 1 .. Len(history) : history[i] = list[k].id
    /\ \A k, l \in 1 .. Len(list), i, j \in 1 .. Len(history) :
          k < l /\ history[i] = list[k].id /\ history[j] = list[l].id => i < j

UsedInOrder ==
    /\ \A i, j \in 1 .. Len(uses) : uses[i] = uses[j] => i = j
    /\ InOrder(entries, uses)

Inv == TypeOK /\ ExpiryFromMark /\ UsedInOrder

\* Least recently used goes first: an id within its ttl is only forgotten when
\* max_size other ids were used after it.
RecentIdsSurvive ==
    \A i \in 1 .. Len(uses) :
        (markedAt[uses[i]] + TTL > now /\ Len(uses) - i < MaxSize) =>
            uses[i] \in Remembered

\* idempotency.py:79, in _evict: "insertion order is expiry order for a fixed
\* TTL".  (seen moves an entry to the end and leaves its expiry.)
InsertionOrderIsExpiryOrder ==
    \A i, j \in 1 .. Len(entries) : i < j => entries[i].expires <= entries[j].expires
=============================================================================
