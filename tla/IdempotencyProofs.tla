------------------------- MODULE IdempotencyProofs -------------------------
(***************************************************************************)
(* Proofs about Idempotency.tla: for any size cap and any ttl, the store   *)
(* keeps to its cap, an event is dropped as a duplicate only within the    *)
(* ttl of its last mark, and an id used recently is not forgotten before   *)
(* its time.                                                               *)
(***************************************************************************)
EXTENDS Idempotency, SequenceTheorems, WellFoundedInduction, TLAPS

\* Deleting one element of a sequence: the rest keeps its order.
LEMMA Removal ==
    ASSUME NEW S, NEW list \in Seq(S), NEW k \in 1 .. Len(list)
    PROVE  LET rest == RemoveAt(list, k)
           IN  /\ rest \in Seq(S)
               /\ Len(rest) = Len(list) - 1
               /\ \A i \in 1 .. Len(rest) :
                     rest[i] = IF i < k THEN list[i] ELSE list[i + 1]
<1> DEFINE rest == RemoveAt(list, k)
           front == SubSeq(list, 1, k - 1)
           back == SubSeq(list, k + 1, Len(list))
<1>1. rest = front \o back
    BY DEF RemoveAt
<1>2. /\ front \in Seq(S) /\ Len(front) = k - 1
      /\ back \in Seq(S) /\ Len(back) = Len(list) - k
    OBVIOUS
<1>3. \A i \in 1 .. k - 1 : front[i] = list[i]
    OBVIOUS
<1>4. \A i \in 1 .. Len(list) - k : back[i] = list[i + k]
    OBVIOUS
<1> HIDE DEF rest, front, back
<1>5. /\ rest \in Seq(S)
      /\ Len(rest) = Len(front) + Len(back)
      /\ \A i \in 1 .. Len(front) + Len(back) :
            rest[i] = IF i <= Len(front) THEN front[i] ELSE back[i - Len(front)]
    BY <1>1, <1>2, ConcatProperties
<1>6. Len(rest) = Len(list) - 1
    BY <1>2, <1>5
<1>7. ASSUME NEW i \in 1 .. Len(rest)
      PROVE  rest[i] = IF i < k THEN list[i] ELSE list[i + 1]
    <2>1. CASE i < k
        BY <1>2, <1>3, <1>5, <1>6, <2>1
    <2>2. CASE ~(i < k)
        <3>1. i - (k - 1) \in 1 .. Len(list) - k /\ i - (k - 1) + k = i + 1
            BY <1>6, <2>2
        <3>2. back[i - (k - 1)] = list[i + 1]
            BY <1>4, <3>1
        <3> QED BY <1>2, <1>5, <1>6, <2>2, <3>2
    <2> QED BY <2>1, <2>2
<1> QED BY <1>5, <1>6, <1>7 DEF rest

\* A non-empty set of naturals has a least element.
LEMMA LeastNatural ==
    ASSUME NEW T, T \subseteq Nat, T # {}
    PROVE  \E i \in T : \A j \in T : i <= j
<1> DEFINE Less == {pair \in Nat \X Nat : pair[1] < pair[2]}
<1>1. IsWellFoundedOn(Less, Nat)
    BY NatLessThanWellFounded DEF OpToRel
<1>2. \E i \in T : \A j \in T : <<j, i>> \notin Less
    <2> HIDE DEF Less
    <2> QED BY <1>1, WFMin
<1>3. ASSUME NEW i \in T, NEW j \in T, <<j, i>> \notin Less PROVE i <= j
    BY <1>3
<1> QED BY <1>2, <1>3

\* What is left of a list when its first elements are dropped.
LEMMA Suffix ==
    ASSUME NEW S, NEW list \in Seq(S), NEW m \in 1 .. Len(list) + 1
    PROVE  LET rest == SubSeq(list, m, Len(list))
           IN  /\ rest \in Seq(S)
               /\ Len(rest) = Len(list) - m + 1
               /\ \A i \in 1 .. Len(rest) : rest[i] = list[i + m - 1]
OBVIOUS

\* Eviction leaves a suffix of the list that keeps to the cap.
LEMMA Eviction ==
    ASSUME NEW list \in Seq(Entry)
    PROVE  /\ Len(Evict(list)) <= MaxSize
           /\ \E m \in 1 .. Len(list) + 1 : Evict(list) = SubSeq(list, m, Len(list))
<1> DEFINE unexpired == {i \in 1 .. Len(list) : list[i].expires > now}
           first == IF unexpired = {} THEN Len(list) + 1
                    ELSE CHOOSE i \in unexpired : \A j \in unexpired : i <= j
           live == Live(list)
           excess == IF Len(live) > MaxSize THEN Len(live) - MaxSize ELSE 0
<1>1. first \in 1 .. Len(list) + 1
    <2>1. CASE unexpired = {}
        BY <2>1
    <2>2. CASE unexpired # {}
        <3>1. \E i \in unexpired : \A j \in unexpired : i <= j
            <4>1. unexpired \subseteq Nat
                OBVIOUS
            <4> HIDE DEF unexpired
            <4> QED BY <2>2, <4>1, LeastNatural
        <3>2. first \in unexpired
            BY <2>2, <3>1
        <3> QED BY <3>2
    <2> QED BY <2>1, <2>2
<1>2. live = SubSeq(list, first, Len(list))
    BY DEF Live
<1> HIDE DEF first
<1>3. live \in Seq(Entry) /\ Len(live) = Len(list) - first + 1
      /\ \A i \in 1 .. Len(live) : live[i] = list[i + first - 1]
    BY <1>1, <1>2, Suffix
<1>4. excess \in 0 .. Len(live) /\ Len(live) - excess <= MaxSize
    BY <1>3, StoreAssumption
<1>5. Evict(list) = SubSeq(live, excess + 1, Len(live))
    BY DEF Evict
<1> HIDE DEF excess
<1>6. Evict(list) = SubSeq(list, first + excess, Len(list))
    BY <1>1, <1>2, <1>4, <1>5
<1>7. Len(Evict(list)) = Len(live) - excess
    BY <1>3, <1>4, <1>5
<1> QED BY <1>1, <1>3, <1>4, <1>6, <1>7

\* The dictionary without the entry of e: entries of other ids, each still once.
LEMMA Others ==
    ASSUME TypeOK, NEW e \in Ids
    PROVE  LET rest == Without(e)
           IN  /\ rest \in Seq(Entry)
               /\ Len(rest) <= MaxSize
               /\ e \in Remembered => Len(rest) < MaxSize
               /\ \A i \in 1 .. Len(rest) :
                     rest[i].id # e /\ \E j \in 1 .. Len(entries) : rest[i] = entries[j]
               /\ \A i, j \in 1 .. Len(rest) : rest[i].id = rest[j].id => i = j
<1> DEFINE rest == Without(e)
           k == EntryOf(e)
<1> USE StoreAssumption DEF TypeOK
<1>1. CASE e \notin Remembered
    BY <1>1 DEF Without, Remembered
<1>2. CASE e \in Remembered
    <2>1. k \in 1 .. Len(entries) /\ entries[k].id = e
        BY <1>2 DEF Remembered, EntryOf
    <2>2. rest = RemoveAt(entries, k)
        BY <1>2 DEF Without
    <2> HIDE DEF k, rest
    <2>3. /\ rest \in Seq(Entry)
          /\ Len(rest) = Len(entries) - 1
          /\ \A i \in 1 .. Len(rest) :
                rest[i] = IF i < k THEN entries[i] ELSE entries[i + 1]
        BY <2>1, <2>2, Removal
    <2> DEFINE place(i) == IF i < k THEN i ELSE i + 1
    <2>4. /\ \A i \in 1 .. Len(rest) :
                place(i) \in 1 .. Len(entries) /\ place(i) # k /\ rest[i] = entries[place(i)]
          /\ \A i, j \in 1 .. Len(rest) : place(i) = place(j) => i = j
        BY <2>1, <2>3
    <2> HIDE DEF place
    <2>5. ASSUME NEW i \in 1 .. Len(rest)
          PROVE  /\ rest[i].id # e
                 /\ \E j \in 1 .. Len(entries) : rest[i] = entries[j]
        BY <2>1, <2>4
    <2>6. ASSUME NEW i \in 1 .. Len(rest), NEW j \in 1 .. Len(rest),
                 rest[i].id = rest[j].id
          PROVE  i = j
        BY <2>4, <2>6
    <2> QED BY <2>3, <2>5, <2>6 DEF rest
<1> QED BY <1>1, <1>2

\* The history of use keeps its type.
LEMMA TouchType ==
    ASSUME TypeOK, NEW e \in Ids, Touch(e)
    PROVE  uses' \in Seq(Ids)
<1>1. CASE uses' = Append(uses, e)
    BY <1>1 DEF TypeOK
<1>2. ASSUME NEW i \in 1 .. Len(uses), uses' = Append(RemoveAt(uses, i), e)
      PROVE  uses' \in Seq(Ids)
    <2>1. RemoveAt(uses, i) \in Seq(Ids)
        BY Removal DEF TypeOK
    <2> QED BY <1>2, <2>1, AppendProperties
<1> QED BY <1>1, <1>2 DEF Touch

\* An entry for e behind those of the other ids: each id still has one.
LEMMA LastUsed ==
    ASSUME TypeOK, NEW e \in Ids, NEW entry \in Entry, entry.id = e
    PROVE  LET list == Append(Without(e), entry)
           IN  /\ list \in Seq(Entry)
               /\ Len(list) = Len(Without(e)) + 1
               /\ \A i \in 1 .. Len(list) :
                     \/ list[i] = entry
                     \/ list[i].id # e /\ \E j \in 1 .. Len(entries) : list[i] = entries[j]
               /\ \A i, j \in 1 .. Len(list) : list[i].id = list[j].id => i = j
<1> DEFINE rest == Without(e)
           list == Append(rest, entry)
<1>1. /\ rest \in Seq(Entry)
      /\ \A i \in 1 .. Len(rest) :
            rest[i].id # e /\ \E j \in 1 .. Len(entries) : rest[i] = entries[j]
      /\ \A i, j \in 1 .. Len(rest) : rest[i].id = rest[j].id => i = j
    BY Others
<1> HIDE DEF rest
<1>2. /\ list \in Seq(Entry)
      /\ Len(list) = Len(rest) + 1
      /\ \A i \in 1 .. Len(rest) : list[i] = rest[i]
      /\ list[Len(rest) + 1] = entry
    BY <1>1, AppendProperties
<1> HIDE DEF list
<1>3. \A i \in 1 .. Len(list) : i \in 1 .. Len(rest) \/ i = Len(rest) + 1
    BY <1>1, <1>2
<1>4. ASSUME NEW i \in 1 .. Len(list)
      PROVE  \/ list[i] = entry
             \/ list[i].id # e /\ \E j \in 1 .. Len(entries) : list[i] = entries[j]
    BY <1>1, <1>2, <1>3
<1>5. ASSUME NEW i \in 1 .. Len(list), NEW j \in 1 .. Len(list),
             list[i].id = list[j].id
      PROVE  i = j
    BY <1>1, <1>2, <1>3, <1>5
<1> QED BY <1>2, <1>4, <1>5 DEF list, rest

\* mark keeps the types and sets the expiry.
LEMMA MarkStep ==
    ASSUME Inv, NEW e \in Ids, Mark(e)
    PROVE  TypeOK' /\ ExpiryFromMark'
<1> DEFINE entry == [id |-> e, expires |-> now + TTL]
           list == Append(Without(e), entry)
<1>1. TypeOK /\ now' = now /\ markedAt' = [markedAt EXCEPT ![e] = now]
      /\ entries' = Evict(list)
    BY DEF Inv, Mark
<1>2. entry \in Entry /\ entry.id = e /\ entry.expires = now + TTL
    BY <1>1, StoreAssumption DEF TypeOK, Entry
<1> HIDE DEF entry
<1>3. /\ list \in Seq(Entry)
      /\ \A i \in 1 .. Len(list) :
            \/ list[i] = entry
            \/ list[i].id # e /\ \E j \in 1 .. Len(entries) : list[i] = entries[j]
      /\ \A i, j \in 1 .. Len(list) : list[i].id = list[j].id => i = j
    BY <1>1, <1>2, LastUsed
<1> HIDE DEF list
<1>4. /\ Len(entries') <= MaxSize
      /\ \E m \in 1 .. Len(list) + 1 : entries' = SubSeq(list, m, Len(list))
    BY <1>1, <1>3, Eviction
<1>5. PICK m \in 1 .. Len(list) + 1 : entries' = SubSeq(list, m, Len(list))
    BY <1>4
<1>6. /\ entries' \in Seq(Entry)
      /\ Len(entries') = Len(list) - m + 1
      /\ \A i \in 1 .. Len(entries') : entries'[i] = list[i + m - 1]
    BY <1>3, <1>5, Suffix
<1>7. \A i \in 1 .. Len(entries') : i + m - 1 \in 1 .. Len(list)
    BY <1>3, <1>6
<1>8. ASSUME NEW i \in 1 .. Len(entries'), NEW j \in 1 .. Len(entries'),
             entries'[i].id = entries'[j].id
      PROVE  i = j
    <2>1. i + m - 1 = j + m - 1
        BY <1>3, <1>6, <1>7, <1>8
    <2> QED BY <2>1, <1>6
<1>9. TypeOK'
    <2>1. markedAt' \in [Ids -> Nat \cup {Never}]
        BY <1>1 DEF TypeOK
    <2>2. uses' \in Seq(Ids)
        BY <1>1, TouchType DEF Mark
    <2> QED BY <1>1, <1>4, <1>6, <1>8, <2>1, <2>2 DEF TypeOK
<1>10. ASSUME NEW i \in 1 .. Len(entries')
       PROVE  entries'[i].expires = markedAt'[entries'[i].id] + TTL
    <2> DEFINE old == list[i + m - 1]
    <2>1. /\ entries'[i] = old
          /\ \/ old = entry
             \/ old.id # e /\ \E j \in 1 .. Len(entries) : old = entries[j]
        BY <1>3, <1>6, <1>7
    <2> HIDE DEF old
    <2>2. CASE old = entry
        BY <1>1, <1>2, <2>1, <2>2, StoreAssumption DEF TypeOK
    <2>3. ASSUME NEW j \in 1 .. Len(entries), old = entries[j], old.id # e
          PROVE  entries'[i].expires = markedAt'[entries'[i].id] + TTL
        <3>1. entries[j] \in Entry
            BY <1>1 DEF TypeOK
        <3>2. markedAt'[old.id] = markedAt[old.id]
            BY <1>1, <2>3, <3>1 DEF TypeOK, Entry
        <3> QED BY <2>1, <2>3, <3>2 DEF Inv, ExpiryFromMark
    <2> QED BY <2>1, <2>2, <2>3
<1> QED BY <1>9, <1>10 DEF ExpiryFromMark

\* seen keeps types and expiries, whatever it answers.
LEMMA SeenStep ==
    ASSUME Inv, NEW e \in Ids, SeenNot(e) \/ Seen(e)
    PROVE  TypeOK' /\ ExpiryFromMark'
<1>1. TypeOK /\ ExpiryFromMark /\ now' = now /\ markedAt' = markedAt
    BY DEF Inv, SeenNot, Seen
<1>2. CASE SeenNot(e)
    <2>1. /\ entries' \in Seq(Entry)
          /\ Len(entries') <= MaxSize
          /\ \A i \in 1 .. Len(entries') :
                \E j \in 1 .. Len(entries) : entries'[i] = entries[j]
          /\ \A i, j \in 1 .. Len(entries') : entries'[i].id = entries'[j].id => i = j
        BY <1>1, <1>2, Others DEF SeenNot
    <2>2. TypeOK'
        BY <1>1, <1>2, <2>1 DEF SeenNot, TypeOK
    <2>3. ExpiryFromMark'
        BY <1>1, <2>1 DEF ExpiryFromMark
    <2> QED BY <2>2, <2>3
<1>3. CASE Seen(e)
    <2> DEFINE entry == entries[EntryOf(e)]
    <2>1. EntryOf(e) \in 1 .. Len(entries) /\ entry.id = e
        BY <1>3 DEF Seen, Remembered, EntryOf
    <2>2. entry \in Entry
        BY <1>1, <2>1 DEF TypeOK
    <2>3. Len(Without(e)) + 1 <= MaxSize
        <3>1. Without(e) \in Seq(Entry) /\ Len(Without(e)) < MaxSize
            BY <1>1, <1>3, Others DEF Seen
        <3> QED BY <3>1, StoreAssumption
    <2>4. entries' = Append(Without(e), entry)
        BY <1>3 DEF Seen
    <2> DEFINE list == Append(Without(e), entry)
    <2>5. /\ list \in Seq(Entry)
          /\ Len(list) = Len(Without(e)) + 1
          /\ \A i \in 1 .. Len(list) :
                \/ list[i] = entry
                \/ list[i].id # e /\ \E j \in 1 .. Len(entries) : list[i] = entries[j]
          /\ \A i, j \in 1 .. Len(list) : list[i].id = list[j].id => i = j
        BY <1>1, <2>1, <2>2, LastUsed
    <2>6. entries' = list
        BY <2>4
    <2> HIDE DEF list, entry
    <2>7. \A i \in 1 .. Len(entries') :
             \E j \in 1 .. Len(entries) : entries'[i] = entries[j]
        BY <2>1, <2>5, <2>6 DEF entry
    <2>8. /\ entries' \in Seq(Entry)
          /\ Len(entries') <= MaxSize
          /\ \A i, j \in 1 .. Len(entries') : entries'[i].id = entries'[j].id => i = j
        BY <2>3, <2>5, <2>6
    <2>9. uses' \in Seq(Ids)
        BY <1>1, <1>3, TouchType DEF Seen
    <2>10. TypeOK'
        BY <1>1, <2>8, <2>9 DEF TypeOK
    <2>11. ExpiryFromMark'
        BY <1>1, <2>7 DEF ExpiryFromMark
    <2> QED BY <2>10, <2>11
<1> QED BY <1>2, <1>3

\* What is left of a list when its first elements are dropped is still in order.
LEMMA SuffixInOrder ==
    ASSUME NEW list \in Seq(Entry), NEW history, InOrder(list, history),
           NEW m \in 1 .. Len(list) + 1
    PROVE  InOrder(SubSeq(list, m, Len(list)), history)
<1> DEFINE rest == SubSeq(list, m, Len(list))
<1>1. /\ Len(rest) = Len(list) - m + 1
      /\ \A i \in 1 .. Len(rest) : rest[i] = list[i + m - 1]
    BY Suffix
<1> HIDE DEF rest
<1>2. \A i \in 1 .. Len(rest) : i + m - 1 \in 1 .. Len(list)
    BY <1>1
<1>3. ASSUME NEW k \in 1 .. Len(rest)
      PROVE  \E i \in 1 .. Len(history) : history[i] = rest[k].id
    <2>1. rest[k] = list[k + m - 1] /\ k + m - 1 \in 1 .. Len(list)
        BY <1>1, <1>2
    <2> QED BY <2>1 DEF InOrder
<1>4. ASSUME NEW k \in 1 .. Len(rest), NEW l \in 1 .. Len(rest),
             NEW i \in 1 .. Len(history), NEW j \in 1 .. Len(history),
             k < l, history[i] = rest[k].id, history[j] = rest[l].id
      PROVE  i < j
    <2>1. k + m - 1 < l + m - 1 /\ k + m - 1 \in 1 .. Len(list) /\ l + m - 1 \in 1 .. Len(list)
        BY <1>2, <1>4
    <2>2. history[i] = list[k + m - 1].id /\ history[j] = list[l + m - 1].id
        BY <1>1, <1>4
    <2> QED BY <2>1, <2>2 DEF InOrder
<1> QED BY <1>3, <1>4 DEF InOrder, rest

\* So is the dictionary without the entry of e.
LEMMA OthersInOrder ==
    ASSUME TypeOK, UsedInOrder, NEW e \in Ids
    PROVE  InOrder(Without(e), uses)
<1>1. CASE e \notin Remembered
    BY <1>1 DEF Without, UsedInOrder
<1>2. CASE e \in Remembered
    <2> DEFINE k == EntryOf(e)
               rest == RemoveAt(entries, k)
    <2>1. k \in 1 .. Len(entries)
        BY <1>2 DEF Remembered, EntryOf
    <2>2. /\ Len(rest) = Len(entries) - 1
          /\ \A i \in 1 .. Len(rest) :
                rest[i] = IF i < k THEN entries[i] ELSE entries[i + 1]
        BY <2>1, Removal DEF TypeOK
    <2>3. Without(e) = rest
        BY <1>2 DEF Without
    <2> HIDE DEF k, rest
    <2> DEFINE place(i) == IF i < k THEN i ELSE i + 1
    <2>4. /\ \A i \in 1 .. Len(rest) :
                place(i) \in 1 .. Len(entries) /\ rest[i] = entries[place(i)]
          /\ \A i, j \in 1 .. Len(rest) : i < j => place(i) < place(j)
        BY <2>1, <2>2 DEF TypeOK
    <2> HIDE DEF place
    <2>5. InOrder(entries, uses)
        BY DEF UsedInOrder
    <2>6. ASSUME NEW l \in 1 .. Len(rest)
          PROVE  \E i \in 1 .. Len(uses) : uses[i] = rest[l].id
        BY <2>4, <2>5 DEF InOrder
    <2>7. ASSUME NEW l \in 1 .. Len(rest), NEW h \in 1 .. Len(rest),
                 NEW i \in 1 .. Len(uses), NEW j \in 1 .. Len(uses),
                 l < h, uses[i] = rest[l].id, uses[j] = rest[h].id
          PROVE  i < j
        <3>1. place(l) < place(h) /\ place(l) \in 1 .. Len(entries) /\ place(h) \in 1 .. Len(entries)
            BY <2>4, <2>7
        <3>2. uses[i] = entries[place(l)].id /\ uses[j] = entries[place(h)].id
            BY <2>4, <2>7
        <3> QED BY <2>5, <3>1, <3>2 DEF InOrder
    <2>8. InOrder(rest, uses)
        BY <2>6, <2>7 DEF InOrder
    <2> QED BY <2>3, <2>8
<1> QED BY <1>1, <1>2

\* The history after a use of e, which was at m if it was used before: it ends with e,
\* behind the other ids in their order.
TouchedAt(m, e) ==
    /\ Len(uses') = IF m <= Len(uses) THEN Len(uses) ELSE Len(uses) + 1
    /\ uses'[Len(uses')] = e
    /\ \A i \in 1 .. Len(uses') - 1 : uses'[i] = IF i < m THEN uses[i] ELSE uses[i + 1]
    /\ \A i \in 1 .. Len(uses) : uses[i] = e <=> i = m

\* Every use of e is such a step of the history.
LEMMA Touched ==
    ASSUME TypeOK, UsedInOrder, NEW e \in Ids, Touch(e)
    PROVE  \E m \in 1 .. Len(uses) + 1 : TouchedAt(m, e)
<1>1. uses \in Seq(Ids) /\ Len(uses) \in Nat
    BY DEF TypeOK
<1>2. CASE uses' = Append(uses, e) /\ \A i \in 1 .. Len(uses) : uses[i] # e
    <2>1. /\ Len(uses') = Len(uses) + 1
          /\ uses'[Len(uses')] = e
          /\ \A i \in 1 .. Len(uses) : uses'[i] = uses[i]
        BY <1>1, <1>2
    <2>2. TouchedAt(Len(uses) + 1, e)
        BY <1>1, <1>2, <2>1 DEF TouchedAt
    <2> QED BY <1>1, <2>2
<1>3. ASSUME NEW m \in 1 .. Len(uses), uses[m] = e, uses' = Append(RemoveAt(uses, m), e)
      PROVE  TouchedAt(m, e)
    <2> DEFINE kept == RemoveAt(uses, m)
    <2>1. /\ kept \in Seq(Ids)
          /\ Len(kept) = Len(uses) - 1
          /\ \A i \in 1 .. Len(kept) : kept[i] = IF i < m THEN uses[i] ELSE uses[i + 1]
        BY <1>1, <1>3, Removal
    <2>2. uses' = Append(kept, e)
        BY <1>3
    <2> HIDE DEF kept
    <2>3. /\ Len(uses') = Len(kept) + 1
          /\ uses'[Len(kept) + 1] = e
          /\ \A i \in 1 .. Len(kept) : uses'[i] = kept[i]
        BY <2>1, <2>2, AppendProperties
    <2>4. \A i \in 1 .. Len(uses) : uses[i] = e <=> i = m
        BY <1>3 DEF UsedInOrder
    <2>5. Len(uses') = Len(uses) /\ uses'[Len(uses')] = e
        BY <1>1, <2>1, <2>3
    <2>6. ASSUME NEW i \in 1 .. Len(uses') - 1
          PROVE  uses'[i] = IF i < m THEN uses[i] ELSE uses[i + 1]
        <3>1. i \in 1 .. Len(kept)
            BY <1>1, <2>1, <2>3
        <3> QED BY <2>1, <2>3, <3>1
    <2>7. m <= Len(uses)
        BY <1>1, <1>3
    <2> QED BY <2>4, <2>5, <2>6, <2>7 DEF TouchedAt
<1> QED BY <1>1, <1>2, <1>3 DEF Touch

\* An entry for e behind the others, in a history that ends with e, is in order.
LEMMA LastUsedInOrder ==
    ASSUME TypeOK, UsedInOrder, NEW e \in Ids, Touch(e), NEW entry \in Entry, entry.id = e
    PROVE  /\ \A i, j \in 1 .. Len(uses') : uses'[i] = uses'[j] => i = j
           /\ InOrder(Append(Without(e), entry), uses')
<1> DEFINE rest == Without(e)
           list == Append(rest, entry)
           n == Len(uses')
<1>1. PICK m \in 1 .. Len(uses) + 1 : TouchedAt(m, e)
    BY Touched
<1>2. uses \in Seq(Ids) /\ Len(uses) \in Nat
    BY DEF TypeOK
<1>3. /\ n \in Nat
      /\ uses'[n] = e
      /\ \A i \in 1 .. n : i = n \/ i \in 1 .. n - 1
    BY <1>1, <1>2 DEF TouchedAt
<1> DEFINE place(i) == IF i < m THEN i ELSE i + 1
<1>4. \A i \in 1 .. n - 1 :
          /\ place(i) \in 1 .. Len(uses)
          /\ place(i) # m
          /\ uses'[i] = uses[place(i)]
    BY <1>1, <1>2 DEF TouchedAt
<1>5. \A i, j \in 1 .. n - 1 :
          /\ place(i) = place(j) => i = j
          /\ place(i) < place(j) => i < j
    BY <1>1, <1>2
<1>6. \A a \in 1 .. Len(uses) : a # m => \E i \in 1 .. n - 1 : place(i) = a
    <2> SUFFICES ASSUME NEW a \in 1 .. Len(uses), a # m
                 PROVE  \E i \in 1 .. n - 1 : place(i) = a
        OBVIOUS
    <2>1. CASE a < m
        <3>1. a \in 1 .. n - 1 /\ place(a) = a
            BY <1>1, <1>2, <2>1 DEF TouchedAt
        <3> QED BY <3>1
    <2>2. CASE ~(a < m)
        <3>1. a - 1 \in 1 .. n - 1 /\ place(a - 1) = a
            BY <1>1, <1>2, <2>2 DEF TouchedAt
        <3> QED BY <3>1
    <2> QED BY <2>1, <2>2
<1> HIDE DEF place
<1>7. \A i \in 1 .. n - 1 : uses'[i] # e
    BY <1>1, <1>4 DEF TouchedAt
<1>8. \A i, j \in 1 .. n : uses'[i] = uses'[j] => i = j
    <2> SUFFICES ASSUME NEW i \in 1 .. n, NEW j \in 1 .. n, uses'[i] = uses'[j]
                 PROVE  i = j
        OBVIOUS
    <2>1. CASE i = n \/ j = n
        BY <1>3, <1>7, <2>1
    <2>2. CASE i \in 1 .. n - 1 /\ j \in 1 .. n - 1
        <3>1. place(i) = place(j)
            BY <1>4, <2>2 DEF UsedInOrder
        <3> QED BY <1>5, <2>2, <3>1
    <2> QED BY <1>3, <2>1, <2>2
<1>9. /\ rest \in Seq(Entry)
      /\ \A k \in 1 .. Len(rest) : rest[k].id # e
      /\ InOrder(rest, uses)
    BY Others, OthersInOrder
<1> HIDE DEF rest
<1>10. /\ Len(list) = Len(rest) + 1
       /\ \A k \in 1 .. Len(rest) : list[k] = rest[k]
       /\ list[Len(rest) + 1] = entry
       /\ \A k \in 1 .. Len(list) : k \in 1 .. Len(rest) \/ k = Len(rest) + 1
    BY <1>9, AppendProperties
<1> HIDE DEF list, n
<1>11. ASSUME NEW k \in 1 .. Len(list)
       PROVE  \E i \in 1 .. n : uses'[i] = list[k].id
    <2>1. CASE k = Len(rest) + 1
        <3>1. n \in 1 .. n
            BY <1>1, <1>2, <1>3 DEF TouchedAt, n
        <3> QED BY <1>3, <1>10, <2>1, <3>1
    <2>2. CASE k \in 1 .. Len(rest)
        <3>1. PICK a \in 1 .. Len(uses) : uses[a] = rest[k].id
            BY <1>9, <2>2 DEF InOrder
        <3>2. a # m
            BY <1>1, <1>9, <2>2, <3>1 DEF TouchedAt
        <3>3. PICK i \in 1 .. n - 1 : place(i) = a
            BY <1>6, <3>2
        <3>4. uses'[i] = list[k].id
            BY <1>4, <1>10, <2>2, <3>1, <3>3
        <3>5. i \in 1 .. n
            BY <1>3
        <3> QED BY <3>4, <3>5
    <2> QED BY <1>10, <2>1, <2>2
<1>12. ASSUME NEW k \in 1 .. Len(list), NEW l \in 1 .. Len(list),
              NEW i \in 1 .. n, NEW j \in 1 .. n,
              k < l, uses'[i] = list[k].id, uses'[j] = list[l].id
       PROVE  i < j
    <2>1. k \in 1 .. Len(rest)
        BY <1>9, <1>10, <1>12
    <2>2. i \in 1 .. n - 1
        BY <1>3, <1>9, <1>10, <1>12, <2>1
    <2>3. CASE l = Len(rest) + 1
        <3>1. j = n
            BY <1>3, <1>7, <1>10, <1>12, <2>3
        <3> QED BY <1>3, <2>2, <3>1
    <2>4. CASE l \in 1 .. Len(rest)
        <3>1. j \in 1 .. n - 1
            BY <1>3, <1>9, <1>10, <1>12, <2>4
        <3>2. /\ place(i) \in 1 .. Len(uses) /\ uses[place(i)] = rest[k].id
              /\ place(j) \in 1 .. Len(uses) /\ uses[place(j)] = rest[l].id
            BY <1>4, <1>10, <1>12, <2>1, <2>2, <2>4, <3>1
        <3>3. place(i) < place(j)
            BY <1>9, <1>12, <2>1, <2>4, <3>2 DEF InOrder
        <3> QED BY <1>5, <2>2, <3>1, <3>3
    <2> QED BY <1>10, <2>3, <2>4
<1>13. InOrder(list, uses')
    BY <1>11, <1>12 DEF InOrder, n
<1> QED BY <1>8, <1>13 DEF list, rest, n

\* Every operation keeps the order of use.
LEMMA OrderStep ==
    ASSUME Inv, [Next]_vars
    PROVE  UsedInOrder'
<1>1. TypeOK /\ UsedInOrder
    BY DEF Inv
<1>2. ASSUME NEW e \in Ids, Mark(e)
      PROVE  UsedInOrder'
    <2> DEFINE entry == [id |-> e, expires |-> now + TTL]
               list == Append(Without(e), entry)
    <2>1. entry \in Entry /\ entry.id = e
        BY <1>1, StoreAssumption DEF TypeOK, Entry
    <2>2. Touch(e) /\ entries' = Evict(list)
        BY <1>2 DEF Mark
    <2> HIDE DEF entry
    <2>3. list \in Seq(Entry)
        BY <1>1, <2>1, LastUsed
    <2>4. /\ \A i, j \in 1 .. Len(uses') : uses'[i] = uses'[j] => i = j
          /\ InOrder(list, uses')
        BY <1>1, <2>1, <2>2, LastUsedInOrder
    <2> HIDE DEF list
    <2>5. PICK m \in 1 .. Len(list) + 1 : entries' = SubSeq(list, m, Len(list))
        BY <2>2, <2>3, Eviction
    <2>6. InOrder(entries', uses')
        BY <2>3, <2>4, <2>5, SuffixInOrder
    <2> QED BY <2>4, <2>6 DEF UsedInOrder, InOrder
<1>3. ASSUME NEW e \in Ids, Seen(e)
      PROVE  UsedInOrder'
    <2> DEFINE entry == entries[EntryOf(e)]
    <2>1. EntryOf(e) \in 1 .. Len(entries) /\ entry.id = e
        BY <1>3 DEF Seen, Remembered, EntryOf
    <2>2. entry \in Entry
        BY <1>1, <2>1 DEF TypeOK
    <2>3. Touch(e) /\ entries' = Append(Without(e), entry)
        BY <1>3 DEF Seen
    <2> HIDE DEF entry
    <2>4. /\ \A i, j \in 1 .. Len(uses') : uses'[i] = uses'[j] => i = j
          /\ InOrder(entries', uses')
        BY <1>1, <2>1, <2>2, <2>3, LastUsedInOrder
    <2> QED BY <2>4 DEF UsedInOrder, InOrder
<1>4. ASSUME NEW e \in Ids, SeenNot(e)
      PROVE  UsedInOrder'
    <2>1. uses' = uses /\ entries' = Without(e)
        BY <1>4 DEF SeenNot
    <2>2. InOrder(Without(e), uses)
        BY <1>1, OthersInOrder
    <2> QED BY <1>1, <2>1, <2>2 DEF UsedInOrder, InOrder
<1>5. CASE Tick \/ UNCHANGED vars
    BY <1>1, <1>5 DEF Tick, vars, UsedInOrder, InOrder
<1> QED BY <1>2, <1>3, <1>4, <1>5 DEF Next

\* A sequence of growing integers grows by at least one in every step.
LEMMA Growing ==
    ASSUME NEW n \in Nat, NEW f, \A k \in 1 .. n : f[k] \in Int,
           \A k \in 1 .. n - 1 : f[k] < f[k + 1],
           NEW k \in 1 .. n
    PROVE  n - k <= f[n] - f[k]
<1> DEFINE Short == {d \in Nat : k + d <= n /\ f[k + d] - f[k] < d}
<1>1. Short = {}
    <2> SUFFICES ASSUME Short # {}
                 PROVE  FALSE
        OBVIOUS
    <2>1. Short \subseteq Nat
        OBVIOUS
    <2> HIDE DEF Short
    <2>2. PICK d \in Short : \A c \in Short : d <= c
        BY <2>1, LeastNatural
    <2>3. d \in Nat /\ k + d <= n /\ f[k + d] - f[k] < d
        BY <2>2 DEF Short
    <2>4. d # 0
        <3>1. f[k] \in Int
            OBVIOUS
        <3> QED BY <2>3, <3>1
    <2>5. d - 1 \in Nat /\ d - 1 \notin Short
        BY <2>2, <2>3, <2>4
    <2>6. k + d \in 1 .. n /\ k + (d - 1) \in 1 .. n - 1 /\ (k + (d - 1)) + 1 = k + d
        BY <2>3, <2>4
    <2>7. f[k + (d - 1)] < f[k + d] /\ f[k + (d - 1)] \in Int /\ f[k + d] \in Int /\ f[k] \in Int
        BY <2>6
    <2>8. ~(f[k + (d - 1)] - f[k] < d - 1)
        BY <2>5, <2>6 DEF Short
    <2> QED BY <2>3, <2>7, <2>8
<1>2. n - k \in Nat /\ k + (n - k) = n
    OBVIOUS
<1>3. f[n] \in Int /\ f[k] \in Int
    <2>1. n \in 1 .. n
        OBVIOUS
    <2> QED BY <2>1
<1>4. ~(f[k + (n - k)] - f[k] < n - k)
    <2>1. n - k \notin Short
        BY <1>1
    <2> QED BY <1>2, <2>1
<1> HIDE DEF Short
<1>5. ~(f[n] - f[k] < n - k)
    BY <1>2, <1>4
<1> QED BY <1>2, <1>3, <1>5

\* Behind an entry in the list there are no more than ids behind its id in the history.
LEMMA FewBehind ==
    ASSUME NEW list \in Seq(Entry), NEW history \in Seq(Ids), InOrder(list, history),
           NEW k \in 1 .. Len(list), NEW i \in 1 .. Len(history), history[i] = list[k].id,
           \A a, b \in 1 .. Len(history) : history[a] = history[b] => a = b
    PROVE  Len(list) - k <= Len(history) - i
<1> DEFINE n == Len(list)
           f == [l \in 1 .. n |-> CHOOSE j \in 1 .. Len(history) : history[j] = list[l].id]
<1>1. ASSUME NEW l \in 1 .. n
      PROVE  f[l] \in 1 .. Len(history) /\ history[f[l]] = list[l].id
    <2>1. \E j \in 1 .. Len(history) : history[j] = list[l].id
        BY DEF InOrder
    <2> QED BY <2>1
<1> HIDE DEF f
<1>2. n \in Nat /\ Len(history) \in Nat /\ \A l \in 1 .. n : f[l] \in Int
    BY <1>1
<1>3. ASSUME NEW l \in 1 .. n - 1
      PROVE  f[l] < f[l + 1]
    <2>1. l \in 1 .. n /\ l + 1 \in 1 .. n /\ l < l + 1
        BY <1>2
    <2>2. /\ f[l] \in 1 .. Len(history) /\ history[f[l]] = list[l].id
          /\ f[l + 1] \in 1 .. Len(history) /\ history[f[l + 1]] = list[l + 1].id
        BY <1>1, <2>1
    <2> QED BY <2>1, <2>2 DEF InOrder
<1> HIDE DEF n
<1>4. n - k <= f[n] - f[k]
    BY <1>2, <1>3, Growing DEF n
<1>5. f[k] = i
    BY <1>1 DEF n
<1>6. f[n] <= Len(history) /\ f[n] \in Int
    <2>1. n \in 1 .. n
        BY <1>2 DEF n
    <2> QED BY <1>1, <1>2, <2>1
<1> QED BY <1>2, <1>4, <1>5, <1>6 DEF n

\* Eviction spares an entry that has not expired and has room behind it.
LEMMA EvictionSpares ==
    ASSUME NEW list \in Seq(Entry), NEW k \in 1 .. Len(list), now \in Nat,
           list[k].expires > now, Len(list) - k < MaxSize
    PROVE  \E i \in 1 .. Len(Evict(list)) : Evict(list)[i] = list[k]
<1> DEFINE unexpired == {i \in 1 .. Len(list) : list[i].expires > now}
           first == CHOOSE i \in unexpired : \A j \in unexpired : i <= j
           live == Live(list)
           excess == IF Len(live) > MaxSize THEN Len(live) - MaxSize ELSE 0
<1>1. k \in unexpired /\ unexpired \subseteq 1 .. Len(list)
    OBVIOUS
<1>2. live = SubSeq(list, first, Len(list))
    BY <1>1 DEF Live
<1> HIDE DEF unexpired, live
<1>3. first \in unexpired /\ \A j \in unexpired : first <= j
    <2>1. unexpired \subseteq Nat /\ unexpired # {}
        BY <1>1
    <2>2. \E i \in unexpired : \A j \in unexpired : i <= j
        BY <2>1, LeastNatural
    <2> QED BY <2>2
<1> HIDE DEF first
<1>4. first \in 1 .. Len(list) /\ first <= k
    BY <1>1, <1>3
<1>5. live \in Seq(Entry) /\ Len(live) = Len(list) - first + 1
      /\ \A i \in 1 .. Len(live) : live[i] = list[i + first - 1]
    BY <1>2, <1>4, Suffix
<1>6. excess \in Nat /\ excess + 1 \in 1 .. Len(live) + 1 /\ excess <= k - first
    BY <1>4, <1>5, StoreAssumption
<1>7. Evict(list) = SubSeq(live, excess + 1, Len(live))
    BY DEF Evict, live
<1> HIDE DEF excess
<1>8. /\ Len(Evict(list)) = Len(live) - excess
      /\ \A i \in 1 .. Len(Evict(list)) : Evict(list)[i] = live[i + excess]
    <2> DEFINE rest == SubSeq(live, excess + 1, Len(live))
    <2>1. /\ Len(rest) = Len(live) - (excess + 1) + 1
          /\ \A i \in 1 .. Len(rest) : rest[i] = live[i + (excess + 1) - 1]
        BY <1>5, <1>6, Suffix
    <2> HIDE DEF rest
    <2>2. Len(rest) = Len(live) - excess /\ \A i \in Nat : i + (excess + 1) - 1 = i + excess
        BY <1>5, <1>6, <2>1
    <2>3. Evict(list) = rest
        BY <1>7 DEF rest
    <2> QED BY <2>1, <2>2, <2>3
<1> DEFINE place == k - first + 1 - excess
<1>9. place \in 1 .. Len(Evict(list)) /\ place + excess \in 1 .. Len(live)
      /\ (place + excess) + first - 1 = k
    BY <1>4, <1>5, <1>6, <1>8
<1>10. Evict(list)[place] = list[k]
    BY <1>5, <1>8, <1>9
<1> QED BY <1>9, <1>10

\* The entries of the other ids stay when that of e goes.
LEMMA OthersStay ==
    ASSUME TypeOK, NEW e \in Ids, NEW k \in 1 .. Len(entries), entries[k].id # e
    PROVE  \E i \in 1 .. Len(Without(e)) : Without(e)[i] = entries[k]
<1>1. CASE e \notin Remembered
    BY <1>1 DEF Without
<1>2. CASE e \in Remembered
    <2> DEFINE gone == EntryOf(e)
               rest == RemoveAt(entries, gone)
    <2>1. gone \in 1 .. Len(entries) /\ entries[gone].id = e
        BY <1>2 DEF Remembered, EntryOf
    <2>2. /\ Len(rest) = Len(entries) - 1
          /\ \A i \in 1 .. Len(rest) :
                rest[i] = IF i < gone THEN entries[i] ELSE entries[i + 1]
        BY <2>1, Removal DEF TypeOK
    <2>3. Without(e) = rest
        BY <1>2 DEF Without
    <2> HIDE DEF gone, rest
    <2>4. Len(entries) \in Nat /\ k # gone
        BY <2>1 DEF TypeOK
    <2>5. CASE k < gone
        <3>1. k \in 1 .. Len(rest) /\ rest[k] = entries[k]
            BY <2>1, <2>2, <2>4, <2>5
        <3> QED BY <2>3, <3>1
    <2>6. CASE gone < k
        <3>1. k - 1 \in 1 .. Len(rest) /\ ~(k - 1 < gone) /\ (k - 1) + 1 = k
            BY <2>1, <2>2, <2>4, <2>6
        <3>2. rest[k - 1] = entries[k]
            BY <2>2, <3>1
        <3> QED BY <2>3, <3>1, <3>2
    <2> QED BY <2>1, <2>4, <2>5, <2>6
<1> QED BY <1>1, <1>2

\* An id used recently has an entry among the others when another id is used.
LEMMA RecentAmongOthers ==
    ASSUME Inv, RecentIdsSurvive, NEW e \in Ids, Touch(e),
           NEW i \in 1 .. Len(uses'), uses'[i] # e, Len(uses') - i < MaxSize,
           markedAt[uses'[i]] + TTL > now
    PROVE  \E k \in 1 .. Len(Without(e)) :
              Without(e)[k].id = uses'[i] /\ Without(e)[k].expires > now
<1> DEFINE x == uses'[i]
<1>1. TypeOK /\ UsedInOrder /\ ExpiryFromMark
    BY DEF Inv
<1>2. PICK m \in 1 .. Len(uses) + 1 : TouchedAt(m, e)
    BY <1>1, Touched
<1>3. Len(uses) \in Nat /\ MaxSize \in Nat
    BY <1>1, StoreAssumption DEF TypeOK
<1>4. i \in 1 .. Len(uses') - 1
    <2>1. i # Len(uses')
        BY <1>2 DEF TouchedAt
    <2>2. Len(uses') \in Nat
        BY <1>2, <1>3 DEF TouchedAt
    <2> QED BY <2>1, <2>2
<1>5. PICK a \in 1 .. Len(uses) : uses[a] = x /\ Len(uses) - a < MaxSize
    <2> DEFINE a == IF i < m THEN i ELSE i + 1
    <2>1. uses'[i] = uses[a]
        BY <1>2, <1>4 DEF TouchedAt
    <2>2. /\ Len(uses') \in Nat
          /\ Len(uses') = IF m <= Len(uses) THEN Len(uses) ELSE Len(uses) + 1
        BY <1>2, <1>3 DEF TouchedAt
    <2>3. a \in 1 .. Len(uses) /\ Len(uses) - a <= Len(uses') - i /\ uses[a] = x
        <3>1. i \in Nat /\ i >= 1 /\ i <= Len(uses') - 1 /\ m \in Nat /\ m <= Len(uses) + 1
            BY <1>3, <1>4, <2>2
        <3>2. a \in 1 .. Len(uses) /\ Len(uses) - a <= Len(uses') - i
            <4>1. CASE m <= Len(uses)
                BY <1>3, <2>2, <3>1, <4>1
            <4>2. CASE m = Len(uses) + 1
                <5>1. Len(uses') = Len(uses) + 1
                    BY <1>3, <2>2, <4>2
                <5>2. i < m /\ i <= Len(uses)
                    BY <1>3, <3>1, <4>2, <5>1
                <5>3. a = i
                    BY <5>2
                <5> HIDE DEF a
                <5> QED BY <1>3, <3>1, <5>1, <5>2, <5>3
            <4> QED BY <1>3, <3>1, <4>1, <4>2
        <3> QED BY <2>1, <3>2
    <2>4. Len(uses) - a < MaxSize
        BY <1>3, <2>2, <2>3
    <2> QED BY <2>3, <2>4
<1> HIDE DEF x
<1>6. x \in Remembered
    BY <1>5 DEF RecentIdsSurvive, x
<1>7. PICK k \in 1 .. Len(entries) : entries[k].id = x
    BY <1>6 DEF Remembered
<1>8. entries[k].expires = markedAt[x] + TTL
    BY <1>1, <1>7 DEF ExpiryFromMark
<1>9. PICK l \in 1 .. Len(Without(e)) : Without(e)[l] = entries[k]
    BY <1>1, <1>7, OthersStay DEF x
<1> QED BY <1>7, <1>8, <1>9 DEF x

\* Whatever the store does, an id used recently keeps its entry until it expires.
LEMMA RecentStep ==
    ASSUME Inv, RecentIdsSurvive, [Next]_vars
    PROVE  RecentIdsSurvive'
<1> SUFFICES ASSUME NEW i \in 1 .. Len(uses'), markedAt'[uses'[i]] + TTL > now',
                    Len(uses') - i < MaxSize
             PROVE  \E k \in 1 .. Len(entries') : entries'[k].id = uses'[i]
    BY DEF RecentIdsSurvive, Remembered
<1>1. TypeOK /\ UsedInOrder /\ ExpiryFromMark
    BY DEF Inv
<1>2. now \in Nat /\ Len(uses) \in Nat /\ MaxSize \in Nat /\ MaxSize > 0 /\ TTL \in Nat /\ TTL > 0
    BY <1>1, StoreAssumption DEF TypeOK
<1>3. ASSUME NEW e \in Ids, NEW entry \in Entry, entry.id = e, Touch(e)
      PROVE  LET list == Append(Without(e), entry)
             IN  /\ list \in Seq(Entry)
                 /\ Len(list) \in Nat
                 /\ list[Len(list)] = entry /\ Len(list) \in 1 .. Len(list)
                 /\ InOrder(list, uses')
                 /\ \A k \in 1 .. Len(Without(e)) :
                       k \in 1 .. Len(list) /\ list[k] = Without(e)[k]
    <2> DEFINE list == Append(Without(e), entry)
    <2>1. Without(e) \in Seq(Entry)
        BY <1>1, Others
    <2>2. InOrder(list, uses')
        BY <1>1, <1>3, LastUsedInOrder
    <2> QED BY <2>1, <2>2
<1>4. ASSUME NEW e \in Ids, Mark(e)
      PROVE  \E k \in 1 .. Len(entries') : entries'[k].id = uses'[i]
    <2> DEFINE entry == [id |-> e, expires |-> now + TTL]
               list == Append(Without(e), entry)
    <2>1. entry \in Entry /\ entry.id = e /\ entry.expires = now + TTL
        BY <1>2 DEF Entry
    <2>2. /\ Touch(e) /\ entries' = Evict(list)
          /\ now' = now /\ markedAt' = [markedAt EXCEPT ![e] = now]
        BY <1>4 DEF Mark
    <2> HIDE DEF entry
    <2>3. /\ list \in Seq(Entry)
          /\ Len(list) \in Nat
          /\ list[Len(list)] = entry /\ Len(list) \in 1 .. Len(list)
          /\ InOrder(list, uses')
          /\ \A k \in 1 .. Len(Without(e)) :
                k \in 1 .. Len(list) /\ list[k] = Without(e)[k]
        BY <1>3, <2>1, <2>2
    <2> HIDE DEF list
    <2>4. PICK k \in 1 .. Len(list) :
              /\ list[k].id = uses'[i] /\ list[k].expires > now
              /\ Len(list) - k < MaxSize
        <3>1. CASE uses'[i] = e
            <4>1. now + TTL > now /\ Len(list) - Len(list) < MaxSize
                BY <1>2, <2>3
            <4> QED BY <2>1, <2>3, <3>1, <4>1
        <3>2. CASE uses'[i] # e
            <4>1. uses' \in Seq(Ids) /\ uses'[i] \in Ids
                BY <1>1, <2>2, TouchType
            <4>2. markedAt[uses'[i]] + TTL > now
                BY <1>1, <2>2, <3>2, <4>1 DEF TypeOK
            <4>3. PICK k \in 1 .. Len(Without(e)) :
                      Without(e)[k].id = uses'[i] /\ Without(e)[k].expires > now
                BY <2>2, <3>2, <4>2, RecentAmongOthers
            <4>4. k \in 1 .. Len(list) /\ list[k].id = uses'[i] /\ list[k].expires > now
                BY <2>3, <4>3
            <4>5. \A a, b \in 1 .. Len(uses') : uses'[a] = uses'[b] => a = b
                BY OrderStep DEF UsedInOrder
            <4>6. Len(list) - k <= Len(uses') - i
                BY <2>3, <4>1, <4>4, <4>5, FewBehind
            <4>7. Len(list) - k < MaxSize
                BY <1>2, <2>3, <4>1, <4>4, <4>6
            <4> QED BY <4>4, <4>7
        <3> QED BY <3>1, <3>2
    <2>5. PICK l \in 1 .. Len(Evict(list)) : Evict(list)[l] = list[k]
        BY <1>2, <2>3, <2>4, EvictionSpares
    <2> QED BY <2>2, <2>4, <2>5
<1>5. ASSUME NEW e \in Ids, Seen(e)
      PROVE  \E k \in 1 .. Len(entries') : entries'[k].id = uses'[i]
    <2> DEFINE entry == entries[EntryOf(e)]
               list == Append(Without(e), entry)
    <2>1. EntryOf(e) \in 1 .. Len(entries) /\ entry.id = e
        BY <1>5 DEF Seen, Remembered, EntryOf
    <2>2. entry \in Entry
        BY <1>1, <2>1 DEF TypeOK
    <2>3. Touch(e) /\ entries' = list /\ now' = now /\ markedAt' = markedAt
        BY <1>5 DEF Seen
    <2> HIDE DEF entry
    <2>4. /\ list[Len(list)] = entry /\ Len(list) \in 1 .. Len(list)
          /\ \A k \in 1 .. Len(Without(e)) :
                k \in 1 .. Len(list) /\ list[k] = Without(e)[k]
        BY <1>3, <2>1, <2>2, <2>3
    <2> HIDE DEF list
    <2>5. CASE uses'[i] = e
        BY <2>1, <2>3, <2>4, <2>5
    <2>6. CASE uses'[i] # e
        <3>1. PICK k \in 1 .. Len(Without(e)) : Without(e)[k].id = uses'[i]
            BY <2>3, <2>6, RecentAmongOthers
        <3> QED BY <2>3, <2>4, <3>1
    <2> QED BY <2>5, <2>6
<1>6. ASSUME NEW e \in Ids, SeenNot(e)
      PROVE  \E k \in 1 .. Len(entries') : entries'[k].id = uses'[i]
    <2>1. /\ entries' = Without(e) /\ uses' = uses /\ now' = now /\ markedAt' = markedAt
          /\ e \in Remembered => entries[EntryOf(e)].expires <= now
        BY <1>6 DEF SeenNot
    <2>2. uses[i] \in Remembered
        BY <2>1 DEF RecentIdsSurvive
    <2>3. PICK k \in 1 .. Len(entries) : entries[k].id = uses[i]
        BY <2>2 DEF Remembered
    <2>4. CASE uses[i] # e
        <3>1. PICK l \in 1 .. Len(Without(e)) : Without(e)[l] = entries[k]
            BY <1>1, <2>3, <2>4, OthersStay
        <3> QED BY <2>1, <2>3, <3>1
    <2>5. CASE uses[i] = e
        <3>1. EntryOf(e) \in 1 .. Len(entries) /\ entries[EntryOf(e)].id = e
            BY <2>3, <2>5 DEF EntryOf
        <3>2. entries[EntryOf(e)].expires = markedAt[e] + TTL
            BY <1>1, <3>1 DEF ExpiryFromMark
        <3>3. markedAt[e] + TTL > now /\ markedAt[e] + TTL <= now
            BY <2>1, <2>2, <2>5, <3>2
        <3>4. markedAt[e] \in Int
            BY <1>1, <1>2 DEF TypeOK, Never
        <3> QED BY <1>2, <3>3, <3>4
    <2> QED BY <2>4, <2>5
<1>7. CASE Tick \/ UNCHANGED vars
    <2>1. /\ uses' = uses /\ entries' = entries /\ markedAt' = markedAt
          /\ now' = now \/ now' = now + 1
        BY <1>7 DEF Tick, vars
    <2>2. uses[i] \in Ids
        BY <1>1, <2>1 DEF TypeOK
    <2>3. markedAt[uses[i]] \in Int
        BY <1>1, <1>2, <2>2 DEF TypeOK, Never
    <2>4. markedAt[uses[i]] + TTL > now
        BY <1>2, <2>1, <2>3
    <2>5. uses[i] \in Remembered
        BY <2>1, <2>4 DEF RecentIdsSurvive
    <2> QED BY <2>1, <2>5 DEF Remembered
<1> QED BY <1>4, <1>5, <1>6, <1>7 DEF Next

\* The store keeps to its size cap, holds one entry of each id, and no entry
\* outlives the ttl of the last mark of its id.
THEOREM Invariance == Spec => []Inv
<1>1. Init => Inv
    BY StoreAssumption DEF Init, Inv, TypeOK, ExpiryFromMark, UsedInOrder, InOrder
<1>2. Inv /\ [Next]_vars => Inv'
    <2> SUFFICES ASSUME Inv, [Next]_vars PROVE TypeOK' /\ ExpiryFromMark'
        BY OrderStep DEF Inv
    <2>1. CASE Tick
        BY <2>1 DEF Tick, Inv, TypeOK, ExpiryFromMark
    <2>2. ASSUME NEW e \in Ids, Mark(e) PROVE TypeOK' /\ ExpiryFromMark'
        BY <2>2, MarkStep
    <2>3. ASSUME NEW e \in Ids, SeenNot(e) \/ Seen(e) PROVE TypeOK' /\ ExpiryFromMark'
        BY <2>3, SeenStep
    <2>4. CASE UNCHANGED vars
        BY <2>4 DEF vars, Inv, TypeOK, ExpiryFromMark
    <2> QED BY <2>1, <2>2, <2>3, <2>4 DEF Next
<1> QED BY <1>1, <1>2, PTL DEF Spec

\* An event is dropped as a duplicate only within ttl of its last mark.
THEOREM DuplicatesFresh == Spec => []DuplicatesAreFresh
<1>1. Inv => DuplicatesAreFresh
    <2> SUFFICES ASSUME Inv, NEW e \in Ids, e \in Remembered,
                        entries[EntryOf(e)].expires > now
                 PROVE  markedAt[e] + TTL > now
        BY DEF DuplicatesAreFresh
    <2>1. EntryOf(e) \in 1 .. Len(entries) /\ entries[EntryOf(e)].id = e
        BY DEF Remembered, EntryOf
    <2>2. entries[EntryOf(e)] \in Entry
        BY <2>1 DEF Inv, TypeOK
    <2>3. entries[EntryOf(e)].expires = markedAt[e] + TTL
        BY <2>1 DEF Inv, ExpiryFromMark
    <2>4. markedAt[e] \in Int /\ entries[EntryOf(e)].expires \in Int /\ now \in Int
        BY <2>2, StoreAssumption DEF Inv, TypeOK, Entry, Never
    <2> QED BY <2>3, <2>4, StoreAssumption
<1> QED BY <1>1, Invariance, PTL

\* Least recently used goes first (idempotency.py, "A bounded, TTL'd LRU of processed
\* event ids"): an id within its ttl is forgotten only after max_size other ids were used.
THEOREM RecentSurvive == Spec => []RecentIdsSurvive
<1>1. Init => RecentIdsSurvive
    BY DEF Init, RecentIdsSurvive
<1>2. Inv /\ RecentIdsSurvive /\ [Next]_vars => RecentIdsSurvive'
    BY RecentStep
<1> QED BY <1>1, <1>2, Invariance, PTL DEF Spec
=============================================================================
