---------------------------- MODULE BrokerProofs ----------------------------
(***************************************************************************)
(* Range assignment, for every number of partitions and every group: the   *)
(* blocks of the members tile the partitions, so as long as member ids are *)
(* distinct (GroupTypeOK, which _join and _leave preserve) each partition  *)
(* has exactly one owner; the sizes of any two blocks differ by at most 1. *)
(***************************************************************************)
EXTENDS Group, SequenceTheorems, FiniteSetTheorems, TLAPS

\* Division with remainder, as the provers need it.
LEMMA DivMod ==
    ASSUME NEW n \in Nat, NEW d \in Nat \ {0}
    PROVE  /\ n \div d \in Nat
           /\ n % d \in 0 .. d - 1
           /\ n = d * (n \div d) + (n % d)
  OBVIOUS

\* The block of a member lies within the partitions: an assignment never names
\* a partition the topic does not have.
LEMMA RangeBlockInPartitions ==
    ASSUME NEW count \in Nat \ {0}, NEW rank \in 0 .. count - 1
    PROVE  RangeBlock(rank, count) \subseteq Partitions
  <1> DEFINE base  == NumPartitions \div count
             extra == NumPartitions % count
  <1>1. /\ NumPartitions \in Nat
        /\ base \in Nat /\ extra \in Nat
        /\ NumPartitions = count * base + extra
    BY DivMod, PartitionsAssumption
  <1>2. rank * base \in Nat /\ (rank + 1) * base <= count * base
    BY <1>1
  <1>3. (rank + 1) * base = rank * base + base
    BY <1>1
  <1> HIDE DEF base, extra
  <1> QED
    BY <1>1, <1>2, <1>3 DEF RangeBlock, Partitions, base, extra

\* The first partition of a block, and of the block after it.
Start(rank, count) ==
    rank * (NumPartitions \div count)
        + (IF rank < NumPartitions % count THEN rank ELSE NumPartitions % count)

\* The block of a member runs from its start to the start of the next one.
LEMMA BlockIsInterval ==
    ASSUME NEW count \in Nat \ {0}, NEW rank \in 0 .. count - 1
    PROVE  /\ Start(rank, count) \in Nat
           /\ RangeBlock(rank, count) = Start(rank, count) .. Start(rank + 1, count) - 1
  <1> DEFINE base  == NumPartitions \div count
             extra == NumPartitions % count
  <1>1. base \in Nat /\ extra \in Nat
    BY DivMod, PartitionsAssumption
  <1>2. rank * base \in Nat /\ (rank + 1) * base = rank * base + base
    BY <1>1
  <1> DEFINE low == rank * base
  <1>3. Start(rank, count) = low + (IF rank < extra THEN rank ELSE extra)
    BY DEF Start
  <1>4. Start(rank + 1, count) = low + base + (IF rank + 1 < extra THEN rank + 1 ELSE extra)
    BY <1>2 DEF Start
  <1>5. RangeBlock(rank, count) =
            low + (IF rank < extra THEN rank ELSE extra) ..
            low + (IF rank < extra THEN rank ELSE extra)
                + (base + (IF rank < extra THEN 1 ELSE 0)) - 1
    BY DEF RangeBlock
  <1>6. low \in Nat
    BY <1>2
  <1> HIDE DEF base, extra, low
  <1> QED
    BY <1>1, <1>3, <1>4, <1>5, <1>6

\* A later rank starts no earlier.
LEMMA StartMonotonic ==
    ASSUME NEW count \in Nat \ {0}, NEW low \in 0 .. count, NEW high \in low .. count
    PROVE  Start(low, count) <= Start(high, count)
  <1> DEFINE base  == NumPartitions \div count
             extra == NumPartitions % count
  <1>1. base \in Nat /\ extra \in Nat
    BY DivMod, PartitionsAssumption
  <1>2. low * base \in Nat /\ high * base \in Nat /\ low * base <= high * base
    BY <1>1
  <1> HIDE DEF base, extra
  <1> QED
    BY <1>1, <1>2 DEF Start, base, extra

\* Two members are never assigned one partition.
LEMMA BlocksDisjoint ==
    ASSUME NEW count \in Nat \ {0},
           NEW r \in 0 .. count - 1, NEW s \in 0 .. count - 1, r # s
    PROVE  RangeBlock(r, count) \cap RangeBlock(s, count) = {}
  <1>1. ASSUME NEW i \in 0 .. count - 1, NEW j \in 0 .. count - 1, i < j
        PROVE  RangeBlock(i, count) \cap RangeBlock(j, count) = {}
    <2>1. i + 1 \in 0 .. count /\ j \in i + 1 .. count
      BY <1>1
    <2>2. Start(i + 1, count) <= Start(j, count)
      BY <2>1, StartMonotonic
    <2>3. /\ RangeBlock(i, count) = Start(i, count) .. Start(i + 1, count) - 1
          /\ RangeBlock(j, count) = Start(j, count) .. Start(j + 1, count) - 1
      BY BlockIsInterval
    <2>4. Start(j, count) \in Nat /\ Start(i, count) \in Nat
      BY BlockIsInterval
    <2>5. Start(i + 1, count) \in Int /\ Start(j + 1, count) \in Int
      <3> DEFINE base  == NumPartitions \div count
                 extra == NumPartitions % count
      <3>1. base \in Nat /\ extra \in Nat
        BY DivMod, PartitionsAssumption
      <3>2. (i + 1) * base \in Nat /\ (j + 1) * base \in Nat
        BY <3>1
      <3> HIDE DEF base, extra
      <3> QED BY <3>1, <3>2 DEF Start, base, extra
    <2> QED BY <2>2, <2>3, <2>4, <2>5
  <1>2. r < s \/ s < r
    OBVIOUS
  <1>3. CASE r < s
    BY <1>1, <1>3
  <1>4. CASE s < r
    <2>1. RangeBlock(s, count) \cap RangeBlock(r, count) = {}
      BY <1>1, <1>4
    <2> QED BY <2>1
  <1> QED BY <1>2, <1>3, <1>4

\* Every partition is in the block of some member.
LEMMA BlocksCover ==
    ASSUME NEW count \in Nat \ {0}, NEW p \in Partitions
    PROVE  \E rank \in 0 .. count - 1 : p \in RangeBlock(rank, count)
  <1> DEFINE base  == NumPartitions \div count
             extra == NumPartitions % count
             wide  == extra * (base + 1)
  <1>1. /\ NumPartitions \in Nat /\ base \in Nat
        /\ extra \in 0 .. count - 1
        /\ NumPartitions = count * base + extra
    BY DivMod, PartitionsAssumption
  <1>2. wide \in Nat /\ p \in 0 .. NumPartitions - 1
    BY <1>1 DEF Partitions
  <1>3. CASE p < wide
    <2> DEFINE rank == p \div (base + 1)
               rest == p % (base + 1)
    <2>1. rank \in Nat /\ rest \in 0 .. base /\ p = (base + 1) * rank + rest
      <3>1. base + 1 \in Nat \ {0} /\ p \in Nat
        BY <1>1, <1>2
      <3> HIDE DEF base
      <3>2. rest \in 0 .. (base + 1) - 1 /\ rank \in Nat /\ p = (base + 1) * rank + rest
        BY <3>1, DivMod
      <3> QED BY <1>1, <3>2
    <2> HIDE DEF rank, rest
    <2>2. rank < extra
      <3>1. SUFFICES ASSUME rank >= extra PROVE FALSE
        BY <1>1, <2>1
      <3>2. (base + 1) * rank >= (base + 1) * extra
        BY <1>1, <2>1, <3>1
      <3>3. (base + 1) * extra = wide
        BY <1>1
      <3> HIDE DEF wide
      <3> QED BY <1>1, <1>2, <1>3, <2>1, <3>2, <3>3
    <2>3. (base + 1) * rank = rank * base + rank
      BY <1>1, <2>1
    <2>4. rank * base \in Nat
      BY <1>1, <2>1
    <2>5. RangeBlock(rank, count) = rank * base + rank .. rank * base + rank + (base + 1) - 1
      <3> HIDE DEF base, extra
      <3> QED BY <1>1, <2>1, <2>2 DEF RangeBlock, base, extra
    <2>6. p \in RangeBlock(rank, count)
      <3> HIDE DEF base, extra, wide
      <3> QED BY <1>1, <2>1, <2>3, <2>4, <2>5
    <2>7. rank \in 0 .. count - 1
      BY <1>1, <2>1, <2>2
    <2> QED BY <2>6, <2>7
  <1>4. CASE p >= wide
    <2> DEFINE past == p - wide
               step == past \div base
               rest == past % base
               rank == extra + step
    <2>1. past \in Nat
      <3> HIDE DEF wide
      <3> QED BY <1>2, <1>4
    <2>2. NumPartitions - wide = (count - extra) * base
      BY <1>1
    <2>3. base > 0
      <3>1. SUFFICES ASSUME base = 0 PROVE FALSE
        BY <1>1
      <3>2. (count - extra) * base = 0
        BY <1>1, <3>1
      <3> HIDE DEF wide, base, extra
      <3> QED BY <1>1, <1>2, <1>4, <2>2, <3>2
    <2>4. step \in Nat /\ rest \in 0 .. base - 1 /\ past = base * step + rest
      <3>1. base \in Nat \ {0}
        BY <1>1, <2>3
      <3> HIDE DEF base, past
      <3> QED BY <2>1, <3>1, DivMod
    <2> HIDE DEF step, rest
    <2>5. step < count - extra
      <3>1. SUFFICES ASSUME step >= count - extra PROVE FALSE
        BY <1>1, <2>4
      <3>2. base * step >= (count - extra) * base
        BY <1>1, <2>4, <3>1
      <3>3. p >= wide + (count - extra) * base
        <4> HIDE DEF wide
        <4>1. p = wide + past
          BY <1>2, <2>1
        <4>2. base * step \in Int /\ (count - extra) * base \in Int
          BY <1>1, <2>4
        <4> HIDE DEF past, base, extra
        <4> QED BY <1>1, <1>2, <2>1, <2>4, <3>2, <4>1, <4>2
      <3> HIDE DEF wide, base, extra
      <3> QED BY <1>1, <1>2, <2>2, <3>3
    <2>6. rank \in 0 .. count - 1 /\ ~(rank < extra)
      BY <1>1, <2>4, <2>5
    <2>7. rank * base + extra = wide + base * step
      BY <1>1, <2>4
    <2>8. RangeBlock(rank, count) = rank * base + extra .. rank * base + extra + base - 1
      <3> HIDE DEF base, extra
      <3> QED BY <1>1, <2>6 DEF RangeBlock, base, extra
    <2>9. p \in RangeBlock(rank, count)
      <3>1. base * step \in Nat
        BY <1>1, <2>4
      <3> HIDE DEF base, extra, wide, rank
      <3> QED BY <1>1, <1>2, <2>1, <2>4, <2>7, <2>8, <3>1 DEF past
    <2> QED BY <2>6, <2>9
  <1>5. p < wide \/ p >= wide
    <2> HIDE DEF wide
    <2> QED BY <1>2
  <1> QED BY <1>3, <1>4, <1>5

\* _join adds no client id twice.
LEMMA JoinKeepsDistinct ==
    ASSUME GroupTypeOK, NEW t \in Topics, NEW c \in Clients, Join(t, c)
    PROVE  GroupTypeOK'
  <1>1. CASE IsMember(t, c)
    BY <1>1 DEF GroupTypeOK, Join
  <1>2. CASE ~IsMember(t, c)
    <2>1. members' = [members EXCEPT ![t] = Append(@, c)]
      BY <1>2 DEF Join
    <2>2. members' \in [Topics -> Seq(Clients)]
      BY <2>1 DEF GroupTypeOK
    <2>3. ASSUME NEW u \in Topics,
                 NEW i \in 1 .. Len(members'[u]), NEW j \in 1 .. Len(members'[u]),
                 members'[u][i] = members'[u][j]
          PROVE  i = j
      BY <1>2, <2>1, <2>3 DEF GroupTypeOK, IsMember
    <2> QED BY <2>2, <2>3 DEF GroupTypeOK
  <1> QED BY <1>1, <1>2

\* _leave takes one client id out of the member list and keeps the rest.
LEMMA LeaveKeepsDistinct ==
    ASSUME GroupTypeOK, NEW t \in Topics, NEW c \in Clients, Leave(t, c)
    PROVE  GroupTypeOK'
  <1>1. CASE UNCHANGED members
    BY <1>1 DEF GroupTypeOK
  <1>2. ASSUME NEW k \in 1 .. Len(members[t]),
               members' = [members EXCEPT ![t] = RemoveAt(@, k)]
        PROVE  GroupTypeOK'
    <2> DEFINE m == members[t]
    <2>1. m \in Seq(Clients)
      BY DEF GroupTypeOK
    <2>2. /\ RemoveAt(m, k) \in Seq(Clients)
          /\ Len(RemoveAt(m, k)) = Len(m) - 1
          /\ \A i \in 1 .. Len(m) - 1 :
                RemoveAt(m, k)[i] = IF i < k THEN m[i] ELSE m[i + 1]
      <3> DEFINE left == SubSeq(m, 1, k - 1)
                 right == SubSeq(m, k + 1, Len(m))
      <3>1. k \in 1 .. Len(m)
        BY <1>2
      <3> HIDE DEF m
      <3>2. left \in Seq(Clients) /\ Len(left) = k - 1
        BY <2>1, <3>1
      <3>3. right \in Seq(Clients) /\ Len(right) = Len(m) - k
        BY <2>1, <3>1
      <3>4. \A i \in 1 .. k - 1 : left[i] = m[i]
        BY <2>1, <3>1
      <3>5. \A i \in 1 .. Len(m) - k : right[i] = m[k + i]
        BY <2>1, <3>1
      <3>6. RemoveAt(m, k) = left \o right
        BY <3>1 DEF RemoveAt
      <3> HIDE DEF left, right
      <3>7. /\ left \o right \in Seq(Clients)
            /\ Len(left \o right) = Len(left) + Len(right)
            /\ \A i \in 1 .. Len(left) + Len(right) : (left \o right)[i] =
                  IF i <= Len(left) THEN left[i] ELSE right[i - Len(left)]
        BY <3>2, <3>3, ConcatProperties
      <3> DEFINE joined == left \o right
                 n == Len(m)
      <3>8. joined \in Seq(Clients) /\ Len(joined) = n - 1 /\ n \in Nat
        BY <2>1, <3>1, <3>2, <3>3, <3>7
      <3>9. ASSUME NEW i \in 1 .. n - 1
            PROVE  joined[i] = IF i < k THEN m[i] ELSE m[i + 1]
        <4>1. joined[i] = IF i <= k - 1 THEN left[i] ELSE right[i - (k - 1)]
          BY <3>1, <3>2, <3>3, <3>7, <3>8
        <4>2. CASE i < k
          BY <3>1, <3>4, <3>8, <4>1, <4>2
        <4>3. CASE i >= k
          <5>1. i - (k - 1) \in 1 .. n - k /\ k + (i - (k - 1)) = i + 1
            BY <3>1, <3>8, <4>3
          <5> QED BY <3>1, <3>5, <4>1, <4>3, <5>1
        <4> QED BY <3>1, <3>8, <4>2, <4>3
      <3> QED BY <3>6, <3>8, <3>9
    <2>3. members' \in [Topics -> Seq(Clients)]
      BY <1>2, <2>2 DEF GroupTypeOK
    <2>4. ASSUME NEW i \in 1 .. Len(m) - 1, NEW j \in 1 .. Len(m) - 1,
                 RemoveAt(m, k)[i] = RemoveAt(m, k)[j]
          PROVE  i = j
      <3>1. \A x, y \in 1 .. Len(m) : m[x] = m[y] => x = y
        BY DEF GroupTypeOK
      <3> HIDE DEF m
      <3> QED BY <2>1, <2>2, <2>4, <3>1
    <2>5. ASSUME NEW u \in Topics,
                 NEW i \in 1 .. Len(members'[u]), NEW j \in 1 .. Len(members'[u]),
                 members'[u][i] = members'[u][j]
          PROVE  i = j
      <3>1. CASE u = t
        <4>1. members'[u] = RemoveAt(m, k)
          BY <1>2, <3>1 DEF GroupTypeOK
        <4> QED BY <2>2, <2>4, <2>5, <4>1
      <3>2. CASE u # t
        BY <1>2, <2>5, <3>2 DEF GroupTypeOK
      <3> QED BY <3>1, <3>2
    <2> QED BY <2>3, <2>5 DEF GroupTypeOK
  <1> QED BY <1>1, <1>2 DEF Leave

\* Distinct members and blocks that tile the partitions: one owner each.
LEMMA DistinctMembersOwn ==
    ASSUME GroupTypeOK
    PROVE  OneOwnerEach
  <1> SUFFICES ASSUME NEW t \in Topics, NEW p \in Partitions, members[t] # <<>>
               PROVE  \E c \in Clients : \A d \in Clients : p \in Assignment(t, d) <=> d = c
    BY DEF OneOwnerEach
  <1> DEFINE m == members[t]
             count == Len(m)
  <1>1. m \in Seq(Clients) /\ count \in Nat \ {0}
    BY DEF GroupTypeOK
  <1>2. \A x, y \in 1 .. count : m[x] = m[y] => x = y
    BY DEF GroupTypeOK
  <1>3. PICK rank \in 0 .. count - 1 : p \in RangeBlock(rank, count)
    BY <1>1, BlocksCover
  <1>4. rank + 1 \in 1 .. count /\ m[rank + 1] \in Clients
    BY <1>1, <1>3
  <1>5. ASSUME NEW d \in Clients
        PROVE  p \in Assignment(t, d) <=> d = m[rank + 1]
    <2>1. CASE d = m[rank + 1]
      <3>1. rank + 1 \in {j \in 1 .. count : m[j] = d} /\ (rank + 1) - 1 = rank
        BY <1>4, <1>3, <2>1
      <3> QED BY <1>3, <2>1, <3>1 DEF Assignment
    <2>2. ASSUME p \in Assignment(t, d)
          PROVE  d = m[rank + 1]
      <3>1. PICK i \in 1 .. count : m[i] = d /\ p \in RangeBlock(i - 1, count)
        BY <2>2 DEF Assignment
      <3>2. i - 1 \in 0 .. count - 1
        BY <1>1, <3>1
      <3>3. i - 1 = rank
        BY <1>1, <1>3, <3>1, <3>2, BlocksDisjoint
      <3> QED BY <3>1, <3>3
    <2> QED BY <2>1, <2>2
  <1> QED BY <1>4, <1>5

\* A block has the common share, or one partition more.
LEMMA BlockSize ==
    ASSUME NEW count \in Nat \ {0}, NEW rank \in 0 .. count - 1
    PROVE  Cardinality(RangeBlock(rank, count)) \in
               {NumPartitions \div count, NumPartitions \div count + 1}
  <1> DEFINE base  == NumPartitions \div count
             wide == base + (IF rank < NumPartitions % count THEN 1 ELSE 0)
             start == Start(rank, count)
  <1>1. base \in Nat /\ start \in Nat
    BY DivMod, BlockIsInterval, PartitionsAssumption
  <1>2. RangeBlock(rank, count) = start .. start + wide - 1
    BY DEF RangeBlock, Start
  <1> HIDE DEF base, start
  <1>3. wide \in {base, base + 1}
    <2>1. CASE rank < NumPartitions % count
      BY <2>1
    <2>2. CASE ~(rank < NumPartitions % count)
      BY <1>1, <2>2
    <2> QED BY <2>1, <2>2
  <1> HIDE DEF wide
  <1>4. start + wide - 1 \in Int /\ wide \in Nat
    BY <1>1, <1>3
  <1>5. Cardinality(start .. start + wide - 1) =
            IF start > start + wide - 1 THEN 0 ELSE (start + wide - 1) - start + 1
    BY <1>1, <1>4, FS_Interval
  <1>6. Cardinality(start .. start + wide - 1) = wide
    BY <1>1, <1>4, <1>5
  <1>7. Cardinality(RangeBlock(rank, count)) \in {base, base + 1}
    BY <1>2, <1>3, <1>6
  <1> QED BY <1>7 DEF base

\* A member is assigned the block of its rank.
LEMMA MemberOwnsBlock ==
    ASSUME GroupTypeOK, NEW t \in Topics, NEW c \in Clients, IsMember(t, c)
    PROVE  /\ Len(members[t]) \in Nat \ {0}
           /\ \E rank \in 0 .. Len(members[t]) - 1 :
                 Assignment(t, c) = RangeBlock(rank, Len(members[t]))
  <1> DEFINE m == members[t]
             count == Len(m)
  <1>1. PICK k \in 1 .. count : m[k] = c
    BY DEF IsMember
  <1>2. m \in Seq(Clients) /\ count \in Nat \ {0}
    <2>1. m \in Seq(Clients)
      BY DEF GroupTypeOK
    <2> QED BY <1>1, <2>1
  <1>3. {j \in 1 .. count : m[j] = c} = {k}
    BY <1>1 DEF GroupTypeOK
  <1>4. Assignment(t, c) = UNION {RangeBlock(i - 1, count) : i \in {k}}
    BY <1>3 DEF Assignment
  <1>5. Assignment(t, c) = RangeBlock(k - 1, count) /\ k - 1 \in 0 .. count - 1
    <2>1. k - 1 \in 0 .. count - 1
      BY <1>1, <1>2
    <2> HIDE DEF count
    <2> QED BY <1>4, <2>1
  <1> QED BY <1>2, <1>5

\* The member ids stay distinct.
LEMMA GroupInvariance == GroupSpec => []GroupTypeOK
  <1>1. BrokerInit => GroupTypeOK
    BY DEF BrokerInit, GroupTypeOK
  <1>2. GroupTypeOK /\ [GroupNext]_brokerVars => GroupTypeOK'
    <2>1. ASSUME GroupTypeOK, GroupNext
          PROVE  GroupTypeOK'
      BY <2>1, JoinKeepsDistinct, LeaveKeepsDistinct DEF GroupNext, Joins, Leaves
    <2>2. ASSUME GroupTypeOK, UNCHANGED brokerVars
          PROVE  GroupTypeOK'
      BY <2>2 DEF brokerVars, GroupTypeOK
    <2> QED BY <2>1, <2>2
  <1> QED BY <1>1, <1>2, PTL DEF GroupSpec

\* For every number of partitions and every order of joins and leaves, each
\* partition of a topic with members has one owner.
THEOREM GroupOwnership == GroupSpec => []OneOwnerEach
  <1>1. GroupTypeOK => OneOwnerEach
    BY DistinctMembersOwn
  <1> QED BY <1>1, GroupInvariance, PTL

\* The shares of the members (memory.py, _assignment) differ by at most one partition.
THEOREM GroupBalance == GroupSpec => []Balanced
  <1>1. GroupTypeOK => Balanced
    <2> SUFFICES ASSUME GroupTypeOK, NEW t \in Topics, NEW c \in Clients, NEW d \in Clients,
                        IsMember(t, c), IsMember(t, d)
                 PROVE  Cardinality(Assignment(t, c)) <= Cardinality(Assignment(t, d)) + 1
      BY DEF Balanced
    <2> DEFINE count == Len(members[t])
               base == NumPartitions \div count
    <2>1. count \in Nat \ {0}
      BY MemberOwnsBlock
    <2>2. base \in Nat
      BY <2>1, DivMod, PartitionsAssumption
    <2>3. PICK i \in 0 .. count - 1 : Assignment(t, c) = RangeBlock(i, count)
      BY MemberOwnsBlock
    <2>4. PICK j \in 0 .. count - 1 : Assignment(t, d) = RangeBlock(j, count)
      BY MemberOwnsBlock
    <2> HIDE DEF count
    <2>5. /\ Cardinality(Assignment(t, c)) \in {base, base + 1}
          /\ Cardinality(Assignment(t, d)) \in {base, base + 1}
      BY <2>1, <2>3, <2>4, BlockSize
    <2> HIDE DEF base
    <2> QED BY <2>2, <2>5
  <1> QED BY <1>1, GroupInvariance, PTL
=============================================================================
