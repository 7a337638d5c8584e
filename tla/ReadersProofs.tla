---------------------------- MODULE ReadersProofs ----------------------------
(***************************************************************************)
(* Proofs about the readers of a growing ledger: a client that reads it in *)
(* pages, and the reading tools, for any limits, any table and any appends *)
(* between their calls and their statements.                               *)
(***************************************************************************)
EXTENDS Readers, FiniteSetTheorems, SequenceTheorems, TLAPS

-----------------------------------------------------------------------------
(* The client that reads pages *)

PagingTyped ==
  /\ length \in Nat
  /\ phase \in {"start", "reading", "done", "conflict", "failed"}
  /\ pin \in {None} \cup Nat
  /\ from \in Nat
  /\ after \in {None} \cup Nat
  /\ collected \in Seq(Int)

\* Before its first page the client has nothing and pins nothing.
StartOK ==
  phase = "start" => collected = << >> /\ pin = None /\ from = StartIndex(after)

\* Between two pages the cursor is the last entry received, which is in the
\* chain.
CursorOK ==
  phase = "reading" => /\ after # None
                       /\ from + Len(collected) = StartIndex(after)
                       /\ from + Len(collected) <= length

PagingInv == PagingTyped /\ StartOK /\ CursorOK /\ PagesExact

-----------------------------------------------------------------------------

\* A slice starts where it should, has no gap, and is cut short by the limit or
\* the end of the chain.
LEMMA SliceFacts ==
  ASSUME NEW n \in Nat, NEW start \in Nat, NEW limit \in Nat \ {0}
  PROVE  LET page == Slice(n, start, limit)
         IN  /\ page \in Seq(Int)
             /\ \A i \in 1 .. Len(page) : page[i] = start + i - 1
             /\ start < n  => /\ Len(page) > 0
                              /\ start + Len(page) <= n
             /\ start >= n => Len(page) = 0
<1> DEFINE end  == IF start + limit < n THEN start + limit ELSE n
           size == IF start < end THEN end - start ELSE 0
<1>1. size \in Nat
  OBVIOUS
<1>2. Slice(n, start, limit) = [i \in 1 .. size |-> start + i - 1]
  BY DEF Slice
<1>3. \A i \in 1 .. size : start + i - 1 \in Int
  BY <1>1
<1> HIDE DEF size
<1>4. Slice(n, start, limit) \in Seq(Int) /\ Len(Slice(n, start, limit)) = size
  BY <1>1, <1>2, <1>3
<1>5. \A i \in 1 .. size : Slice(n, start, limit)[i] = start + i - 1
  BY <1>2
<1>6. /\ start < n  => size > 0 /\ start + size <= n
      /\ start >= n => size = 0
  BY DEF size
<1> QED BY <1>4, <1>5, <1>6

\* The cursor after a page is its last entry, or null if the page reaches the
\* end of the chain.
LEMMA NextFacts ==
  ASSUME NEW n \in Nat, NEW start \in Nat, NEW limit \in Nat \ {0}
  PROVE  LET page == Slice(n, start, limit)
             next == NextSequence(n, start, page)
         IN  /\ next \in {None} \cup Nat
             /\ next = None  => start + Len(page) >= n
             /\ next # None => /\ StartIndex(next) = start + Len(page)
                               /\ start + Len(page) < n
<1> DEFINE page == Slice(n, start, limit)
<1>1. /\ page \in Seq(Int)
      /\ \A i \in 1 .. Len(page) : page[i] = start + i - 1
      /\ start < n  => Len(page) > 0
      /\ start >= n => Len(page) = 0
  BY SliceFacts
<1> HIDE DEF page
<1>2. Len(page) \in Nat /\ (page = << >> <=> Len(page) = 0)
  BY <1>1
<1>3. CASE start + Len(page) < n /\ page # << >>
  <2>1. Len(page) \in 1 .. Len(page)
    BY <1>2, <1>3
  <2>2. NextSequence(n, start, page) = start + Len(page) - 1
    BY <1>1, <1>3, <2>1 DEF NextSequence
  <2>3. start + Len(page) - 1 \in Nat
    BY <1>2, <2>1
  <2> QED BY <1>2, <1>3, <2>1, <2>2, <2>3 DEF StartIndex, None, page
<1>4. CASE ~(start + Len(page) < n /\ page # << >>)
  <2>1. NextSequence(n, start, page) = None
    BY <1>4 DEF NextSequence
  <2>2. start + Len(page) >= n
    BY <1>1, <1>2, <1>4
  <2> QED BY <2>1, <2>2 DEF page
<1> QED BY <1>3, <1>4

\* What one call to read_verified_snapshot adds to what the client has.
LEMMA PageFacts ==
  ASSUME PagingInv, ReadPage
  PROVE  /\ PagingInv'
         /\ phase' = "done" => Len(collected') = Beyond(length)
<1>1. PICK limit \in Limits \cup {None}, pinning \in BOOLEAN :
        LET start == StartIndex(after)
            page  == Slice(length, start, EffectiveLimit(limit))
            next  == NextSequence(length, start, page)
        IN  /\ phase \in {"start", "reading"}
            /\ pin \in {None, length}
            /\ collected' = collected \o page
            /\ after' = next
            /\ phase' = IF next = None THEN "done" ELSE "reading"
            /\ pin' = IF phase = "start" /\ pinning THEN length ELSE pin
            /\ UNCHANGED <<length, from>>
  BY DEF ReadPage
<1> DEFINE start == StartIndex(after)
           size  == EffectiveLimit(limit)
           page  == Slice(length, start, size)
           next  == NextSequence(length, start, page)
<1>2. size \in Nat \ {0} /\ start \in Nat
  BY PagingAssumption DEF PagingInv, PagingTyped, EffectiveLimit, StartIndex, None
<1>3. /\ page \in Seq(Int)
      /\ \A i \in 1 .. Len(page) : page[i] = start + i - 1
      /\ start < length  => Len(page) > 0 /\ start + Len(page) <= length
      /\ start >= length => Len(page) = 0
  BY <1>2, SliceFacts DEF PagingInv, PagingTyped
<1>4. /\ next \in {None} \cup Nat
      /\ next = None => start + Len(page) >= length
      /\ next # None => /\ StartIndex(next) = start + Len(page)
                        /\ start + Len(page) < length
  BY <1>2, NextFacts DEF PagingInv, PagingTyped
<1>5. start = from + Len(collected)
  BY <1>1 DEF PagingInv, PagingTyped, StartOK, CursorOK
<1>6. /\ collected' = collected \o page
      /\ after' = next
      /\ phase' = IF next = None THEN "done" ELSE "reading"
      /\ length' = length /\ from' = from
      /\ pin' \in {None, length}
  BY <1>1
<1>7. phase = "start" => Len(collected) = 0
  BY DEF PagingInv, StartOK
<1>8. phase = "reading" => from + Len(collected) <= length
  BY DEF PagingInv, CursorOK
<1>9. phase \in {"start", "reading"}
  BY <1>1
<1> HIDE DEF start, size, page, next
<1>10. /\ collected' \in Seq(Int)
       /\ Len(collected') = Len(collected) + Len(page)
       /\ Len(collected) \in Nat /\ Len(page) \in Nat
  BY <1>3, <1>6 DEF PagingInv, PagingTyped
<1>11. PagingTyped'
  BY <1>4, <1>6, <1>10 DEF PagingInv, PagingTyped
<1>12. StartOK'
  BY <1>6 DEF StartOK
<1>13. CursorOK'
  BY <1>2, <1>4, <1>5, <1>6, <1>10 DEF CursorOK, PagingInv, PagingTyped
<1>14. PagesExact'
  <2> SUFFICES ASSUME NEW i \in 1 .. Len(collected')
               PROVE  collected'[i] = from + i - 1
    BY <1>6 DEF PagesExact
  <2>1. CASE i <= Len(collected)
    <3>1. collected'[i] = collected[i]
      BY <1>3, <1>6, <1>10, <2>1 DEF PagingInv, PagingTyped
    <3> QED BY <1>10, <2>1, <3>1 DEF PagingInv, PagesExact
  <2>2. CASE i > Len(collected)
    <3> DEFINE j == i - Len(collected)
    <3>1. j \in 1 .. Len(page)
      BY <1>10, <2>2
    <3>2. collected'[i] = page[j]
      BY <1>3, <1>6, <1>10, <2>2 DEF PagingInv, PagingTyped
    <3>3. page[j] = start + j - 1
      BY <1>3, <3>1
    <3> QED BY <1>5, <1>10, <3>2, <3>3 DEF PagingInv, PagingTyped
  <2> QED BY <1>10, <2>1, <2>2
<1>15. phase' = "done" => Len(collected') = Beyond(length)
  <2>1. CASE start < length
    <3>1. phase' = "done" => next = None
      BY <1>6
    <3>2. start + Len(page) <= length
      BY <1>3, <2>1
    <3>3. phase' = "done" => start + Len(page) >= length
      BY <1>4, <3>1
    <3>4. length \in Nat /\ start \in Nat /\ Len(page) \in Nat
      BY <1>2, <1>10 DEF PagingInv, PagingTyped
    <3>5. phase' = "done" => start + Len(page) = length
      BY <3>2, <3>3, <3>4
    <3>6. from \in Nat
      BY DEF PagingInv, PagingTyped
    <3>7. Beyond(length) = length - from
      BY <1>5, <1>10, <2>1, <3>4, <3>6 DEF Beyond
    <3> QED BY ONLY <1>5, <1>10, <3>4, <3>5, <3>6, <3>7
  <2>2. CASE start >= length
    <3>1. from \in Nat /\ length \in Nat
      BY DEF PagingInv, PagingTyped
    <3>2. Len(collected') = Len(collected) /\ Len(collected) \in Nat
      BY ONLY <1>3, <1>10, <2>2
    <3>3. from + Len(collected) >= length
      BY ONLY <1>5, <2>2
    <3>4. Len(collected) = 0 \/ from + Len(collected) <= length
      BY ONLY <1>7, <1>8, <1>9
    <3>5. Len(collected) = Beyond(length)
      BY ONLY <3>1, <3>2, <3>3, <3>4 DEF Beyond
    <3> QED BY ONLY <3>2, <3>5
  <2> QED BY <1>2, <2>1, <2>2 DEF PagingInv, PagingTyped
<1> QED BY <1>11, <1>12, <1>13, <1>14, <1>15 DEF PagingInv

-----------------------------------------------------------------------------

LEMMA PagingStarts == ReadersInit => PagingInv /\ PinnedIsComplete
BY PagingAssumption DEF ReadersInit, PagingInit, PagingInv, PagingTyped, StartOK,
   CursorOK, PagesExact, PinnedIsComplete, StartIndex, None

LEMMA PagingContinues ==
  ASSUME PagingInv, [Pages \/ Tools]_readerVars
  PROVE  PagingInv'
<1>1. CASE Grow
  BY <1>1 DEF Grow, PagingInv, PagingTyped, StartOK, CursorOK, PagesExact
<1>2. CASE ReadPage
  BY <1>2, PageFacts
<1>3. CASE PageConflict
  BY <1>3 DEF PageConflict, PagingInv, PagingTyped, StartOK, CursorOK, PagesExact
<1>4. CASE PageFails
  BY <1>4 DEF PageFails, PagingInv, PagingTyped, StartOK, CursorOK, PagesExact
<1>5. CASE UNCHANGED pagingVars
  BY <1>5 DEF pagingVars, PagingInv, PagingTyped, StartOK, CursorOK, PagesExact
<1> QED BY <1>1, <1>2, <1>3, <1>4, <1>5 DEF Pages, Tools, PagingNext, readerVars

LEMMA PinsKept ==
  ASSUME PagingInv, PinnedIsComplete, [Pages \/ Tools]_readerVars
  PROVE  PinnedIsComplete'
<1>1. CASE Grow
  BY <1>1 DEF Grow, PinnedIsComplete, Beyond
<1>2. CASE ReadPage
  <2>1. phase' = "done" => Len(collected') = Beyond(length)
    BY <1>2, PageFacts
  <2>2. pin' \in {None, length} /\ from' = from
    BY <1>2 DEF ReadPage
  <2> QED BY <2>1, <2>2 DEF PinnedIsComplete, Beyond
<1>3. CASE PageConflict \/ PageFails
  BY <1>3 DEF PageConflict, PageFails, PinnedIsComplete
<1>4. CASE UNCHANGED pagingVars
  BY <1>4 DEF pagingVars, PinnedIsComplete, Beyond
<1> QED BY <1>1, <1>2, <1>3, <1>4 DEF Pages, Tools, PagingNext, readerVars

\* The pages of read_verified_snapshot have no gap and no entry twice, for any
\* limits and any appends between the calls.
THEOREM PagesHaveNoGap == ReadersSpec => []PagesExact
<1>1. PagingInv => PagesExact
  BY DEF PagingInv
<1> QED BY PagingStarts, PagingContinues, <1>1, PTL DEF ReadersSpec

\* A client that pinned its first page and ended has that snapshot, whole.
THEOREM PinnedReadsAreComplete == ReadersSpec => []PinnedIsComplete
BY PagingStarts, PagingContinues, PinsKept, PTL DEF ReadersSpec

\* The page without a nextSequence reaches the head of its moment.
THEOREM LastPagesReachTheHead == ReadersSpec => LastPageReachesHead
<1>1. ASSUME PagingInv, [Pages \/ Tools]_readerVars
      PROVE  [phase # "done" /\ phase' = "done" => Len(collected') = Beyond(length)]_pagingVars
  <2>1. CASE ReadPage
    BY <1>1, <2>1, PageFacts
  <2>2. CASE Grow \/ PageConflict \/ PageFails
    BY <2>2 DEF Grow, PageConflict, PageFails
  <2>3. CASE UNCHANGED pagingVars
    BY <2>3
  <2> QED BY <1>1, <2>1, <2>2, <2>3 DEF Pages, Tools, PagingNext, readerVars
<1> QED BY PagingStarts, PagingContinues, <1>1, PTL DEF ReadersSpec, LastPageReachesHead

-----------------------------------------------------------------------------
(* The order of the rows the statements list *)

\* created_epoch DESC, rowid DESC orders the rows of a table strictly.
LEMMA NewerOrders ==
  ASSUME NEW table \in Seq(ToolRow)
  PROVE  LET Rows == 1 .. Len(table)
         IN  /\ \A i \in Rows : ~ Newer(table, i, i)
             /\ \A i, j \in Rows : i = j \/ Newer(table, i, j) \/ Newer(table, j, i)
             /\ \A i, j, k \in Rows :
                  Newer(table, i, j) /\ Newer(table, j, k) => Newer(table, i, k)
<1>1. ASSUME NEW i \in 1 .. Len(table)
      PROVE  table[i].epoch \in Int
  <2>1. table[i] \in ToolRow
    OBVIOUS
  <2> QED BY <2>1, ToolsAssumption DEF ToolRow
<1> QED BY <1>1 DEF Newer

LEMMA FoundFinite ==
  ASSUME NEW table \in Seq(ToolRow), NEW found \in SUBSET (1 .. Len(table))
  PROVE  IsFiniteSet(found)
<1>1. Len(table) \in Int /\ 1 \in Int
  OBVIOUS
<1>2. IsFiniteSet(1 .. Len(table))
  BY <1>1, FS_Interval
<1> QED BY <1>2, FS_Subset

\* A row has fewer rows before it than any row that comes after it, and there
\* are fewer of them than rows.
LEMMA BeforeCounts ==
  ASSUME NEW table \in Seq(ToolRow), NEW found \in SUBSET (1 .. Len(table)),
         NEW i \in found
  PROVE  /\ Cardinality(Before(table, found, i)) \in Nat
         /\ Cardinality(Before(table, found, i)) < Cardinality(found)
         /\ \A j \in found : Newer(table, j, i) =>
              Cardinality(Before(table, found, j)) < Cardinality(Before(table, found, i))
<1> DEFINE Up(j) == Before(table, found, j)
<1>1. IsFiniteSet(found)
  BY FoundFinite
<1>2. ASSUME NEW j \in found
      PROVE  IsFiniteSet(Up(j)) /\ Cardinality(Up(j)) \in Nat
  <2>1. Up(j) \in SUBSET found
    BY DEF Before
  <2> QED BY <1>1, <2>1, FS_Subset, FS_CardinalityType
<1>3. Cardinality(Up(i)) < Cardinality(found)
  <2>1. Up(i) \in SUBSET found /\ i \notin Up(i)
    BY NewerOrders DEF Before
  <2>2. Cardinality(Up(i)) <= Cardinality(found) /\ Cardinality(found) # Cardinality(Up(i))
    BY <1>1, <2>1, FS_Subset
  <2> QED BY <1>1, <1>2, <2>2, FS_CardinalityType
<1>4. ASSUME NEW j \in found, Newer(table, j, i)
      PROVE  Cardinality(Up(j)) < Cardinality(Up(i))
  <2>1. j \in Up(i) /\ j \notin Up(j)
    BY <1>4, NewerOrders DEF Before
  <2>2. Up(j) \in SUBSET Up(i)
    BY <1>4, NewerOrders DEF Before
  <2>3. /\ Cardinality(Up(j)) <= Cardinality(Up(i))
        /\ Cardinality(Up(i)) # Cardinality(Up(j))
    BY <1>2, <2>1, <2>2, FS_Subset
  <2> QED BY <1>2, <2>3
<1> QED BY <1>2, <1>3, <1>4

\* InOrder lists the rows found, each of them, the newer first.
LEMMA InOrderLists ==
  ASSUME NEW table \in Seq(ToolRow), NEW found \in SUBSET (1 .. Len(table))
  PROVE  LET order == InOrder(table, found)
         IN  /\ order \in Seq(found)
             /\ \A i \in found : \E k \in 1 .. Len(order) : order[k] = i
             /\ \A k, l \in 1 .. Len(order) :
                  k < l => Newer(table, order[k], order[l])
<1> DEFINE size    == Cardinality(found)
           rank(i) == Cardinality(Before(table, found, i))
           order   == InOrder(table, found)
<1>1. IsFiniteSet(found) /\ size \in Nat
  BY FoundFinite, FS_CardinalityType
<1>2. /\ \A i \in found : rank(i) \in Nat /\ rank(i) < size
      /\ \A i, j \in found : Newer(table, j, i) => rank(j) < rank(i)
  BY BeforeCounts
<1>3. order = [k \in 1 .. size |-> CHOOSE i \in found : rank(i) = k - 1]
  BY DEF InOrder
<1> HIDE DEF rank, size, order
<1>4. ASSUME NEW i \in found, NEW j \in found, rank(i) = rank(j)
      PROVE  i = j
  BY <1>2, <1>4, NewerOrders
<1>5. ASSUME NEW k \in 1 .. size
      PROVE  \E i \in found : rank(i) = k - 1
  <2> DEFINE f == [i \in found |-> rank(i) + 1]
  <2>1. f \in [found -> 1 .. size]
    BY <1>1, <1>2
  <2>2. ASSUME NEW i \in found, NEW j \in found, f[i] = f[j] PROVE i = j
    <3>1. rank(i) + 1 = rank(j) + 1
      BY <2>2
    <3> QED BY <1>2, <1>4, <3>1
  <2>3. f \in Injection(found, 1 .. size)
    BY <2>1, <2>2 DEF Injection, IsInjective
  <2>4. IsFiniteSet(1 .. size) /\ Cardinality(1 .. size) = size
    BY <1>1, FS_Interval
  <2> HIDE DEF f
  <2>5. f \in Surjection(found, 1 .. size)
    BY <2>3, <2>4, FS_Injection DEF size
  <2>6. PICK i \in found : f[i] = k
    BY <2>5 DEF Surjection
  <2> QED BY <1>1, <1>2, <2>6 DEF f
<1>6. ASSUME NEW k \in 1 .. size
      PROVE  order[k] \in found /\ rank(order[k]) = k - 1
  <2>1. order[k] = CHOOSE i \in found : rank(i) = k - 1
    BY <1>3
  <2> QED BY <1>5, <2>1
<1>7. order \in Seq(found) /\ Len(order) = size
  <2>1. order \in [1 .. size -> found]
    BY <1>3, <1>6
  <2> QED BY <1>1, <2>1
<1>8. ASSUME NEW i \in found
      PROVE  \E k \in 1 .. size : order[k] = i
  <2>1. rank(i) + 1 \in 1 .. size /\ rank(i) \in Nat
    BY <1>1, <1>2
  <2>2. order[rank(i) + 1] \in found /\ rank(order[rank(i) + 1]) = rank(i)
    BY <1>6, <2>1
  <2> QED BY <1>4, <2>1, <2>2
<1>9. ASSUME NEW k \in 1 .. size, NEW l \in 1 .. size, k < l
      PROVE  Newer(table, order[k], order[l])
  <2>1. PICK i \in found, j \in found :
          i = order[k] /\ j = order[l] /\ rank(i) = k - 1 /\ rank(j) = l - 1
    BY <1>6
  <2>2. rank(i) < rank(j) /\ ~ (rank(j) < rank(i)) /\ rank(i) # rank(j)
    BY <1>1, <1>9, <2>1
  <2>3. i # j /\ ~ Newer(table, j, i)
    BY <1>2, <2>2
  <2> QED BY <2>1, <2>3, NewerOrders
<1> QED BY <1>7, <1>8, <1>9 DEF order

\* A statement with a limit lists rows that it found; it leaves one out only if
\* it lists as many as it may, all of them newer.
LEMMA NewestLists ==
  ASSUME NEW table \in Seq(ToolRow), NEW found \in SUBSET (1 .. Len(table)),
         NEW limit \in Int
  PROVE  LET listed == Newest(table, found, limit)
         IN  /\ listed \in Seq(found)
             /\ \A i \in found \ ToSet(listed) :
                  /\ limit >= 0 /\ Len(listed) >= limit
                  /\ \A j \in ToSet(listed) : Newer(table, j, i)
             /\ limit = 0 => listed = << >>
<1> DEFINE order  == InOrder(table, found)
           listed == Newest(table, found, limit)
<1>1. /\ order \in Seq(found)
      /\ \A i \in found : \E k \in 1 .. Len(order) : order[k] = i
      /\ \A k, l \in 1 .. Len(order) : k < l => Newer(table, order[k], order[l])
  BY InOrderLists
<1>2. listed = IF limit < 0 \/ Len(order) <= limit THEN order
                                                   ELSE SubSeq(order, 1, limit)
  BY DEF Newest, AtMost
<1> HIDE DEF order, listed
<1>3. CASE limit < 0 \/ Len(order) <= limit
  <2>1. listed = order
    BY <1>2, <1>3
  <2>2. ToSet(order) = found
    <3>1. DOMAIN order = 1 .. Len(order) /\ \A k \in 1 .. Len(order) : order[k] \in found
      BY <1>1
    <3>2. ToSet(order) = {order[k] : k \in 1 .. Len(order)}
      BY <3>1 DEF ToSet
    <3>3. ToSet(order) \subseteq found
      BY <3>1, <3>2
    <3>4. \A i \in found : i \in ToSet(order)
      BY <1>1, <3>2
    <3> QED BY <3>3, <3>4
  <2>3. limit = 0 => order = << >>
    BY <1>1, <1>3
  <2> QED BY <1>1, <2>1, <2>2, <2>3 DEF listed
<1>4. CASE ~ (limit < 0 \/ Len(order) <= limit)
  <2>1. limit \in 0 .. Len(order) /\ Len(order) \in Nat
    BY <1>1, <1>4
  <2>2. listed = SubSeq(order, 1, limit)
    BY <1>2, <1>4
  <2>3. /\ listed \in Seq(found) /\ Len(listed) = limit
        /\ \A k \in 1 .. limit : listed[k] = order[k]
    BY <1>1, <2>1, <2>2
  <2>4. ToSet(listed) = {order[k] : k \in 1 .. limit}
    BY <2>3 DEF ToSet
  <2>5. ASSUME NEW i \in found \ ToSet(listed), NEW j \in ToSet(listed)
        PROVE  Newer(table, j, i)
    <3>1. PICK l \in 1 .. Len(order) : order[l] = i
      BY <1>1
    <3>2. PICK k \in 1 .. limit : order[k] = j
      BY <2>4
    <3>3. k < l /\ k \in 1 .. Len(order)
      BY <2>1, <2>4, <2>5, <3>1
    <3> QED BY <1>1, <3>1, <3>2, <3>3
  <2>6. limit = 0 => listed = << >>
    BY <2>3
  <2> QED BY <2>1, <2>3, <2>5, <2>6 DEF listed
<1> QED BY <1>3, <1>4

-----------------------------------------------------------------------------
(* The reading tools *)

Todo ==
  {<< >>, <<"first", "count">>, <<"count">>, <<"literal", "words", "count">>,
   <<"words", "count">>, <<"newest">>, <<"tagged">>, <<"first">>}

ToolsTyped ==
  /\ rows \in Seq(ToolRow)
  /\ call \in [tool : {"none", "chain", "recall", "timeline", "tagged", "export"},
               todo : Todo, limit : Int, had : Nat, entries : Seq(Nat), total : Int]
  /\ call.had <= Len(rows)
  /\ ToSet(call.entries) \subseteq 1 .. Len(rows)

\* What is left of a tool's plan.
TodoOK ==
  /\ call.tool = "none"     => call.todo = << >>
  /\ call.tool = "chain"    => call.todo \in {<<"first", "count">>, <<"count">>, << >>}
  /\ call.tool = "recall"   =>
       call.todo \in {<<"literal", "words", "count">>, <<"words", "count">>,
                      <<"count">>, << >>}
  /\ call.tool = "timeline" => call.todo \in {<<"newest">>, << >>}
  /\ call.tool = "tagged"   => call.todo \in {<<"tagged">>, << >>}
  /\ call.tool = "export"   => call.todo \in {<<"first">>, << >>}

\* chain has a beginning of the table, and counts the rows after it has read
\* them.
ChainOK ==
  call.tool = "chain" /\ call.todo # <<"first", "count">> =>
    /\ call.entries = [i \in 1 .. Len(call.entries) |-> i]
    /\ call.todo = << >> => call.total \in Nat /\ Len(call.entries) <= call.total

\* The rows that match, of the n first ones.
LiteralOf(n) == {i \in 1 .. n : rows[i].match = "literal"}
WordedOf(n)  == {i \in 1 .. n : rows[i].match # "none"}

\* A row of these is left out only for as many newer ones as were asked for.
Covers(wanted) ==
  \A i \in wanted \ ToSet(call.entries) :
    /\ call.limit >= 0 /\ Len(call.entries) >= call.limit
    /\ \A j \in ToSet(call.entries) : Newer(rows, j, i)

\* After its first search recall has rows with the whole query, or none.  After
\* the second it has those, or what the words found when there was no row with
\* the whole query or none was asked for.
LiteralFound ==
  /\ ToSet(call.entries) \subseteq LiteralOf(Len(rows))
  /\ Covers(LiteralOf(call.had))

WordsFound ==
  /\ Covers(WordedOf(call.had))
  /\ LiteralOf(call.had) = {} \/ call.entries = << >>

SearchOK ==
  /\ call.tool = "timeline" /\ call.todo = << >> => Covers(1 .. call.had)
  /\ call.tool = "tagged" /\ call.todo = << >> => Covers(LiteralOf(call.had))
  /\ call.tool = "recall" =>
       /\ call.todo = <<"words", "count">> => LiteralFound
       /\ call.todo \in {<<"count">>, << >>} =>
            \/ LiteralFound /\ call.entries # << >>
            \/ WordsFound

ToolsInv == ToolsTyped /\ TodoOK /\ ChainOK /\ SearchOK

LEMMA ToolsStart == ToolsInit => ToolsInv
<1> SUFFICES ASSUME ToolsInit PROVE ToolsInv
  OBVIOUS
<1>1. rows = << >> /\ call = NoToolCall
  BY DEF ToolsInit
<1>2. ToSet(<< >>) = {}
  BY DEF ToSet
<1>3. ToolsTyped
  <2>1. << >> \in Seq(ToolRow) /\ << >> \in Seq(Nat) /\ << >> \in Todo
    BY DEF Todo
  <2> HIDE DEF Todo
  <2> QED BY <1>1, <1>2, <2>1 DEF ToolsTyped, NoToolCall
<1>4. TodoOK /\ ChainOK /\ SearchOK
  BY <1>1 DEF TodoOK, ChainOK, SearchOK, NoToolCall
<1> QED BY <1>3, <1>4 DEF ToolsInv

\* A new call has found nothing and has its whole plan before it.
LEMMA ToolCallStep ==
  ASSUME ToolsInv,
         NEW tool \in {"chain", "recall", "timeline", "tagged", "export"},
         ToolCall(tool)
  PROVE  ToolsInv'
<1>1. PICK limit \in ToolLimits :
        /\ call' = [NoToolCall EXCEPT !.tool = tool, !.todo = Plan(tool),
                                      !.limit = limit, !.had = Len(rows)]
        /\ rows' = rows
  BY DEF ToolCall
<1>2. /\ call' = [tool |-> tool, todo |-> Plan(tool), limit |-> limit,
                  had |-> Len(rows), entries |-> << >>, total |-> -1]
      /\ limit \in Int
  BY <1>1, ToolsAssumption DEF NoToolCall
<1>3. /\ tool = "chain"    => Plan(tool) = <<"first", "count">>
      /\ tool = "recall"   => Plan(tool) = <<"literal", "words", "count">>
      /\ tool = "timeline" => Plan(tool) = <<"newest">>
      /\ tool = "tagged"   => Plan(tool) = <<"tagged">>
      /\ tool = "export"   => Plan(tool) = <<"first">>
  BY DEF Plan
<1>4. rows \in Seq(ToolRow)
  BY DEF ToolsInv, ToolsTyped
<1>5. ToolsTyped'
  <2>1. Plan(tool) \in Todo
    BY <1>3 DEF Todo
  <2>2. << >> \in Seq(Nat) /\ ToSet(<< >>) = {} /\ Len(rows) \in Nat
    BY <1>4 DEF ToSet
  <2>3. call' \in [tool : {"none", "chain", "recall", "timeline", "tagged", "export"},
                   todo : Todo, limit : Int, had : Nat, entries : Seq(Nat), total : Int]
    BY <1>2, <2>1, <2>2
  <2>4. call'.had <= Len(rows) /\ ToSet(call'.entries) = {}
    BY <1>2, <2>2
  <2> QED BY <1>1, <1>4, <2>3, <2>4 DEF ToolsTyped
<1>6. TodoOK'
  BY <1>2, <1>3 DEF TodoOK
<1>7. ChainOK'
  BY <1>2, <1>3 DEF ChainOK
<1>8. SearchOK'
  <2>1. call'.tool = tool /\ call'.todo = Plan(tool)
    BY <1>2
  <2>2. /\ << >> # <<"newest">> /\ << >> # <<"tagged">>
        /\ <<"literal", "words", "count">> # <<"words", "count">>
        /\ <<"literal", "words", "count">> # <<"count">>
        /\ <<"literal", "words", "count">> # << >>
    OBVIOUS
  <2> QED BY <1>3, <2>1, <2>2 DEF SearchOK
<1> QED BY <1>5, <1>6, <1>7, <1>8 DEF ToolsInv

LEMMA Tails ==
  ASSUME NEW a, NEW b, NEW c
  PROVE  /\ Tail(<<a>>) = << >> /\ Tail(<<a, b>>) = <<b>>
         /\ Tail(<<a, b, c>>) = <<b, c>>
         /\ Head(<<a>>) = a /\ Head(<<a, b>>) = a /\ Head(<<a, b, c>>) = a
<1>1. Tail(<<a>>) = << >>
  OBVIOUS
<1>2. Tail(<<a, b>>) = <<b>>
  OBVIOUS
<1>3. Tail(<<a, b, c>>) = <<b, c>>
  OBVIOUS
<1> QED BY <1>1, <1>2, <1>3

LEMMA Plans ==
  ASSUME NEW todo \in Todo, todo # << >>
  PROVE  /\ Tail(todo) \in Todo
         /\ todo = <<"first", "count">> => /\ Head(todo) = "first"
                                          /\ Tail(todo) = <<"count">>
         /\ todo = <<"count">> => Head(todo) = "count" /\ Tail(todo) = << >>
         /\ todo = <<"literal", "words", "count">> =>
              Head(todo) = "literal" /\ Tail(todo) = <<"words", "count">>
         /\ todo = <<"words", "count">> => /\ Head(todo) = "words"
                                          /\ Tail(todo) = <<"count">>
         /\ todo = <<"newest">> => Head(todo) = "newest" /\ Tail(todo) = << >>
         /\ todo = <<"tagged">> => Head(todo) = "tagged" /\ Tail(todo) = << >>
         /\ todo = <<"first">> => Head(todo) = "first" /\ Tail(todo) = << >>
<1>1. /\ todo = <<"first", "count">> => /\ Head(todo) = "first"
                                       /\ Tail(todo) = <<"count">>
      /\ todo = <<"words", "count">> => /\ Head(todo) = "words"
                                       /\ Tail(todo) = <<"count">>
  <2>1. Head(<<"first", "count">>) = "first" /\ Tail(<<"first", "count">>) = <<"count">>
    BY Tails
  <2>2. Head(<<"words", "count">>) = "words" /\ Tail(<<"words", "count">>) = <<"count">>
    BY Tails
  <2> QED BY <2>1, <2>2
<1>2. todo = <<"literal", "words", "count">> =>
        Head(todo) = "literal" /\ Tail(todo) = <<"words", "count">>
  BY Tails
<1>3. /\ todo = <<"count">> => Head(todo) = "count" /\ Tail(todo) = << >>
      /\ todo = <<"newest">> => Head(todo) = "newest" /\ Tail(todo) = << >>
      /\ todo = <<"tagged">> => Head(todo) = "tagged" /\ Tail(todo) = << >>
      /\ todo = <<"first">> => Head(todo) = "first" /\ Tail(todo) = << >>
  BY Tails
<1>4. Tail(todo) \in Todo
  <2>1. Tail(todo) \in {<<"count">>, <<"words", "count">>, << >>}
    BY <1>1, <1>2, <1>3 DEF Todo
  <2> QED BY <2>1 DEF Todo
<1> QED BY <1>1, <1>2, <1>3, <1>4

\* What a statement changes: what is left of the plan and what is listed.
LEMMA StatementMoves ==
  ASSUME ToolsInv, NEW name, NEW entries, Statement(name, entries),
         entries \in Seq(Nat), ToSet(entries) \subseteq 1 .. Len(rows)
  PROVE  /\ call.todo # << >> /\ Head(call.todo) = name
         /\ call'.todo = Tail(call.todo) /\ call'.entries = entries
         /\ call'.tool = call.tool /\ call'.limit = call.limit
         /\ call'.had = call.had /\ call'.total = call.total
         /\ rows' = rows
         /\ ToolsTyped'
<1>1. /\ call.todo # << >> /\ Head(call.todo) = name
      /\ call' = [call EXCEPT !.todo = Tail(call.todo), !.entries = entries]
      /\ rows' = rows
  BY DEF Statement
<1>2. call \in [tool : {"none", "chain", "recall", "timeline", "tagged", "export"},
                todo : Todo, limit : Int, had : Nat, entries : Seq(Nat), total : Int]
  BY DEF ToolsInv, ToolsTyped
<1>3. Tail(call.todo) \in Todo
  BY <1>1, <1>2, Plans
<1>4. /\ call'.todo = Tail(call.todo) /\ call'.entries = entries
      /\ call'.tool = call.tool /\ call'.limit = call.limit
      /\ call'.had = call.had /\ call'.total = call.total
  BY <1>1, <1>2
<1>5. call' \in [tool : {"none", "chain", "recall", "timeline", "tagged", "export"},
                 todo : Todo, limit : Int, had : Nat, entries : Seq(Nat), total : Int]
  BY <1>1, <1>2, <1>3
<1>6. ToolsTyped'
  BY <1>1, <1>4, <1>5 DEF ToolsInv, ToolsTyped
<1> QED BY <1>1, <1>4, <1>6

\* The first n rows are the same table later, and in the table cut off there.
LEMMA FirstRows ==
  ASSUME rows \in Seq(ToolRow), NEW n \in Nat, n <= Len(rows)
  PROVE  /\ Literal(SubSeq(rows, 1, n)) = LiteralOf(n)
         /\ Worded(SubSeq(rows, 1, n)) = WordedOf(n)
<1> DEFINE table == SubSeq(rows, 1, n)
<1>1. Len(table) = n /\ \A i \in 1 .. n : table[i] = rows[i]
  OBVIOUS
<1> HIDE DEF table
<1> QED BY <1>1 DEF Literal, Worded, LiteralOf, WordedOf, table

\* A statement that finds these rows covers those of them that were there.
LEMMA NewestCovers ==
  ASSUME ToolsInv, NEW found \in SUBSET (1 .. Len(rows)), NEW wanted,
         wanted \subseteq found,
         NEW name, Statement(name, Newest(rows, found, call.limit))
  PROVE  /\ ToSet(call'.entries) \subseteq found
         /\ Covers(wanted)'
         /\ call.limit = 0 => call'.entries = << >>
         /\ call.todo # << >> /\ Head(call.todo) = name
         /\ call'.todo = Tail(call.todo)
         /\ call'.tool = call.tool /\ call'.limit = call.limit
         /\ call'.had = call.had /\ rows' = rows
         /\ ToolsTyped'
<1> DEFINE listed == Newest(rows, found, call.limit)
<1>1. rows \in Seq(ToolRow) /\ call.limit \in Int
  BY DEF ToolsInv, ToolsTyped
<1>2. /\ listed \in Seq(found)
      /\ \A i \in found \ ToSet(listed) :
           /\ call.limit >= 0 /\ Len(listed) >= call.limit
           /\ \A j \in ToSet(listed) : Newer(rows, j, i)
      /\ call.limit = 0 => listed = << >>
  BY <1>1, NewestLists
<1> HIDE DEF listed
<1>3. ToSet(listed) \subseteq found
  BY <1>2 DEF ToSet
<1>4. listed \in Seq(Nat)
  <2>1. found \subseteq Nat
    BY <1>1
  <2> QED BY <1>2, <2>1, SeqMonotonic
<1>5. /\ call.todo # << >> /\ Head(call.todo) = name
      /\ call'.todo = Tail(call.todo) /\ call'.entries = listed
      /\ call'.tool = call.tool /\ call'.limit = call.limit
      /\ call'.had = call.had /\ rows' = rows
      /\ ToolsTyped'
  BY <1>3, <1>4, StatementMoves DEF listed
<1>6. Covers(wanted)'
  BY <1>2, <1>5 DEF Covers
<1> QED BY <1>2, <1>3, <1>5, <1>6

\* Where a call is when this statement is its next.
LEMMA NextStatement ==
  ASSUME ToolsInv, call.todo # << >>
  PROVE  /\ Head(call.todo) = "first" =>
              \/ call.tool = "chain" /\ Tail(call.todo) = <<"count">>
              \/ call.tool = "export" /\ Tail(call.todo) = << >>
         /\ Head(call.todo) = "literal" =>
              call.tool = "recall" /\ Tail(call.todo) = <<"words", "count">>
         /\ Head(call.todo) = "words" =>
              /\ call.tool = "recall" /\ call.todo = <<"words", "count">>
              /\ Tail(call.todo) = <<"count">>
         /\ Head(call.todo) = "newest" =>
              call.tool = "timeline" /\ Tail(call.todo) = << >>
         /\ Head(call.todo) = "tagged" =>
              call.tool = "tagged" /\ Tail(call.todo) = << >>
         /\ Head(call.todo) = "count" =>
              /\ call.tool \in {"chain", "recall"} /\ call.todo = <<"count">>
              /\ Tail(call.todo) = << >>
<1>1. /\ call.todo \in Todo /\ TodoOK
      /\ call.tool \in {"none", "chain", "recall", "timeline", "tagged", "export"}
  BY DEF ToolsInv, ToolsTyped
<1> DEFINE todo == call.todo
           tool == call.tool
<1>2. \/ tool = "chain" /\ todo = <<"first", "count">>
      \/ tool = "chain" /\ todo = <<"count">>
      \/ tool = "recall" /\ todo = <<"literal", "words", "count">>
      \/ tool = "recall" /\ todo = <<"words", "count">>
      \/ tool = "recall" /\ todo = <<"count">>
      \/ tool = "timeline" /\ todo = <<"newest">>
      \/ tool = "tagged" /\ todo = <<"tagged">>
      \/ tool = "export" /\ todo = <<"first">>
  BY <1>1 DEF TodoOK
<1>3. /\ todo = <<"first", "count">> => /\ Head(todo) = "first"
                                       /\ Tail(todo) = <<"count">>
      /\ todo = <<"count">> => Head(todo) = "count" /\ Tail(todo) = << >>
      /\ todo = <<"literal", "words", "count">> =>
           Head(todo) = "literal" /\ Tail(todo) = <<"words", "count">>
      /\ todo = <<"words", "count">> => /\ Head(todo) = "words"
                                       /\ Tail(todo) = <<"count">>
      /\ todo = <<"newest">> => Head(todo) = "newest" /\ Tail(todo) = << >>
      /\ todo = <<"tagged">> => Head(todo) = "tagged" /\ Tail(todo) = << >>
      /\ todo = <<"first">> => Head(todo) = "first" /\ Tail(todo) = << >>
  BY <1>1, Plans
<1> HIDE DEF todo, tool
<1>4. /\ Head(todo) = "first" =>
           \/ tool = "chain" /\ Tail(todo) = <<"count">>
           \/ tool = "export" /\ Tail(todo) = << >>
      /\ Head(todo) = "literal" =>
           tool = "recall" /\ Tail(todo) = <<"words", "count">>
      /\ Head(todo) = "words" =>
           /\ tool = "recall" /\ todo = <<"words", "count">>
           /\ Tail(todo) = <<"count">>
      /\ Head(todo) = "newest" => tool = "timeline" /\ Tail(todo) = << >>
      /\ Head(todo) = "tagged" => tool = "tagged" /\ Tail(todo) = << >>
      /\ Head(todo) = "count" =>
           /\ tool \in {"chain", "recall"} /\ todo = <<"count">>
           /\ Tail(todo) = << >>
  BY <1>2, <1>3
<1> QED BY <1>4 DEF todo, tool

LEMMA FirstStep ==
  ASSUME ToolsInv, First
  PROVE  ToolsInv'
<1> DEFINE order  == [i \in 1 .. Len(rows) |-> i]
           listed == AtMost(call.limit, order)
<1>1. Statement("first", listed)
  BY DEF First
<1>2. /\ Len(rows) \in Nat /\ call.limit \in Int /\ order \in Seq(Nat)
      /\ Len(order) = Len(rows)
  <2>1. rows \in Seq(ToolRow) /\ call.limit \in Int
    BY DEF ToolsInv, ToolsTyped
  <2>2. order \in [1 .. Len(rows) -> Nat] /\ Len(rows) \in Nat
    BY <2>1
  <2> HIDE DEF order
  <2> QED BY <2>1, <2>2
<1>3. PICK size \in 0 .. Len(rows) : listed = [i \in 1 .. size |-> i]
  <2>1. CASE call.limit < 0 \/ Len(order) <= call.limit
    <3>1. listed = [i \in 1 .. Len(rows) |-> i]
      BY <2>1 DEF AtMost
    <3>2. Len(rows) \in 0 .. Len(rows)
      BY <1>2
    <3> HIDE DEF listed
    <3> QED BY <3>1, <3>2
  <2>2. CASE ~ (call.limit < 0 \/ Len(order) <= call.limit)
    <3>1. listed = SubSeq(order, 1, call.limit)
      BY <2>2 DEF AtMost
    <3>2. call.limit \in 0 .. Len(rows)
      BY <1>2, <2>2
    <3>3. \A i \in 1 .. call.limit : order[i] = i
      BY <1>2, <3>2
    <3> HIDE DEF order
    <3>4. SubSeq(order, 1, call.limit) = [i \in 1 .. call.limit |-> i]
      BY <1>2, <3>2, <3>3
    <3> QED BY <3>1, <3>2, <3>4
  <2> QED BY <2>1, <2>2
<1> HIDE DEF listed, order
<1>4. /\ listed \in Seq(Nat) /\ Len(listed) = size
      /\ ToSet(listed) \subseteq 1 .. Len(rows)
      /\ listed = [i \in 1 .. Len(listed) |-> i]
  <2>1. listed \in [1 .. size -> Nat] /\ size \in Nat
    BY <1>2, <1>3
  <2>2. listed \in Seq(Nat) /\ Len(listed) = size
    BY <2>1
  <2>3. ToSet(listed) = 1 .. size
    BY <1>3 DEF ToSet
  <2> QED BY <1>2, <1>3, <2>2, <2>3
<1>5. /\ call.todo # << >> /\ Head(call.todo) = "first"
      /\ call'.todo = Tail(call.todo) /\ call'.entries = listed
      /\ call'.tool = call.tool /\ ToolsTyped'
  BY <1>1, <1>4, StatementMoves
<1>6. \/ call'.tool = "chain" /\ call'.todo = <<"count">>
      \/ call'.tool = "export" /\ call'.todo = << >>
  BY <1>5, NextStatement
<1>7. TodoOK' /\ SearchOK'
  BY <1>6 DEF TodoOK, SearchOK
<1>8. ChainOK'
  <2>1. <<"count">> # << >>
    OBVIOUS
  <2> QED BY <1>4, <1>5, <1>6, <2>1 DEF ChainOK
<1> QED BY <1>5, <1>7, <1>8 DEF ToolsInv

LEMMA SearchLiteralStep ==
  ASSUME ToolsInv, SearchLiteral
  PROVE  ToolsInv'
<1>1. rows \in Seq(ToolRow) /\ call.had \in Nat /\ call.had <= Len(rows)
  BY DEF ToolsInv, ToolsTyped
<1>2. /\ Literal(rows) = LiteralOf(Len(rows))
      /\ Literal(rows) \in SUBSET (1 .. Len(rows))
      /\ LiteralOf(call.had) \subseteq Literal(rows)
  BY <1>1 DEF Literal, LiteralOf
<1> PICK found, wanted : found = Literal(rows) /\ wanted = LiteralOf(call.had)
  OBVIOUS
<1>3. /\ ToSet(call'.entries) \subseteq found /\ Covers(wanted)'
      /\ call.todo # << >> /\ Head(call.todo) = "literal"
      /\ call'.todo = Tail(call.todo) /\ call'.tool = call.tool
      /\ call'.had = call.had /\ rows' = rows /\ ToolsTyped'
  BY <1>2, NewestCovers DEF SearchLiteral
<1>4. call'.tool = "recall" /\ call'.todo = <<"words", "count">>
  BY <1>3, NextStatement
<1>5. LiteralFound'
  <2>1. wanted = LiteralOf(call.had)' /\ found = LiteralOf(Len(rows))'
    BY <1>2, <1>3 DEF LiteralOf
  <2> QED BY <1>3, <2>1 DEF LiteralFound, Covers
<1>6. TodoOK' /\ ChainOK'
  BY <1>4 DEF TodoOK, ChainOK
<1>7. SearchOK'
  <2>1. <<"words", "count">> # <<"count">> /\ <<"words", "count">> # << >>
    OBVIOUS
  <2> QED BY <1>4, <1>5, <2>1 DEF SearchOK
<1> QED BY <1>3, <1>6, <1>7 DEF ToolsInv

LEMMA SearchWordsStep ==
  ASSUME ToolsInv, SearchWords
  PROVE  ToolsInv'
<1>1. /\ rows \in Seq(ToolRow) /\ call.had \in Nat /\ call.had <= Len(rows)
      /\ call.entries \in Seq(Nat) /\ ToSet(call.entries) \subseteq 1 .. Len(rows)
  BY DEF ToolsInv, ToolsTyped
<1>2. call.todo # << >> /\ Head(call.todo) = "words"
  BY DEF SearchWords, Statement
<1>3. /\ call.tool = "recall" /\ call.todo = <<"words", "count">>
      /\ Tail(call.todo) = <<"count">>
  BY <1>2, NextStatement
<1>4. LiteralFound
  BY <1>3 DEF ToolsInv, SearchOK
<1>5. <<"count">> # << >> /\ <<"count">> # <<"words", "count">>
  OBVIOUS
<1>6. ASSUME call'.todo = <<"count">>, call'.tool = "recall", ToolsTyped',
             (LiteralFound /\ call.entries # << >>)' \/ WordsFound'
      PROVE  ToolsInv'
  BY <1>5, <1>6 DEF ToolsInv, TodoOK, ChainOK, SearchOK
<1>7. CASE call.entries # << >>
  <2>1. Statement("words", call.entries)
    BY <1>7 DEF SearchWords
  <2>2. /\ call'.todo = <<"count">> /\ call'.entries = call.entries
        /\ call'.tool = "recall" /\ call'.limit = call.limit
        /\ call'.had = call.had /\ rows' = rows /\ ToolsTyped'
    BY <1>1, <1>3, <2>1, StatementMoves
  <2>3. LiteralFound'
    BY <1>4, <2>2 DEF LiteralFound, Covers, LiteralOf
  <2> QED BY <1>6, <1>7, <2>2, <2>3
<1>8. CASE call.entries = << >>
  <2>1. Statement("words", Newest(rows, Worded(rows), call.limit))
    BY <1>8 DEF SearchWords
  <2>2. /\ Worded(rows) \in SUBSET (1 .. Len(rows))
        /\ WordedOf(call.had) \subseteq Worded(rows)
    BY <1>1 DEF Worded, WordedOf
  <2> PICK found, wanted : found = Worded(rows) /\ wanted = WordedOf(call.had)
    OBVIOUS
  <2>3. /\ Covers(wanted)'
        /\ call.limit = 0 => call'.entries = << >>
        /\ call'.todo = Tail(call.todo) /\ call'.tool = call.tool
        /\ call'.had = call.had /\ rows' = rows /\ ToolsTyped'
    BY <2>1, <2>2, NewestCovers
  <2>4. wanted = WordedOf(call.had)' /\ LiteralOf(call.had)' = LiteralOf(call.had)
    BY <2>3 DEF WordedOf, LiteralOf
  <2>5. LiteralOf(call.had) # {} => call.limit = 0
    <3> SUFFICES ASSUME NEW i \in LiteralOf(call.had) PROVE call.limit = 0
      OBVIOUS
    <3>1. ToSet(call.entries) = {} /\ Len(call.entries) = 0
      BY <1>8 DEF ToSet
    <3>2. call.limit >= 0 /\ 0 >= call.limit
      BY <1>4, <3>1 DEF LiteralFound, Covers
    <3>3. call.limit \in Int
      BY DEF ToolsInv, ToolsTyped
    <3> QED BY <3>2, <3>3
  <2>6. WordsFound'
    BY <2>3, <2>4, <2>5 DEF WordsFound, Covers
  <2> QED BY <1>3, <1>6, <2>3, <2>6
<1> QED BY <1>7, <1>8

LEMMA TimelineStep ==
  ASSUME ToolsInv, TimelineRows
  PROVE  ToolsInv'
<1>1. rows \in Seq(ToolRow) /\ call.had \in Nat /\ call.had <= Len(rows)
  BY DEF ToolsInv, ToolsTyped
<1>2. CASE Statement("newest", Newest(rows, 1 .. Len(rows), call.limit))
  <2> PICK wanted, found : wanted = 1 .. call.had /\ found = 1 .. Len(rows)
    OBVIOUS
  <2>1. found \in SUBSET (1 .. Len(rows)) /\ wanted \subseteq found
    BY <1>1
  <2>2. /\ Covers(wanted)'
        /\ call.todo # << >> /\ Head(call.todo) = "newest"
        /\ call'.todo = Tail(call.todo) /\ call'.tool = call.tool
        /\ call'.had = call.had /\ ToolsTyped'
    BY <1>2, <2>1, NewestCovers
  <2>3. call'.tool = "timeline" /\ call'.todo = << >>
    BY <2>2, NextStatement
  <2>4. Covers(1 .. call.had)'
    BY <2>2 DEF Covers
  <2>5. TodoOK' /\ ChainOK' /\ SearchOK'
    BY <2>3, <2>4 DEF TodoOK, ChainOK, SearchOK
  <2> QED BY <2>2, <2>5 DEF ToolsInv
<1>3. CASE Statement("tagged", Newest(rows, Literal(rows), call.limit))
  <2> PICK wanted, found : wanted = LiteralOf(call.had) /\ found = Literal(rows)
    OBVIOUS
  <2>1. found \in SUBSET (1 .. Len(rows)) /\ wanted \subseteq found
    BY <1>1 DEF Literal, LiteralOf
  <2>2. /\ Covers(wanted)'
        /\ call.todo # << >> /\ Head(call.todo) = "tagged"
        /\ call'.todo = Tail(call.todo) /\ call'.tool = call.tool
        /\ call'.had = call.had /\ rows' = rows /\ ToolsTyped'
    BY <1>3, <2>1, NewestCovers
  <2>3. call'.tool = "tagged" /\ call'.todo = << >>
    BY <2>2, NextStatement
  <2>4. Covers(LiteralOf(call.had))'
    <3>1. wanted = LiteralOf(call.had)'
      BY <2>2 DEF LiteralOf
    <3> QED BY <2>2, <3>1 DEF Covers
  <2>5. TodoOK' /\ ChainOK' /\ SearchOK'
    BY <2>3, <2>4 DEF TodoOK, ChainOK, SearchOK
  <2> QED BY <2>2, <2>5 DEF ToolsInv
<1> QED BY <1>2, <1>3 DEF TimelineRows

LEMMA CountStep ==
  ASSUME ToolsInv, Count
  PROVE  ToolsInv'
<1>1. /\ call.todo # << >> /\ Head(call.todo) = "count"
      /\ call' = [call EXCEPT !.todo = Tail(call.todo), !.total = Len(rows)]
      /\ rows' = rows
  BY DEF Count
<1>2. /\ call.tool \in {"chain", "recall"} /\ call.todo = <<"count">>
      /\ Tail(call.todo) = << >>
  BY <1>1, NextStatement
<1>3. /\ rows \in Seq(ToolRow) /\ call.entries \in Seq(Nat)
      /\ call \in [tool : {"none", "chain", "recall", "timeline", "tagged", "export"},
                   todo : Todo, limit : Int, had : Nat, entries : Seq(Nat),
                   total : Int]
      /\ ToSet(call.entries) \subseteq 1 .. Len(rows)
  BY DEF ToolsInv, ToolsTyped
<1>4. Len(rows) \in Nat /\ << >> \in Todo
  BY <1>3 DEF Todo
<1>5. /\ call'.todo = << >> /\ call'.entries = call.entries
      /\ call'.tool = call.tool /\ call'.limit = call.limit
      /\ call'.had = call.had /\ call'.total = Len(rows)
  BY <1>1, <1>2, <1>3
<1>6. ToolsTyped'
  <2>1. call' \in [tool : {"none", "chain", "recall", "timeline", "tagged", "export"},
                   todo : Todo, limit : Int, had : Nat, entries : Seq(Nat),
                   total : Int]
    <3>1. call' = [call EXCEPT !.todo = << >>, !.total = Len(rows)]
      BY <1>1, <1>2
    <3>2. Len(rows) \in Int
      BY <1>4
    <3> QED BY <1>3, <1>4, <3>1, <3>2, Zenon
  <2> QED BY <1>1, <1>5, <2>1 DEF ToolsInv, ToolsTyped
<1>7. TodoOK'
  BY <1>2, <1>5 DEF TodoOK
<1>8. ChainOK'
  <2> SUFFICES ASSUME call.tool = "chain"
               PROVE  /\ call.entries = [i \in 1 .. Len(call.entries) |-> i]
                      /\ Len(call.entries) <= Len(rows)
    BY <1>4, <1>5 DEF ChainOK
  <2>1. call.entries = [i \in 1 .. Len(call.entries) |-> i]
    <3>1. <<"count">> # <<"first", "count">>
      OBVIOUS
    <3> QED BY <1>2, <3>1 DEF ToolsInv, ChainOK
  <2> DEFINE size == Len(call.entries)
  <2>2. size \in Nat
    BY <1>3
  <2> HIDE DEF size
  <2>3. CASE size > 0
    <3>1. size \in 1 .. size
      BY <2>2, <2>3
    <3>2. size \in ToSet(call.entries)
      BY <2>1, <3>1 DEF ToSet, size
    <3> QED BY <1>3, <1>4, <2>1, <3>2 DEF size
  <2> QED BY <1>4, <2>1, <2>2, <2>3 DEF size
<1>9. SearchOK'
  <2>1. <<"count">> # <<"words", "count">> /\ <<"words", "count">> # << >>
    OBVIOUS
  <2>2. call.tool = "recall" => (LiteralFound /\ call.entries # << >>) \/ WordsFound
    BY <1>2 DEF ToolsInv, SearchOK
  <2>3. (LiteralFound => LiteralFound') /\ (WordsFound => WordsFound')
    BY <1>1, <1>5 DEF LiteralFound, WordsFound, Covers, LiteralOf, WordedOf
  <2> QED BY <1>2, <1>5, <2>1, <2>2, <2>3 DEF SearchOK
<1> QED BY <1>6, <1>7, <1>8, <1>9 DEF ToolsInv

\* What a call has found stands when rows are appended after it.
LEMMA AppendStep ==
  ASSUME ToolsInv, AppendRow
  PROVE  ToolsInv'
<1>1. PICK row \in ToolRow : rows' = Append(rows, row) /\ call' = call
  BY DEF AppendRow
<1>2. /\ rows \in Seq(ToolRow) /\ call.had \in Nat /\ call.had <= Len(rows)
      /\ ToSet(call.entries) \subseteq 1 .. Len(rows)
  BY DEF ToolsInv, ToolsTyped
<1>3. /\ rows' \in Seq(ToolRow) /\ Len(rows') = Len(rows) + 1 /\ Len(rows) \in Nat
      /\ \A i \in 1 .. Len(rows) : rows'[i] = rows[i]
  BY <1>1, <1>2
<1>4. ToolsTyped'
  <2>1. 1 .. Len(rows) \subseteq 1 .. Len(rows') /\ call.had <= Len(rows')
    BY <1>2, <1>3
  <2> QED BY <1>1, <1>2, <1>3, <2>1 DEF ToolsInv, ToolsTyped
<1>5. TodoOK' /\ ChainOK'
  BY <1>1 DEF ToolsInv, TodoOK, ChainOK
<1>6. ASSUME NEW wanted, wanted \subseteq 1 .. Len(rows), Covers(wanted)
      PROVE  Covers(wanted)'
  <2>1. \A i, j \in 1 .. Len(rows) : Newer(rows, j, i) => Newer(rows', j, i)
    BY <1>3 DEF Newer
  <2> QED BY <1>1, <1>2, <1>6, <2>1 DEF Covers
<1>7. /\ LiteralOf(call.had)' = LiteralOf(call.had)
      /\ WordedOf(call.had)' = WordedOf(call.had)
      /\ LiteralOf(Len(rows)) \subseteq LiteralOf(Len(rows))'
      /\ LiteralOf(call.had) \subseteq 1 .. Len(rows)
      /\ WordedOf(call.had) \subseteq 1 .. Len(rows)
      /\ 1 .. call.had \subseteq 1 .. Len(rows)
  BY <1>1, <1>2, <1>3 DEF LiteralOf, WordedOf
<1> PICK all, literal, worded :
      /\ all = 1 .. call.had
      /\ literal = LiteralOf(call.had)
      /\ worded = WordedOf(call.had)
  OBVIOUS
<1>8. /\ Covers(all) => Covers(all)'
      /\ Covers(literal) => Covers(literal)'
      /\ Covers(worded) => Covers(worded)'
  BY <1>6, <1>7
<1>9. /\ Covers(1 .. call.had) => Covers(1 .. call.had)'
      /\ Covers(LiteralOf(call.had)) => Covers(LiteralOf(call.had))'
      /\ Covers(WordedOf(call.had)) => Covers(WordedOf(call.had))'
  BY <1>1, <1>7, <1>8 DEF Covers
<1>10. (LiteralFound => LiteralFound') /\ (WordsFound => WordsFound')
  BY <1>1, <1>7, <1>9 DEF LiteralFound, WordsFound
<1>11. SearchOK'
  BY <1>1, <1>9, <1>10 DEF ToolsInv, SearchOK
<1> QED BY <1>4, <1>5, <1>11 DEF ToolsInv

LEMMA ToolsContinue ==
  ASSUME ToolsInv, [Pages \/ Tools]_readerVars
  PROVE  ToolsInv'
<1>1. CASE ToolsNext
  BY <1>1, ToolCallStep, FirstStep, SearchLiteralStep, SearchWordsStep,
     TimelineStep, CountStep, AppendStep DEF ToolsNext
<1>2. CASE UNCHANGED toolVars
  <2>1. rows' = rows /\ call' = call
    BY <1>2 DEF toolVars
  <2> QED BY <2>1 DEF ToolsInv, ToolsTyped, TodoOK, ChainOK, SearchOK,
          LiteralFound, WordsFound, Covers, LiteralOf, WordedOf
<1> QED BY <1>1, <1>2 DEF Pages, Tools, readerVars

LEMMA ToolsInvariance == ReadersSpec => []ToolsInv
<1>1. ReadersInit => ToolsInv
  BY ToolsStart DEF ReadersInit
<1> QED BY <1>1, ToolsContinue, PTL DEF ReadersSpec

\* A chain check that is not called partial is one of the whole table, and one
\* that is called partial is not, for any limit and whatever is appended
\* between its two statements.
THEOREM PartialChecksAreHonest == ReadersSpec => []PartialIsHonest
<1>1. ASSUME ToolsInv PROVE PartialIsHonest
  <2> SUFFICES ASSUME call.tool = "chain", call.todo = << >>
               PROVE  ~ (Len(call.entries) < call.total)
                        <=> call.entries = [i \in 1 .. call.total |-> i]
    BY DEF PartialIsHonest, Answered, IsPartial
  <2>1. << >> # <<"first", "count">>
    OBVIOUS
  <2>2. /\ call.entries = [i \in 1 .. Len(call.entries) |-> i]
        /\ call.total \in Nat /\ Len(call.entries) <= call.total
    BY <1>1, <2>1 DEF ToolsInv, ChainOK
  <2>3. call.entries \in Seq(Nat)
    BY <1>1 DEF ToolsInv, ToolsTyped
  <2>4. Len(call.entries) \in Nat
    BY <2>3
  <2>5. ASSUME call.entries = [i \in 1 .. call.total |-> i]
        PROVE  Len(call.entries) = call.total
    BY <2>2, <2>5
  <2>6. CASE Len(call.entries) = call.total
    <3>1. call.entries = [i \in 1 .. call.total |-> i]
      BY <2>2, <2>6
    <3>2. ~ (Len(call.entries) < call.total)
      BY <2>2, <2>6
    <3> QED BY <3>1, <3>2
  <2>7. CASE Len(call.entries) # call.total
    <3>1. Len(call.entries) < call.total
      BY <2>2, <2>4, <2>7
    <3> QED BY <2>5, <2>7, <3>1
  <2> QED BY <2>6, <2>7
<1> QED BY <1>1, ToolsInvariance, PTL

\* recall and timeline leave out no row that was there when they were called but
\* for newer ones, for any table, clock and limit, and whatever is appended
\* between the two searches of recall.
THEOREM SearchesFindTheNewest == ReadersSpec => []FoundAreNewest
<1>1. ASSUME ToolsInv PROVE FoundAreNewest
  <2> DEFINE table  == SubSeq(rows, 1, call.had)
             listed == ToSet(call.entries)
             full   == call.limit >= 0 /\ Len(call.entries) >= call.limit
             whole  == listed # {} /\ listed \subseteq Literal(rows)
             wanted == IF call.tool = "timeline" THEN 1 .. call.had
                       ELSE IF call.tool = "tagged" \/ Literal(table) # {} \/ whole
                         THEN Literal(table)
                       ELSE Worded(table)
  <2> SUFFICES ASSUME call.tool \in {"recall", "timeline", "tagged"},
                      call.todo = << >>
               PROVE  /\ \A i \in wanted \ listed :
                           full /\ \A j \in listed : Newer(rows, j, i)
                      /\ call.tool = "recall" /\ Literal(table) # {} =>
                           listed \subseteq Literal(rows)
    BY DEF FoundAreNewest, Answered
  <2>1. /\ rows \in Seq(ToolRow) /\ call.had \in Nat /\ call.had <= Len(rows)
        /\ call.entries \in Seq(Nat)
    BY <1>1 DEF ToolsInv, ToolsTyped
  <2>2. Literal(table) = LiteralOf(call.had) /\ Worded(table) = WordedOf(call.had)
    BY <2>1, FirstRows
  <2>3. /\ Literal(rows) = LiteralOf(Len(rows))
        /\ LiteralOf(call.had) \subseteq Literal(rows)
        /\ LiteralOf(call.had) \subseteq WordedOf(call.had)
    BY <2>1 DEF Literal, LiteralOf, WordedOf
  <2> HIDE DEF table
  <2>4. CASE call.tool = "timeline"
    <3>1. Covers(1 .. call.had)
      BY <1>1, <2>4 DEF ToolsInv, SearchOK
    <3> QED BY <2>4, <3>1 DEF Covers
  <2>5. CASE call.tool = "tagged"
    <3>1. Covers(LiteralOf(call.had))
      BY <1>1, <2>5 DEF ToolsInv, SearchOK
    <3> QED BY <2>2, <2>5, <3>1 DEF Covers
  <2>6. CASE call.tool = "recall"
    <3>1. (LiteralFound /\ call.entries # << >>) \/ WordsFound
      BY <1>1, <2>6 DEF ToolsInv, SearchOK
    <3>2. CASE LiteralFound /\ call.entries # << >>
      <4>1. listed # {}
        <5>1. 1 \in DOMAIN call.entries
          BY <2>1, <3>2
        <5> QED BY <5>1 DEF ToSet
      <4>2. listed \subseteq Literal(rows)
        BY <2>3, <3>2 DEF LiteralFound
      <4>3. wanted = LiteralOf(call.had)
        BY <2>2, <2>6, <4>1, <4>2
      <4> QED BY <2>6, <3>2, <4>1, <4>2, <4>3 DEF LiteralFound, Covers
    <3>3. CASE WordsFound
      <4>1. wanted \subseteq WordedOf(call.had)
        BY <2>2, <2>3, <2>6
      <4>2. \A i \in wanted \ listed : full /\ \A j \in listed : Newer(rows, j, i)
        BY <3>3, <4>1 DEF WordsFound, Covers
      <4>3. Literal(table) # {} => listed = {}
        BY <2>2, <3>3 DEF WordsFound, ToSet
      <4> QED BY <4>2, <4>3
    <3> QED BY <3>1, <3>2, <3>3
  <2> QED BY <2>4, <2>5, <2>6
<1> QED BY <1>1, ToolsInvariance, PTL

=============================================================================
