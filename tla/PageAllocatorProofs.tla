------------------------ MODULE PageAllocatorProofs ------------------------
(***************************************************************************)
(* Proofs about PageAllocator, for every page count and every content of   *)
(* the memory the bitmap is laid on.                                       *)
(***************************************************************************)
EXTENDS PageAllocator, WellFoundedInduction, TLAPS

\* A nonempty set of naturals has a least element: Least is well defined.
LEMMA LeastExists ==
  ASSUME NEW S \in SUBSET Nat, S # {}
  PROVE  Least(S) \in S /\ \A j \in S : Least(S) <= j
<1> DEFINE Less == OpToRel(<, Nat)
<1>1. \A x, y \in Nat : <<y, x>> \in Less <=> y < x
  BY DEF OpToRel
<1>2. \E x \in S : \A y \in S : ~ (<<y, x>> \in Less)
  <2>1. IsWellFoundedOn(Less, Nat)
    BY NatLessThanWellFounded
  <2> HIDE DEF Less
  <2> QED BY <2>1, WFMin
<1>3. \E x \in S : \A y \in S : x <= y
  <2> HIDE DEF Less
  <2>1. PICK x \in S : \A y \in S : ~ (<<y, x>> \in Less)
    BY <1>2
  <2>2. ASSUME NEW y \in S PROVE x <= y
    <3>1. x \in Nat /\ y \in Nat
      OBVIOUS
    <3>2. ~ (y < x)
      BY <1>1, <2>1, <3>1, Zenon
    <3> QED BY <3>1, <3>2
  <2> QED BY <2>2
<1> QED BY <1>3 DEF Least

\* A position is a word and a bit of that word.
LEMMA Positions ==
  ASSUME NEW p \in Pos
  PROVE  p \in Nat /\ p \div WORD \in AllWords /\ p % WORD \in Bit
BY PageAllocatorAssumption DEF Pos, AllWords, Bit, WORD

LEMMA WordAndBit ==
  ASSUME NEW i \in AllWords, NEW b \in Bit
  PROVE  /\ i * WORD + b \in Pos
         /\ (i * WORD + b) \div WORD = i
         /\ (i * WORD + b) % WORD = b
BY PageAllocatorAssumption DEF Pos, AllWords, Bit, WORD

\* Two positions with the same word and the same bit are the same.
LEMMA PositionsDiffer ==
  ASSUME NEW p \in Pos, NEW q \in Pos, p \div WORD = q \div WORD, p % WORD = q % WORD
  PROVE  p = q
BY Positions DEF WORD

----------------------------------------------------------------------------
(* What the bitset's operations do to a position. *)

\* first_clear, when its assertion holds, gives a position that is not set, in
\* one of the words of the set.
LEMMA FirstClear ==
  ASSUME TypeOK, has_clear(pages)
  PROVE  /\ first_clear(pages) \in Pos
         /\ ~ IsSet(pages, first_clear(pages))
         /\ first_clear(pages) \div WORD \in Words(pages.m_bitcount)
<1> DEFINE indx == Least(NotFull(pages))
           bit  == Least(Bit \ pages.m_set[indx])
<1>1. pages.m_bitcount \in {0, PageCount} /\ pages.m_set \in [AllWords -> SUBSET Bit]
  BY DEF TypeOK
<1>2. \A i \in Words(pages.m_bitcount) : i \in AllWords /\ i \in Nat
  BY <1>1, PageAllocatorAssumption DEF Words, AllWords, WORD
<1>3. NotFull(pages) \in SUBSET Nat /\ NotFull(pages) # {}
  BY <1>2 DEF NotFull, has_clear
<1>4. indx \in NotFull(pages)
  BY <1>3, LeastExists
<1>5. indx \in Words(pages.m_bitcount) /\ indx \in AllWords /\ pages.m_set[indx] # Bit
  BY <1>2, <1>4 DEF NotFull
<1> HIDE DEF indx
<1>6. Bit \ pages.m_set[indx] \in SUBSET Nat /\ Bit \ pages.m_set[indx] # {}
  BY <1>1, <1>5 DEF Bit, WORD
<1>7. bit \in Bit \ pages.m_set[indx]
  BY <1>6, LeastExists
<1> HIDE DEF bit
<1>8. first_clear(pages) = indx * WORD + bit
  BY DEF first_clear, indx, bit
<1>9. /\ indx * WORD + bit \in Pos
      /\ (indx * WORD + bit) \div WORD = indx
      /\ (indx * WORD + bit) % WORD = bit
  BY <1>5, <1>7, WordAndBit
<1> QED BY <1>5, <1>7, <1>8, <1>9 DEF IsSet

\* set() and clear() through a reference change the position they name only.
LEMMA SetBitPosition ==
  ASSUME TypeOK, NEW p \in Pos, NEW q \in Pos
  PROVE  IsSet(SetBit(pages, p), q) <=> (q = p \/ IsSet(pages, q))
<1>1. /\ p \div WORD \in AllWords /\ q \div WORD \in AllWords
      /\ pages.m_set \in [AllWords -> SUBSET Bit]
  BY Positions DEF TypeOK
<1>2. SetBit(pages, p).m_set =
        [pages.m_set EXCEPT ![p \div WORD] = @ \cup {p % WORD}]
  BY DEF SetBit, TypeOK
<1>3. CASE p \div WORD = q \div WORD
  <2>1. q % WORD = p % WORD <=> q = p
    BY <1>3, PositionsDiffer
  <2> QED BY <1>1, <1>2, <1>3, <2>1 DEF IsSet
<1>4. CASE p \div WORD # q \div WORD
  <2>1. SetBit(pages, p).m_set[q \div WORD] = pages.m_set[q \div WORD]
    BY <1>1, <1>2, <1>4
  <2> QED BY <1>4, <2>1 DEF IsSet
<1> QED BY <1>3, <1>4

LEMMA ClearBitPosition ==
  ASSUME TypeOK, NEW p \in Pos, NEW q \in Pos
  PROVE  IsSet(ClearBit(pages, p), q) <=> (q # p /\ IsSet(pages, q))
<1>1. /\ p \div WORD \in AllWords /\ q \div WORD \in AllWords
      /\ pages.m_set \in [AllWords -> SUBSET Bit]
  BY Positions DEF TypeOK
<1>2. ClearBit(pages, p).m_set =
        [pages.m_set EXCEPT ![p \div WORD] = @ \ {p % WORD}]
  BY DEF ClearBit, TypeOK
<1>3. CASE p \div WORD = q \div WORD
  <2>1. q % WORD = p % WORD <=> q = p
    BY <1>3, PositionsDiffer
  <2> QED BY <1>1, <1>2, <1>3, <2>1 DEF IsSet
<1>4. CASE p \div WORD # q \div WORD
  <2>1. ClearBit(pages, p).m_set[q \div WORD] = pages.m_set[q \div WORD]
    BY <1>1, <1>2, <1>4
  <2> QED BY <1>4, <2>1 DEF IsSet
<1> QED BY <1>3, <1>4

\* The address of a page leads back to it.
LEMMA AddressRoundTrip ==
  ASSUME TypeOK, NEW p \in Pos
  PROVE  V2P(P2V(p)) = p
BY Positions DEF V2P, P2V, PAGE_SIZE, TypeOK

----------------------------------------------------------------------------
(* The inductive invariant: a held page is marked, a marked page is held or   *)
(* was marked from the start, and a panic leaves the bitmap full.             *)

HeldIsSet == \A p \in Pos : holders[p] > 0 => IsSet(pages, p)

SetIsAccounted == \A p \in Pos : IsSet(pages, p) => (holders[p] > 0 \/ p \in garbage)

PanicsFull == panicked => NotFull(pages) = {}

IInv == TypeOK /\ ExclusiveGrant /\ HeldIsSet /\ SetIsAccounted /\ PanicsFull

LEMMA InitIInv == Init => IInv
<1> SUFFICES ASSUME Init PROVE IInv
  OBVIOUS
<1>1. garbage \subseteq Pos
  BY DEF Init
<1>2. TypeOK
  BY <1>1 DEF Init, TypeOK
<1>3. \A p \in Pos : holders[p] = 0
  BY DEF Init
<1>4. ASSUME NEW p \in Pos, IsSet(pages, p) PROVE p \in garbage
  <2>1. p \div WORD \in AllWords /\ p % WORD \in Bit /\ p \in Nat
    BY Positions
  <2>2. (p \div WORD) * WORD + (p % WORD) \in garbage
    BY <1>4, <2>1 DEF IsSet, Init
  <2>3. (p \div WORD) * WORD + (p % WORD) = p
    BY <2>1 DEF WORD
  <2> QED BY <2>2, <2>3
<1>5. ExclusiveGrant /\ HeldIsSet /\ SetIsAccounted
  BY <1>3, <1>4 DEF ExclusiveGrant, HeldIsSet, SetIsAccounted
<1>6. PanicsFull
  BY DEF Init, PanicsFull
<1> QED BY <1>2, <1>5, <1>6 DEF IInv

LEMMA NextIInv == IInv /\ [Next]_vars => IInv'
<1> SUFFICES ASSUME IInv, [Next]_vars PROVE IInv'
  OBVIOUS
<1> USE PageAllocatorAssumption
<1>0. TypeOK /\ ExclusiveGrant /\ HeldIsSet /\ SetIsAccounted /\ PanicsFull
  BY DEF IInv
<1>1. CASE paging_init
  <2>1. TypeOK'
    <3>1. alloc_size(PageCount) \in Nat
      BY DEF alloc_size, ROUND_UP
    <3> QED BY <1>0, <1>1, <3>1 DEF paging_init, TypeOK
  <2>2. \A p : IsSet(pages', p) <=> IsSet(pages, p)
    BY <1>0, <1>1 DEF paging_init, TypeOK, IsSet
  <2>3. holders' = holders /\ garbage' = garbage /\ panicked' = FALSE
    BY <1>1 DEF paging_init
  <2>4. ExclusiveGrant' /\ HeldIsSet' /\ SetIsAccounted' /\ PanicsFull'
    BY <1>0, <2>2, <2>3
      DEF ExclusiveGrant, HeldIsSet, SetIsAccounted, PanicsFull
  <2> QED BY <2>1, <2>4 DEF IInv
<1>2. CASE alloc_page
  <2> DEFINE indx == first_clear(pages)
  <2>1. indx \in Pos /\ ~ IsSet(pages, indx)
    BY <1>0, <1>2, FirstClear DEF alloc_page
  <2>2. V2P(P2V(indx)) = indx
    BY <1>0, <2>1, AddressRoundTrip
  <2>3. /\ pages' = SetBit(pages, indx)
        /\ holders' = [holders EXCEPT ![indx] = @ + 1]
        /\ dirty' = dirty \cup {indx \div WORD}
        /\ mem_end' = mem_end /\ base' = base /\ garbage' = garbage
        /\ panicked' = FALSE
    BY <1>2, <2>2 DEF alloc_page
  <2>4. \A q \in Pos : IsSet(pages', q) <=> (q = indx \/ IsSet(pages, q))
    BY <1>0, <2>1, <2>3, SetBitPosition
  <2> HIDE DEF indx
  <2>5. holders[indx] = 0
    BY <1>0, <2>1 DEF HeldIsSet, TypeOK
  <2>6. TypeOK'
    <3>1. indx \div WORD \in AllWords /\ indx % WORD \in Bit
      BY <2>1, Positions
    <3>2. pages' \in [m_bitcount : {0, PageCount}, m_set : [AllWords -> SUBSET Bit]]
      <4>1. /\ pages \in [m_bitcount : {0, PageCount}, m_set : [AllWords -> SUBSET Bit]]
            /\ pages' = [pages EXCEPT !.m_set[indx \div WORD] = @ \cup {indx % WORD}]
        BY <1>0, <2>3 DEF TypeOK, SetBit
      <4> QED BY <3>1, <4>1
    <3>3. holders' \in [Pos -> Nat]
      BY <1>0, <2>1, <2>3 DEF TypeOK
    <3>4. dirty' \subseteq AllWords /\ garbage' \subseteq Pos /\ panicked' \in BOOLEAN
      BY <1>0, <2>3, <3>1 DEF TypeOK
    <3> QED BY <1>0, <2>3, <3>2, <3>3, <3>4 DEF TypeOK
  <2>7. \A q \in Pos : holders'[q] = IF q = indx THEN 1 ELSE holders[q]
    BY <1>0, <2>3, <2>5 DEF TypeOK
  <2>8. ExclusiveGrant' /\ HeldIsSet' /\ SetIsAccounted'
    BY <1>0, <2>3, <2>4, <2>7 DEF ExclusiveGrant, HeldIsSet, SetIsAccounted
  <2> QED BY <2>3, <2>6, <2>8 DEF IInv, PanicsFull
<1>3. CASE alloc_page_panics
  <2>1. TypeOK'
    BY <1>0, <1>3 DEF alloc_page_panics, TypeOK
  <2>2. ExclusiveGrant' /\ HeldIsSet' /\ SetIsAccounted'
    BY <1>0, <1>3 DEF alloc_page_panics, ExclusiveGrant, HeldIsSet, SetIsAccounted
  <2>3. PanicsFull'
    BY <1>3 DEF alloc_page_panics, PanicsFull, has_clear
  <2> QED BY <2>1, <2>2, <2>3 DEF IInv
<1>4. ASSUME NEW p \in Pos, free_page(p) PROVE IInv'
  <2>1. V2P(P2V(p)) = p
    BY <1>0, AddressRoundTrip
  <2>2. /\ pages' = ClearBit(pages, p)
        /\ holders' = [holders EXCEPT ![p] = @ - 1]
        /\ dirty' = dirty \cup {p \div WORD}
        /\ mem_end' = mem_end /\ base' = base /\ garbage' = garbage
        /\ panicked' = FALSE /\ holders[p] > 0
    BY <1>4, <2>1 DEF free_page
  <2>3. \A q \in Pos : IsSet(pages', q) <=> (q # p /\ IsSet(pages, q))
    BY <1>0, <2>2, ClearBitPosition
  <2>4. holders[p] = 1
    BY <1>0, <2>2 DEF TypeOK, ExclusiveGrant
  <2>5. TypeOK'
    <3>1. p \div WORD \in AllWords
      BY Positions
    <3>2. pages' \in [m_bitcount : {0, PageCount}, m_set : [AllWords -> SUBSET Bit]]
      <4>1. /\ pages \in [m_bitcount : {0, PageCount}, m_set : [AllWords -> SUBSET Bit]]
            /\ pages' = [pages EXCEPT !.m_set[p \div WORD] = @ \ {p % WORD}]
        BY <1>0, <2>2 DEF TypeOK, ClearBit
      <4> QED BY <3>1, <4>1
    <3>3. holders' \in [Pos -> Nat]
      BY <1>0, <2>2, <2>4 DEF TypeOK
    <3>4. dirty' \subseteq AllWords /\ garbage' \subseteq Pos /\ panicked' \in BOOLEAN
      BY <1>0, <2>2, <3>1 DEF TypeOK
    <3> QED BY <1>0, <2>2, <3>2, <3>3, <3>4 DEF TypeOK
  <2>6. \A q \in Pos : holders'[q] = IF q = p THEN 0 ELSE holders[q]
    BY <1>0, <2>2, <2>4 DEF TypeOK
  <2>7. ExclusiveGrant' /\ HeldIsSet' /\ SetIsAccounted'
    BY <1>0, <2>2, <2>3, <2>6 DEF ExclusiveGrant, HeldIsSet, SetIsAccounted
  <2> QED BY <2>2, <2>5, <2>7 DEF IInv, PanicsFull
<1>5. CASE UNCHANGED vars
  BY <1>5 DEF vars, IInv, TypeOK, ExclusiveGrant, HeldIsSet, SetIsAccounted,
              PanicsFull
<1> QED
  BY <1>1, <1>2, <1>3, <1>4, <1>5 DEF Next, Panicking

----------------------------------------------------------------------------
(* The theorems. *)

\* IInv holds of every behaviour of the allocator.
THEOREM Invariance == Spec => []IInv
<1>1. Init => IInv
  BY InitIInv
<1>2. IInv /\ [Next]_vars => IInv'
  BY NextIInv
<1> QED BY <1>1, <1>2, PTL DEF Spec

\* The page allocator's variables keep their types, for every page count and
\* every content of the memory under the bitmap.
THEOREM TypeCorrect == Spec => []TypeOK
<1>1. IInv => TypeOK
  BY DEF IInv
<1> QED BY <1>1, Invariance, PTL

\* alloc_page never hands a held page out again, whatever the bitmap held at
\* boot and however many pages there are.
THEOREM Exclusive == Spec => []ExclusiveGrant
<1>1. IInv => ExclusiveGrant
  BY DEF IInv
<1> QED BY <1>1, Invariance, PTL

\* When alloc_page panics, every page is held or was marked before the kernel
\* ran: freeing always makes a page available again.
THEOREM NoneLost == Spec => []NothingLost
<1>1. IInv => NothingLost
  <2> SUFFICES ASSUME IInv, panicked, pages.m_bitcount = PageCount,
                      NEW p \in Pos, p < PageCount
               PROVE  holders[p] > 0 \/ p \in garbage
    BY DEF NothingLost
  <2>1. NotFull(pages) = {} /\ SetIsAccounted
    BY DEF IInv, PanicsFull
  <2>2. p \in Nat /\ p \div WORD \in AllWords /\ p % WORD \in Bit
    BY Positions
  <2>3. p \div WORD \in Words(pages.m_bitcount)
    BY <2>2, PageAllocatorAssumption DEF Words, WORD
  <2>4. pages.m_set[p \div WORD] = Bit
    BY <2>1, <2>3 DEF NotFull
  <2>5. IsSet(pages, p)
    BY <2>2, <2>4 DEF IsSet
  <2> QED BY <2>1, <2>5 DEF SetIsAccounted
<1> QED BY <1>1, Invariance, PTL

\* If the page count is a multiple of the word size, only existing pages are
\* handed out; the run pages_tail shows that the hypothesis is needed.
THEOREM InRange ==
  ASSUME PageCount % WORD = 0
  PROVE  Spec => []GrantInRange
<1>1. Init => GrantInRange
  BY DEF Init, GrantInRange
<1>2. IInv /\ GrantInRange /\ [Next]_vars => GrantInRange'
  <2> SUFFICES ASSUME IInv, GrantInRange, [Next]_vars PROVE GrantInRange'
    OBVIOUS
  <2>0. TypeOK
    BY DEF IInv
  <2>1. CASE alloc_page
    <3> DEFINE indx == first_clear(pages)
    <3>1. indx \in Pos /\ indx \div WORD \in Words(pages.m_bitcount)
      BY <2>0, <2>1, FirstClear DEF alloc_page
    <3>2. holders' = [holders EXCEPT ![indx] = @ + 1]
      BY <2>0, <2>1, <3>1, AddressRoundTrip DEF alloc_page
    <3> HIDE DEF indx
    <3>3. indx \in Nat
      BY <3>1, Positions
    <3>4. indx < PageCount
      <4>1. pages.m_bitcount \in {0, PageCount}
        BY <2>0 DEF TypeOK
      <4>2. (indx \div WORD) * WORD < PageCount
        BY <3>1, <4>1, PageAllocatorAssumption DEF Words, WORD
      <4> QED BY <3>3, <4>2, PageAllocatorAssumption DEF WORD
    <3> QED BY <2>0, <3>1, <3>2, <3>4 DEF GrantInRange, TypeOK
  <2>2. ASSUME NEW p \in Pos, free_page(p) PROVE GrantInRange'
    <3>1. holders' = [holders EXCEPT ![p] = @ - 1] /\ holders[p] > 0
      BY <2>2 DEF free_page
    <3> QED BY <2>0, <2>2, <3>1 DEF GrantInRange, TypeOK
  <2>3. CASE holders' = holders
    BY <2>3 DEF GrantInRange
  <2> QED
    BY <2>1, <2>2, <2>3 DEF Next, paging_init, alloc_page_panics, Panicking, vars
<1> QED BY <1>1, <1>2, Invariance, PTL DEF Spec

----------------------------------------------------------------------------
(* The bitmap's memory. *)

\* Granted pages and written words belong to the words of the set, and once the
\* set has its bits, mem_end lies behind the bytes its constructor asked for.
Owned ==
  /\ pages.m_bitcount # 0 => mem_end = KernelEnd + alloc_size(PageCount)
  /\ dirty \subseteq Words(pages.m_bitcount)
  /\ \A p \in Pos : holders[p] > 0 => p \div WORD \in Words(pages.m_bitcount)

LEMMA NextOwned ==
  ASSUME IInv, Owned, [Next]_vars
  PROVE  Owned'
<1>0. TypeOK /\ pages.m_bitcount \in {0, PageCount}
  BY DEF IInv, TypeOK
<1>1. CASE paging_init
  <2>1. /\ pages'.m_bitcount = PageCount /\ mem_end' = KernelEnd + alloc_size(PageCount)
        /\ holders' = holders /\ dirty' = dirty
    BY <1>0, <1>1 DEF paging_init, TypeOK
  <2>2. Words(0) = {}
    BY DEF Words, WORD
  <2>3. Words(pages.m_bitcount) \subseteq Words(pages'.m_bitcount)
    BY <1>0, <2>1, <2>2
  <2> QED BY <2>1, <2>3 DEF Owned
<1>2. CASE alloc_page
  <2> DEFINE indx == first_clear(pages)
  <2>1. indx \in Pos /\ indx \div WORD \in Words(pages.m_bitcount)
    BY <1>0, <1>2, FirstClear DEF alloc_page
  <2>2. V2P(P2V(indx)) = indx
    BY <1>0, <2>1, AddressRoundTrip
  <2>3. /\ pages' = SetBit(pages, indx)
        /\ holders' = [holders EXCEPT ![indx] = @ + 1]
        /\ dirty' = dirty \cup {indx \div WORD} /\ mem_end' = mem_end
    BY <1>2, <2>2 DEF alloc_page
  <2> HIDE DEF indx
  <2>4. pages'.m_bitcount = pages.m_bitcount
    BY <1>0, <2>3 DEF SetBit, TypeOK
  <2>5. \A q \in Pos : holders'[q] > 0 => (q = indx \/ holders[q] > 0)
    BY <1>0, <2>1, <2>3 DEF TypeOK
  <2> QED BY <2>1, <2>3, <2>4, <2>5 DEF Owned
<1>3. ASSUME NEW p \in Pos, free_page(p) PROVE Owned'
  <2>1. V2P(P2V(p)) = p
    BY <1>0, AddressRoundTrip
  <2>2. /\ pages' = ClearBit(pages, p)
        /\ holders' = [holders EXCEPT ![p] = @ - 1]
        /\ dirty' = dirty \cup {p \div WORD} /\ mem_end' = mem_end /\ holders[p] > 0
    BY <1>3, <2>1 DEF free_page
  <2>3. pages'.m_bitcount = pages.m_bitcount
    BY <1>0, <2>2 DEF ClearBit, TypeOK
  <2>4. \A q \in Pos : holders'[q] > 0 => holders[q] > 0
    BY <1>0, <2>2 DEF TypeOK
  <2> QED BY <2>2, <2>3, <2>4 DEF Owned
<1>4. CASE UNCHANGED <<pages, mem_end, dirty, holders>>
  BY <1>4 DEF Owned
<1> QED
  BY <1>1, <1>2, <1>3, <1>4 DEF Next, alloc_page_panics, Panicking, vars

\* The constructor's bytes hold all the words the loops visit, unless the last word
\* has one to seven bits: bitcount / 8 drops them before rounding up.
LEMMA WordsFit ==
  ASSUME PageCount % WORD \notin 1..7, NEW i \in Words(PageCount)
  PROVE  (i + 1) * 8 <= alloc_size(PageCount)
<1> DEFINE k == PageCount \div 64
           r == PageCount % 64
<1>1. PageCount = 64 * k + r /\ k \in Nat /\ r \in 0..63 /\ r \notin 1..7
  BY PageAllocatorAssumption DEF WORD
<1>2. i \in Nat /\ i * 64 < PageCount
  BY PageAllocatorAssumption DEF Words, WORD
<1> HIDE DEF k, r
<1>3. PageCount \div 8 = 8 * k + (r \div 8)
  BY <1>1, PageAllocatorAssumption
<1>4. alloc_size(PageCount) = ((8 * k + (r \div 8) + 8 - 1) \div 8) * 8
  BY <1>3 DEF alloc_size, ROUND_UP
<1>5. CASE r = 0
  BY <1>1, <1>2, <1>4, <1>5
<1>6. CASE r >= 8
  <2>1. (r \div 8) \in 1..7
    BY <1>1, <1>6
  <2>2. (8 * k + (r \div 8) + 8 - 1) \div 8 >= k + 1
    BY <1>1, <2>1
  <2>3. i <= k
    BY <1>1, <1>2
  <2>4. (8 * k + (r \div 8) + 8 - 1) \div 8 \in Nat
    BY <1>1, <2>1
  <2> HIDE DEF WORD
  <2> QED BY <1>1, <1>2, <1>4, <2>2, <2>3, <2>4
<1> QED BY <1>1, <1>5, <1>6

\* Unless the last word has one to seven bits, the allocator writes only to words
\* DumbAllocator gave it, in every sequence of allocations and frees.
THEOREM WritesOwnWords ==
  ASSUME PageCount % WORD \notin 1..7
  PROVE  Spec => []BitmapOwned
<1>1. Init => Owned
  BY DEF Init, Owned
<1>2. IInv /\ Owned /\ [Next]_vars => Owned'
  BY NextOwned
<1>3. IInv /\ Owned => BitmapOwned
  <2> SUFFICES ASSUME IInv, Owned, NEW i \in dirty
               PROVE  KernelEnd + (i + 1) * 8 <= mem_end
    BY DEF BitmapOwned
  <2>1. pages.m_bitcount \in {0, PageCount} /\ i \in Words(pages.m_bitcount)
    BY DEF IInv, TypeOK, Owned
  <2>2. pages.m_bitcount # 0 /\ i \in Words(PageCount)
    BY <2>1 DEF Words, WORD
  <2>3. mem_end = KernelEnd + alloc_size(PageCount)
    BY <2>2 DEF Owned
  <2>4. (i + 1) * 8 <= alloc_size(PageCount)
    BY <2>2, WordsFit
  <2>5. alloc_size(PageCount) \in Nat /\ i \in Nat /\ KernelEnd \in Nat
    BY <2>2, PageAllocatorAssumption DEF alloc_size, ROUND_UP, Words
  <2> QED BY <2>3, <2>4, <2>5
<1> QED BY <1>1, <1>2, <1>3, Invariance, PTL DEF Spec

\* A full set ends in first_clear's assertion and grants nothing, if the page count
\* is a multiple of the word size; the run pages_tail shows a grant without it.
THEOREM NoGrantWhenFull ==
  ASSUME PageCount % WORD = 0
  PROVE  Spec => FullSetPanics
<1>1. ASSUME IInv, [Next]_vars,
             \A p \in Pos : p < pages.m_bitcount => IsSet(pages, p),
             NEW q \in Pos
      PROVE  holders'[q] <= holders[q]
  <2>0. TypeOK
    BY <1>1 DEF IInv
  <2>1. CASE alloc_page
    <3> DEFINE indx == first_clear(pages)
    <3>1. /\ indx \in Pos /\ indx \div WORD \in Words(pages.m_bitcount)
          /\ ~ IsSet(pages, indx)
      BY <2>0, <2>1, FirstClear DEF alloc_page
    <3> HIDE DEF indx
    <3>2. indx \in Nat
      BY <3>1, Positions
    <3>3. pages.m_bitcount \in {0, PageCount}
      BY <2>0 DEF TypeOK
    <3>4. pages.m_bitcount = PageCount /\ (indx \div WORD) * WORD < PageCount
      BY <3>1, <3>3, PageAllocatorAssumption DEF Words, WORD
    <3>5. indx < PageCount
      BY <3>2, <3>4, PageAllocatorAssumption DEF WORD
    <3> QED BY <1>1, <3>1, <3>4, <3>5
  <2>2. ASSUME NEW p \in Pos, free_page(p) PROVE holders'[q] <= holders[q]
    <3>1. holders' = [holders EXCEPT ![p] = @ - 1]
      BY <2>2 DEF free_page
    <3> QED BY <2>0, <3>1 DEF TypeOK
  <2>3. CASE holders' = holders
    BY <2>0, <2>3 DEF TypeOK
  <2> QED
    BY <1>1, <2>1, <2>2, <2>3 DEF Next, paging_init, alloc_page_panics, Panicking, vars
<1>2. IInv /\ [Next]_vars
        => [(\A p \in Pos : p < pages.m_bitcount => IsSet(pages, p))
              => \A p \in Pos : holders'[p] <= holders[p]]_vars
  BY <1>1
<1> QED BY <1>2, Invariance, PTL DEF Spec, FullSetPanics

\* has_zero tells whether a bit of the set is clear, whatever the words hold, for
\* every count that fills its words or needs one bit more.
THEOREM HasZeroTells == Spec => []HasZeroExact
<1>1. ASSUME TypeOK, pages.m_bitcount > 0, pages.m_bitcount % WORD \in {0, 1}
      PROVE  has_zero(pages) <=> \E p \in Pos : p < pages.m_bitcount /\ ~IsSet(pages, p)
  <2> DEFINE n == pages.m_bitcount
             k == n \div 64
             r == n % 64
             behind == (n - 1 + WORD - 1) \div WORD
  <2>1. n = PageCount /\ n \in Nat /\ n > 0 /\ pages.m_set \in [AllWords -> SUBSET Bit]
    BY <1>1, PageAllocatorAssumption DEF TypeOK
  <2>2. n = 64 * k + r /\ k \in Nat /\ r \in {0, 1}
    BY <1>1, <2>1 DEF WORD
  <2>3. r = 1 => behind = k
    <3> HIDE DEF n, k, r
    <3>1. ASSUME r = 1 PROVE n - 1 + 64 - 1 = 64 * k + 63
      BY <2>2, <3>1
    <3> QED BY <2>2, <3>1 DEF WORD
  <2>4. has_zero(pages) <=>
          \/ \E i \in Scanned(n) : pages.m_set[i] # Bit
          \/ r > 0 /\ ~ (0 .. r - 1 \subseteq pages.m_set[behind])
    BY DEF has_zero, WORD
  <2>5. AllWords = 0 .. (n + 63) \div 64
    BY <2>1 DEF AllWords, WORD
  <2> HIDE DEF n, k, r, behind
  <2>6. \A i : i \in Scanned(n) <=> i \in 0 .. k - 1
    BY <2>1, <2>2 DEF Scanned, WORD
  <2>7. \A i \in 0 .. k : i \in AllWords
    BY <2>1, <2>2, <2>5
  <2>8. 0 .. r - 1 \subseteq pages.m_set[behind] <=> r = 0 \/ 0 \in pages.m_set[behind]
    BY <2>2
  <2>9. has_zero(pages) <=>
          \/ \E i \in 0 .. k - 1 : pages.m_set[i] # Bit
          \/ r = 1 /\ 0 \notin pages.m_set[k]
    BY <2>2, <2>3, <2>4, <2>6, <2>8
  <2>10. ASSUME NEW p \in Pos, p < n, ~ IsSet(pages, p) PROVE has_zero(pages)
    <3> DEFINE i == p \div WORD
               b == p % WORD
    <3>1. p \in Nat /\ i \in AllWords /\ b \in Bit /\ p = 64 * i + b /\ i \in Nat
      BY Positions DEF WORD, AllWords
    <3>2. b \notin pages.m_set[i]
      BY <2>10 DEF IsSet
    <3> HIDE DEF i, b
    <3>3. CASE i <= k - 1
      BY <2>2, <2>9, <3>1, <3>2, <3>3
    <3>4. CASE i >= k
      <4>1. i = k /\ b = 0 /\ r = 1
        BY <2>2, <2>10, <3>1, <3>4 DEF Bit, WORD
      <4> QED BY <2>9, <3>2, <4>1
    <3> QED BY <2>2, <3>1, <3>3, <3>4
  <2>11. ASSUME has_zero(pages)
         PROVE  \E p \in Pos : p < n /\ ~ IsSet(pages, p)
    <3>1. CASE \E i \in 0 .. k - 1 : pages.m_set[i] # Bit
      <4>1. PICK i \in 0 .. k - 1 : pages.m_set[i] # Bit
        BY <3>1
      <4>2. i \in AllWords /\ i \in Nat /\ i <= k - 1
        BY <2>2, <2>7
      <4>3. PICK b \in Bit : b \notin pages.m_set[i]
        BY <2>1, <4>1, <4>2
      <4>4. /\ i * WORD + b \in Pos /\ (i * WORD + b) \div WORD = i
            /\ (i * WORD + b) % WORD = b
        BY <4>2, WordAndBit
      <4>5. i * WORD + b < n
        BY <2>2, <4>2 DEF Bit, WORD
      <4> QED BY <4>3, <4>4, <4>5 DEF IsSet
    <3>2. CASE r = 1 /\ 0 \notin pages.m_set[k]
      <4> DEFINE b == 0
      <4>1. k \in AllWords /\ b \in Bit
        BY <2>2, <2>7 DEF Bit, WORD
      <4>2. b \notin pages.m_set[k]
        BY <3>2
      <4>3. k * WORD + b < n
        BY <2>2, <3>2 DEF WORD
      <4> HIDE DEF b
      <4>4. /\ k * WORD + b \in Pos /\ (k * WORD + b) \div WORD = k
            /\ (k * WORD + b) % WORD = b
        BY <4>1, WordAndBit
      <4> QED BY <4>2, <4>3, <4>4 DEF IsSet
    <3> QED BY <2>9, <2>11, <3>1, <3>2
  <2> QED BY <2>10, <2>11 DEF n
<1>2. IInv => HasZeroExact
  BY <1>1 DEF IInv, HasZeroExact
<1> QED BY <1>2, Invariance, PTL
============================================================================
