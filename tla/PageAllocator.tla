--------------------------- MODULE PageAllocator ---------------------------
(***************************************************************************)
(* The physical page allocator: PageAllocator and BitSetPageAllocator      *)
(* (kernel/memory/paging.h and .cpp) over a dynamic_bitset whose words     *)
(* come from DumbAllocator (kernel/memory/dumb_allocator.cpp).             *)
(*                                                                         *)
(* Nothing clears the bitmap: which pages it calls taken depends on what   *)
(* the memory behind the kernel held.  The callers free only what they     *)
(* hold; the kernel itself never calls alloc_page yet.                     *)
(***************************************************************************)
EXTENDS DynamicBitset

CONSTANTS
  PageCount,     \* paging_init's page_count
  KernelBase,    \* ... kernel_base, the virtual address of physical address 0
  KernelEnd,     \* ... kernel_end, where DumbAllocator starts
  Clearable      \* bitmap positions whose bit may be zero before the kernel runs

PAGE_SIZE == 4096

\* Every position a word of the bitmap, or the word behind it, has.
AllWords == 0 .. (PageCount + WORD - 1) \div WORD
Pos == {i * WORD + b : i \in AllWords, b \in Bit}

ASSUME PageAllocatorAssumption ==
  /\ PageCount \in Nat
  /\ KernelBase \in Nat /\ KernelEnd \in Nat
  /\ Clearable \subseteq Nat

VARIABLES
  mem_end,     \* DumbAllocator's m_mem_end
  pages,       \* the allocator's bitset
  base,        \* m_kernel_base
  holders,     \* how many callers hold the page with this number
  garbage,     \* history: the positions that were one from the start
  dirty,       \* history: the words of the bitmap written to
  panicked     \* first_clear's assertion failed: kernel_panic never returns

vars == <<mem_end, pages, base, holders, garbage, dirty, panicked>>

\* The singletons, in zeroed memory, and the words behind the kernel, where a
\* bit is zero only at a Clearable position, and there only perhaps.
Init ==
  /\ mem_end = 0 /\ base = 0
  /\ garbage \in {Pos \ F : F \in SUBSET (Clearable \cap Pos)}
  /\ pages = [m_bitcount |-> 0,
              m_set |-> [i \in AllWords |-> {b \in Bit : i * WORD + b \in garbage}]]
  /\ holders = [p \in Pos |-> 0]
  /\ dirty = {} /\ panicked = FALSE

\* DumbAllocator::init, and the bitset's constructor with its alloc.
paging_init ==
  /\ ~panicked /\ mem_end = 0
  /\ mem_end' = KernelEnd + alloc_size(PageCount)
  /\ base' = KernelBase
  /\ pages' = [pages EXCEPT !.m_bitcount = PageCount]
  /\ UNCHANGED <<holders, garbage, dirty, panicked>>

\* The virtual address of page number indx, and back.
P2V(indx)  == base + indx * PAGE_SIZE
V2P(vaddr) == (vaddr - base) \div PAGE_SIZE

\* The page the caller gets is the one its address stands for.
alloc_page ==
  /\ ~panicked
  /\ has_clear(pages)
  /\ LET indx == first_clear(pages) IN
       /\ pages' = SetBit(pages, indx)
       /\ holders' = [holders EXCEPT ![V2P(P2V(indx))] = @ + 1]
       /\ dirty' = dirty \cup {indx \div WORD}
  /\ UNCHANGED <<mem_end, base, garbage, panicked>>

\* The assertion of first_clear fails.
alloc_page_panics ==
  /\ ~panicked
  /\ ~has_clear(pages)
  /\ panicked' = TRUE
  /\ UNCHANGED <<mem_end, pages, base, holders, garbage, dirty>>

\* A caller gives page p back, by its address.
free_page(p) ==
  /\ ~panicked
  /\ holders[p] > 0
  /\ holders' = [holders EXCEPT ![p] = @ - 1]
  /\ pages' = ClearBit(pages, V2P(P2V(p)))
  /\ dirty' = dirty \cup {p \div WORD}
  /\ UNCHANGED <<mem_end, base, garbage, panicked>>

Panicking == panicked /\ UNCHANGED vars

Next ==
  \/ paging_init
  \/ alloc_page \/ alloc_page_panics
  \/ \E p \in Pos : free_page(p)
  \/ Panicking

Spec == Init /\ [][Next]_vars

----------------------------------------------------------------------------
(* Properties. *)

\* The type invariant of the page allocator.
TypeOK ==
  /\ mem_end \in Nat /\ base \in Nat
  /\ pages \in [m_bitcount : {0, PageCount}, m_set : [AllWords -> SUBSET Bit]]
  /\ holders \in [Pos -> Nat]
  /\ garbage \subseteq Pos /\ dirty \subseteq AllWords
  /\ panicked \in BOOLEAN

\* No page is in the hands of two callers: whatever the bitmap held at boot and
\* in whichever order pages are freed and taken again, the bit of a page stays
\* one from its alloc to its free.
ExclusiveGrant == \A p \in Pos : holders[p] <= 1

\* Only pages the machine has are handed out.
GrantInRange == \A p \in Pos : holders[p] > 0 => p < PageCount

\* A page is lost only if its bit was one before the kernel ran: when alloc_page
\* panics, every page is held by a caller or is such a page.
NothingLost ==
  (panicked /\ pages.m_bitcount = PageCount) =>
     \A p \in Pos : p < PageCount => (holders[p] > 0 \/ p \in garbage)

\* has_zero, which the set offers to a caller that cannot afford first_clear's
\* panic, answers whether a bit is clear, after any sequence of allocations and
\* frees, for a count that fills its words or needs one bit more; for others it
\* tests bits behind the set instead of those of the last word.
HasZeroExact ==
  (pages.m_bitcount > 0 /\ pages.m_bitcount % WORD \in {0, 1}) =>
     (has_zero(pages) <=> \E p \in Pos : p < pages.m_bitcount /\ ~IsSet(pages, p))

\* The allocator writes only to words DumbAllocator gave it, below the mem_end
\* that kernel_main reports as the end of the kernel.
BitmapOwned == \A i \in dirty : KernelEnd + (i + 1) * 8 <= mem_end

\* first_clear's assertion, "Your set doesnt have clear bits dumbass": a set of
\* m_bitcount bits without a clear one ends in a panic, not in an index.
FullSetPanics ==
  [][(\A p \in Pos : p < pages.m_bitcount => IsSet(pages, p))
       => \A p \in Pos : holders'[p] <= holders[p]]_vars
============================================================================
