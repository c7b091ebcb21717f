------------------------------ MODULE PageList ------------------------------
(***************************************************************************)
(* The intrusive doubly linked list of pages (kernel/memory/page_list.cpp) *)
(* that BuddyAllocator keeps its free blocks in.                           *)
(*                                                                         *)
(* The links live in the pages themselves.  A write through a null pointer *)
(* is a page fault, as boot.s has unmapped address 0, and the handler      *)
(* panics.                                                                 *)
(***************************************************************************)
EXTENDS Integers, Sequences

CONSTANT Pages

\* The null pointer.
nullptr == "nullptr"

ASSUME PageListAssumption == nullptr \notin Pages

VARIABLES
  m_head, m_tail,    \* of the list
  m_next, m_prev,    \* of each page
  halted,            \* "no", "assert" or "fault"
  order              \* history: the pages in the list, first to last

vars == <<m_head, m_tail, m_next, m_prev, halted, order>>

Init ==
  /\ m_head = nullptr /\ m_tail = nullptr
  /\ m_next \in [Pages -> {nullptr}] /\ m_prev \in [Pages -> {nullptr}]
  /\ halted = "no" /\ order = << >>

Listed == {order[k] : k \in DOMAIN order}

\* An insert_first that leaves the old head's m_prev alone.
Bug_insert_first(page) ==
  /\ halted = "no" /\ page \notin Listed
  /\ m_head' = page
  /\ m_tail' = IF m_head = nullptr THEN page ELSE m_tail
  /\ m_next' = [m_next EXCEPT ![page] = m_head]
  /\ m_prev' = [m_prev EXCEPT ![page] = nullptr]
  /\ order' = <<page>> \o order
  /\ UNCHANGED halted

\* insert_first(page) of a page that is in no list.
insert_first(page) ==
  /\ halted = "no" /\ page \notin Listed
  /\ m_head' = page
  /\ m_tail' = IF m_head = nullptr THEN page ELSE m_tail
  /\ m_next' = [m_next EXCEPT ![page] = m_head]
  /\ m_prev' = [p \in Pages |-> IF p = page THEN nullptr
                                ELSE IF p = m_head THEN page ELSE m_prev[p]]
  /\ order' = <<page>> \o order
  /\ UNCHANGED halted

\* A pop that leaves the new head's m_prev pointing at the page it gave out.
Bug_pop ==
  /\ halted = "no" /\ m_head # nullptr
  /\ m_head' = m_next[m_head]
  /\ order' = Tail(order)
  /\ UNCHANGED <<m_tail, m_next, m_prev, halted>>

\* pop() of an empty list fails its assertion; of a list of one page, it writes
\* through the null pointer that has just become m_head.
pop ==
  /\ halted = "no" /\ m_head # nullptr
  /\ m_head' = m_next[m_head]
  /\ order' = Tail(order)
  /\ IF m_next[m_head] = nullptr
     THEN halted' = "fault" /\ UNCHANGED m_prev
     ELSE m_prev' = [m_prev EXCEPT ![m_next[m_head]] = nullptr] /\ UNCHANGED halted
  /\ UNCHANGED <<m_tail, m_next>>

pop_empty ==
  /\ halted = "no" /\ m_head = nullptr
  /\ halted' = "assert"
  /\ UNCHANGED <<m_head, m_tail, m_next, m_prev, order>>

\* The list's order without the page in place k.
Without(k) == [j \in 1 .. Len(order) - 1 |-> IF j < k THEN order[j] ELSE order[j + 1]]

\* unlink(node) of a node in the list.  Its third test reads m_head and m_tail
\* after the first two have moved them off the node, and so always holds.
unlink(node) ==
  LET prev == m_prev[node]
      next == m_next[node]
  IN
  /\ halted = "no" /\ node \in Listed
  /\ m_head' = IF m_head = node THEN next ELSE m_head
  /\ m_tail' = IF m_tail = node THEN prev ELSE m_tail
  /\ m_next' = IF prev # nullptr THEN [m_next EXCEPT ![prev] = next] ELSE m_next
  /\ m_prev' = IF prev # nullptr /\ next # nullptr
               THEN [m_prev EXCEPT ![next] = prev] ELSE m_prev
  /\ halted' = IF prev # nullptr /\ next # nullptr THEN halted ELSE "fault"
  /\ \E k \in DOMAIN order : order[k] = node /\ order' = Without(k)

Halted == halted # "no" /\ UNCHANGED vars

Next ==
  \/ \E p \in Pages : insert_first(p) \/ unlink(p)
  \/ pop \/ pop_empty
  \/ Halted

Spec == Init /\ [][Next]_vars

----------------------------------------------------------------------------
(* Properties. *)

At(k) == IF k \in DOMAIN order THEN order[k] ELSE nullptr

\* As long as no operation has halted the machine, both chains of links, the
\* head and the tail spell the pages in the order insert_first, pop and unlink
\* give them, whatever stale links the pages carry from earlier stays.
Linked ==
  halted = "no" =>
    /\ m_head = At(1) /\ m_tail = At(Len(order))
    /\ \A k \in DOMAIN order : m_next[order[k]] = At(k + 1) /\ m_prev[order[k]] = At(k - 1)

\* pop takes any list of two pages or more, and unlink any page inside a list,
\* without a fault.  (It does fault on the last page, and on either end.)
InnerOperationsSafe ==
  [][\/ halted' = "no" \/ halted # "no" \/ Len(order) < 2
     \/ \E p \in {order[1], order[Len(order)]} : unlink(p)]_vars
============================================================================
