------------------------------- MODULE Atexit -------------------------------
(***************************************************************************)
(* The destructor table of the C++ run time (kernel/icxxabi.cpp):          *)
(* __cxa_atexit, called by the constructors of global and static objects,  *)
(* and __cxa_finalize, whose loop runs one entry at a time so that a       *)
(* destructor may register others meanwhile.                               *)
(*                                                                         *)
(* Calls of __cxa_finalize do not nest here: no destructor calls it.       *)
(***************************************************************************)
EXTENDS Integers, Sequences

CONSTANTS
  Funcs,               \* destructor functions
  ATEXIT_MAX_FUNCS,
  MaxCalls             \* bound: calls of __cxa_finalize

\* A null pointer.
NULL == "null"

ASSUME AtexitAssumption ==
  /\ NULL \notin Funcs
  /\ ATEXIT_MAX_FUNCS \in Nat /\ MaxCalls \in Nat

VARIABLES
  destructor_func,     \* the table's functions; an entry also stands for its object
  func_count,
  i,                   \* __cxa_finalize's loop counter
  f,                   \* __cxa_finalize's argument
  running,             \* __cxa_finalize is running
  rejected,            \* history: __cxa_atexit returned -1
  calls,               \* calls of __cxa_finalize so far
  destroyed,           \* history: the entries destroyed, in order, and by which call
  due                  \* history: the entries the latest call had to destroy

vars == <<destructor_func, func_count, i, f, running, rejected, calls, destroyed, due>>

Entry == 0 .. ATEXIT_MAX_FUNCS - 1

Init ==
  /\ destructor_func = [k \in Entry |-> NULL] /\ func_count = 0
  /\ i = 0 /\ f = NULL /\ running = FALSE /\ rejected = FALSE
  /\ calls = 0 /\ destroyed = << >> /\ due = {}

\* A check that lets the table grow past its end.
Bug_cxa_atexit(g) ==
  /\ func_count <= ATEXIT_MAX_FUNCS
  /\ destructor_func' = [destructor_func EXCEPT ![func_count] = g]
  /\ func_count' = func_count + 1
  /\ UNCHANGED <<i, f, running, rejected, calls, destroyed, due>>

\* A constructor, or a destructor that __cxa_finalize runs, registers g.
__cxa_atexit(g) ==
  /\ func_count < ATEXIT_MAX_FUNCS
  /\ destructor_func' = [destructor_func EXCEPT ![func_count] = g]
  /\ func_count' = func_count + 1
  /\ UNCHANGED <<i, f, running, rejected, calls, destroyed, due>>

\* ... returns -1, which the callers the compiler generates ignore.
__cxa_atexit_full ==
  /\ func_count >= ATEXIT_MAX_FUNCS
  /\ rejected' = TRUE
  /\ UNCHANGED <<destructor_func, func_count, i, f, running, calls, destroyed, due>>

\* Whether a call with argument g destroys an entry whose function is d.
Selects(g, d) == d # NULL /\ (g = NULL \/ d = g)

\* A call that overlooks the entry registered last.
Bug_finalize_begin(g) ==
  /\ ~running /\ calls < MaxCalls
  /\ running' = TRUE /\ calls' = calls + 1
  /\ f' = g /\ i' = IF func_count > 0 THEN func_count - 1 ELSE 0
  /\ due' = {k \in 0 .. func_count - 1 : Selects(g, destructor_func[k])}
  /\ UNCHANGED <<destructor_func, func_count, rejected, destroyed>>

\* __cxa_finalize(g) starts at the end of the table.
finalize_begin(g) ==
  /\ ~running /\ calls < MaxCalls
  /\ running' = TRUE /\ calls' = calls + 1
  /\ f' = g /\ i' = func_count
  /\ due' = {k \in 0 .. func_count - 1 : Selects(g, destructor_func[k])}
  /\ UNCHANGED <<destructor_func, func_count, rejected, destroyed>>

\* A loop that goes through the table from its beginning.
Bug_Current == func_count - i

\* The entry the loop is at, once it has counted down.
Current == i - 1

\* A loop that forgets to unset the function of the entry it destroyed.
Bug_Unset == destructor_func

\* Only the loop for a given function unsets the entry it has destroyed.
Unset == IF f # NULL THEN [destructor_func EXCEPT ![Current] = NULL]
                     ELSE destructor_func

\* One turn of either loop.
finalize_entry ==
  /\ running /\ i > 0
  /\ i' = i - 1
  /\ IF Selects(f, destructor_func[Current])
     THEN /\ destroyed' = Append(destroyed, [entry |-> Current, by |-> f, call |-> calls])
          /\ destructor_func' = Unset
     ELSE UNCHANGED <<destroyed, destructor_func>>
  /\ UNCHANGED <<func_count, f, running, rejected, calls, due>>

finalize_end ==
  /\ running /\ i = 0
  /\ running' = FALSE
  /\ UNCHANGED <<destructor_func, func_count, i, f, rejected, calls, destroyed, due>>

Next ==
  \/ \E g \in Funcs : __cxa_atexit(g)
  \/ __cxa_atexit_full
  \/ \E g \in Funcs \cup {NULL} : finalize_begin(g)
  \/ finalize_entry \/ finalize_end

Spec == Init /\ [][Next]_vars

----------------------------------------------------------------------------
(* Properties. *)

\* The type invariant of the destructor table.
TypeOK ==
  /\ destructor_func \in [Entry -> Funcs \cup {NULL}]
  /\ func_count \in 0 .. ATEXIT_MAX_FUNCS /\ i \in 0 .. ATEXIT_MAX_FUNCS
  /\ f \in Funcs \cup {NULL} /\ running \in BOOLEAN /\ rejected \in BOOLEAN
  /\ calls \in 0 .. MaxCalls
  /\ destroyed \in Seq([entry : Entry, by : Funcs \cup {NULL}, call : 1 .. MaxCalls])
  /\ due \subseteq Entry

Done(c) == {k \in DOMAIN destroyed : destroyed[k].call = c}

\* "The last initialized object's destructor must be first": within a call, the
\* entries are destroyed in the reverse order of their registration.
ReverseOrder ==
  \A c \in 1 .. calls : \A j, k \in Done(c) :
    j < k => destroyed[j].entry > destroyed[k].entry

\* A call destroys exactly the entries its argument selects when it begins, in
\* spite of what the destructors it runs register meanwhile.
DestroysWhatIsDue ==
  (calls > 0 /\ ~running) => {destroyed[k].entry : k \in Done(calls)} = due

\* An entry destroyed by its function is never destroyed again, not even by a
\* later call without a function, which relies on the unset pointer.
UnsetIsFinal ==
  \A j, k \in DOMAIN destroyed :
    (j < k /\ destroyed[j].entry = destroyed[k].entry) => destroyed[j].by = NULL

\* "Multiple calls to the __cxa_finalize(destructor_func_ptr) function should not
\* destroy objects multiple times."
DestroyedOnce ==
  \A j, k \in DOMAIN destroyed : j # k => destroyed[j].entry # destroyed[k].entry
============================================================================
