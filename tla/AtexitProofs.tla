---------------------------- MODULE AtexitProofs ----------------------------
(***************************************************************************)
(* Proofs about Atexit, for every table size, every set of destructors and *)
(* every number of calls of __cxa_finalize.                                *)
(***************************************************************************)
EXTENDS Atexit, TLAPS

Func == Funcs \cup {NULL}
Record == [entry : Entry, by : Func, call : 1 .. MaxCalls]

\* What the history has one record after another.
LEMMA Appended ==
  ASSUME NEW S, NEW s \in Seq(S), NEW r \in S
  PROVE  /\ Append(s, r) \in Seq(S)
         /\ DOMAIN Append(s, r) = DOMAIN s \cup {Len(s) + 1}
         /\ \A k \in DOMAIN s : k < Len(s) + 1 /\ Append(s, r)[k] = s[k]
         /\ Append(s, r)[Len(s) + 1] = r
OBVIOUS

----------------------------------------------------------------------------
(* The inductive invariant. *)

\* The fields of the history's records.
LEMMA RecordTyped ==
  ASSUME TypeOK, NEW k \in DOMAIN destroyed
  PROVE  destroyed[k].entry \in Entry /\ destroyed[k].call \in Nat /\ destroyed[k].by \in Func
<1>0. destroyed \in Seq(Record)
  BY DEF TypeOK, Record, Func
<1>1. destroyed[k] \in Record
  BY <1>0
<1> QED BY <1>1, AtexitAssumption DEF Record

\* Where the loop is when, and when there is anything to speak of.
Loop ==
  /\ i <= func_count
  /\ running => calls > 0
  /\ ~running => i = 0
  /\ due \subseteq 0 .. func_count - 1

\* What each record of the history says of the table and of the loop.
Records ==
  \A k \in DOMAIN destroyed :
    /\ destroyed[k].entry < func_count
    /\ destroyed[k].call <= calls
    /\ destroyed[k].call = calls => destroyed[k].entry >= i
    /\ destroyed[k].by # NULL => destructor_func[destroyed[k].entry] = NULL

\* The loop has destroyed what was due of the entries behind it; of those before
\* it, it will destroy what is due.
Progress ==
  /\ {destroyed[k].entry : k \in Done(calls)} = {e \in due : e >= i}
  /\ running => \A e \in 0 .. i - 1 : e \in due <=> Selects(f, destructor_func[e])

IInv == TypeOK /\ Loop /\ Records /\ Progress /\ ReverseOrder /\ UnsetIsFinal

LEMMA InitInv == Init => IInv
<1> SUFFICES ASSUME Init PROVE IInv
  OBVIOUS
<1> USE AtexitAssumption DEF Init
<1>1. TypeOK
  <2>1. destroyed \in Seq([entry : Entry, by : Funcs \cup {NULL}, call : 1 .. MaxCalls])
    OBVIOUS
  <2>2. destructor_func \in [Entry -> Funcs \cup {NULL}]
    OBVIOUS
  <2>3. func_count \in 0 .. ATEXIT_MAX_FUNCS /\ i \in 0 .. ATEXIT_MAX_FUNCS /\ calls \in 0 .. MaxCalls
    OBVIOUS
  <2> QED BY <2>1, <2>2, <2>3 DEF TypeOK
<1>2. Loop /\ Records /\ UnsetIsFinal
  BY DEF Loop, Records, UnsetIsFinal
<1>3. Progress /\ ReverseOrder
  BY DEF Progress, ReverseOrder, Done
<1> QED BY <1>1, <1>2, <1>3 DEF IInv

LEMMA atexit_Inv == ASSUME IInv, NEW g \in Funcs, __cxa_atexit(g) PROVE IInv'
<1> USE AtexitAssumption DEF IInv
<1>1. /\ func_count \in Entry /\ func_count' = func_count + 1
      /\ destructor_func' = [destructor_func EXCEPT ![func_count] = g]
      /\ UNCHANGED <<i, f, running, rejected, calls, destroyed, due>>
  BY DEF __cxa_atexit, TypeOK, Entry
<1>2. TypeOK'
  BY <1>1 DEF TypeOK, Entry
<1>3. \A e \in Entry : e < func_count => destructor_func'[e] = destructor_func[e]
  BY <1>1 DEF TypeOK
<1>4. Loop'
  BY <1>1 DEF Loop, TypeOK
<1>5. Records'
  <2>1. \A k \in DOMAIN destroyed : destroyed[k].entry \in Entry
    BY RecordTyped
  <2> QED BY <1>1, <1>3, <2>1 DEF Records, TypeOK, Entry
<1>6. Progress'
  <2>1. Done(calls)' = Done(calls)
    BY <1>1 DEF Done
  <2>2. \A e \in 0 .. i - 1 : e \in Entry /\ e < func_count
    BY DEF Loop, TypeOK, Entry
  <2> QED BY <1>1, <1>3, <2>1, <2>2 DEF Progress, Selects
<1>7. ReverseOrder' /\ UnsetIsFinal'
  BY <1>1 DEF ReverseOrder, UnsetIsFinal, Done
<1> QED BY <1>2, <1>4, <1>5, <1>6, <1>7

LEMMA atexit_full_Inv == ASSUME IInv, __cxa_atexit_full PROVE IInv'
BY DEF IInv, __cxa_atexit_full, TypeOK, Loop, Records, Progress, Done, ReverseOrder,
       UnsetIsFinal

LEMMA finalize_begin_Inv == ASSUME IInv, NEW g \in Func, finalize_begin(g) PROVE IInv'
<1> USE AtexitAssumption DEF IInv
<1>1. /\ ~running /\ running' = TRUE /\ calls < MaxCalls /\ calls' = calls + 1
      /\ f' = g /\ i' = func_count
      /\ due' = {k \in 0 .. func_count - 1 : Selects(g, destructor_func[k])}
      /\ UNCHANGED <<destructor_func, func_count, rejected, destroyed>>
  BY DEF finalize_begin
<1>2. func_count \in 0 .. ATEXIT_MAX_FUNCS /\ calls \in 0 .. MaxCalls
  BY DEF TypeOK
<1>3. TypeOK'
  BY <1>1, <1>2 DEF TypeOK, Entry, Func
<1>4. Loop'
  BY <1>1, <1>2 DEF Loop
<1>5. \A k \in DOMAIN destroyed : destroyed[k].call # calls'
  <2>1. \A k \in DOMAIN destroyed : destroyed[k].call \in Nat
    BY RecordTyped
  <2> QED BY <1>1, <1>2, <2>1 DEF Records
<1>6. Records'
  <2>1. \A k \in DOMAIN destroyed : destroyed[k].call \in Nat
    BY RecordTyped
  <2> QED BY <1>1, <1>2, <1>5, <2>1 DEF Records
<1>7. Progress'
  <2>1. Done(calls)' = {}
    BY <1>1, <1>5 DEF Done
  <2>2. {e \in due' : e >= i'} = {}
    BY <1>1, <1>2
  <2> QED BY <1>1, <2>1, <2>2 DEF Progress
<1>8. ReverseOrder'
  <2>1. Done(calls + 1) = {}
    BY <1>1, <1>5 DEF Done
  <2>2. \A c : Done(c)' = Done(c)
    BY <1>1 DEF Done
  <2>3. \A c \in 1 .. calls' : c \in 1 .. calls \/ c = calls + 1
    BY <1>1, <1>2
  <2> QED BY <1>1, <2>1, <2>2, <2>3 DEF ReverseOrder
<1>9. UnsetIsFinal'
  BY <1>1 DEF UnsetIsFinal
<1> QED BY <1>3, <1>4, <1>6, <1>7, <1>8, <1>9

LEMMA finalize_end_Inv == ASSUME IInv, finalize_end PROVE IInv'
BY DEF IInv, finalize_end, TypeOK, Loop, Records, Progress, Done, ReverseOrder,
       UnsetIsFinal

\* A turn of the loop that destroys an entry, and one that does not.
LEMMA finalize_entry_Inv == ASSUME IInv, finalize_entry PROVE IInv'
<1> USE AtexitAssumption DEF IInv
<1> DEFINE r == [entry |-> Current, by |-> f, call |-> calls]
<1>1. /\ running /\ i > 0 /\ i' = i - 1 /\ Current = i - 1
      /\ UNCHANGED <<func_count, f, running, rejected, calls, due>>
  BY DEF finalize_entry, Current
<1>2. /\ i \in 1 .. func_count /\ func_count \in 0 .. ATEXIT_MAX_FUNCS
      /\ calls \in 1 .. MaxCalls /\ Current \in Entry /\ f \in Func
  BY <1>1 DEF TypeOK, Loop, Entry, Func
<1>3. destroyed \in Seq(Record) /\ destructor_func \in [Entry -> Func]
  BY DEF TypeOK, Record, Func
<1>4. Current \in due <=> Selects(f, destructor_func[Current])
  BY <1>1, <1>2 DEF Progress
<1>5. Loop'
  BY <1>1, <1>2 DEF Loop
<1>6. \A k \in DOMAIN destroyed : destroyed[k].entry \in Entry /\ destroyed[k].call \in Nat
  BY RecordTyped
<1>7. {e \in due : e >= i - 1} = {e \in due : e >= i} \cup (due \cap {Current})
  <2>1. \A e \in due : e \in Nat
    BY DEF TypeOK, Entry
  <2> QED BY <1>1, <1>2, <2>1
<1>8. CASE ~Selects(f, destructor_func[Current])
  <2>1. UNCHANGED <<destroyed, destructor_func>>
    BY <1>8 DEF finalize_entry
  <2>2. TypeOK'
    BY <1>1, <1>2, <2>1 DEF TypeOK
  <2>3. Records'
    BY <1>1, <1>2, <1>6, <2>1 DEF Records, Entry
  <2>4. Done(calls)' = Done(calls)
    BY <1>1, <2>1 DEF Done
  <2>5. Progress'
    BY <1>1, <1>2, <1>4, <1>7, <1>8, <2>1, <2>4 DEF Progress
  <2>6. ReverseOrder' /\ UnsetIsFinal'
    BY <1>1, <2>1 DEF ReverseOrder, UnsetIsFinal, Done
  <2> QED BY <1>5, <2>2, <2>3, <2>5, <2>6
<1>9. CASE Selects(f, destructor_func[Current])
  <2>1. destroyed' = Append(destroyed, r) /\ destructor_func' = Unset
    BY <1>9 DEF finalize_entry
  <2>2. r \in Record /\ r.entry = Current /\ r.by = f /\ r.call = calls
    BY <1>2 DEF Record
  <2>3. destructor_func[Current] # NULL
    BY <1>9 DEF Selects
  <2> DEFINE n == Len(destroyed) + 1
  <2> HIDE DEF r
  <2>4. /\ destroyed' \in Seq(Record)
        /\ DOMAIN destroyed' = DOMAIN destroyed \cup {n}
        /\ \A k \in DOMAIN destroyed : k < n /\ destroyed'[k] = destroyed[k]
        /\ destroyed'[n] = r
    BY <1>3, <2>1, <2>2, Appended
  <2>5. /\ destructor_func' \in [Entry -> Func]
        /\ \A e \in Entry : e # Current => destructor_func'[e] = destructor_func[e]
        /\ f # NULL => destructor_func'[Current] = NULL
    BY <1>2, <1>3, <2>1 DEF Unset, Func
  <2>6. n \in Nat /\ n \notin DOMAIN destroyed
    BY <1>3
  <2> HIDE DEF n
  <2>7. TypeOK'
    BY <1>1, <1>2, <2>4, <2>5 DEF TypeOK, Record, Func
  <2>8. Records'
    <3> SUFFICES ASSUME NEW k \in DOMAIN destroyed'
                 PROVE  /\ destroyed'[k].entry < func_count'
                        /\ destroyed'[k].call <= calls'
                        /\ destroyed'[k].call = calls' => destroyed'[k].entry >= i'
                        /\ destroyed'[k].by # NULL =>
                             destructor_func'[destroyed'[k].entry] = NULL
      BY DEF Records
    <3>1. CASE k = n
      BY <1>1, <1>2, <2>2, <2>4, <2>5, <3>1
    <3>2. CASE k \in DOMAIN destroyed
      <4>1. destroyed'[k] = destroyed[k]
        BY <2>4, <3>2
      <4>2. destroyed[k].by # NULL => destroyed[k].entry # Current
        BY <2>3, <3>2 DEF Records
      <4> QED BY <1>1, <1>2, <1>6, <2>5, <3>2, <4>1, <4>2 DEF Records, Entry
    <3> QED BY <2>4, <3>1, <3>2
  <2>9. Done(calls)' = Done(calls) \cup {n}
    BY <1>1, <2>2, <2>4 DEF Done
  <2>10. Progress'
    <3>1. {destroyed[k].entry : k \in Done(calls)}' =
            {destroyed[k].entry : k \in Done(calls)} \cup {Current}
      <4>1. \A k \in Done(calls) : destroyed'[k].entry = destroyed[k].entry
        BY <2>4 DEF Done
      <4> QED BY <2>2, <2>4, <2>9, <4>1
    <3>2. {destroyed[k].entry : k \in Done(calls)}' = {e \in due' : e >= i'}
      BY <1>1, <1>4, <1>7, <1>9, <3>1 DEF Progress
    <3>3. \A e \in 0 .. i' - 1 : e \in Entry /\ e # Current /\ e \in 0 .. i - 1
      BY <1>1, <1>2 DEF Entry
    <3>4. \A e \in 0 .. i' - 1 : e \in due <=> Selects(f, destructor_func'[e])
      BY <1>1, <2>5, <3>3 DEF Progress
    <3> QED BY <1>1, <3>2, <3>4 DEF Progress
  <2>11. ReverseOrder'
    <3> SUFFICES ASSUME NEW c \in 1 .. calls', NEW j \in Done(c)', NEW k \in Done(c)', j < k
                 PROVE  destroyed'[j].entry > destroyed'[k].entry
      BY DEF ReverseOrder
    <3>1. CASE k = n
      <4>1. j \in DOMAIN destroyed /\ c = calls /\ destroyed'[j] = destroyed[j]
        BY <1>1, <2>2, <2>4, <2>6, <3>1 DEF Done
      <4>2. destroyed[j].entry >= i
        BY <1>1, <4>1 DEF Done, Records
      <4> QED BY <1>1, <1>2, <1>6, <2>2, <2>4, <3>1, <4>1, <4>2 DEF Entry
    <3>2. CASE k \in DOMAIN destroyed
      <4>0. k \in Nat /\ k < n /\ j \in DOMAIN destroyed \cup {n}
        BY <1>3, <2>4, <3>2 DEF Done
      <4>1. j \in DOMAIN destroyed
        BY <2>6, <4>0
      <4>2. destroyed'[j] = destroyed[j] /\ destroyed'[k] = destroyed[k]
        BY <2>4, <3>2, <4>1
      <4>3. j \in Done(c) /\ k \in Done(c)
        BY <3>2, <4>1, <4>2 DEF Done
      <4> QED BY <1>1, <4>2, <4>3 DEF ReverseOrder
    <3> QED BY <2>4, <3>1, <3>2 DEF Done
  <2>12. UnsetIsFinal'
    <3> SUFFICES ASSUME NEW j \in DOMAIN destroyed', NEW k \in DOMAIN destroyed', j < k,
                        destroyed'[j].entry = destroyed'[k].entry
                 PROVE  destroyed'[j].by = NULL
      BY DEF UnsetIsFinal
    <3>1. j \in DOMAIN destroyed /\ destroyed'[j] = destroyed[j]
      BY <2>4, <2>6
    <3>2. CASE k = n
      BY <2>2, <2>3, <2>4, <3>1, <3>2 DEF Records
    <3>3. CASE k \in DOMAIN destroyed
      BY <2>4, <3>1, <3>3 DEF UnsetIsFinal
    <3> QED BY <2>4, <3>2, <3>3
  <2> QED BY <1>5, <2>7, <2>8, <2>10, <2>11, <2>12
<1> QED BY <1>8, <1>9

\* The inductive invariant holds of every behaviour of the destructor table.
THEOREM Invariance == Spec => []IInv
<1>1. IInv /\ [Next]_vars => IInv'
  <2> SUFFICES ASSUME IInv, [Next]_vars PROVE IInv'
    OBVIOUS
  <2>1. CASE UNCHANGED vars
    BY <2>1 DEF vars, IInv, TypeOK, Loop, Records, Progress, Done, ReverseOrder,
                UnsetIsFinal
  <2>2. CASE Next
    <3>1. ASSUME NEW g \in Funcs, __cxa_atexit(g) PROVE IInv'
      BY <3>1, atexit_Inv
    <3>2. ASSUME NEW g \in Func, finalize_begin(g) PROVE IInv'
      BY <3>2, finalize_begin_Inv
    <3> QED BY <2>2, <3>1, <3>2, atexit_full_Inv, finalize_entry_Inv, finalize_end_Inv
            DEF Next, Func
  <2> QED BY <2>1, <2>2
<1> QED BY <1>1, InitInv, PTL DEF Spec

\* The destructor table and __cxa_finalize's loop keep their types: the table never
\* grows past ATEXIT_MAX_FUNCS and the loop never leaves it.
THEOREM TypeCorrect == Spec => []TypeOK
BY Invariance, PTL DEF IInv

\* Within a call of __cxa_finalize the destructors run in the reverse order of
\* registration, whatever they register meanwhile.
THEOREM LastFirst == Spec => []ReverseOrder
BY Invariance, PTL DEF IInv

\* A call of __cxa_finalize destroys what its argument selected when it began, no
\* less and, in spite of registrations during the call, no more.
THEOREM ExactlyTheDue == Spec => []DestroysWhatIsDue
<1>1. IInv => DestroysWhatIsDue
  <2> SUFFICES ASSUME IInv, calls > 0, ~running
               PROVE  {destroyed[k].entry : k \in Done(calls)} = due
    BY DEF DestroysWhatIsDue
  <2>1. i = 0 /\ \A e \in due : e >= 0
    BY AtexitAssumption DEF IInv, Loop, TypeOK, Entry
  <2> QED BY <2>1 DEF IInv, Progress
<1> QED BY <1>1, Invariance, PTL

\* An entry that a call for its function has destroyed is destroyed by no later
\* call, in either loop of __cxa_finalize.
THEOREM DestroyedForGood == Spec => []UnsetIsFinal
BY Invariance, PTL DEF IInv
============================================================================
