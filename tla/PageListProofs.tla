--------------------------- MODULE PageListProofs ---------------------------
(***************************************************************************)
(* The list of pages keeps its chains of links, for every set of pages and *)
(* every sequence of operations.                                           *)
(***************************************************************************)
EXTENDS PageList, SequenceTheorems, TLAPS

Link == Pages \cup {nullptr}

\* The types of the links and of the list's order.
Types ==
  /\ order \in Seq(Pages)
  /\ m_next \in [Pages -> Link] /\ m_prev \in [Pages -> Link]
  /\ m_head \in Link /\ m_tail \in Link
  /\ halted \in {"no", "assert", "fault"}

\* A page is in the list at most once.
Once(s) == \A i, j \in 1..Len(s) : s[i] = s[j] => i = j

----------------------------------------------------------------------------
(* The order after each operation, place by place. *)

LEMMA OrderPlaces ==
  ASSUME Types
  PROVE  /\ Len(order) \in Nat
         /\ DOMAIN order = 1..Len(order)
         /\ \A k \in 1..Len(order) : order[k] \in Pages /\ order[k] # nullptr
<1>1. order \in Seq(Pages)
  BY DEF Types
<1>2. Len(order) \in Nat /\ DOMAIN order = 1..Len(order)
  BY <1>1, LenProperties
<1>3. \A k \in 1..Len(order) : order[k] \in Pages
  BY <1>1, ElementOfSeq
<1> QED
  BY <1>2, <1>3, PageListAssumption

LEMMA PushPlaces ==
  ASSUME NEW s \in Seq(Pages), NEW p \in Pages
  PROVE  /\ <<p>> \o s \in Seq(Pages)
         /\ Len(<<p>> \o s) = Len(s) + 1
         /\ (<<p>> \o s)[1] = p
         /\ \A k \in 1..Len(s) : (<<p>> \o s)[k + 1] = s[k]
<1>1. <<p>> \in Seq(Pages) /\ Len(<<p>>) = 1 /\ <<p>>[1] = p
  OBVIOUS
<1>2. Len(s) \in Nat
  BY LenProperties
<1>3. <<p>> \o s \in Seq(Pages) /\ Len(<<p>> \o s) = 1 + Len(s)
  BY <1>1, ConcatProperties
<1>4. \A k \in 1..(1 + Len(s)) :
        (<<p>> \o s)[k] = IF k <= 1 THEN <<p>>[k] ELSE s[k - 1]
  BY <1>1, ConcatProperties
<1> QED
  BY <1>1, <1>2, <1>3, <1>4

LEMMA TailPlaces ==
  ASSUME NEW s \in Seq(Pages), s # << >>
  PROVE  /\ Tail(s) \in Seq(Pages)
         /\ Len(s) \in Nat \ {0}
         /\ Len(Tail(s)) = Len(s) - 1
         /\ \A k \in 1 .. Len(s) - 1 : Tail(s)[k] = s[k + 1]
<1>1. Len(s) \in Nat \ {0}
  BY EmptySeq, LenProperties
<1> QED
  BY <1>1, HeadTailProperties

LEMMA WithoutPlaces ==
  ASSUME Types, NEW k \in 1..Len(order)
  PROVE  /\ Without(k) \in Seq(Pages)
         /\ Len(Without(k)) = Len(order) - 1
         /\ \A j \in 1 .. Len(order) - 1 :
              Without(k)[j] = IF j < k THEN order[j] ELSE order[j + 1]
<1> DEFINE n == Len(order) - 1
<1>1. n \in Nat /\ \A j \in 1..n : j \in 1..Len(order) /\ j + 1 \in 1..Len(order)
  BY OrderPlaces
<1>2. Without(k) \in [1..n -> Pages]
  BY <1>1, OrderPlaces DEF Without
<1>3. Without(k) \in Seq(Pages)
  BY <1>1, <1>2, SeqDef
<1>4. DOMAIN Without(k) = 1..n
  BY DEF Without
<1>5. Len(Without(k)) = n
  BY <1>1, <1>3, <1>4, LenProperties
<1>6. \A j \in 1..n : Without(k)[j] = IF j < k THEN order[j] ELSE order[j + 1]
  BY DEF Without
<1> QED
  BY <1>3, <1>5, <1>6

----------------------------------------------------------------------------
(* The invariant. *)

\* The links, the head and the tail spell the pages of s, place by place.
Chain(s, head, tail, next, prev) ==
  /\ head = IF Len(s) = 0 THEN nullptr ELSE s[1]
  /\ tail = IF Len(s) = 0 THEN nullptr ELSE s[Len(s)]
  /\ \A k \in 1..Len(s) :
       /\ next[s[k]] = IF k = Len(s) THEN nullptr ELSE s[k + 1]
       /\ prev[s[k]] = IF k = 1 THEN nullptr ELSE s[k - 1]

\* Chain says what Linked says.
LEMMA AtPlaces ==
  ASSUME Types
  PROVE  /\ At(1) = IF Len(order) = 0 THEN nullptr ELSE order[1]
         /\ At(Len(order)) = IF Len(order) = 0 THEN nullptr ELSE order[Len(order)]
         /\ \A k \in 1..Len(order) :
              /\ At(k + 1) = IF k = Len(order) THEN nullptr ELSE order[k + 1]
              /\ At(k - 1) = IF k = 1 THEN nullptr ELSE order[k - 1]
<1> DEFINE n == Len(order)
<1>1. n \in Nat /\ DOMAIN order = 1..n
  BY OrderPlaces
<1> HIDE DEF n
<1>2. \A k \in Int : At(k) = IF k \in 1..n THEN order[k] ELSE nullptr
  BY <1>1, Zenon DEF At
<1>3. \A k \in Int : (k \in 1..n) = (1 <= k /\ k <= n)
  BY <1>1
<1>4. At(1) = IF n = 0 THEN nullptr ELSE order[1]
  BY <1>1, <1>2, <1>3
<1>5. At(n) = IF n = 0 THEN nullptr ELSE order[n]
  BY <1>1, <1>2, <1>3
<1>6. ASSUME NEW k \in 1..n
      PROVE  /\ At(k + 1) = IF k = n THEN nullptr ELSE order[k + 1]
             /\ At(k - 1) = IF k = 1 THEN nullptr ELSE order[k - 1]
  BY <1>1, <1>2, <1>3
<1> QED
  BY <1>4, <1>5, <1>6 DEF n

LInv ==
  /\ Types
  /\ Once(order)
  /\ halted = "no" => Chain(order, m_head, m_tail, m_next, m_prev)

LEMMA InvLinked ==
  ASSUME LInv
  PROVE  Linked
<1> SUFFICES ASSUME halted = "no" PROVE Linked
  BY DEF Linked
<1>1. DOMAIN order = 1..Len(order)
  BY OrderPlaces DEF LInv
<1> QED
  BY <1>1, AtPlaces, Zenon DEF LInv, Chain, Linked

----------------------------------------------------------------------------
(* What the operations do to a chain. *)

\* The places of a sequence of pages.
LEMMA SeqPlaces ==
  ASSUME NEW s \in Seq(Pages)
  PROVE  Len(s) \in Nat /\ \A k \in 1..Len(s) : s[k] \in Pages /\ s[k] # nullptr
BY LenProperties, ElementOfSeq, PageListAssumption

LEMMA PushOnce ==
  ASSUME NEW s \in Seq(Pages), NEW p \in Pages, Once(s),
         \A k \in 1..Len(s) : s[k] # p
  PROVE  Once(<<p>> \o s)
<1> DEFINE r == <<p>> \o s
<1>1. /\ Len(r) = Len(s) + 1 /\ r[1] = p
      /\ \A k \in 1..Len(s) : r[k + 1] = s[k]
  BY PushPlaces
<1>2. Len(s) \in Nat
  BY SeqPlaces
<1> HIDE DEF r
<1>3. \A k \in 1..Len(r) : k = 1 \/ (k - 1 \in 1..Len(s) /\ r[k] = s[k - 1])
  BY <1>1, <1>2
<1>4. ASSUME NEW i \in 1..Len(r), NEW j \in 1..Len(r), r[i] = r[j]
      PROVE  i = j
  <2>1. CASE i = 1 \/ j = 1
    BY <2>1, <1>1, <1>2, <1>3, <1>4
  <2>2. CASE i # 1 /\ j # 1
    <3>1. i - 1 \in 1..Len(s) /\ j - 1 \in 1..Len(s) /\ s[i - 1] = s[j - 1]
      BY <2>2, <1>3, <1>4
    <3>2. i - 1 = j - 1
      BY <3>1, Zenon DEF Once
    <3> QED
      BY <3>2, <1>1, <1>2
  <2> QED
    BY <2>1, <2>2
<1> QED
  BY <1>4, Zenon DEF Once, r

LEMMA PushChain ==
  ASSUME NEW s \in Seq(Pages), NEW p \in Pages,
         \A k \in 1..Len(s) : s[k] # p, Once(s),
         NEW next \in [Pages -> Link], NEW prev \in [Pages -> Link],
         NEW head \in Link, NEW tail \in Link,
         Chain(s, head, tail, next, prev),
         NEW next1, next1 = [next EXCEPT ![p] = head],
         NEW prev1, prev1 = [q \in Pages |-> IF q = p THEN nullptr
                                             ELSE IF q = head THEN p ELSE prev[q]]
  PROVE  Chain(<<p>> \o s, p, IF head = nullptr THEN p ELSE tail, next1, prev1)
<1> DEFINE r == <<p>> \o s
           n == Len(s)
<1>1. Len(r) = n + 1 /\ r[1] = p /\ \A k \in 1..n : r[k + 1] = s[k]
  BY PushPlaces
<1>2. n \in Nat /\ \A k \in 1..n : s[k] \in Pages /\ s[k] # nullptr /\ s[k] # p
  BY SeqPlaces
<1>3. /\ head = IF n = 0 THEN nullptr ELSE s[1]
      /\ tail = IF n = 0 THEN nullptr ELSE s[n]
      /\ \A k \in 1..n :
           /\ next[s[k]] = IF k = n THEN nullptr ELSE s[k + 1]
           /\ prev[s[k]] = IF k = 1 THEN nullptr ELSE s[k - 1]
  BY DEF Chain
<1>4. \A i, j \in 1..n : s[i] = s[j] => i = j
  BY DEF Once
<1>5. p # nullptr
  BY PageListAssumption
<1> HIDE DEF r, n
<1>6. (IF head = nullptr THEN p ELSE tail) = r[n + 1]
  BY <1>1, <1>2, <1>3
<1>7. /\ next1[p] = head /\ prev1[p] = nullptr
      /\ \A k \in 1..n : /\ next1[s[k]] = next[s[k]]
                         /\ prev1[s[k]] = IF s[k] = head THEN p ELSE prev[s[k]]
  BY <1>2
<1>8. ASSUME NEW k \in 1..(n + 1)
      PROVE  /\ next1[r[k]] = IF k = n + 1 THEN nullptr ELSE r[k + 1]
             /\ prev1[r[k]] = IF k = 1 THEN nullptr ELSE r[k - 1]
  <2>1. CASE k = 1
    BY <2>1, <1>1, <1>2, <1>3, <1>7
  <2>2. CASE k # 1
    <3> DEFINE j == k - 1
    <3>1. j \in 1..n /\ k = j + 1 /\ r[k] = s[j]
      BY <2>2, <1>1, <1>2
    <3> HIDE DEF j
    <3>2. next1[s[j]] = IF j = n THEN nullptr ELSE r[k + 1]
      BY <3>1, <1>1, <1>2, <1>3, <1>7
    <3>3. prev1[s[j]] = r[j]
      <4>1. CASE j = 1
        BY <4>1, <3>1, <1>1, <1>2, <1>3, <1>7
      <4>2. CASE j # 1
        <5>1. j - 1 \in 1..n /\ r[j] = s[j - 1] /\ s[j] # head
          BY <4>2, <3>1, <1>1, <1>2, <1>3, <1>4
        <5> QED
          BY <5>1, <4>2, <3>1, <1>3, <1>7
      <4> QED
        BY <4>1, <4>2
    <3> QED
      BY <3>1, <3>2, <3>3, <2>2, <1>2
  <2> QED
    BY <2>1, <2>2
<1>9. Len(r) # 0 /\ r[1] = p /\ r[Len(r)] = IF head = nullptr THEN p ELSE tail
  BY <1>1, <1>2, <1>6
<1>10. \A k \in 1..Len(r) :
         /\ next1[r[k]] = IF k = Len(r) THEN nullptr ELSE r[k + 1]
         /\ prev1[r[k]] = IF k = 1 THEN nullptr ELSE r[k - 1]
  BY <1>1, <1>8
<1>11. Chain(r, p, IF head = nullptr THEN p ELSE tail, next1, prev1)
  BY <1>9, <1>10, Zenon DEF Chain
<1> QED
  BY <1>11 DEF r

LEMMA PopOnce ==
  ASSUME NEW s \in Seq(Pages), s # << >>, Once(s)
  PROVE  Once(Tail(s))
<1>1. /\ Len(s) \in Nat \ {0} /\ Len(Tail(s)) = Len(s) - 1
      /\ \A k \in 1 .. Len(s) - 1 : Tail(s)[k] = s[k + 1]
  BY TailPlaces
<1>2. ASSUME NEW i \in 1..Len(Tail(s)), NEW j \in 1..Len(Tail(s)), Tail(s)[i] = Tail(s)[j]
      PROVE  i = j
  <2>1. i + 1 \in 1..Len(s) /\ j + 1 \in 1..Len(s) /\ s[i + 1] = s[j + 1]
    BY <1>1, <1>2
  <2>2. i + 1 = j + 1
    BY <2>1, Zenon DEF Once
  <2> QED
    BY <2>2, <1>1
<1> QED
  BY <1>2, Zenon DEF Once

LEMMA PopChain ==
  ASSUME NEW s \in Seq(Pages), s # << >>, Once(s),
         NEW next \in [Pages -> Link], NEW prev \in [Pages -> Link],
         NEW head \in Link, NEW tail \in Link,
         Chain(s, head, tail, next, prev),
         next[head] # nullptr,
         NEW prev1, prev1 = [prev EXCEPT ![next[head]] = nullptr]
  PROVE  Chain(Tail(s), next[head], tail, next, prev1)
<1> DEFINE r == Tail(s)
           n == Len(s)
<1>1. /\ n \in Nat \ {0} /\ Len(r) = n - 1
      /\ \A k \in 1 .. n - 1 : r[k] = s[k + 1]
  BY TailPlaces
<1>2. \A k \in 1..n : s[k] \in Pages
  BY SeqPlaces
<1>3. /\ head = IF n = 0 THEN nullptr ELSE s[1]
      /\ tail = IF n = 0 THEN nullptr ELSE s[n]
      /\ \A k \in 1..n :
           /\ next[s[k]] = IF k = n THEN nullptr ELSE s[k + 1]
           /\ prev[s[k]] = IF k = 1 THEN nullptr ELSE s[k - 1]
  BY DEF Chain
<1>4. \A i, j \in 1..n : s[i] = s[j] => i = j
  BY DEF Once
<1> HIDE DEF r, n
<1>5. n >= 2 /\ next[head] = s[2] /\ r[1] = s[2]
  BY <1>1, <1>3
<1>6. \A k \in 1..n : prev1[s[k]] = IF k = 2 THEN nullptr ELSE prev[s[k]]
  BY <1>1, <1>2, <1>4, <1>5
<1>7. ASSUME NEW k \in 1 .. n - 1
      PROVE  /\ next[r[k]] = IF k = n - 1 THEN nullptr ELSE r[k + 1]
             /\ prev1[r[k]] = IF k = 1 THEN nullptr ELSE r[k - 1]
  <2> DEFINE j == k + 1
  <2>1. j \in 1..n /\ j # 1 /\ r[k] = s[j] /\ j - 1 = k
    BY <1>1
  <2>2. (k = n - 1) = (j = n) /\ (k = 1) = (j = 2)
    BY <1>1
  <2>3. k # n - 1 => r[k + 1] = s[j + 1]
    BY <1>1
  <2>4. k # 1 => r[k - 1] = s[j - 1]
    BY <1>1
  <2> HIDE DEF j
  <2>5. next[s[j]] = IF j = n THEN nullptr ELSE s[j + 1]
    BY <2>1, <1>3
  <2>6. prev1[s[j]] = IF j = 2 THEN nullptr ELSE s[j - 1]
    BY <2>1, <1>3, <1>6
  <2> QED
    BY <2>1, <2>2, <2>3, <2>4, <2>5, <2>6
<1>8. Len(r) # 0 /\ next[head] = r[1] /\ tail = r[Len(r)]
  BY <1>1, <1>3, <1>5
<1>9. \A k \in 1..Len(r) :
        /\ next[r[k]] = IF k = Len(r) THEN nullptr ELSE r[k + 1]
        /\ prev1[r[k]] = IF k = 1 THEN nullptr ELSE r[k - 1]
  BY <1>1, <1>7
<1>10. Chain(r, next[head], tail, next, prev1)
  BY <1>8, <1>9, Zenon DEF Chain
<1> QED
  BY <1>10 DEF r

\* r is s without its place k.
Omits(r, s, k) ==
  /\ Len(r) = Len(s) - 1
  /\ \A j \in 1 .. Len(s) - 1 : r[j] = IF j < k THEN s[j] ELSE s[j + 1]

LEMMA UnlinkOnce ==
  ASSUME NEW s \in Seq(Pages), NEW r \in Seq(Pages), NEW k \in 1..Len(s),
         Omits(r, s, k), Once(s)
  PROVE  Once(r)
<1>1. Len(s) \in Nat
  BY SeqPlaces
<1>2. Len(r) = Len(s) - 1
  BY DEF Omits
<1> DEFINE f(j) == IF j < k THEN j ELSE j + 1
<1>3. \A j \in 1..Len(r) : f(j) \in 1..Len(s) /\ r[j] = s[f(j)]
  BY <1>1, <1>2 DEF Omits
<1>4. \A i, j \in 1..Len(r) : f(i) = f(j) => i = j
  BY <1>1, <1>2
<1> HIDE DEF f
<1>5. ASSUME NEW i \in 1..Len(r), NEW j \in 1..Len(r), r[i] = r[j]
      PROVE  i = j
  <2>1. f(i) \in 1..Len(s) /\ f(j) \in 1..Len(s) /\ s[f(i)] = s[f(j)]
    BY <1>3, <1>5
  <2>2. f(i) = f(j)
    BY <2>1, Zenon DEF Once
  <2> QED
    BY <2>2, <1>4
<1> QED
  BY <1>5, Zenon DEF Once

\* Links with the one of page p changed to q.
Relinked(links, p, q) == [links EXCEPT ![p] = q]

LEMMA UnlinkChain ==
  ASSUME NEW s \in Seq(Pages), NEW r \in Seq(Pages), NEW k \in 1..Len(s),
         Omits(r, s, k), Once(s),
         NEW next \in [Pages -> Link], NEW prev \in [Pages -> Link],
         NEW head \in Link, NEW tail \in Link,
         Chain(s, head, tail, next, prev),
         prev[s[k]] # nullptr, next[s[k]] # nullptr
  PROVE  /\ head # s[k] /\ tail # s[k]
         /\ Chain(r, head, tail, Relinked(next, prev[s[k]], next[s[k]]),
                                 Relinked(prev, next[s[k]], prev[s[k]]))
<1> DEFINE n == Len(s)
           a == prev[s[k]]
           b == next[s[k]]
           next1 == Relinked(next, a, b)
           prev1 == Relinked(prev, b, a)
<1>0. next1 = [next EXCEPT ![a] = b] /\ prev1 = [prev EXCEPT ![b] = a]
  BY DEF Relinked
<1>1. n \in Nat /\ Len(r) = n - 1 /\ k \in 1..n
  BY SeqPlaces DEF Omits
<1>2. \A j \in 1..n : s[j] \in Pages
  BY SeqPlaces
<1>3. /\ head = IF n = 0 THEN nullptr ELSE s[1]
      /\ tail = IF n = 0 THEN nullptr ELSE s[n]
      /\ \A j \in 1..n :
           /\ next[s[j]] = IF j = n THEN nullptr ELSE s[j + 1]
           /\ prev[s[j]] = IF j = 1 THEN nullptr ELSE s[j - 1]
  BY DEF Chain
<1>4. \A i, j \in 1..n : s[i] = s[j] => i = j
  BY DEF Once
<1>5. \A j \in 1 .. n - 1 : r[j] = IF j < k THEN s[j] ELSE s[j + 1]
  BY DEF Omits
<1> HIDE DEF n, next1, prev1
<1>6. 1 < k /\ k < n /\ a = s[k - 1] /\ b = s[k + 1]
  BY <1>1, <1>3
<1> HIDE DEF a, b
<1>7. head = s[1] /\ tail = s[n]
  BY <1>1, <1>3, <1>6
<1>8. head # s[k] /\ tail # s[k]
  BY <1>1, <1>4, <1>6, <1>7
<1>9. \A j \in 1..n : /\ next1[s[j]] = IF j = k - 1 THEN s[k + 1] ELSE next[s[j]]
                      /\ prev1[s[j]] = IF j = k + 1 THEN s[k - 1] ELSE prev[s[j]]
  BY <1>0, <1>1, <1>2, <1>4, <1>6
<1>10. ASSUME NEW j \in 1 .. n - 1
       PROVE  /\ next1[r[j]] = IF j = n - 1 THEN nullptr ELSE r[j + 1]
              /\ prev1[r[j]] = IF j = 1 THEN nullptr ELSE r[j - 1]
  <2>0. j \in 1..n /\ j + 1 \in 1..n
    BY <1>1
  <2>1. CASE j < k
    <3>1. r[j] = s[j]
      BY <2>1, <1>5
    <3>2. next1[s[j]] = IF j = n - 1 THEN nullptr ELSE r[j + 1]
      <4>1. CASE j = k - 1
        BY <4>1, <2>0, <1>1, <1>5, <1>6, <1>9
      <4>2. CASE j # k - 1
        <5>1. j # n - 1 /\ j # n /\ j + 1 < k /\ j + 1 \in 1 .. n - 1
          BY <4>2, <2>1, <1>1, <1>6
        <5>2. r[j + 1] = s[j + 1]
          BY <5>1, <1>5
        <5> QED
          BY <5>1, <5>2, <4>2, <2>0, <1>3, <1>9
      <4> QED
        BY <4>1, <4>2
    <3>3. prev1[s[j]] = IF j = 1 THEN nullptr ELSE r[j - 1]
      <4>1. j # k + 1
        BY <2>1, <1>1
      <4>2. prev1[s[j]] = IF j = 1 THEN nullptr ELSE s[j - 1]
        BY <4>1, <2>0, <1>3, <1>9
      <4>3. j # 1 => r[j - 1] = s[j - 1]
        <5> SUFFICES ASSUME j # 1 PROVE r[j - 1] = s[j - 1]
          OBVIOUS
        <5>1. j - 1 \in 1 .. n - 1 /\ j - 1 < k
          BY <2>1, <1>1
        <5> QED
          BY <5>1, <1>5
      <4> QED
        BY <4>2, <4>3
    <3> QED
      BY <3>1, <3>2, <3>3
  <2>2. CASE ~(j < k)
    <3>1. r[j] = s[j + 1]
      BY <2>2, <1>5
    <3>2. next1[s[j + 1]] = IF j = n - 1 THEN nullptr ELSE r[j + 1]
      <4>1. j + 1 # k - 1
        BY <2>2, <1>1
      <4>2. next1[s[j + 1]] = IF j + 1 = n THEN nullptr ELSE s[j + 1 + 1]
        BY <4>1, <2>0, <1>3, <1>9
      <4>3. (j + 1 = n) = (j = n - 1)
        BY <1>1
      <4>4. j # n - 1 => r[j + 1] = s[j + 1 + 1]
        <5> SUFFICES ASSUME j # n - 1 PROVE r[j + 1] = s[j + 1 + 1]
          OBVIOUS
        <5>1. j + 1 \in 1 .. n - 1 /\ ~(j + 1 < k)
          BY <2>2, <1>1
        <5> QED
          BY <5>1, <1>5
      <4> QED
        BY <4>2, <4>3, <4>4
    <3>3. prev1[s[j + 1]] = IF j = 1 THEN nullptr ELSE r[j - 1]
      <4>0. j # 1
        BY <2>2, <1>1, <1>6
      <4>1. CASE j = k
        <5>1. j - 1 \in 1 .. n - 1 /\ j - 1 < k
          BY <4>0, <4>1, <1>1
        <5>2. r[j - 1] = s[k - 1]
          BY <5>1, <4>1, <1>5
        <5> QED
          BY <5>2, <4>0, <4>1, <2>0, <1>9
      <4>2. CASE j # k
        <5>1. j - 1 \in 1 .. n - 1 /\ ~(j - 1 < k) /\ j + 1 # k + 1 /\ j + 1 # 1
          BY <4>0, <4>2, <2>2, <1>1
        <5>2. r[j - 1] = s[j]
          BY <5>1, <1>5
        <5>3. prev1[s[j + 1]] = s[j + 1 - 1]
          BY <5>1, <2>0, <1>3, <1>9
        <5> QED
          BY <5>2, <5>3, <4>0
      <4> QED
        BY <4>1, <4>2
    <3> QED
      BY <3>1, <3>2, <3>3
  <2> QED
    BY <2>1, <2>2
<1>11. Len(r) # 0 /\ head = r[1] /\ tail = r[Len(r)]
  <2>1. 1 \in 1 .. n - 1 /\ n - 1 \in 1 .. n - 1 /\ ~(n - 1 < k) /\ n - 1 # 0
    BY <1>1, <1>6
  <2> QED
    BY <2>1, <1>1, <1>5, <1>6, <1>7
<1>12. \A j \in 1..Len(r) :
         /\ next1[r[j]] = IF j = Len(r) THEN nullptr ELSE r[j + 1]
         /\ prev1[r[j]] = IF j = 1 THEN nullptr ELSE r[j - 1]
  BY <1>1, <1>10
<1>13. Chain(r, head, tail, next1, prev1)
  BY <1>11, <1>12, Zenon DEF Chain
<1> QED
  BY <1>8, <1>13, Zenon DEF next1, prev1, a, b

----------------------------------------------------------------------------
(* Every operation keeps the invariant. *)

LEMMA InitLInv == Init => LInv
<1> SUFFICES ASSUME Init PROVE LInv
  OBVIOUS
<1>1. Types
  BY DEF Init, Types, Link
<1>2. Len(order) = 0
  BY DEF Init
<1>3. Once(order)
  BY <1>2 DEF Once
<1>4. Chain(order, m_head, m_tail, m_next, m_prev)
  BY <1>2 DEF Init, Chain
<1> QED
  BY <1>1, <1>3, <1>4 DEF LInv

LEMMA InsertLInv ==
  ASSUME LInv, NEW page \in Pages, insert_first(page)
  PROVE  LInv'
<1> USE DEF insert_first
<1>1. /\ order \in Seq(Pages) /\ Once(order)
      /\ m_next \in [Pages -> Link] /\ m_prev \in [Pages -> Link]
      /\ m_head \in Link /\ m_tail \in Link
      /\ Chain(order, m_head, m_tail, m_next, m_prev)
  BY DEF LInv, Types
<1>2. \A k \in 1..Len(order) : order[k] # page
  BY OrderPlaces DEF LInv, Listed
<1>3. order' \in Seq(Pages)
  BY <1>1, PushPlaces
<1>4. m_next' \in [Pages -> Link] /\ m_prev' \in [Pages -> Link]
  BY <1>1 DEF Link
<1>5. m_head' \in Link /\ m_tail' \in Link /\ halted' = "no"
  BY <1>1 DEF Link
<1>6. Types'
  BY <1>3, <1>4, <1>5 DEF Types
<1>7. Once(order')
  BY <1>1, <1>2, PushOnce
<1>8. Chain(order', m_head', m_tail', m_next', m_prev')
  BY <1>1, <1>2, PushChain
<1> QED
  BY <1>6, <1>7, <1>8 DEF LInv

LEMMA PopLInv ==
  ASSUME LInv, pop
  PROVE  LInv' /\ (Len(order) < 2 \/ halted' = "no")
<1>1. /\ order \in Seq(Pages) /\ Once(order)
      /\ m_next \in [Pages -> Link] /\ m_prev \in [Pages -> Link]
      /\ m_head \in Link /\ m_tail \in Link
      /\ Chain(order, m_head, m_tail, m_next, m_prev)
  BY DEF LInv, Types, pop
<1>2. m_head # nullptr
  BY DEF pop
<1>3. Len(order) # 0 /\ order # << >> /\ m_head = order[1] /\ m_head \in Pages
  BY <1>1, <1>2 DEF Chain, Link
<1>4. order' = Tail(order) /\ order' \in Seq(Pages) /\ Once(order')
  BY <1>1, <1>3, TailPlaces, PopOnce DEF pop
<1>5. m_next[m_head] \in Link
  BY <1>1, <1>3
<1>6. CASE m_next[m_head] = nullptr
  <2>1. halted' = "fault" /\ UNCHANGED <<m_prev, m_tail, m_next>> /\ m_head' = m_next[m_head]
    BY <1>6 DEF pop
  <2>2. Types'
    BY <2>1, <1>1, <1>4, <1>5 DEF Types
  <2>3. Len(order) = 1
    <3>1. Len(order) \in Nat
      BY OrderPlaces DEF LInv
    <3>2. 1 \in 1..Len(order)
      BY <3>1, <1>3
    <3>3. 1 # Len(order) => m_next[order[1]] = order[2]
      <4>1. m_next[order[1]] = IF 1 = Len(order) THEN nullptr ELSE order[1 + 1]
        BY <3>2, <1>1, Zenon DEF Chain
      <4> QED
        BY <4>1
    <3>4. 1 # Len(order) => order[2] # nullptr
      BY <3>1, <1>3, OrderPlaces DEF LInv
    <3> QED
      BY <3>3, <3>4, <1>3, <1>6
  <2> QED
    BY <2>1, <2>2, <2>3, <1>4 DEF LInv
<1>7. CASE m_next[m_head] # nullptr
  <2>1. /\ halted' = "no" /\ UNCHANGED <<m_tail, m_next>> /\ m_head' = m_next[m_head]
        /\ m_prev' = [m_prev EXCEPT ![m_next[m_head]] = nullptr]
    BY <1>7 DEF pop
  <2>2. m_prev' \in [Pages -> Link]
    BY <2>1, <1>1, <1>5, <1>7 DEF Link
  <2>3. Types'
    BY <2>1, <2>2, <1>1, <1>4, <1>5 DEF Types
  <2>4. Chain(order', m_head', m_tail', m_next', m_prev')
    BY <2>1, <1>1, <1>3, <1>4, <1>7, PopChain
  <2> QED
    BY <2>1, <2>3, <2>4, <1>4 DEF LInv
<1> QED
  BY <1>6, <1>7

LEMMA UnlinkLInv ==
  ASSUME LInv, NEW node \in Pages, unlink(node)
  PROVE  LInv' /\ (halted' = "no" \/ node \in {order[1], order[Len(order)]})
<1>1. /\ order \in Seq(Pages) /\ Once(order)
      /\ m_next \in [Pages -> Link] /\ m_prev \in [Pages -> Link]
      /\ m_head \in Link /\ m_tail \in Link
      /\ Chain(order, m_head, m_tail, m_next, m_prev)
  BY DEF LInv, Types, unlink
<1> DEFINE a == m_prev[node]
           b == m_next[node]
<1>2. a \in Link /\ b \in Link
  BY <1>1
<1>3. PICK k \in DOMAIN order : order[k] = node /\ order' = Without(k)
  BY DEF unlink
<1>4. k \in 1..Len(order)
  BY OrderPlaces DEF LInv
<1>5. order' \in Seq(Pages) /\ Omits(order', order, k)
  BY <1>3, <1>4, WithoutPlaces DEF LInv, Omits
<1>6. Once(order')
  BY <1>1, <1>4, <1>5, UnlinkOnce
<1>7. /\ halted = "no"
      /\ m_head' = IF m_head = node THEN b ELSE m_head
      /\ m_tail' = IF m_tail = node THEN a ELSE m_tail
      /\ m_next' = IF a # nullptr THEN [m_next EXCEPT ![a] = b] ELSE m_next
      /\ m_prev' = IF a # nullptr /\ b # nullptr
                   THEN [m_prev EXCEPT ![b] = a] ELSE m_prev
      /\ halted' = IF a # nullptr /\ b # nullptr THEN halted ELSE "fault"
  BY DEF unlink
<1>8. a = m_prev[order[k]] /\ b = m_next[order[k]]
  BY <1>3
<1> HIDE DEF a, b
<1>9. m_head' \in Link /\ m_tail' \in Link
  BY <1>1, <1>2, <1>7
<1>10. m_next' \in [Pages -> Link] /\ m_prev' \in [Pages -> Link]
  BY <1>1, <1>2, <1>7 DEF Link
<1>11. halted' \in {"no", "assert", "fault"}
  BY <1>7
<1>12. Types'
  BY <1>5, <1>9, <1>10, <1>11 DEF Types
<1>13. CASE a # nullptr /\ b # nullptr
  <2>1. /\ halted' = "no"
        /\ m_next' = [m_next EXCEPT ![a] = b] /\ m_prev' = [m_prev EXCEPT ![b] = a]
    BY <1>7, <1>13
  <2>2. /\ m_head # order[k] /\ m_tail # order[k]
        /\ Chain(order', m_head, m_tail, m_next', m_prev')
    <3> DEFINE s == order
               r == order'
    <3>1. /\ s \in Seq(Pages) /\ r \in Seq(Pages) /\ k \in 1..Len(s)
          /\ Omits(r, s, k) /\ Once(s) /\ Chain(s, m_head, m_tail, m_next, m_prev)
      BY <1>1, <1>4, <1>5
    <3>2. a = m_prev[s[k]] /\ b = m_next[s[k]]
      BY <1>8
    <3> HIDE DEF s, r
    <3>3. /\ m_head # s[k] /\ m_tail # s[k]
          /\ Chain(r, m_head, m_tail, Relinked(m_next, a, b), Relinked(m_prev, b, a))
      BY <3>1, <3>2, <1>1, <1>13, UnlinkChain
    <3>4. Relinked(m_next, a, b) = m_next' /\ Relinked(m_prev, b, a) = m_prev'
      BY <2>1 DEF Relinked
    <3> QED
      BY <3>3, <3>4 DEF s, r
  <2>3. m_head' = m_head /\ m_tail' = m_tail
    BY <2>2, <1>3, <1>7
  <2>4. Chain(order', m_head', m_tail', m_next', m_prev')
    BY <2>2, <2>3
  <2> QED
    BY <2>1, <2>4, <1>6, <1>12 DEF LInv
<1>14. CASE ~(a # nullptr /\ b # nullptr)
  <2>1. halted' = "fault"
    BY <1>7, <1>14
  <2>2. k = 1 \/ k = Len(order)
    <3> SUFFICES ASSUME k # 1, k # Len(order) PROVE FALSE
      OBVIOUS
    <3>1. a = order[k - 1] /\ b = order[k + 1]
      <4>1. /\ m_next[order[k]] = IF k = Len(order) THEN nullptr ELSE order[k + 1]
            /\ m_prev[order[k]] = IF k = 1 THEN nullptr ELSE order[k - 1]
        BY <1>1, <1>4, Zenon DEF Chain
      <4> QED
        BY <4>1, <1>8
    <3>2. k - 1 \in 1..Len(order) /\ k + 1 \in 1..Len(order)
      BY <1>4, OrderPlaces DEF LInv
    <3>3. a # nullptr /\ b # nullptr
      BY <3>1, <3>2, OrderPlaces DEF LInv
    <3> QED
      BY <3>3, <1>14
  <2> QED
    BY <2>1, <2>2, <1>3, <1>6, <1>12 DEF LInv
<1> QED
  BY <1>13, <1>14

LEMMA StepLInv == LInv /\ [Next]_vars => LInv'
<1> SUFFICES ASSUME LInv, [Next]_vars PROVE LInv'
  OBVIOUS
<1>1. ASSUME NEW p \in Pages, insert_first(p) PROVE LInv'
  BY <1>1, InsertLInv
<1>2. ASSUME NEW p \in Pages, unlink(p) PROVE LInv'
  BY <1>2, UnlinkLInv
<1>3. CASE pop
  BY <1>3, PopLInv
<1>4. CASE pop_empty
  <2>1. halted' = "assert" /\ UNCHANGED <<m_head, m_tail, m_next, m_prev, order>>
    BY <1>4 DEF pop_empty
  <2> QED
    BY <2>1 DEF LInv, Types
<1>5. CASE UNCHANGED vars
  BY <1>5 DEF vars, LInv, Types
<1> QED
  BY <1>1, <1>2, <1>3, <1>4, <1>5 DEF Next, Halted

----------------------------------------------------------------------------
(* Theorems. *)

\* Whatever pages are inserted, popped and unlinked, and whatever stale links
\* they bring back with them, m_head, m_tail and both chains of links of
\* page_list.cpp spell the same list as long as no operation has halted.
THEOREM ChainsAgree == Spec => []Linked
<1>1. Init => LInv
  BY InitLInv
<1>2. LInv /\ [Next]_vars => LInv'
  BY StepLInv
<1>3. LInv => Linked
  BY InvLinked
<1> QED
  BY <1>1, <1>2, <1>3, PTL DEF Spec

LEMMA StepInner ==
  LInv /\ [Next]_vars =>
    [\/ halted' = "no" \/ halted # "no" \/ Len(order) < 2
     \/ \E p \in {order[1], order[Len(order)]} : unlink(p)]_vars
<1> DEFINE Safe == \/ halted' = "no" \/ halted # "no" \/ Len(order) < 2
                   \/ \E p \in {order[1], order[Len(order)]} : unlink(p)
<1> SUFFICES ASSUME LInv, [Next]_vars PROVE Safe \/ UNCHANGED vars
  OBVIOUS
<1>1. ASSUME NEW p \in Pages, insert_first(p) PROVE Safe
  BY <1>1 DEF insert_first
<1>2. ASSUME NEW p \in Pages, unlink(p) PROVE Safe
  BY <1>2, UnlinkLInv, Zenon
<1>3. CASE pop
  BY <1>3, PopLInv
<1>4. CASE pop_empty
  <2>1. m_head = nullptr /\ halted = "no"
    BY <1>4 DEF pop_empty
  <2>2. Len(order) \in Nat /\ (Len(order) # 0 => order[1] # nullptr)
    <3>1. Len(order) \in Nat /\ \A k \in 1..Len(order) : order[k] # nullptr
      BY OrderPlaces DEF LInv
    <3> QED
      BY <3>1
  <2>3. Len(order) = 0
    BY <2>1, <2>2 DEF LInv, Chain
  <2> QED
    BY <2>3
<1> QED
  BY <1>1, <1>2, <1>3, <1>4, Zenon DEF Next, Halted

\* On a list of two pages or more, pop never faults, and unlink faults at most
\* on the list's first or last page.
THEOREM InnerSafe == Spec => InnerOperationsSafe
<1>1. Init => LInv
  BY InitLInv
<1>2. LInv /\ [Next]_vars => LInv'
  BY StepLInv
<1> QED
  BY <1>1, <1>2, StepInner, PTL DEF Spec, InnerOperationsSafe
============================================================================
