---------------------------- MODULE PrintfProofs ----------------------------
(***************************************************************************)
(* Proofs about Printf, for every width of words and of int, every buffer  *)
(* that takes a word, and calls of any length: where in the format the     *)
(* parse can be, what it has put and which arguments it has taken by then, *)
(* and what each conversion stores.                                        *)
(***************************************************************************)
EXTENDS Printf, WellFoundedInduction, SequenceTheorems, FiniteSetTheorems, TLAPS

----------------------------------------------------------------------------
(* Induction, and functions defined by recursion. *)

\* Every nonempty set of natural numbers has a least element.
LEMMA Least ==
  ASSUME NEW T, T \subseteq Nat, T # {}
  PROVE  \E x \in T : \A y \in T : x <= y
<1> DEFINE R == OpToRel(<, Nat)
<1>1. IsWellFoundedOn(R, Nat)
  BY NatLessThanWellFounded, Zenon
<1>2. \A a, b \in Nat : a < b => <<a, b>> \in R
  BY DEF OpToRel
<1> HIDE DEF R
<1>3. PICK x \in T : \A y \in T : ~ (<<y, x>> \in R)
  BY <1>1, WFMin
<1>4. ASSUME NEW y \in T PROVE x <= y
  <2>1. x \in Nat /\ y \in Nat /\ ~ (<<y, x>> \in R)
    BY <1>3
  <2>2. ~(y < x)
    BY <1>2, <2>1
  <2> QED BY <2>1, <2>2
<1> QED BY <1>4

LEMMA SetInduction ==
  ASSUME NEW S, 0 \in S, \A n \in Nat : n \in S => n + 1 \in S
  PROVE  \A n \in Nat : n \in S
<1> DEFINE T == Nat \ S
<1> SUFFICES ASSUME T # {} PROVE FALSE
  OBVIOUS
<1>1. T \subseteq Nat
  OBVIOUS
<1> HIDE DEF T
<1>2. PICK x \in T : \A y \in T : x <= y
  BY <1>1, Least
<1>3. x \in Nat /\ x # 0
  BY <1>1 DEF T
<1>4. x - 1 \in Nat /\ ~(x <= x - 1) /\ (x - 1) + 1 = x
  BY <1>3
<1>5. x - 1 \notin T
  BY <1>2, <1>4
<1> QED BY <1>3, <1>4, <1>5 DEF T

\* f starts with b and goes on with step, n times.
Iterates(f, b, step, n) ==
  DOMAIN f = 0..n /\ f[0] = b /\ \A i \in 1..n : f[i] = step[<<f[i - 1], i>>]

LEMMA IterationExists ==
  ASSUME NEW Y, NEW b \in Y, NEW n \in Nat, NEW step,
         \A y \in Y, i \in 1..n : step[<<y, i>>] \in Y
  PROVE  \E f \in [0..n -> Y] : Iterates(f, b, step, n)
<1> DEFINE S == {m \in Nat : m <= n => \E f \in [0..m -> Y] : Iterates(f, b, step, m)}
<1>1. 0 \in S
  <2> DEFINE f == [i \in 0..0 |-> b]
  <2>1. f \in [0..0 -> Y] /\ Iterates(f, b, step, 0)
    BY DEF Iterates
  <2> HIDE DEF f
  <2> QED BY <2>1
<1>2. ASSUME NEW m \in Nat, m \in S PROVE m + 1 \in S
  <2> SUFFICES ASSUME m + 1 <= n
               PROVE  \E f \in [0..(m + 1) -> Y] : Iterates(f, b, step, m + 1)
    OBVIOUS
  <2>1. PICK g \in [0..m -> Y] : Iterates(g, b, step, m)
    BY <1>2
  <2> DEFINE f == [i \in 0..(m + 1) |-> IF i <= m THEN g[i] ELSE step[<<g[m], m + 1>>]]
  <2>2. g[m] \in Y /\ m + 1 \in 1..n
    OBVIOUS
  <2>3. step[<<g[m], m + 1>>] \in Y
    BY <2>2
  <2>4. /\ f \in [0..(m + 1) -> Y] /\ \A i \in 0..m : f[i] = g[i]
        /\ f[m + 1] = step[<<g[m], m + 1>>]
    BY <2>3
  <2> HIDE DEF f
  <2>5. ASSUME NEW i \in 1..(m + 1) PROVE f[i] = step[<<f[i - 1], i>>]
    <3>1. CASE i = m + 1
      <4>1. f[i - 1] = g[m]
        BY <2>4, <3>1
      <4> QED BY <2>4, <3>1, <4>1
    <3>2. CASE i <= m
      <4>1. i \in 1..m /\ i - 1 \in 0..m /\ i \in 0..m
        BY <3>2
      <4>2. g[i] = step[<<g[i - 1], i>>]
        BY <2>1, <4>1 DEF Iterates
      <4> QED BY <2>4, <4>1, <4>2
    <3> QED BY <3>1, <3>2
  <2>6. Iterates(f, b, step, m + 1)
    BY <2>1, <2>4, <2>5 DEF Iterates
  <2> QED BY <2>4, <2>6
<1> HIDE DEF S
<1>3. \A m \in Nat : m \in S
  BY <1>1, <1>2, SetInduction
<1> QED BY <1>3 DEF S

LEMMA IterationUnique ==
  ASSUME NEW b, NEW n \in Nat, NEW step, NEW f, Iterates(f, b, step, n),
         NEW m \in Nat, m <= n, NEW g, Iterates(g, b, step, m)
  PROVE  \A i \in 0..m : f[i] = g[i]
<1> DEFINE S == {i \in Nat : i <= m => f[i] = g[i]}
<1>1. 0 \in S
  BY DEF Iterates
<1>2. ASSUME NEW i \in Nat, i \in S PROVE i + 1 \in S
  <2> SUFFICES ASSUME i + 1 <= m PROVE f[i + 1] = g[i + 1]
    OBVIOUS
  <2>1. f[i] = g[i] /\ (i + 1) - 1 = i /\ i + 1 \in 1..n /\ i + 1 \in 1..m
    BY <1>2
  <2>2. /\ f[i + 1] = step[<<f[(i + 1) - 1], i + 1>>]
        /\ g[i + 1] = step[<<g[(i + 1) - 1], i + 1>>]
    BY <2>1 DEF Iterates
  <2> QED BY <2>1, <2>2
<1> HIDE DEF S
<1>3. \A i \in Nat : i \in S
  BY <1>1, <1>2, SetInduction
<1> QED BY <1>3 DEF S

----------------------------------------------------------------------------
(* Joining sequences. *)

\* The first n sequences of s in a row.
Joined(s, n) == FlattenSeq([j \in 1..n |-> s[j]])

LEMMA FlattenRuns ==
  ASSUME NEW X, NEW n \in Nat \ {0}, NEW s \in [1..n -> Seq(X)],
         NEW fl \in [1..n -> Seq(X)], fl[1] = s[1],
         \A i \in 2..n : fl[i] = fl[i - 1] \o s[i]
  PROVE  FlattenSeq(s) = fl[n]
<1>1. s \in Seq(Seq(X)) /\ Len(s) = n
  OBVIOUS
<1> DEFINE F(f) == [i \in 1..n |-> IF i = 1 THEN s[i] ELSE f[i - 1] \o s[i]]
           h == CHOOSE f : f = F(f)
<1>2. FlattenSeq(s) = h[n]
  BY <1>1 DEF FlattenSeq
<1>3. fl = F(fl)
  <2>1. ASSUME NEW i \in 1..n PROVE fl[i] = F(fl)[i]
    <3>1. CASE i = 1
      BY <3>1
    <3>2. CASE i # 1
      <4>1. i \in 2..n
        BY <3>2
      <4> QED BY <3>2, <4>1
    <3> QED BY <3>1, <3>2
  <2>2. fl = [i \in 1..n |-> fl[i]]
    OBVIOUS
  <2> QED BY <2>1, <2>2
<1>4. h = F(h)
  <2> HIDE DEF F
  <2> QED BY <1>3
<1>5. h[1] = s[1] /\ \A i \in 2..n : h[i] = h[i - 1] \o s[i]
  <2> HIDE DEF h
  <2>1. 1 \in 1..n
    OBVIOUS
  <2>2. F(h)[1] = s[1]
    BY <2>1
  <2>3. ASSUME NEW i \in 2..n PROVE F(h)[i] = h[i - 1] \o s[i]
    <3>1. i \in 1..n /\ ~(i = 1)
      OBVIOUS
    <3> QED BY <3>1, Zenon
  <2> HIDE DEF F
  <2> QED BY <1>4, <2>2, <2>3
<1> HIDE DEF h
<1> DEFINE S == {i \in Nat : i + 1 <= n => h[i + 1] = fl[i + 1]}
<1>6. 0 \in S
  BY <1>5
<1>7. ASSUME NEW i \in Nat, i \in S PROVE i + 1 \in S
  <2> SUFFICES ASSUME (i + 1) + 1 <= n PROVE h[(i + 1) + 1] = fl[(i + 1) + 1]
    OBVIOUS
  <2> DEFINE j == (i + 1) + 1
  <2>1. j \in 2..n /\ j - 1 = i + 1 /\ h[i + 1] = fl[i + 1]
    BY <1>7
  <2> HIDE DEF j
  <2>2. h[j] = h[j - 1] \o s[j] /\ fl[j] = fl[j - 1] \o s[j]
    BY <1>5, <2>1
  <2>3. h[j] = fl[j]
    BY <2>1, <2>2
  <2> QED BY <2>3 DEF j
<1> HIDE DEF S
<1>8. \A i \in Nat : i \in S
  BY <1>6, <1>7, SetInduction
<1>9. n - 1 \in S /\ (n - 1) + 1 = n
  BY <1>8
<1> QED BY <1>2, <1>9 DEF S

LEMMA JoinedIs ==
  ASSUME NEW X, NEW N \in Nat, NEW s \in [1..N -> Seq(X)]
  PROVE  /\ Joined(s, 0) = << >>
         /\ \A n \in 1..N : Joined(s, n) = Joined(s, n - 1) \o s[n]
         /\ \A n \in 0..N : Joined(s, n) \in Seq(X)
         /\ Joined(s, N) = FlattenSeq(s)
<1> DEFINE step == [q \in Seq(X) \X (1..N) |-> q[1] \o s[q[2]]]
<1>1. ASSUME NEW y \in Seq(X), NEW i \in 1..N
      PROVE  step[<<y, i>>] = y \o s[i] /\ step[<<y, i>>] \in Seq(X)
  <2>1. <<y, i>> \in Seq(X) \X (1..N) /\ s[i] \in Seq(X)
    OBVIOUS
  <2>2. step[<<y, i>>] = y \o s[i]
    BY <2>1
  <2>3. y \o s[i] \in Seq(X)
    BY <2>1
  <2> QED BY <2>2, <2>3
<1>2. << >> \in Seq(X)
  OBVIOUS
<1> HIDE DEF step
<1>3. PICK f \in [0..N -> Seq(X)] : Iterates(f, << >>, step, N)
  BY <1>1, <1>2, IterationExists, Zenon
<1>4. f[0] = << >> /\ \A i \in 1..N : f[i] = f[i - 1] \o s[i]
  <2>1. ASSUME NEW i \in 1..N PROVE f[i] = f[i - 1] \o s[i]
    <3>1. f[i - 1] \in Seq(X)
      OBVIOUS
    <3>2. f[i] = step[<<f[i - 1], i>>]
      BY <1>3 DEF Iterates
    <3> QED BY <1>1, <3>1, <3>2
  <2> QED BY <1>3, <2>1 DEF Iterates
<1>5. ASSUME NEW n \in 0..N PROVE Joined(s, n) = f[n]
  <2> DEFINE r == [j \in 1..n |-> s[j]]
  <2>1. CASE n = 0
    <3>1. r = << >> /\ Len(r) = 0
      BY <2>1
    <3> HIDE DEF r
    <3>2. FlattenSeq(r) = << >>
      BY <3>1 DEF FlattenSeq
    <3> QED BY <1>4, <2>1, <3>2 DEF Joined, r
  <2>2. CASE n # 0
    <3> DEFINE fl == [j \in 1..n |-> f[j]]
    <3>1. n \in Nat \ {0} /\ r \in [1..n -> Seq(X)] /\ fl \in [1..n -> Seq(X)]
      BY <2>2
    <3>2. fl[1] = r[1]
      <4>1. 1 \in 1..N /\ 1 \in 1..n /\ 1 - 1 = 0
        BY <2>2
      <4>2. f[1] = << >> \o s[1] /\ s[1] \in Seq(X)
        BY <1>4, <4>1
      <4> QED BY <4>1, <4>2
    <3>3. ASSUME NEW i \in 2..n PROVE fl[i] = fl[i - 1] \o r[i]
      <4>1. i \in 1..N /\ i \in 1..n /\ i - 1 \in 1..n
        OBVIOUS
      <4>2. f[i] = f[i - 1] \o s[i]
        BY <1>4, <4>1
      <4> QED BY <4>1, <4>2
    <3>4. fl[n] = f[n]
      BY <2>2
    <3> HIDE DEF r, fl
    <3>5. FlattenSeq(r) = fl[n]
      BY <3>1, <3>2, <3>3, FlattenRuns
    <3> QED BY <3>4, <3>5 DEF Joined, r
  <2> QED BY <2>1, <2>2
<1>6. ASSUME NEW n \in 1..N PROVE Joined(s, n) = Joined(s, n - 1) \o s[n]
  <2>1. n \in 0..N /\ n - 1 \in 0..N
    OBVIOUS
  <2>2. Joined(s, n) = f[n] /\ Joined(s, n - 1) = f[n - 1]
    BY <1>5, <2>1
  <2> QED BY <1>4, <2>2
<1>7. [j \in 1..N |-> s[j]] = s
  OBVIOUS
<1>8. Joined(s, N) = FlattenSeq(s)
  BY <1>7 DEF Joined
<1>9. Joined(s, 0) = << >>
  BY <1>4, <1>5
<1>10. ASSUME NEW n \in 0..N PROVE Joined(s, n) \in Seq(X)
  BY <1>5
<1> QED BY <1>6, <1>8, <1>9, <1>10

IteratesAll(f, b, step) ==
  f[0] = b /\ \A i \in Nat : f[i + 1] = step[<<f[i], i + 1>>]

LEMMA IterationTotal ==
  ASSUME NEW Y, NEW b \in Y, NEW step,
         \A y \in Y, i \in Nat : step[<<y, i>>] \in Y
  PROVE  \E f \in [Nat -> Y] : IteratesAll(f, b, step)
<1> DEFINE run(n) == CHOOSE f \in [0..n -> Y] : Iterates(f, b, step, n)
           g == [n \in Nat |-> run(n)[n]]
<1>1. ASSUME NEW n \in Nat PROVE run(n) \in [0..n -> Y] /\ Iterates(run(n), b, step, n)
  <2>1. ASSUME NEW y \in Y, NEW i \in 1..n PROVE step[<<y, i>>] \in Y
    <3>1. i \in Nat
      OBVIOUS
    <3> QED BY <3>1
  <2>2. \E f \in [0..n -> Y] : Iterates(f, b, step, n)
    BY <2>1, IterationExists
  <2> QED BY <2>2
<1> HIDE DEF run
<1>2. ASSUME NEW n \in Nat PROVE g[n] = run(n)[n] /\ g[n] \in Y
  <2>1. run(n) \in [0..n -> Y] /\ n \in 0..n
    BY <1>1
  <2> QED BY <2>1
<1>3. g \in [Nat -> Y]
  BY <1>2
<1> HIDE DEF g
<1>4. g[0] = b
  BY <1>1, <1>2 DEF Iterates
<1>5. ASSUME NEW i \in Nat PROVE g[i + 1] = step[<<g[i], i + 1>>]
  <2> DEFINE m == i + 1
  <2>1. m \in Nat /\ i <= m /\ m \in 1..m /\ m - 1 = i /\ i \in 0..i
    OBVIOUS
  <2>2. Iterates(run(m), b, step, m) /\ Iterates(run(i), b, step, i)
    BY <1>1, <2>1
  <2> HIDE DEF m
  <2>3. \A j \in 0..i : run(m)[j] = run(i)[j]
    BY <2>1, <2>2, IterationUnique
  <2>4. run(m)[m] = step[<<run(m)[m - 1], m>>]
    BY <2>1, <2>2 DEF Iterates
  <2>5. run(m)[i] = run(i)[i]
    BY <2>1, <2>3
  <2>6. g[m] = run(m)[m] /\ g[i] = run(i)[i]
    BY <1>2, <2>1
  <2>7. g[m] = step[<<g[i], m>>]
    BY <2>1, <2>4, <2>5, <2>6
  <2> QED BY <2>7 DEF m
<1> QED BY <1>3, <1>4, <1>5 DEF IteratesAll

----------------------------------------------------------------------------
(* Powers of two. *)

LEMMA Pow2Is ==
  /\ \A n \in Nat : Pow2[n] \in Nat \ {0}
  /\ Pow2[0] = 1
  /\ \A n \in Nat : Pow2[n + 1] = 2 * Pow2[n]
<1> DEFINE Y == Nat \ {0}
           step == [q \in Y \X Nat |-> 2 * q[1]]
           F(f) == [n \in Nat |-> IF n = 0 THEN 1 ELSE 2 * f[n - 1]]
<1>1. ASSUME NEW y \in Y, NEW i \in Nat PROVE step[<<y, i>>] = 2 * y /\ step[<<y, i>>] \in Y
  <2>1. <<y, i>> \in Y \X Nat
    OBVIOUS
  <2>2. step[<<y, i>>] = 2 * y
    BY <2>1
  <2>3. 2 * y \in Y
    OBVIOUS
  <2> QED BY <2>2, <2>3
<1> DEFINE one == 1
<1>2. one \in Y
  OBVIOUS
<1> HIDE DEF step, Y, one
<1>3. PICK f \in [Nat -> Y] : IteratesAll(f, one, step)
  <2>1. \A y \in Y, i \in Nat : step[<<y, i>>] \in Y
    BY <1>1, Zenon
  <2> QED BY <1>2, <2>1, IterationTotal, Zenon
<1>4. ASSUME NEW i \in Nat PROVE f[i + 1] = 2 * f[i]
  <2>1. f[i] \in Y /\ i + 1 \in Nat /\ f[i + 1] = step[<<f[i], i + 1>>]
    BY <1>3 DEF IteratesAll
  <2> QED BY <1>1, <2>1
<1>5. f = F(f)
  <2>1. ASSUME NEW n \in Nat PROVE f[n] = F(f)[n]
    <3>1. CASE n = 0
      BY <1>3, <3>1 DEF one, IteratesAll
    <3>2. CASE n # 0
      <4>1. n - 1 \in Nat /\ (n - 1) + 1 = n
        BY <3>2
      <4>2. f[n] = 2 * f[n - 1]
        BY <1>4, <4>1
      <4> QED BY <3>2, <4>2
    <3> QED BY <3>1, <3>2
  <2>2. f = [n \in Nat |-> f[n]]
    OBVIOUS
  <2> QED BY <2>1, <2>2
<1>6. Pow2 = CHOOSE h : h = F(h)
  BY DEF Pow2
<1>7. Pow2 = F(Pow2)
  <2> HIDE DEF F
  <2> QED BY <1>5, <1>6
<1>8. ASSUME NEW h, h = F(h)
      PROVE  h[0] = 1 /\ \A n \in Nat : h[n + 1] = 2 * h[n]
  <2>1. F(h)[0] = 1
    OBVIOUS
  <2>2. ASSUME NEW n \in Nat PROVE F(h)[n + 1] = 2 * h[n]
    <3>1. n + 1 \in Nat /\ ~(n + 1 = 0) /\ (n + 1) - 1 = n
      OBVIOUS
    <3> DEFINE m == n + 1
    <3>2. m \in Nat /\ ~(m = 0) /\ m - 1 = n
      BY <3>1
    <3> HIDE DEF m
    <3>3. F(h)[m] = 2 * h[m - 1]
      BY <3>2, Zenon
    <3> QED BY <3>2, <3>3 DEF m
  <2> HIDE DEF F
  <2> QED BY <1>8, <2>1, <2>2
<1>9. Pow2[0] = 1 /\ \A n \in Nat : Pow2[n + 1] = 2 * Pow2[n]
  <2> HIDE DEF F
  <2> QED BY <1>7, <1>8, Zenon
<1> DEFINE S == {n \in Nat : Pow2[n] \in Nat \ {0}}
<1>10. 0 \in S
  BY <1>9
<1>11. ASSUME NEW n \in Nat, n \in S PROVE n + 1 \in S
  <2>1. Pow2[n + 1] = 2 * Pow2[n] /\ Pow2[n] \in Nat \ {0}
    BY <1>9, <1>11
  <2> QED BY <2>1
<1> HIDE DEF S
<1>12. \A n \in Nat : n \in S
  BY <1>10, <1>11, SetInduction
<1> QED BY <1>9, <1>12 DEF S

LEMMA Pow2Grows ==
  ASSUME NEW m \in Nat, NEW n \in Nat, m <= n
  PROVE  Pow2[m] <= Pow2[n]
<1> DEFINE S == {d \in Nat : Pow2[m] <= Pow2[m + d]}
<1>1. 0 \in S
  BY Pow2Is
<1>2. ASSUME NEW d \in Nat, d \in S PROVE d + 1 \in S
  <2> DEFINE k == m + d
  <2>1. k \in Nat /\ m + (d + 1) = k + 1 /\ Pow2[m] <= Pow2[k]
    BY <1>2
  <2> HIDE DEF k
  <2>2. Pow2[k + 1] = 2 * Pow2[k] /\ Pow2[k] \in Nat /\ Pow2[m] \in Nat
    BY <2>1, Pow2Is
  <2>3. Pow2[m] <= Pow2[m + (d + 1)]
    BY <2>1, <2>2
  <2> QED BY <2>3
<1> HIDE DEF S
<1>3. \A d \in Nat : d \in S
  BY <1>1, <1>2, SetInduction
<1>4. n - m \in S /\ m + (n - m) = n
  BY <1>3
<1> QED BY <1>4 DEF S

----------------------------------------------------------------------------
(* Digits. *)

Bases == {2, 10, 16}

Decimals == {"0", "1", "2", "3", "4", "5", "6", "7", "8", "9"}
Hexadecimals == Decimals \cup {"A", "B", "C", "D", "E", "F"}

\* What vprintf reads and puts.
Chars ==
  Hexadecimals \cup {"a", "%", ".", ":", "-", "c", "d", "u", "x", "b", "p", "s", "z",
                     "Invalid printf specifier!!!"}

LEMMA ItemOf ==
  ASSUME NEW X, NEW s \in Seq(X), NEW i \in 1..Len(s)
  PROVE  s[i] \in X
OBVIOUS

LEMMA DigitIs ==
  ASSUME NEW d \in 0..15
  PROVE  Digit(d) \in Hexadecimals /\ Digit(d) \in Chars
<1>1. hex_digit_table \in Seq(Hexadecimals) /\ Len(hex_digit_table) = 16
  BY DEF hex_digit_table, Hexadecimals, Decimals
<1>2. d + 1 \in 1..Len(hex_digit_table)
  BY <1>1
<1>3. hex_digit_table[d + 1] \in Hexadecimals
  BY <1>1, <1>2, ItemOf
<1> QED BY <1>3 DEF Digit, Chars

LEMMA DivBy2 ==
  ASSUME NEW a \in Nat
  PROVE  /\ a \div 2 \in Nat /\ a % 2 \in 0..1
         /\ a = 2 * (a \div 2) + (a % 2)
         /\ a # 0 => a \div 2 < a
<1>1. a \div 2 \in Nat
  OBVIOUS
<1>2. a % 2 \in 0..1
  OBVIOUS
<1>3. a = 2 * (a \div 2) + (a % 2)
  OBVIOUS
<1>4. a # 0 => a \div 2 < a
  OBVIOUS
<1> QED BY <1>1, <1>2, <1>3, <1>4

LEMMA DivBy10 ==
  ASSUME NEW a \in Nat
  PROVE  /\ a \div 10 \in Nat /\ a % 10 \in 0..9
         /\ a = 10 * (a \div 10) + (a % 10)
         /\ a # 0 => a \div 10 < a
<1>1. a \div 10 \in Nat
  OBVIOUS
<1>2. a % 10 \in 0..9
  OBVIOUS
<1>3. a = 10 * (a \div 10) + (a % 10)
  OBVIOUS
<1>4. a # 0 => a \div 10 < a
  OBVIOUS
<1> QED BY <1>1, <1>2, <1>3, <1>4

LEMMA DivBy16 ==
  ASSUME NEW a \in Nat
  PROVE  /\ a \div 16 \in Nat /\ a % 16 \in 0..15
         /\ a = 16 * (a \div 16) + (a % 16)
         /\ a # 0 => a \div 16 < a
<1>1. a \div 16 \in Nat
  OBVIOUS
<1>2. a % 16 \in 0..15
  OBVIOUS
<1>3. a = 16 * (a \div 16) + (a % 16)
  OBVIOUS
<1>4. a # 0 => a \div 16 < a
  OBVIOUS
<1> QED BY <1>1, <1>2, <1>3, <1>4

LEMMA DivIs ==
  ASSUME NEW b \in Bases, NEW a \in Nat
  PROVE  /\ a \div b \in Nat /\ a % b \in 0..(b - 1) /\ a % b \in 0..15
         /\ a = b * (a \div b) + (a % b)
         /\ a # 0 => a \div b < a
<1>1. CASE b = 2
  BY <1>1, DivBy2
<1>2. CASE b = 10
  BY <1>2, DivBy10
<1>3. CASE b = 16
  BY <1>3, DivBy16
<1> QED BY <1>1, <1>2, <1>3 DEF Bases

LEMMA DivGrows ==
  ASSUME NEW b \in Bases, NEW a \in Nat, NEW c \in Nat, a <= c
  PROVE  a \div b <= c \div b
<1>1. CASE b = 2
  <2>1. a \div 2 <= c \div 2
    OBVIOUS
  <2> QED BY <1>1, <2>1
<1>2. CASE b = 10
  <2>1. a \div 10 <= c \div 10
    OBVIOUS
  <2> QED BY <1>2, <2>1
<1>3. CASE b = 16
  <2>1. a \div 16 <= c \div 16
    OBVIOUS
  <2> QED BY <1>3, <2>1
<1> QED BY <1>1, <1>2, <1>3 DEF Bases

\* One round of the recursion of DigitsOf.
MoreDigits(f, b) ==
  [a \in Nat |-> IF a = 0 THEN << >> ELSE Append(f[a \div b], Digit(a % b))]

LEMMA MoreDigitsIs ==
  ASSUME NEW b \in Bases, NEW f \in [Nat -> Seq(Chars)]
  PROVE  /\ MoreDigits(f, b) \in [Nat -> Seq(Chars)]
         /\ MoreDigits(f, b)[0] = << >>
         /\ \A a \in Nat \ {0} : MoreDigits(f, b)[a] = Append(f[a \div b], Digit(a % b))
<1>1. ASSUME NEW a \in Nat PROVE Append(f[a \div b], Digit(a % b)) \in Seq(Chars)
  <2>1. f[a \div b] \in Seq(Chars) /\ Digit(a % b) \in Chars
    BY DivIs, DigitIs
  <2> QED BY <2>1
<1>2. MoreDigits(f, b) \in [Nat -> Seq(Chars)]
  BY <1>1 DEF MoreDigits
<1>3. ASSUME NEW a \in Nat \ {0}
      PROVE  MoreDigits(f, b)[a] = Append(f[a \div b], Digit(a % b))
  BY DEF MoreDigits
<1>4. MoreDigits(f, b)[0] = << >>
  BY DEF MoreDigits
<1> QED BY <1>2, <1>3, <1>4

LEMMA DigitsExist ==
  ASSUME NEW b \in Bases
  PROVE  \E g \in [Nat -> Seq(Chars)] : g = MoreDigits(g, b)
<1> DEFINE Y == [Nat -> Seq(Chars)]
           none == [a \in Nat |-> << >>]
           step == [q \in Y \X Nat |-> MoreDigits(q[1], b)]
<1>1. none \in Y
  OBVIOUS
<1>2. ASSUME NEW y \in Y, NEW i \in Nat
      PROVE  step[<<y, i>>] = MoreDigits(y, b) /\ step[<<y, i>>] \in Y
  <2>1. <<y, i>> \in Y \X Nat
    OBVIOUS
  <2>2. step[<<y, i>>] = MoreDigits(y, b)
    BY <2>1
  <2> QED BY <2>2, MoreDigitsIs
<1>3. \A y \in Y, i \in Nat : step[<<y, i>>] \in Y
  BY <1>2, Zenon
<1> HIDE DEF step, none
<1>4. PICK f \in [Nat -> Y] : IteratesAll(f, none, step)
  <2> HIDE DEF Y
  <2> QED BY <1>1, <1>3, IterationTotal, Zenon
<1>5. ASSUME NEW i \in Nat
      PROVE  /\ f[i] \in Y /\ f[i][0] = << >>
             /\ \A a \in Nat \ {0} : f[i + 1][a] = Append(f[i][a \div b], Digit(a % b))
  <2>1. f[i] \in Y /\ i + 1 \in Nat /\ f[i + 1] = step[<<f[i], i + 1>>]
    <3> HIDE DEF Y
    <3> QED BY <1>4 DEF IteratesAll
  <2>2. f[i + 1] = MoreDigits(f[i], b)
    BY <1>2, <2>1
  <2>3. \A a \in Nat \ {0} : f[i + 1][a] = Append(f[i][a \div b], Digit(a % b))
    BY <2>1, <2>2, MoreDigitsIs
  <2>4. f[i][0] = << >>
    <3>1. CASE i = 0
      BY <1>4, <3>1 DEF IteratesAll, none
    <3>2. CASE i # 0
      <4> DEFINE j == i - 1
      <4>1. j \in Nat /\ j + 1 = i
        BY <3>2
      <4> HIDE DEF j
      <4>2. f[j] \in Y /\ j + 1 \in Nat /\ f[j + 1] = step[<<f[j], j + 1>>]
        BY <1>4, <4>1 DEF IteratesAll
      <4>3. f[j + 1] = MoreDigits(f[j], b)
        BY <1>2, <4>2
      <4> QED BY <4>1, <4>2, <4>3, MoreDigitsIs
    <3> QED BY <3>1, <3>2
  <2> QED BY <2>1, <2>3, <2>4
\* More rounds than a itself change nothing for a.
<1> DEFINE S == {k \in Nat : \A a \in 0..k, m \in Nat : m >= k => f[m][a] = f[k][a]}
<1>6. 0 \in S
  <2>1. ASSUME NEW a \in 0..0, NEW m \in Nat PROVE f[m][a] = f[0][a]
    <3>1. a = 0
      OBVIOUS
    <3>2. f[m][0] = << >> /\ f[0][0] = << >>
      BY <1>5
    <3> QED BY <3>1, <3>2
  <2> QED BY <2>1
<1>7. ASSUME NEW k \in Nat, k \in S PROVE k + 1 \in S
  <2>1. ASSUME NEW a \in 0..(k + 1), NEW m \in Nat, m >= k + 1 PROVE f[m][a] = f[k + 1][a]
    <3>1. CASE a = 0
      <4>1. k + 1 \in Nat
        OBVIOUS
      <4> QED BY <1>5, <3>1, <4>1
    <3>2. CASE a # 0
      <4> DEFINE l == m - 1
      <4>1. l \in Nat /\ l + 1 = m /\ l >= k /\ a \in Nat \ {0}
        BY <2>1, <3>2
      <4> HIDE DEF l
      <4>2. a \div b \in 0..k
        BY <3>2, DivIs
      <4>3. f[l][a \div b] = f[k][a \div b]
        BY <1>7, <4>1, <4>2
      <4>4. f[l + 1][a] = Append(f[l][a \div b], Digit(a % b))
        BY <1>5, <4>1
      <4>5. f[k + 1][a] = Append(f[k][a \div b], Digit(a % b))
        BY <1>5, <4>1
      <4> QED BY <4>1, <4>3, <4>4, <4>5
    <3> QED BY <3>1, <3>2
  <2>2. k + 1 \in Nat
    OBVIOUS
  <2> QED BY <2>1, <2>2
<1> HIDE DEF S
<1>8. \A k \in Nat : k \in S
  BY <1>6, <1>7, SetInduction
<1> DEFINE g == [a \in Nat |-> f[a][a]]
<1>9. ASSUME NEW a \in Nat PROVE g[a] = f[a][a] /\ f[a][a] \in Seq(Chars)
  <2>1. f[a] \in Y
    BY <1>5
  <2> QED BY <2>1
<1>10. g \in [Nat -> Seq(Chars)]
  BY <1>9
<1> HIDE DEF g
<1>11. g[0] = << >>
  <2>1. f[0][0] = << >>
    BY <1>5
  <2> QED BY <1>9, <2>1
<1>12. ASSUME NEW a \in Nat \ {0} PROVE g[a] = Append(g[a \div b], Digit(a % b))
  <2> DEFINE j == a - 1
             c == a \div b
  <2>1. j \in Nat /\ j + 1 = a /\ c \in Nat /\ c \in 0..c /\ j >= c /\ a \in Nat
    BY DivIs
  <2>2. f[j + 1][a] = Append(f[j][a \div b], Digit(a % b))
    BY <1>5, <2>1
  <2> HIDE DEF j
  <2>3. f[j][c] = f[c][c]
    <3> HIDE DEF c
    <3>1. c \in S
      BY <1>8, <2>1
    <3> QED BY <2>1, <3>1 DEF S
  <2>4. g[a] = f[a][a] /\ g[c] = f[c][c]
    <3> HIDE DEF c
    <3> QED BY <1>9, <2>1
  <2> QED BY <2>1, <2>2, <2>3, <2>4
<1>13. ASSUME NEW a \in Nat PROVE g[a] = MoreDigits(g, b)[a]
  <2>1. CASE a = 0
    BY <1>10, <1>11, <2>1, MoreDigitsIs
  <2>2. CASE a # 0
    <3>1. a \in Nat \ {0}
      BY <2>2
    <3> QED BY <1>10, <1>12, <3>1, MoreDigitsIs
  <2> QED BY <2>1, <2>2
<1>14. MoreDigits(g, b) \in [Nat -> Seq(Chars)]
  BY <1>10, MoreDigitsIs
<1>15. g = MoreDigits(g, b)
  BY <1>10, <1>13, <1>14
<1> QED BY <1>10, <1>15

\* What the digits of a number are: those of its quotient, and its remainder.
LEMMA DigitsOfIs ==
  ASSUME NEW b \in Bases, NEW n \in Nat
  PROVE  /\ DigitsOf(n, b) \in Seq(Chars)
         /\ n = 0 => DigitsOf(n, b) = << >>
         /\ n # 0 => DigitsOf(n, b) = Append(DigitsOf(n \div b, b), Digit(n % b))
<1> DEFINE h == CHOOSE f : f = MoreDigits(f, b)
<1>1. ASSUME NEW m \in Int PROVE DigitsOf(m, b) = IF m > 0 THEN h[m] ELSE << >>
  BY DEF DigitsOf, MoreDigits
<1>2. PICK g \in [Nat -> Seq(Chars)] : g = MoreDigits(g, b)
  BY DigitsExist
<1>3. h = MoreDigits(h, b)
  BY <1>2
<1> HIDE DEF h
<1>4. h[0] = << >> /\ \A a \in Nat \ {0} : h[a] = Append(h[a \div b], Digit(a % b))
  <2>1. MoreDigits(h, b)[0] = << >>
    BY DEF MoreDigits
  <2>2. ASSUME NEW a \in Nat \ {0}
        PROVE  MoreDigits(h, b)[a] = Append(h[a \div b], Digit(a % b))
    <3>1. a \in Nat /\ ~(a = 0)
      OBVIOUS
    <3> QED BY <3>1, Zenon DEF MoreDigits
  <2> QED BY <1>3, <2>1, <2>2
<1>4a. h[0] \in Seq(Chars)
  BY <1>4
<1> DEFINE S == {k \in Nat : \A a \in 0..k : h[a] \in Seq(Chars)}
<1>5. 0 \in S
  <2>1. ASSUME NEW a \in 0..0 PROVE a = 0
    OBVIOUS
  <2> QED BY <1>4a, <2>1
<1>6. ASSUME NEW k \in Nat, k \in S PROVE k + 1 \in S
  <2>1. ASSUME NEW a \in 0..(k + 1) PROVE h[a] \in Seq(Chars)
    <3>1. CASE a = 0
      BY <1>4a, <3>1
    <3>2. CASE a # 0
      <4>0. a \in Nat \ {0}
        BY <3>2
      <4>1. a \div b \in 0..k /\ Digit(a % b) \in Chars /\ a \in Nat \ {0}
        <5>1. a \div b \in Nat /\ a \div b < a /\ a % b \in 0..15
          BY <4>0, DivIs
        <5>2. Digit(a % b) \in Chars
          BY <5>1, DigitIs
        <5>3. a \div b \in 0..k
          BY <5>1
        <5> QED BY <4>0, <5>2, <5>3
      <4>2. h[a \div b] \in Seq(Chars)
        BY <1>6, <4>1
      <4>3. h[a] = Append(h[a \div b], Digit(a % b))
        BY <1>4, <4>1
      <4> QED BY <4>1, <4>2, <4>3
    <3> QED BY <3>1, <3>2
  <2> QED BY <2>1
<1> HIDE DEF S
<1>7. \A k \in Nat : k \in S
  BY <1>5, <1>6, SetInduction
<1>8. h[n] \in Seq(Chars)
  <2>1. n \in S /\ n \in 0..n
    BY <1>7
  <2> QED BY <2>1 DEF S
<1>9. CASE n = 0
  <2>1. DigitsOf(n, b) = << >> /\ << >> \in Seq(Chars)
    BY <1>1, <1>9
  <2> QED BY <1>9, <2>1, Zenon
<1>10. CASE n # 0
  <2> DEFINE c == n \div b
  <2>1. c \in Nat /\ n \in Nat \ {0} /\ n > 0
    BY <1>10, DivIs
  <2>2. h[n] = Append(h[c], Digit(n % b))
    BY <1>4, <2>1
  <2> HIDE DEF c
  <2>3. DigitsOf(c, b) = h[c]
    <3>1. CASE c = 0
      BY <1>1, <1>4, <3>1
    <3>2. CASE c # 0
      BY <1>1, <2>1, <3>2
    <3> QED BY <3>1, <3>2
  <2>4. DigitsOf(n, b) = h[n]
    BY <1>1, <2>1
  <2>5. DigitsOf(n, b) = Append(DigitsOf(c, b), Digit(n % b))
    BY <2>2, <2>3, <2>4
  <2> QED BY <1>8, <1>10, <2>4, <2>5 DEF c
<1> QED BY <1>9, <1>10

LEMMA CountIs ==
  ASSUME NEW b \in Bases, NEW n \in Nat
  PROVE  /\ Count(n, b) \in Nat
         /\ n = 0 => Count(n, b) = 0
         /\ n # 0 => Count(n, b) = Count(n \div b, b) + 1
<1>1. CASE n = 0
  BY <1>1, DigitsOfIs DEF Count
<1>2. CASE n # 0
  <2> DEFINE c == n \div b
             x == Digit(n % b)
  <2>1. c \in Nat /\ x \in Chars
    BY DivIs, DigitIs
  <2>2. DigitsOf(n, b) = Append(DigitsOf(c, b), x)
    BY <1>2, DigitsOfIs
  <2> HIDE DEF c, x
  <2>3. DigitsOf(c, b) \in Seq(Chars)
    BY <2>1, DigitsOfIs
  <2>4. Len(DigitsOf(n, b)) = Len(DigitsOf(c, b)) + 1 /\ Len(DigitsOf(n, b)) \in Nat
    BY <2>1, <2>2, <2>3
  <2> QED BY <1>2, <2>4 DEF Count, c
<1> QED BY <1>1, <1>2

\* A number below 2^k has at most k digits.
LEMMA CountBound ==
  ASSUME NEW b \in Bases, NEW k \in Nat, NEW n \in Nat, n < Pow2[k]
  PROVE  Count(n, b) <= k
<1> DEFINE S == {j \in Nat : \A m \in Nat : m < Pow2[j] => Count(m, b) <= j}
<1>1. 0 \in S
  <2>1. ASSUME NEW m \in Nat, m < Pow2[0] PROVE Count(m, b) <= 0
    <3>1. m = 0
      BY <2>1, Pow2Is
    <3>2. Count(m, b) = 0
      BY <3>1, CountIs
    <3> QED BY <3>2
  <2> QED BY <2>1
<1>2. ASSUME NEW j \in Nat, j \in S PROVE j + 1 \in S
  <2>1. ASSUME NEW m \in Nat, m < Pow2[j + 1] PROVE Count(m, b) <= j + 1
    <3>1. CASE m = 0
      <4>1. Count(m, b) = 0
        BY <3>1, CountIs
      <4> QED BY <4>1
    <3>2. CASE m # 0
      <4> DEFINE c == m \div b
      <4>1. c \in Nat /\ Count(m, b) = Count(c, b) + 1
        BY <3>2, CountIs, DivIs
      <4>2. m = b * c + (m % b) /\ m % b >= 0
        BY DivIs
      <4> HIDE DEF c
      <4>3. m >= 2 * c
        <5>1. CASE b = 2
          BY <4>1, <4>2, <5>1, DivIs
        <5>2. CASE b = 10
          BY <4>1, <4>2, <5>2, DivIs
        <5>3. CASE b = 16
          BY <4>1, <4>2, <5>3, DivIs
        <5> QED BY <5>1, <5>2, <5>3 DEF Bases
      <4>4. Pow2[j + 1] = 2 * Pow2[j] /\ Pow2[j] \in Nat
        BY Pow2Is
      <4>5. c < Pow2[j]
        BY <2>1, <4>1, <4>3, <4>4
      <4>6. Count(c, b) <= j
        BY <1>2, <4>1, <4>5
      <4>7. Count(c, b) \in Nat
        BY <4>1, CountIs
      <4> QED BY <4>1, <4>6, <4>7
    <3> QED BY <3>1, <3>2
  <2>2. j + 1 \in Nat
    OBVIOUS
  <2> QED BY <2>1, <2>2
<1> HIDE DEF S
<1>3. \A j \in Nat : j \in S
  BY <1>1, <1>2, SetInduction
<1> QED BY <1>3 DEF S

LEMMA CountGrows ==
  ASSUME NEW b \in Bases, NEW m \in Nat, NEW n \in Nat, m <= n
  PROVE  Count(m, b) <= Count(n, b)
<1> DEFINE S == {k \in Nat : \A y \in 0..k : \A x \in 0..y : Count(x, b) <= Count(y, b)}
<1>1. 0 \in S
  <2>1. ASSUME NEW y \in 0..0, NEW x \in 0..y PROVE Count(x, b) <= Count(y, b)
    <3>1. x = y /\ y \in Nat
      OBVIOUS
    <3>2. Count(y, b) \in Nat
      BY <3>1, CountIs
    <3> QED BY <3>1, <3>2
  <2> QED BY <2>1
<1>2. ASSUME NEW k \in Nat, k \in S PROVE k + 1 \in S
  <2>1. ASSUME NEW y \in 0..(k + 1), NEW x \in 0..y PROVE Count(x, b) <= Count(y, b)
    <3>1. x \in Nat /\ y \in Nat
      OBVIOUS
    <3>2. Count(x, b) \in Nat /\ Count(y, b) \in Nat
      BY <3>1, CountIs
    <3>3. CASE x = 0
      <4>1. Count(x, b) = 0
        BY <3>3, CountIs
      <4> QED BY <3>2, <4>1
    <3>4. CASE x # 0
      <4> DEFINE u == x \div b
                 v == y \div b
      <4>1. y # 0 /\ x <= y
        BY <3>4
      <4>2. u \in Nat /\ v \in Nat /\ v < y /\ u <= v
        BY <3>1, <4>1, DivIs, DivGrows
      <4>3. Count(x, b) = Count(u, b) + 1 /\ Count(y, b) = Count(v, b) + 1
        BY <3>1, <3>4, <4>1, CountIs
      <4> HIDE DEF u, v
      <4>4. v \in 0..k /\ u \in 0..v
        BY <4>2
      <4>5. Count(u, b) <= Count(v, b)
        BY <1>2, <4>4
      <4>6. Count(u, b) \in Nat /\ Count(v, b) \in Nat
        BY <4>2, CountIs
      <4> QED BY <4>3, <4>5, <4>6
    <3> QED BY <3>3, <3>4
  <2> QED BY <2>1
<1> HIDE DEF S
<1>3. \A k \in Nat : k \in S
  BY <1>1, <1>2, SetInduction
<1>4. n \in S /\ n \in 0..n /\ m \in 0..n
  BY <1>3
<1> QED BY <1>4 DEF S

LEMMA DigitTable ==
  /\ Digit(0) = "0" /\ Digit(1) = "1" /\ Digit(2) = "2" /\ Digit(3) = "3" /\ Digit(4) = "4"
  /\ Digit(5) = "5" /\ Digit(6) = "6" /\ Digit(7) = "7" /\ Digit(8) = "8" /\ Digit(9) = "9"
BY DEF Digit, hex_digit_table

LEMMA DigitInjective ==
  ASSUME NEW d \in 0..9, NEW e \in 0..9, Digit(d) = Digit(e)
  PROVE  d = e
<1>1. d \in {0, 1, 2, 3, 4, 5, 6, 7, 8, 9} /\ e \in {0, 1, 2, 3, 4, 5, 6, 7, 8, 9}
  OBVIOUS
<1> QED BY <1>1, DigitTable

LEMMA DecimalDigitIs ==
  ASSUME NEW d \in 0..9
  PROVE  Digit(d) \in Decimals /\ IsDecimal(Digit(d)) /\ ValueOf(Digit(d)) = d
<1>1. d \in {0, 1, 2, 3, 4, 5, 6, 7, 8, 9}
  OBVIOUS
<1>2. Digit(d) \in Decimals
  BY <1>1, DigitTable DEF Decimals
<1>3. ValueOf(Digit(d)) \in 0..9 /\ Digit(d) = Digit(ValueOf(Digit(d)))
  BY DEF ValueOf
<1>4. ValueOf(Digit(d)) = d
  BY <1>3, DigitInjective
<1> QED BY <1>2, <1>4 DEF IsDecimal

LEMMA IsDecimalIs ==
  ASSUME NEW c
  PROVE  IsDecimal(c) <=> c \in Decimals
<1>1. ASSUME c \in Decimals PROVE \E d \in 0..9 : c = Digit(d)
  BY <1>1, DigitTable DEF Decimals
<1>2. ASSUME NEW d \in 0..9, c = Digit(d) PROVE c \in Decimals
  BY <1>2, DecimalDigitIs
<1> QED BY <1>1, <1>2 DEF IsDecimal

LEMMA DecimalDigits ==
  ASSUME NEW n \in Nat
  PROVE  DigitsOf(n, 10) \in Seq(Decimals)
<1> DEFINE ten == 10
<1>0. ten \in Bases
  BY DEF Bases
<1>0a. ASSUME NEW a \in Nat PROVE a % ten \in 0..9
  BY DivBy10
<1> HIDE DEF ten
<1> DEFINE S == {k \in Nat : \A a \in 0..k : DigitsOf(a, ten) \in Seq(Decimals)}
<1>1. 0 \in S
  <2>1. ASSUME NEW a \in 0..0 PROVE DigitsOf(a, ten) \in Seq(Decimals)
    <3>1. DigitsOf(a, ten) = << >>
      BY <1>0, DigitsOfIs
    <3> QED BY <3>1
  <2> QED BY <2>1
<1>2. ASSUME NEW k \in Nat, k \in S PROVE k + 1 \in S
  <2>1. ASSUME NEW a \in 0..(k + 1) PROVE DigitsOf(a, ten) \in Seq(Decimals)
    <3>1. CASE a = 0
      <4>1. DigitsOf(a, ten) = << >>
        BY <1>0, <3>1, DigitsOfIs
      <4> QED BY <4>1
    <3>2. CASE a # 0
      <4> DEFINE c == a \div ten
      <4>1. c \in Nat /\ c < a /\ DigitsOf(a, ten) = Append(DigitsOf(c, ten), Digit(a % ten))
        BY <1>0, <3>2, DivIs, DigitsOfIs
      <4>2. Digit(a % ten) \in Decimals
        BY <1>0a, DecimalDigitIs
      <4> HIDE DEF c
      <4>3. c \in 0..k
        BY <4>1
      <4>4. DigitsOf(c, ten) \in Seq(Decimals)
        BY <1>2, <4>3
      <4> QED BY <4>1, <4>2, <4>4
    <3> QED BY <3>1, <3>2
  <2> QED BY <2>1
<1> HIDE DEF S
<1>3. \A k \in Nat : k \in S
  BY <1>1, <1>2, SetInduction
<1>4. n \in S /\ n \in 0..n
  BY <1>3
<1> QED BY <1>4 DEF S, ten

\* The value read so far.
Reads(f, s) ==
  DOMAIN f = 0 .. Len(s) /\ f[0] = 0 /\ \A i \in 1 .. Len(s) : f[i] = f[i - 1] * 10 + ValueOf(s[i])

LEMMA ReadDecimalIs ==
  ASSUME NEW s \in Seq(Decimals)
  PROVE  \E f \in [0 .. Len(s) -> Nat] : Reads(f, s) /\ ReadDecimal(s) = f[Len(s)]
<1> DEFINE n == Len(s)
           step == [q \in Nat \X (1..n) |-> q[1] * 10 + ValueOf(s[q[2]])]
           F(f) == [i \in 0..n |-> IF i = 0 THEN 0 ELSE f[i - 1] * 10 + ValueOf(s[i])]
           h == CHOOSE f : f = F(f)
<1>1. n \in Nat
  OBVIOUS
<1>2. ASSUME NEW i \in 1..n PROVE ValueOf(s[i]) \in Nat
  <2>1. s[i] \in Decimals
    OBVIOUS
  <2>2. IsDecimal(s[i])
    BY <2>1, IsDecimalIs
  <2>3. ValueOf(s[i]) \in 0..9
    BY <2>2 DEF IsDecimal, ValueOf
  <2> QED BY <2>3
<1>3. ASSUME NEW y \in Nat, NEW i \in 1..n
      PROVE  step[<<y, i>>] = y * 10 + ValueOf(s[i]) /\ step[<<y, i>>] \in Nat
  <2>1. <<y, i>> \in Nat \X (1..n) /\ ValueOf(s[i]) \in Nat
    BY <1>2
  <2>2. step[<<y, i>>] = y * 10 + ValueOf(s[i])
    BY <2>1, Zenon
  <2> QED BY <2>1, <2>2
<1> DEFINE zero == 0
<1>4. zero \in Nat
  OBVIOUS
<1>5. ReadDecimal(s) = h[n]
  BY DEF ReadDecimal
<1> HIDE DEF step, n, zero
<1>6. PICK f \in [0..n -> Nat] : Iterates(f, zero, step, n)
  <2>1. \A y \in Nat, i \in 1..n : step[<<y, i>>] \in Nat
    BY <1>3, Zenon
  <2> QED BY <1>1, <1>4, <2>1, IterationExists, Zenon
<1>7. f[0] = 0 /\ \A i \in 1..n : f[i] = f[i - 1] * 10 + ValueOf(s[i])
  <2>1. ASSUME NEW i \in 1..n PROVE f[i] = f[i - 1] * 10 + ValueOf(s[i])
    <3>1. f[i - 1] \in Nat
      BY <1>1
    <3>2. f[i] = step[<<f[i - 1], i>>]
      BY <1>6 DEF Iterates
    <3> QED BY <1>3, <3>1, <3>2
  <2> QED BY <1>6, <2>1 DEF Iterates, zero
<1>8. f = F(f)
  <2>1. ASSUME NEW i \in 0..n PROVE f[i] = F(f)[i]
    <3>1. CASE i = 0
      BY <1>7, <3>1
    <3>2. CASE i # 0
      <4>1. i \in 1..n
        BY <1>1, <3>2
      <4> QED BY <1>7, <3>2, <4>1
    <3> QED BY <3>1, <3>2
  <2>2. f = [i \in 0..n |-> f[i]]
    OBVIOUS
  <2> QED BY <2>1, <2>2
<1>9. h = F(h)
  <2> HIDE DEF F
  <2> QED BY <1>8
<1> HIDE DEF h
<1>10. h[0] = 0 /\ \A i \in 1..n : h[i] = h[i - 1] * 10 + ValueOf(s[i])
  <2>1. F(h)[0] = 0
    BY <1>1
  <2>2. ASSUME NEW i \in 1..n PROVE F(h)[i] = h[i - 1] * 10 + ValueOf(s[i])
    <3>1. i \in 0..n /\ ~(i = 0)
      BY <1>1
    <3> QED BY <3>1, Zenon
  <2> HIDE DEF F
  <2> QED BY <1>9, <2>1, <2>2
<1> DEFINE S == {i \in Nat : i <= n => h[i] = f[i]}
<1>11. 0 \in S
  BY <1>7, <1>10
<1>12. ASSUME NEW i \in Nat, i \in S PROVE i + 1 \in S
  <2> SUFFICES ASSUME i + 1 <= n PROVE h[i + 1] = f[i + 1]
    OBVIOUS
  <2>1. i + 1 \in 1..n /\ (i + 1) - 1 = i /\ h[i] = f[i]
    BY <1>1, <1>12
  <2>2. /\ h[i + 1] = h[(i + 1) - 1] * 10 + ValueOf(s[i + 1])
        /\ f[i + 1] = f[(i + 1) - 1] * 10 + ValueOf(s[i + 1])
    BY <1>7, <1>10, <2>1
  <2> QED BY <2>1, <2>2
<1> HIDE DEF S
<1>13. \A i \in Nat : i \in S
  BY <1>11, <1>12, SetInduction
<1>14. h[n] = f[n]
  BY <1>1, <1>13 DEF S
<1>15. Reads(f, s)
  BY <1>7 DEF Reads, n
<1> QED BY <1>5, <1>14, <1>15 DEF n

LEMMA ReadsUnique ==
  ASSUME NEW s \in Seq(Decimals), NEW d \in Decimals,
         NEW f, Reads(f, s), NEW g, Reads(g, Append(s, d))
  PROVE  g[Len(s)] = f[Len(s)]
<1> DEFINE n == Len(s)
           t == Append(s, d)
<1>1. n \in Nat /\ Len(t) = n + 1 /\ \A i \in 1..n : t[i] = s[i]
  OBVIOUS
<1> HIDE DEF t
<1> DEFINE S == {i \in Nat : i <= n => g[i] = f[i]}
<1>2. 0 \in S
  BY DEF Reads
<1>3. ASSUME NEW i \in Nat, i \in S PROVE i + 1 \in S
  <2> SUFFICES ASSUME i + 1 <= n PROVE g[i + 1] = f[i + 1]
    OBVIOUS
  <2>1. i + 1 \in 1..n /\ i + 1 \in 1..(n + 1) /\ (i + 1) - 1 = i /\ g[i] = f[i]
    BY <1>1, <1>3
  <2>2. f[i + 1] = f[(i + 1) - 1] * 10 + ValueOf(s[i + 1])
    BY <2>1 DEF Reads
  <2>3. g[i + 1] = g[(i + 1) - 1] * 10 + ValueOf(t[i + 1])
    BY <1>1, <2>1 DEF Reads, t
  <2>4. t[i + 1] = s[i + 1]
    BY <1>1, <2>1
  <2> QED BY <2>1, <2>2, <2>3, <2>4
<1> HIDE DEF S
<1>4. \A i \in Nat : i \in S
  BY <1>2, <1>3, SetInduction
<1> QED BY <1>1, <1>4 DEF S

LEMMA ReadAppend ==
  ASSUME NEW s \in Seq(Decimals), NEW e \in 0..9
  PROVE  /\ ReadDecimal(s) \in Nat
         /\ ReadDecimal(Append(s, Digit(e))) = ReadDecimal(s) * 10 + e
<1> DEFINE d == Digit(e)
           t == Append(s, d)
           n == Len(s)
<1>1. d \in Decimals /\ ValueOf(d) = e
  BY DecimalDigitIs
<1> HIDE DEF d
<1>2. /\ t \in Seq(Decimals) /\ Len(t) = n + 1 /\ t[n + 1] = d
      /\ n \in Nat /\ n + 1 \in 1..(n + 1) /\ (n + 1) - 1 = n
  BY <1>1
<1> HIDE DEF t
<1>3. PICK f \in [0..Len(s) -> Nat] : Reads(f, s) /\ ReadDecimal(s) = f[Len(s)]
  BY ReadDecimalIs
<1>4. PICK g \in [0..Len(t) -> Nat] : Reads(g, t) /\ ReadDecimal(t) = g[Len(t)]
  BY <1>2, ReadDecimalIs
<1>5. g[n] = f[n]
  BY <1>1, <1>3, <1>4, ReadsUnique DEF t
<1>6. g[n + 1] = g[(n + 1) - 1] * 10 + ValueOf(t[n + 1])
  BY <1>2, <1>4 DEF Reads
<1>7. f[n] \in Nat
  BY <1>2, <1>3
<1>8. ReadDecimal(t) = ReadDecimal(s) * 10 + e
  BY <1>1, <1>2, <1>3, <1>4, <1>5, <1>6
<1> QED BY <1>3, <1>7, <1>8 DEF t, d

\* A padding is read as it was spelled.
LEMMA ReadDecimalOfDecimal ==
  ASSUME NEW p \in Nat
  PROVE  /\ Decimal(p) \in Seq(Decimals) /\ Decimal(p) \in Seq(Chars)
         /\ ReadDecimal(Decimal(p)) = p
<1>0. ReadDecimal(<< >>) = 0
  <2>1. << >> \in Seq(Decimals) /\ Len(<< >>) = 0
    OBVIOUS
  <2> DEFINE e == << >>
  <2> HIDE DEF e
  <2>2. PICK f \in [0..Len(e) -> Nat] : Reads(f, e) /\ ReadDecimal(e) = f[Len(e)]
    BY <2>1, ReadDecimalIs DEF e
  <2> QED BY <2>1, <2>2 DEF e, Reads
<1> DEFINE ten == 10
<1>1. ten \in Bases
  BY DEF Bases
<1>2. ASSUME NEW a \in Nat
      PROVE  a % ten \in 0..9 /\ a = (a \div ten) * 10 + (a % ten) /\ DigitsOf(a, ten) \in Seq(Decimals)
  BY DivBy10, DecimalDigits
<1> HIDE DEF ten
<1> DEFINE S == {k \in Nat : \A a \in 0..k : ReadDecimal(DigitsOf(a, ten)) = a}
<1>3. 0 \in S
  <2>1. ASSUME NEW a \in 0..0 PROVE ReadDecimal(DigitsOf(a, ten)) = a
    <3>1. DigitsOf(a, ten) = << >>
      BY <1>1, DigitsOfIs
    <3> QED BY <1>0, <3>1
  <2> QED BY <2>1
<1>4. ASSUME NEW k \in Nat, k \in S PROVE k + 1 \in S
  <2>1. ASSUME NEW a \in 0..(k + 1) PROVE ReadDecimal(DigitsOf(a, ten)) = a
    <3>1. CASE a = 0
      <4>1. DigitsOf(a, ten) = << >>
        BY <1>1, <3>1, DigitsOfIs
      <4> QED BY <1>0, <3>1, <4>1
    <3>2. CASE a # 0
      <4> DEFINE c == a \div ten
                 e == a % ten
      <4>0. a \in Nat
        OBVIOUS
      <4>1. c \in Nat /\ c < a /\ DigitsOf(a, ten) = Append(DigitsOf(c, ten), Digit(e))
        BY <1>1, <3>2, <4>0, DivIs, DigitsOfIs
      <4>2. e \in 0..9 /\ a = c * 10 + e
        BY <1>2, <4>0
      <4> HIDE DEF c, e
      <4>3. c \in 0..k
        BY <4>1
      <4>4. ReadDecimal(DigitsOf(c, ten)) = c /\ DigitsOf(c, ten) \in Seq(Decimals)
        BY <1>2, <1>4, <4>1, <4>3
      <4>5. ReadDecimal(Append(DigitsOf(c, ten), Digit(e))) = ReadDecimal(DigitsOf(c, ten)) * 10 + e
        BY <4>2, <4>4, ReadAppend
      <4> QED BY <4>1, <4>2, <4>4, <4>5
    <3> QED BY <3>1, <3>2
  <2> QED BY <2>1
<1> HIDE DEF S
<1>5. \A k \in Nat : k \in S
  BY <1>3, <1>4, SetInduction
<1>6. ASSUME NEW s, s \in Seq(Decimals) PROVE s \in Seq(Chars)
  <2>1. Decimals \subseteq Chars
    BY DEF Chars, Hexadecimals
  <2> QED BY <1>6, <2>1
<1>7. CASE p = 0
  <2>1. ReadDecimal(Append(<< >>, Digit(0))) = ReadDecimal(<< >>) * 10 + 0
    <3> DEFINE e == << >>
               z == 0
    <3>1. e \in Seq(Decimals) /\ z \in 0..9
      OBVIOUS
    <3> HIDE DEF e, z
    <3>2. ReadDecimal(Append(e, Digit(z))) = ReadDecimal(e) * 10 + z
      BY <3>1, ReadAppend
    <3> QED BY <3>2 DEF e, z
  <2>2. Append(<< >>, Digit(0)) = <<"0">>
    BY DigitTable
  <2>3. Decimal(p) = <<"0">>
    BY <1>7 DEF Decimal
  <2>4. <<"0">> \in Seq(Decimals)
    BY DEF Decimals
  <2>5. ReadDecimal(<<"0">>) = 0
    BY <1>0, <2>1, <2>2
  <2> QED BY <1>6, <1>7, <2>3, <2>4, <2>5
<1>8. CASE p # 0
  <2>1. Decimal(p) = DigitsOf(p, ten)
    BY <1>8 DEF Decimal, ten
  <2>2. p \in S /\ p \in 0..p
    BY <1>5
  <2>3. ReadDecimal(DigitsOf(p, ten)) = p
    BY <2>2 DEF S
  <2> QED BY <1>2, <1>6, <2>1, <2>3
<1> QED BY <1>7, <1>8

----------------------------------------------------------------------------
(* Where the parts are in what is joined from them. *)

LEMMA JoinedLen ==
  ASSUME NEW X, NEW N \in Nat, NEW s \in [1..N -> Seq(X)]
  PROVE  /\ Len(Joined(s, 0)) = 0
         /\ \A n \in 0..N : Len(Joined(s, n)) \in Nat
         /\ \A n \in 1..N : /\ Len(s[n]) \in Nat
                            /\ Len(Joined(s, n)) = Len(Joined(s, n - 1)) + Len(s[n])
<1>1. ASSUME NEW n \in 0..N PROVE Len(Joined(s, n)) \in Nat
  <2>1. Joined(s, n) \in Seq(X)
    BY JoinedIs
  <2> QED BY <2>1
<1>2. ASSUME NEW n \in 1..N
      PROVE  Len(s[n]) \in Nat /\ Len(Joined(s, n)) = Len(Joined(s, n - 1)) + Len(s[n])
  <2>1. n - 1 \in 0..N
    OBVIOUS
  <2>2. Joined(s, n) = Joined(s, n - 1) \o s[n] /\ Joined(s, n - 1) \in Seq(X) /\ s[n] \in Seq(X)
    BY <2>1, JoinedIs
  <2> QED BY <2>2
<1>3. Len(Joined(s, 0)) = 0
  <2>1. Joined(s, 0) = << >>
    BY JoinedIs
  <2> QED BY <2>1
<1> QED BY <1>1, <1>2, <1>3

\* What is joined first stays where it is.
LEMMA JoinedPrefix ==
  ASSUME NEW X, NEW N \in Nat, NEW s \in [1..N -> Seq(X)], NEW m \in 0..N, NEW n \in m..N
  PROVE  /\ Len(Joined(s, m)) <= Len(Joined(s, n))
         /\ \A i \in 1..Len(Joined(s, m)) : Joined(s, n)[i] = Joined(s, m)[i]
<1> DEFINE P(k) == /\ Len(Joined(s, m)) <= Len(Joined(s, k))
                   /\ \A i \in 1..Len(Joined(s, m)) : Joined(s, k)[i] = Joined(s, m)[i]
           S == {d \in Nat : m + d <= N => P(m + d)}
<1>1. Joined(s, m) \in Seq(X) /\ Len(Joined(s, m)) \in Nat
  BY JoinedIs, JoinedLen
<1>2. 0 \in S
  BY <1>1
<1>3. ASSUME NEW d \in Nat, d \in S PROVE d + 1 \in S
  <2> SUFFICES ASSUME m + (d + 1) <= N PROVE P(m + (d + 1))
    OBVIOUS
  <2> DEFINE k == m + d
             l == m + (d + 1)
  <2>1. k \in 0..N /\ l \in 1..N /\ l - 1 = k
    OBVIOUS
  <2>2. P(k)
    BY <1>3
  <2> HIDE DEF k, l
  <2>3. Joined(s, l) = Joined(s, k) \o s[l] /\ Joined(s, k) \in Seq(X) /\ s[l] \in Seq(X)
    BY <2>1, JoinedIs
  <2>4. P(l)
    BY <1>1, <2>2, <2>3
  <2> QED BY <2>4 DEF l
<1> HIDE DEF S
<1>4. \A d \in Nat : d \in S
  BY <1>2, <1>3, SetInduction
<1>5. n - m \in S /\ m + (n - m) = n
  BY <1>4
<1> HIDE DEF P
<1>6. P(n)
  BY <1>5 DEF S
<1> QED BY <1>6 DEF P

LEMMA JoinedAt ==
  ASSUME NEW X, NEW N \in Nat, NEW s \in [1..N -> Seq(X)], NEW n \in 1..N, NEW j \in 1..Len(s[n])
  PROVE  FlattenSeq(s)[Len(Joined(s, n - 1)) + j] = s[n][j]
<1> DEFINE a == Joined(s, n - 1)
           p == Len(a) + j
<1>1. n - 1 \in 0..N /\ n \in 0..N /\ N \in n..N
  OBVIOUS
<1>2. a \in Seq(X) /\ s[n] \in Seq(X) /\ Joined(s, n) = a \o s[n] /\ Joined(s, N) = FlattenSeq(s)
  BY <1>1, JoinedIs
<1> HIDE DEF a
<1>3. p \in 1..Len(Joined(s, n)) /\ Joined(s, n)[p] = s[n][j]
  BY <1>2
<1>4. \A i \in 1..Len(Joined(s, n)) : Joined(s, N)[i] = Joined(s, n)[i]
  BY <1>1, JoinedPrefix
<1> HIDE DEF p
<1>5. Joined(s, N)[p] = Joined(s, n)[p]
  BY <1>3, <1>4
<1> QED BY <1>2, <1>3, <1>5 DEF a, p

----------------------------------------------------------------------------
(* Tokens and their spelling. *)

Runs == {<<"a">>, <<".">>, <<".", ":">>, <<".", ":", "7">>, <<"7">>}
Specs == Consuming \cup {"%", "z"}

LEMMA RunIs ==
  ASSUME NEW r \in Runs
  PROVE  /\ r \in Seq(Chars) /\ Len(r) \in 1..3
         /\ \A j \in 1..Len(r) : r[j] \notin {"%", "NUL"}
         /\ r[1] \in {"a", ".", "7"}
<1>1. CASE r = <<"a">>
  BY <1>1 DEF Chars
<1>2. CASE r = <<".">>
  BY <1>2 DEF Chars
<1>3. CASE r = <<".", ":">>
  BY <1>3 DEF Chars
<1>4. CASE r = <<".", ":", "7">>
  BY <1>4 DEF Chars, Hexadecimals, Decimals
<1>5. CASE r = <<"7">>
  BY <1>5 DEF Chars, Hexadecimals, Decimals
<1> QED BY <1>1, <1>2, <1>3, <1>4, <1>5 DEF Runs

LEMMA TokenIs ==
  ASSUME NEW t \in Tokens
  PROVE  \/ /\ t.spec = "text" /\ t.run \in Runs /\ t.padding = NoPadding
         \/ /\ t.spec = "lone" /\ t.padding = NoPadding
         \/ /\ t.spec \in Specs /\ t.padding \in Paddings \cup {NoPadding}
            /\ t.word \in Words \cup {0}
<1>1. CASE t \in {Text(r) : r \in Runs}
  BY <1>1 DEF Text
<1>2. CASE t \in {Directive(s, w, p) : s \in Consuming, w \in Words, p \in Paddings \cup {NoPadding}}
  <2>1. PICK s \in Consuming, w \in Words, p \in Paddings \cup {NoPadding} : t = Directive(s, w, p)
    BY <1>2
  <2> QED BY <2>1 DEF Directive, Specs
<1>3. CASE t \in {Directive(s, 0, NoPadding) : s \in {"%", "z", "lone"}}
  <2>1. PICK s \in {"%", "z", "lone"} : t = Directive(s, 0, NoPadding)
    BY <1>3
  <2> QED BY <2>1 DEF Directive, Specs
<1> QED BY <1>1, <1>2, <1>3 DEF Tokens, Runs

LEMMA PairIs ==
  ASSUME NEW X, NEW a \in X, NEW b \in X
  PROVE  <<a, b>> \in Seq(X) /\ Len(<<a, b>>) = 2 /\ <<a, b>>[1] = a /\ <<a, b>>[2] = b
OBVIOUS

LEMMA CharsAre == {"%", ".", ":", "-", "a", "0", "1", "7", "x", "b"} \subseteq Chars
BY DEF Chars, Hexadecimals, Decimals

LEMMA PaddingIs ==
  ASSUME NEW p \in Paddings \cup {NoPadding}, p # NoPadding
  PROVE  p \in Nat
BY PrintfAssumption

LEMMA SpecIs ==
  ASSUME NEW c \in Specs
  PROVE  c \in Chars /\ c \notin {"text", "lone", "NUL"}
BY DEF Specs, Consuming, Chars

LEMMA TextSpelling ==
  ASSUME NEW t \in Tokens, t.spec = "text"
  PROVE  Spelling(t) = t.run /\ t.run \in Runs
<1>1. t.run \in Runs
  BY TokenIs, SpecIs
<1> QED BY <1>1 DEF Spelling

LEMMA LoneSpelling ==
  ASSUME NEW t \in Tokens, t.spec = "lone"
  PROVE  Spelling(t) = <<"%">>
BY DEF Spelling

LEMMA PlainSpelling ==
  ASSUME NEW t \in Tokens, t.spec \in Specs, t.padding = NoPadding
  PROVE  Spelling(t) = <<"%", t.spec>>
<1>1. t.spec \notin {"text", "lone"} /\ t.spec \in Chars
  BY SpecIs
<1>2. Spelling(t) = <<"%", t.spec>> \o << >>
  BY <1>1 DEF Spelling
<1>3. <<"%", t.spec>> \in Seq(Chars)
  BY <1>1, CharsAre, PairIs
<1> QED BY <1>2, <1>3

LEMMA PaddedSpelling ==
  ASSUME NEW t \in Tokens, t.spec \in Specs, t.padding # NoPadding
  PROVE  /\ t.padding \in Nat
         /\ Spelling(t) \in Seq(Chars)
         /\ Len(Decimal(t.padding)) \in Nat
         /\ Len(Spelling(t)) = 4 + Len(Decimal(t.padding))
         /\ Spelling(t)[1] = "%" /\ Spelling(t)[2] = t.spec
         /\ Spelling(t)[3] = "." /\ Spelling(t)[4] = ":"
         /\ \A j \in 1..Len(Decimal(t.padding)) : Spelling(t)[4 + j] = Decimal(t.padding)[j]
<1> DEFINE c == t.spec
           d == Decimal(t.padding)
           u == <<"%", c>>
           v == <<".", ":">>
<1>1. c \notin {"text", "lone"} /\ c \in Chars
  BY SpecIs
<1>2. Spelling(t) = u \o (v \o d)
  BY <1>1 DEF Spelling
<1>3. t.padding \in Nat
  BY TokenIs, SpecIs, PaddingIs
<1>4. d \in Seq(Chars)
  BY <1>3, ReadDecimalOfDecimal
<1>5. u \in Seq(Chars) /\ Len(u) = 2 /\ u[1] = "%" /\ u[2] = c
  <2> HIDE DEF c
  <2> QED BY <1>1, CharsAre, PairIs
<1>6. v \in Seq(Chars) /\ Len(v) = 2 /\ v[1] = "." /\ v[2] = ":"
  BY CharsAre, PairIs
<1> DEFINE w == v \o d
<1> HIDE DEF d, u, v, w
<1>7. /\ w \in Seq(Chars) /\ Len(w) = Len(v) + Len(d) /\ Len(d) \in Nat
      /\ \A i \in 1..Len(v) : w[i] = v[i]
      /\ \A i \in 1..Len(d) : w[Len(v) + i] = d[i]
  <2>1. v \in Seq(Chars) /\ d \in Seq(Chars)
    BY <1>4, <1>6
  <2> QED BY <2>1 DEF w
<1>8. w[1] = "." /\ w[2] = ":" /\ \A j \in 1..Len(d) : w[2 + j] = d[j]
  BY <1>6, <1>7
<1>9. /\ u \o w \in Seq(Chars) /\ Len(u \o w) = Len(u) + Len(w)
      /\ \A i \in 1..Len(u) : (u \o w)[i] = u[i]
      /\ \A i \in 1..Len(w) : (u \o w)[Len(u) + i] = w[i]
  <2>1. u \in Seq(Chars) /\ w \in Seq(Chars)
    BY <1>5, <1>7
  <2> QED BY <2>1
<1> DEFINE z == u \o w
<1>9a. z = Spelling(t)
  BY <1>2 DEF w
<1> HIDE DEF z
<1>10. /\ z \in Seq(Chars) /\ Len(z) = 4 + Len(d) /\ z[1] = "%" /\ z[2] = c
       /\ \A i \in 1..Len(w) : z[2 + i] = w[i]
  <2>1. 1 \in 1..Len(u) /\ 2 \in 1..Len(u)
    BY <1>5
  <2> QED BY <1>5, <1>6, <1>7, <1>9, <2>1 DEF z
<1>11. Len(w) = 2 + Len(d)
  BY <1>6, <1>7
<1>12. 1 \in 1..Len(w) /\ 2 \in 1..Len(w)
  BY <1>7, <1>11
<1>13. z[3] = "." /\ z[4] = ":"
  <2>1. z[2 + 1] = w[1] /\ z[2 + 2] = w[2]
    BY <1>10, <1>12
  <2> QED BY <1>8, <2>1
<1>14. ASSUME NEW j \in 1..Len(d) PROVE z[4 + j] = d[j]
  <2>1. 2 + j \in 1..Len(w) /\ 2 + (2 + j) = 4 + j
    BY <1>7, <1>11
  <2>2. z[2 + (2 + j)] = w[2 + j]
    BY <1>10, <2>1
  <2> QED BY <1>8, <2>1, <2>2
<1> QED BY <1>3, <1>7, <1>9a, <1>10, <1>13, <1>14 DEF d

\* A token is spelled with at least one character; only a % begins a directive.
LEMMA SpellingIs ==
  ASSUME NEW t \in Tokens
  PROVE  /\ Spelling(t) \in Seq(Chars) /\ Len(Spelling(t)) \in Nat \ {0}
         /\ t.spec # "text" => Spelling(t)[1] = "%"
         /\ t.spec = "text" => Spelling(t)[1] \in {"a", ".", "7"}
         /\ t.spec = "text" => \A j \in 1..Len(Spelling(t)) : Spelling(t)[j] # "%"
         /\ t.spec \in Specs => Len(Spelling(t)) >= 2 /\ Spelling(t)[2] = t.spec
         /\ t.spec = "lone" => Len(Spelling(t)) = 1
<1>1. CASE t.spec = "text"
  <2>1. Spelling(t) = t.run /\ t.run \in Runs
    BY <1>1, TextSpelling
  <2>2. t.run \in Seq(Chars) /\ Len(t.run) \in Nat \ {0}
    BY <2>1, RunIs
  <2>3. t.run[1] \in {"a", ".", "7"} /\ \A j \in 1..Len(t.run) : t.run[j] # "%"
    BY <2>1, RunIs
  <2>4. t.spec \notin Specs
    BY <1>1, SpecIs
  <2> QED BY <1>1, <2>1, <2>2, <2>3, <2>4
<1>2. CASE t.spec = "lone"
  <2>1. Spelling(t) = <<"%">>
    BY <1>2, LoneSpelling
  <2>2. <<"%">> \in Seq(Chars) /\ Len(<<"%">>) = 1 /\ <<"%">>[1] = "%"
    BY DEF Chars
  <2>4. t.spec \notin Specs
    BY <1>2, SpecIs
  <2> QED BY <1>2, <2>1, <2>2, <2>4
<1>3. CASE t.spec \in Specs /\ t.padding = NoPadding
  <2>1. Spelling(t) = <<"%", t.spec>>
    BY <1>3, PlainSpelling
  <2>2. t.spec \in Chars /\ t.spec \notin {"text", "lone"}
    BY <1>3, SpecIs
  <2>3. <<"%", t.spec>> \in Seq(Chars) /\ Len(<<"%", t.spec>>) = 2
    BY <2>2, CharsAre, PairIs
  <2>4. <<"%", t.spec>>[1] = "%" /\ <<"%", t.spec>>[2] = t.spec
    OBVIOUS
  <2> QED BY <2>1, <2>2, <2>3, <2>4
<1>4. CASE t.spec \in Specs /\ t.padding # NoPadding
  <2>1. t.spec \notin {"text", "lone"}
    BY <1>4, SpecIs
  <2>2. /\ Spelling(t) \in Seq(Chars) /\ Spelling(t)[1] = "%" /\ Spelling(t)[2] = t.spec
        /\ Len(Decimal(t.padding)) \in Nat /\ Len(Spelling(t)) = 4 + Len(Decimal(t.padding))
    BY <1>4, PaddedSpelling
  <2> QED BY <2>1, <2>2
<1> QED BY <1>1, <1>2, <1>3, <1>4, TokenIs

----------------------------------------------------------------------------
(* Positions in the format. *)

\* How the tokens of a call are spelled, and where the k-th one starts.
Spellings(c) == [k \in DOMAIN c |-> Spelling(c[k])]
Start(c, k) == Len(Joined(Spellings(c), k - 1)) + 1

\* The character at i of a format f.
At(f, i) == IF i <= Len(f) THEN f[i] ELSE NUL

LEMMA CallIs ==
  ASSUME NEW c \in Calls
  PROVE  /\ Len(c) \in Nat /\ DOMAIN c = 1..Len(c) /\ \A k \in 1..Len(c) : c[k] \in Tokens
         /\ \A k \in 1 .. Len(c) - 1 : c[k].spec # "lone"
<1>1. PICK m \in 0..MaxTokens : c \in [1..m -> Tokens]
  BY DEF Calls, BoundedSeq, SeqOf
<1>2. m \in Nat /\ c \in Seq(Tokens) /\ Len(c) = m
  BY <1>1, PrintfAssumption
<1>3. \A k \in 1 .. Len(c) - 1 : c[k].spec # "lone"
  BY DEF Calls
<1> QED BY <1>1, <1>2, <1>3

LEMMA SpellingsAre ==
  ASSUME NEW c \in Calls
  PROVE  /\ Spellings(c) \in [1..Len(c) -> Seq(Chars)]
         /\ \A k \in 1..Len(c) : Spellings(c)[k] = Spelling(c[k])
<1>1. Len(c) \in Nat /\ DOMAIN c = 1..Len(c) /\ \A k \in 1..Len(c) : c[k] \in Tokens
  BY CallIs
<1>2. ASSUME NEW k \in 1..Len(c) PROVE Spelling(c[k]) \in Seq(Chars)
  BY <1>1, SpellingIs
<1> QED BY <1>1, <1>2 DEF Spellings

LEMMA Positions ==
  ASSUME NEW c \in Calls, NEW f, f = FlattenSeq(Spellings(c))
  PROVE  /\ f \in Seq(Chars) /\ Len(f) \in Nat
         /\ Start(c, 1) = 1 /\ Start(c, Len(c) + 1) = Len(f) + 1
         /\ \A k \in 1..Len(c) + 1 : Start(c, k) \in Nat \ {0} /\ Start(c, k) <= Len(f) + 1
         /\ \A k \in 1..Len(c) : Start(c, k + 1) = Start(c, k) + Len(Spelling(c[k]))
<1> DEFINE N == Len(c)
           s == Spellings(c)
<1>1. N \in Nat /\ s \in [1..N -> Seq(Chars)] /\ \A k \in 1..N : s[k] = Spelling(c[k])
  BY CallIs, SpellingsAre
<1> HIDE DEF N, s
<1>2. f = Joined(s, N) /\ f \in Seq(Chars)
  <2>1. N \in 0..N
    BY <1>1
  <2>2. Joined(s, N) = FlattenSeq(s) /\ Joined(s, N) \in Seq(Chars)
    BY <1>1, <2>1, JoinedIs
  <2> QED BY <2>2 DEF s
<1>3. /\ Len(Joined(s, 0)) = 0
      /\ \A n \in 0..N : Len(Joined(s, n)) \in Nat
      /\ \A n \in 1..N : Len(Joined(s, n)) = Len(Joined(s, n - 1)) + Len(s[n])
  BY <1>1, JoinedLen
<1>4. Start(c, 1) = 1
  BY <1>3 DEF Start, s
<1>5. Start(c, N + 1) = Len(f) + 1
  <2>1. (N + 1) - 1 = N
    BY <1>1
  <2> QED BY <1>2, <2>1 DEF Start, s
<1>6. ASSUME NEW k \in 1..N + 1 PROVE Start(c, k) \in Nat \ {0} /\ Start(c, k) <= Len(f) + 1
  <2> DEFINE m == k - 1
  <2>1. m \in 0..N /\ N \in m..N
    BY <1>1
  <2>2. Start(c, k) = Len(Joined(s, m)) + 1
    BY DEF Start, s
  <2> HIDE DEF m
  <2>3. Len(Joined(s, m)) \in Nat /\ Len(Joined(s, N)) \in Nat
    BY <1>1, <1>3, <2>1
  <2>4. Len(Joined(s, m)) <= Len(Joined(s, N))
    BY <1>1, <2>1, JoinedPrefix
  <2> QED BY <1>2, <2>2, <2>3, <2>4
<1>7. ASSUME NEW k \in 1..N PROVE Start(c, k + 1) = Start(c, k) + Len(Spelling(c[k]))
  <2>1. (k + 1) - 1 = k /\ k \in 0..N /\ k - 1 \in 0..N
    BY <1>1
  <2>2. Len(Joined(s, k)) = Len(Joined(s, k - 1)) + Len(s[k]) /\ s[k] = Spelling(c[k])
    BY <1>1, <1>3
  <2>3. Len(Joined(s, k)) \in Nat /\ Len(Joined(s, k - 1)) \in Nat
    BY <1>3, <2>1
  <2>4. Start(c, k + 1) = Len(Joined(s, k)) + 1 /\ Start(c, k) = Len(Joined(s, k - 1)) + 1
    BY <2>1 DEF Start, s
  <2>5. Len(Spelling(c[k])) \in Nat
    BY <1>1, <2>2
  <2> QED BY <2>2, <2>3, <2>4, <2>5
<1>8. Len(f) \in Nat
  BY <1>2
<1> QED BY <1>2, <1>4, <1>5, <1>6, <1>7, <1>8 DEF N

\* The k-th token is spelled from its start on.
LEMMA SpelledAt ==
  ASSUME NEW c \in Calls, NEW f, f = FlattenSeq(Spellings(c)),
         NEW k \in 1..Len(c), NEW i \in Nat, i < Len(Spelling(c[k]))
  PROVE  Start(c, k) + i <= Len(f) /\ At(f, Start(c, k) + i) = Spelling(c[k])[i + 1]
<1> DEFINE N == Len(c)
           s == Spellings(c)
           l == Len(Joined(s, k - 1))
           j == i + 1
<1>1. N \in Nat /\ s \in [1..N -> Seq(Chars)] /\ s[k] = Spelling(c[k])
  BY CallIs, SpellingsAre
<1>2. j \in 1..Len(s[k])
  BY <1>1
<1>3. f[l + j] = s[k][j]
  <2> HIDE DEF s, j, N
  <2> QED BY <1>1, <1>2, JoinedAt DEF s, N
<1>4. l \in Nat
  <2>1. k - 1 \in 0..N
    BY <1>1
  <2> HIDE DEF s, N
  <2> QED BY <1>1, <2>1, JoinedLen
<1>5. Start(c, k) = l + 1
  BY DEF Start
<1>6. Start(c, k + 1) <= Len(f) + 1 /\ Start(c, k + 1) = Start(c, k) + Len(Spelling(c[k])) /\ Len(f) \in Nat
  <2>1. k + 1 \in 1..N + 1
    BY <1>1
  <2> QED BY <2>1, Positions
<1>7. Len(Spelling(c[k])) \in Nat
  BY <1>1
<1> HIDE DEF l, s
<1>8. Start(c, k) + i <= Len(f) /\ Start(c, k) + i = l + j
  BY <1>4, <1>5, <1>6, <1>7
<1>9. f[Start(c, k) + i] = Spelling(c[k])[i + 1]
  BY <1>1, <1>3, <1>8
<1> QED BY <1>8, <1>9 DEF At

\* Each character belongs to a token.
LEMMA Covered ==
  ASSUME NEW c \in Calls, NEW f, f = FlattenSeq(Spellings(c)), NEW p \in 1..Len(f)
  PROVE  \E k \in 1..Len(c) : Start(c, k) <= p /\ p < Start(c, k + 1)
<1> DEFINE N == Len(c)
           T == {k \in Nat : k <= N /\ p < Start(c, k + 1)}
<1>1. N \in Nat /\ Len(f) \in Nat /\ Start(c, 1) = 1 /\ Start(c, N + 1) = Len(f) + 1
  BY CallIs, Positions
<1>2. T \subseteq Nat /\ N \in T
  BY <1>1
<1> HIDE DEF T
<1>3. PICK k \in T : \A y \in T : k <= y
  BY <1>2, Least
<1>4. k \in Nat /\ k <= N /\ p < Start(c, k + 1)
  BY <1>3 DEF T
<1>5. k # 0
  <2> SUFFICES ASSUME k = 0 PROVE FALSE
    OBVIOUS
  <2>1. k + 1 = 1
    OBVIOUS
  <2> QED BY <1>1, <1>4, <2>1
<1>6. k - 1 \in Nat /\ ~(k <= k - 1) /\ (k - 1) + 1 = k /\ k - 1 <= N /\ k \in 1..N /\ k \in 1..N + 1
  BY <1>1, <1>4, <1>5
<1>7. k - 1 \notin T
  BY <1>3, <1>6
<1>8. ~(p < Start(c, k))
  BY <1>6, <1>7 DEF T
<1>9. Start(c, k) \in Nat
  BY <1>6, Positions
<1> QED BY <1>4, <1>6, <1>8, <1>9

LEMMA StartGrows ==
  ASSUME NEW c \in Calls, NEW j \in 1..Len(c) + 1, NEW k \in j..Len(c) + 1
  PROVE  Start(c, j) <= Start(c, k)
<1> DEFINE N == Len(c)
           s == Spellings(c)
           m == j - 1
           n == k - 1
<1>1. N \in Nat /\ s \in [1..N -> Seq(Chars)]
  BY CallIs, SpellingsAre
<1>2. m \in 0..N /\ n \in m..N /\ n \in 0..N
  BY <1>1
<1>3. Start(c, j) = Len(Joined(s, m)) + 1 /\ Start(c, k) = Len(Joined(s, n)) + 1
  BY DEF Start
<1> HIDE DEF N, s, m, n
<1>4. Len(Joined(s, m)) <= Len(Joined(s, n))
  BY <1>1, <1>2, JoinedPrefix
<1>5. Len(Joined(s, m)) \in Nat /\ Len(Joined(s, n)) \in Nat
  BY <1>1, <1>2, JoinedLen
<1> QED BY <1>3, <1>4, <1>5

----------------------------------------------------------------------------
(* Every call, also one whose text reads as a padding. *)

\* p is inside of no directive.
Outside(c, p) ==
  \A k \in 1..Len(c) : c[k].spec \in Specs => p <= Start(c, k) \/ p >= Start(c, k + 1)

LEMMA OutsideStart ==
  ASSUME NEW c \in Calls, NEW k \in 1..Len(c) + 1
  PROVE  Outside(c, Start(c, k))
<1> SUFFICES ASSUME NEW j \in 1..Len(c)
             PROVE  Start(c, k) <= Start(c, j) \/ Start(c, k) >= Start(c, j + 1)
  BY DEF Outside
<1>0. Len(c) \in Nat
  BY CallIs
<1>1. CASE k <= j
  <2>1. j \in k..Len(c) + 1
    BY <1>0, <1>1
  <2> QED BY <2>1, StartGrows
<1>2. CASE k > j
  <2>1. j + 1 \in 1..Len(c) + 1 /\ k \in (j + 1)..Len(c) + 1
    BY <1>0, <1>2
  <2>2. Start(c, j + 1) <= Start(c, k)
    BY <2>1, StartGrows
  <2>3. Start(c, j + 1) \in Nat /\ Start(c, k) \in Nat
    BY <2>1, Positions
  <2> QED BY <2>2, <2>3
<1> QED BY <1>0, <1>1, <1>2

LEMMA OutsideStep ==
  ASSUME NEW c \in Calls, NEW f, f = FlattenSeq(Spellings(c)), NEW p \in 1..Len(f),
         Outside(c, p), At(f, p) # "%"
  PROVE  Outside(c, p + 1)
<1> SUFFICES ASSUME NEW k \in 1..Len(c), c[k].spec \in Specs
             PROVE  p + 1 <= Start(c, k) \/ p + 1 >= Start(c, k + 1)
  BY DEF Outside
<1>0. Len(c) \in Nat /\ c[k] \in Tokens
  BY CallIs
<1>1. p <= Start(c, k) \/ p >= Start(c, k + 1)
  BY DEF Outside
<1>2. Start(c, k) \in Nat /\ Start(c, k + 1) \in Nat
  <2>1. k \in 1..Len(c) + 1 /\ k + 1 \in 1..Len(c) + 1
    BY <1>0
  <2> QED BY <2>1, Positions
<1>3. p # Start(c, k)
  <2>1. Len(Spelling(c[k])) \in Nat \ {0} /\ Spelling(c[k])[1] = "%"
    BY <1>0, SpellingIs, SpecIs
  <2> DEFINE i == 0
  <2>2. i \in Nat /\ i < Len(Spelling(c[k]))
    BY <2>1
  <2>3. At(f, Start(c, k) + i) = Spelling(c[k])[i + 1]
    <3> HIDE DEF i
    <3> QED BY <2>2, SpelledAt
  <2>4. Start(c, k) + i = Start(c, k) /\ i + 1 = 1
    BY <1>2
  <2> QED BY <2>1, <2>3, <2>4
<1> QED BY <1>1, <1>2, <1>3

LEMMA OutsideRun ==
  ASSUME NEW c \in Calls, NEW f, f = FlattenSeq(Spellings(c)),
         NEW p \in 1..Len(f) + 1, NEW q \in p..Len(f) + 1, Outside(c, p),
         \A i \in p .. q - 1 : At(f, i) # "%"
  PROVE  Outside(c, q)
<1>0. Len(f) \in Nat
  BY Positions
<1> DEFINE S == {d \in Nat : p + d <= q => Outside(c, p + d)}
<1>1. 0 \in S
  <2>1. p + 0 = p
    BY <1>0
  <2> QED BY <2>1
<1>2. ASSUME NEW d \in Nat, d \in S PROVE d + 1 \in S
  <2> SUFFICES ASSUME p + (d + 1) <= q PROVE Outside(c, p + (d + 1))
    OBVIOUS
  <2> DEFINE i == p + d
  <2>1. i \in 1..Len(f) /\ i \in p .. q - 1 /\ p + (d + 1) = i + 1 /\ i <= q
    BY <1>0
  <2>2. Outside(c, i)
    BY <1>2, <2>1
  <2> HIDE DEF i
  <2>3. At(f, i) # "%"
    BY <2>1
  <2>4. Outside(c, i + 1)
    BY <2>1, <2>2, <2>3, OutsideStep
  <2> QED BY <2>1, <2>4
<1> HIDE DEF S
<1>3. \A d \in Nat : d \in S
  BY <1>1, <1>2, SetInduction
<1>4. q - p \in S /\ p + (q - p) = q /\ p + (q - p) <= q
  BY <1>0, <1>3
<1> QED BY <1>4 DEF S

\* A % that is inside of no directive is where a token starts.
LEMMA PercentStarts ==
  ASSUME NEW c \in Calls, NEW f, f = FlattenSeq(Spellings(c)), NEW p \in 1..Len(f),
         Outside(c, p), At(f, p) = "%"
  PROVE  \E k \in 1..Len(c) : p = Start(c, k) /\ c[k].spec \in Specs \cup {"lone"}
<1>1. PICK k \in 1..Len(c) : Start(c, k) <= p /\ p < Start(c, k + 1)
  BY Covered
<1>2. Len(c) \in Nat /\ c[k] \in Tokens
  BY CallIs
<1>3. /\ Start(c, k) \in Nat /\ Len(f) \in Nat
      /\ Start(c, k + 1) = Start(c, k) + Len(Spelling(c[k]))
  <2>1. k \in 1..Len(c) + 1
    BY <1>2
  <2> QED BY <2>1, Positions
<1>4. Len(Spelling(c[k])) \in Nat
  BY <1>2, SpellingIs
<1> DEFINE i == p - Start(c, k)
<1>5. i \in Nat /\ i < Len(Spelling(c[k])) /\ Start(c, k) + i = p
      /\ i + 1 \in 1..Len(Spelling(c[k]))
  BY <1>1, <1>3, <1>4
<1> HIDE DEF i
<1>6. At(f, Start(c, k) + i) = Spelling(c[k])[i + 1]
  BY <1>5, SpelledAt
<1>7. CASE c[k].spec = "text"
  <2>1. Spelling(c[k])[i + 1] # "%"
    BY <1>2, <1>5, <1>7, SpellingIs
  <2> QED BY <1>5, <1>6, <2>1
<1>8. CASE c[k].spec = "lone"
  <2>1. Len(Spelling(c[k])) = 1
    BY <1>2, <1>8, SpellingIs
  <2>2. i = 0
    BY <1>5, <2>1
  <2> QED BY <1>3, <1>5, <1>8, <2>2
<1>9. CASE c[k].spec \in Specs
  <2>1. p <= Start(c, k) \/ p >= Start(c, k + 1)
    BY <1>9 DEF Outside
  <2>2. p = Start(c, k)
    BY <1>1, <1>3, <1>4, <2>1
  <2> QED BY <1>9, <2>2
<1> QED BY <1>2, <1>7, <1>8, <1>9, TokenIs

LEMMA CharAtIs ==
  ASSUME NEW i
  PROVE  CharAt(i) = At(fmt, i)
BY DEF CharAt, At

LEMMA AtIs ==
  ASSUME NEW f \in Seq(Chars), NEW i \in Nat \ {0}
  PROVE  /\ i <= Len(f) => At(f, i) \in Chars /\ At(f, i) # NUL
         /\ i > Len(f) => At(f, i) = NUL
<1>1. NUL \notin Chars
  BY DEF NUL, Chars, Hexadecimals, Decimals
<1>2. CASE i <= Len(f)
  <2>1. f[i] \in Chars
    BY <1>2
  <2> QED BY <1>1, <1>2, <2>1 DEF At
<1>3. CASE i > Len(f)
  <2>1. ~(i <= Len(f))
    BY <1>3
  <2> QED BY <1>3, <2>1 DEF At
<1> QED BY <1>2, <1>3

LEMMA PaddingEndIs ==
  ASSUME fmt \in Seq(Chars), cur_char \in Nat, HasPadding
  PROVE  /\ PaddingEnd \in cur_char + 4 .. Len(fmt) + 1
         /\ ~IsDecimal(CharAt(PaddingEnd))
         /\ \A i \in cur_char + 4 .. PaddingEnd - 1 : IsDecimal(CharAt(i))
<1> DEFINE T == {e \in Nat : e >= cur_char + 4 /\ ~IsDecimal(CharAt(e))}
           m == Len(fmt) + 1
<1>0. Len(fmt) \in Nat
  OBVIOUS
<1>1. cur_char + 3 <= Len(fmt)
  <2>1. cur_char + 3 \in Nat \ {0} /\ At(fmt, cur_char + 3) = ":"
    BY CharAtIs DEF HasPadding
  <2>2. ":" # NUL
    BY DEF NUL
  <2>3. ~(cur_char + 3 > Len(fmt))
    BY <2>1, <2>2, AtIs
  <2> QED BY <1>0, <2>3
<1>2. ~IsDecimal(CharAt(m))
  <2>1. m \in Nat \ {0} /\ m > Len(fmt)
    BY <1>0
  <2>2. At(fmt, m) = NUL
    BY <2>1, AtIs
  <2>3. NUL \notin Decimals
    BY DEF NUL, Decimals
  <2> QED BY <2>2, <2>3, CharAtIs, IsDecimalIs
<1>3. T \subseteq Nat /\ m \in T
  BY <1>0, <1>1, <1>2
<1> HIDE DEF T, m
<1>4. PICK x \in T : \A y \in T : x <= y
  BY <1>3, Least
<1>5. x \in Nat /\ x >= cur_char + 4 /\ ~IsDecimal(CharAt(x)) /\ x <= m
  BY <1>3, <1>4 DEF T
<1>6. ASSUME NEW i \in cur_char + 4 .. x - 1 PROVE IsDecimal(CharAt(i))
  <2>1. i \in Nat /\ i >= cur_char + 4 /\ ~(x <= i)
    BY <1>5
  <2>2. i \notin T
    BY <1>4, <2>1
  <2> QED BY <2>1, <2>2 DEF T
<1>7. x \in cur_char + 4 .. Len(fmt) + 1
  BY <1>0, <1>5 DEF m
<1> DEFINE Q(e) == /\ ~IsDecimal(CharAt(e))
                   /\ \A i \in cur_char + 4 .. e - 1 : IsDecimal(CharAt(i))
<1>8. PaddingEnd = CHOOSE e \in cur_char + 4 .. Len(fmt) + 1 : Q(e)
  BY DEF PaddingEnd
<1>9. Q(x)
  BY <1>5, <1>6
<1> HIDE DEF Q
<1>10. PaddingEnd \in cur_char + 4 .. Len(fmt) + 1 /\ Q(PaddingEnd)
  BY <1>7, <1>8, <1>9
<1> QED BY <1>10 DEF Q

\* A directive at cur_char as it is spelled.
LEMMA DirectiveAt ==
  ASSUME call \in Calls, fmt = FlattenSeq(Spellings(call)), NEW k \in 1..Len(call),
         call[k].spec \in Specs, cur_char = Start(call, k)
  PROVE  /\ cur_char \in Nat \ {0} /\ Len(fmt) \in Nat /\ fmt \in Seq(Chars)
         /\ Start(call, k + 1) <= Len(fmt) + 1 /\ Start(call, k + 1) \in Nat
         /\ CharAt(cur_char) = "%" /\ CharAt(cur_char + 1) = call[k].spec
         /\ call[k].padding = NoPadding => Start(call, k + 1) = cur_char + 2
         /\ call[k].padding # NoPadding =>
              /\ HasPadding /\ call[k].padding \in Nat
              /\ Start(call, k + 1) = cur_char + 4 + Len(Decimal(call[k].padding))
              /\ Len(Decimal(call[k].padding)) \in Nat
              /\ \A j \in 1..Len(Decimal(call[k].padding)) :
                   CharAt(cur_char + 3 + j) = Decimal(call[k].padding)[j]
<1> DEFINE t == call[k]
           s == Spelling(t)
           D == Decimal(t.padding)
<1>1. Len(call) \in Nat /\ t \in Tokens
  BY CallIs
<1>2. /\ fmt \in Seq(Chars) /\ Len(fmt) \in Nat /\ cur_char \in Nat \ {0}
      /\ Start(call, k + 1) = cur_char + Len(s) /\ Start(call, k + 1) <= Len(fmt) + 1
      /\ Start(call, k + 1) \in Nat
  <2>1. k \in 1..Len(call) + 1 /\ k + 1 \in 1..Len(call) + 1
    BY <1>1
  <2> QED BY <2>1, Positions
<1>3. ASSUME NEW i \in Nat, i < Len(s) PROVE CharAt(cur_char + i) = s[i + 1]
  BY <1>3, SpelledAt, CharAtIs
<1>4. s \in Seq(Chars) /\ Len(s) \in Nat /\ s[1] = "%" /\ Len(s) >= 2 /\ s[2] = t.spec
  BY <1>1, SpellingIs, SpecIs
<1> HIDE DEF s, t, D
<1>5. CharAt(cur_char) = "%" /\ CharAt(cur_char + 1) = t.spec
  <2>1. CharAt(cur_char + 0) = s[0 + 1] /\ CharAt(cur_char + 1) = s[1 + 1]
    BY <1>3, <1>4
  <2>2. cur_char + 0 = cur_char
    BY <1>2
  <2> QED BY <1>4, <2>1, <2>2
<1>6. CASE t.padding = NoPadding
  <2>1. s = <<"%", t.spec>>
    BY <1>1, <1>6, PlainSpelling DEF s, t
  <2>2. Len(s) = 2
    BY <2>1
  <2> QED BY <1>2, <1>5, <1>6, <2>2 DEF t
<1>7. CASE t.padding # NoPadding
  <2>1. /\ t.padding \in Nat /\ Len(D) \in Nat /\ Len(s) = 4 + Len(D)
        /\ s[3] = "." /\ s[4] = ":"
        /\ \A j \in 1..Len(D) : s[4 + j] = D[j]
    BY <1>1, <1>7, PaddedSpelling DEF s, t, D
  <2>2. CharAt(cur_char + 2) = s[2 + 1] /\ CharAt(cur_char + 3) = s[3 + 1]
    BY <1>3, <2>1
  <2>3. HasPadding
    BY <2>1, <2>2 DEF HasPadding
  <2>4. ASSUME NEW j \in 1..Len(D) PROVE CharAt(cur_char + 3 + j) = D[j]
    <3>1. 3 + j \in Nat /\ 3 + j < Len(s) /\ (3 + j) + 1 = 4 + j /\ cur_char + (3 + j) = cur_char + 3 + j
      BY <1>2, <2>1
    <3>2. CharAt(cur_char + (3 + j)) = s[(3 + j) + 1]
      BY <1>3, <3>1
    <3> QED BY <2>1, <3>1, <3>2
  <2>5. Start(call, k + 1) = cur_char + 4 + Len(D)
    BY <1>2, <2>1
  <2> QED BY <1>2, <1>5, <1>7, <2>1, <2>3, <2>4, <2>5 DEF t, D
<1> QED BY <1>6, <1>7

\* The index behind a directive.
LEMMA AfterDirectiveOutside ==
  ASSUME call \in Calls, fmt = FlattenSeq(Spellings(call)), NEW k \in 1..Len(call),
         call[k].spec \in Specs, cur_char = Start(call, k)
  PROVE  AfterDirective \in 1..Len(fmt) + 1 /\ Outside(call, AfterDirective)
<1> DEFINE D == Decimal(call[k].padding)
           n == Start(call, k + 1)
<1>1. /\ cur_char \in Nat \ {0} /\ Len(fmt) \in Nat /\ fmt \in Seq(Chars)
      /\ n <= Len(fmt) + 1 /\ n \in Nat
      /\ call[k].padding = NoPadding => n = cur_char + 2
      /\ call[k].padding # NoPadding =>
              /\ HasPadding /\ call[k].padding \in Nat
              /\ n = cur_char + 4 + Len(D) /\ Len(D) \in Nat
              /\ \A j \in 1..Len(D) : CharAt(cur_char + 3 + j) = D[j]
  BY DirectiveAt
<1>2. Outside(call, n)
  <2>1. k + 1 \in 1..Len(call) + 1
    BY CallIs
  <2> QED BY <2>1, OutsideStart
<1> HIDE DEF D, n
<1>3. CASE ~HasPadding
  <2>1. AfterDirective = cur_char + 2
    BY <1>3 DEF AfterDirective
  <2>2. n = cur_char + 2
    BY <1>1, <1>3
  <2> QED BY <1>1, <1>2, <2>1, <2>2
<1>4. CASE HasPadding
  <2> DEFINE e == PaddingEnd
  <2>1. AfterDirective = e
    BY <1>4 DEF AfterDirective
  <2>2. /\ e \in cur_char + 4 .. Len(fmt) + 1 /\ ~IsDecimal(CharAt(e))
        /\ \A i \in cur_char + 4 .. e - 1 : IsDecimal(CharAt(i))
    BY <1>1, <1>4, PaddingEndIs
  <2> HIDE DEF e
  <2>3. n >= cur_char + 2
    BY <1>1
  <2>4. e >= n
    <3>1. CASE call[k].padding = NoPadding
      BY <1>1, <2>2, <3>1
    <3>2. CASE call[k].padding # NoPadding
      <4> SUFFICES ASSUME e < n PROVE FALSE
        BY <1>1, <2>2
      <4> DEFINE j == e - cur_char - 3
      <4>0. /\ cur_char \in Nat /\ e \in Nat /\ Len(D) \in Nat
            /\ n = cur_char + 4 + Len(D) /\ e >= cur_char + 4
        BY <1>1, <2>2, <3>2
      <4>1. j \in 1..Len(D) /\ cur_char + 3 + j = e
        BY <4>0
      <4> HIDE DEF j
      <4>2. CharAt(e) = D[j]
        BY <1>1, <3>2, <4>1
      <4>3. D \in Seq(Decimals)
        BY <1>1, <3>2, ReadDecimalOfDecimal DEF D
      <4>4. D[j] \in Decimals
        BY <4>1, <4>3
      <4> QED BY <2>2, <4>2, <4>4, IsDecimalIs
    <3> QED BY <3>1, <3>2
  <2>5. ASSUME NEW i \in n .. e - 1 PROVE At(fmt, i) # "%"
    <3>1. i \in Nat /\ i >= cur_char + 2 /\ i < e
      BY <1>1, <2>2, <2>3
    <3>2. CASE i = cur_char + 2
      BY <1>4, <3>2, CharAtIs DEF HasPadding
    <3>3. CASE i = cur_char + 3
      BY <1>4, <3>3, CharAtIs DEF HasPadding
    <3>4. CASE i >= cur_char + 4
      <4>1. i \in cur_char + 4 .. e - 1
        BY <1>1, <2>2, <3>1, <3>4
      <4>2. CharAt(i) \in Decimals
        BY <2>2, <4>1, IsDecimalIs
      <4>3. "%" \notin Decimals
        BY DEF Decimals
      <4> QED BY <4>2, <4>3, CharAtIs
    <3> QED BY <1>1, <3>1, <3>2, <3>3, <3>4
  <2>6. n \in 1..Len(fmt) + 1 /\ e \in n..Len(fmt) + 1 /\ e \in 1..Len(fmt) + 1
    BY <1>1, <2>2, <2>3, <2>4
  <2>7. Outside(call, e)
    BY <1>2, <2>5, <2>6, OutsideRun
  <2> QED BY <2>1, <2>6, <2>7
<1> QED BY <1>3, <1>4

----------------------------------------------------------------------------
(* Where vprintf reads. *)

\* The parse never stands inside of a directive, so each % it meets starts one.
ParseInv ==
  /\ call \in Calls /\ fmt = FlattenSeq(Spellings(call))
  /\ cur_char \in 1..Len(fmt) + 1 /\ Outside(call, cur_char)
  /\ ended = "past" => Last(call).spec = "lone"

LEMMA ParseInit == Init => ParseInv
<1> SUFFICES ASSUME Init PROVE ParseInv
  OBVIOUS
<1>1. /\ call \in Calls /\ cur_char = 1 /\ ended = "no"
      /\ fmt = FlattenSeq(Spellings(call))
  BY DEF Init, Spellings
<1>2. Len(fmt) \in Nat /\ Start(call, 1) = 1
  BY <1>1, Positions
<1>3. 1 \in 1..Len(call) + 1
  BY <1>1, CallIs
<1>4. Outside(call, Start(call, 1))
  <2> DEFINE one == 1
  <2>1. one \in 1..Len(call) + 1
    BY <1>3
  <2> HIDE DEF one
  <2>2. Outside(call, Start(call, one))
    BY <1>1, <2>1, OutsideStart
  <2> QED BY <2>2 DEF one
<1> QED BY <1>1, <1>2, <1>4 DEF ParseInv

LEMMA PercentAtToken ==
  ASSUME ParseInv, CharAt(cur_char) = "%"
  PROVE  \E k \in 1..Len(call) : cur_char = Start(call, k) /\ call[k].spec \in Specs \cup {"lone"}
<1>1. call \in Calls /\ fmt = FlattenSeq(Spellings(call)) /\ Outside(call, cur_char)
  BY DEF ParseInv
<1>2. fmt \in Seq(Chars) /\ Len(fmt) \in Nat /\ cur_char \in Nat \ {0} /\ cur_char <= Len(fmt) + 1
  BY <1>1, Positions DEF ParseInv
<1>3. At(fmt, cur_char) = "%"
  BY CharAtIs
<1>4. cur_char \in 1..Len(fmt)
  <2>1. "%" # NUL
    BY DEF NUL
  <2>2. ~(cur_char > Len(fmt))
    BY <1>2, <1>3, <2>1, AtIs
  <2> QED BY <1>2, <2>2
<1> QED BY <1>1, <1>3, <1>4, PercentStarts

\* A lone % is the last character of the format.
LEMMA LoneEnds ==
  ASSUME NEW c \in Calls, NEW f, f = FlattenSeq(Spellings(c)), NEW k \in 1..Len(c), c[k].spec = "lone"
  PROVE  k = Len(c) /\ Start(c, k) = Len(f)
<1>1. Len(c) \in Nat /\ c[k] \in Tokens /\ \A j \in 1 .. Len(c) - 1 : c[j].spec # "lone"
  BY CallIs
<1>2. k = Len(c)
  BY <1>1
<1>3. Len(Spelling(c[k])) = 1
  BY <1>1, SpellingIs
<1>4. /\ Start(c, Len(c) + 1) = Len(f) + 1 /\ Start(c, k) \in Nat /\ Len(f) \in Nat
      /\ Start(c, k + 1) = Start(c, k) + Len(Spelling(c[k]))
  <2>1. k \in 1..Len(c) + 1
    BY <1>1
  <2> QED BY <2>1, Positions
<1> QED BY <1>2, <1>3, <1>4

LEMMA ParseStep == ParseInv /\ [Next]_vars => ParseInv'
<1> SUFFICES ASSUME ParseInv, [Next]_vars PROVE ParseInv'
  OBVIOUS
<1>1. /\ call \in Calls /\ fmt = FlattenSeq(Spellings(call)) /\ Outside(call, cur_char)
      /\ cur_char \in 1..Len(fmt) + 1 /\ (ended = "past" => Last(call).spec = "lone")
  BY DEF ParseInv
<1>2. fmt \in Seq(Chars) /\ Len(fmt) \in Nat /\ cur_char \in Nat \ {0}
  BY <1>1, Positions
<1>3. CASE text
  <2>1. /\ CharAt(cur_char) \notin {"%", NUL} /\ ended' = ended /\ ended = "no"
        /\ cur_char' = cur_char + 1 /\ call' = call /\ fmt' = fmt
    BY <1>3 DEF text
  <2>2. cur_char \in 1..Len(fmt) /\ At(fmt, cur_char) # "%"
    <3>1. ~(cur_char > Len(fmt))
      BY <1>2, <2>1, AtIs, CharAtIs
    <3> QED BY <1>2, <2>1, <3>1, CharAtIs
  <2>3. Outside(call, cur_char + 1)
    BY <1>1, <2>2, OutsideStep
  <2> QED BY <1>1, <1>2, <2>1, <2>2, <2>3 DEF ParseInv
<1>4. CASE return
  <2>1. ended' = "returned" /\ UNCHANGED <<call, fmt, cur_char>>
    BY <1>4 DEF return
  <2> QED BY <1>1, <2>1 DEF ParseInv
<1>5. CASE directive
  <2>1. /\ CharAt(cur_char) = "%" /\ CharAt(cur_char + 1) # NUL /\ cur_char' = AfterDirective
        /\ call' = call /\ fmt' = fmt /\ ended' \in {"no", "wild"}
    BY <1>5 DEF directive
  <2>2. PICK k \in 1..Len(call) : cur_char = Start(call, k) /\ call[k].spec \in Specs \cup {"lone"}
    BY <2>1, PercentAtToken
  <2>3. call[k].spec # "lone"
    <3> SUFFICES ASSUME call[k].spec = "lone" PROVE FALSE
      OBVIOUS
    <3>1. cur_char = Len(fmt)
      BY <1>1, <2>2, LoneEnds
    <3>2. cur_char + 1 \in Nat \ {0} /\ cur_char + 1 > Len(fmt)
      BY <1>2, <3>1
    <3> QED BY <1>2, <2>1, <3>2, AtIs, CharAtIs
  <2>4. AfterDirective \in 1..Len(fmt) + 1 /\ Outside(call, AfterDirective)
    BY <1>1, <2>2, <2>3, AfterDirectiveOutside
  <2> QED BY <1>1, <2>1, <2>4 DEF ParseInv
<1>6. CASE lone_percent
  <2>1. /\ CharAt(cur_char) = "%" /\ CharAt(cur_char + 1) = NUL
        /\ UNCHANGED <<call, fmt, cur_char>>
    BY <1>6 DEF lone_percent
  <2>2. PICK k \in 1..Len(call) : cur_char = Start(call, k) /\ call[k].spec \in Specs \cup {"lone"}
    BY <2>1, PercentAtToken
  <2>3. call[k].spec \notin Specs
    <3> SUFFICES ASSUME call[k].spec \in Specs PROVE FALSE
      OBVIOUS
    <3>1. CharAt(cur_char + 1) = call[k].spec
      BY <1>1, <2>2, DirectiveAt
    <3>2. call[k].spec # NUL
      BY SpecIs DEF NUL
    <3> QED BY <2>1, <3>1, <3>2
  <2>4. k = Len(call) /\ call[k].spec = "lone"
    BY <1>1, <2>2, <2>3, LoneEnds
  <2>5. Last(call).spec = "lone"
    BY <2>4 DEF Last
  <2> QED BY <1>1, <2>1, <2>5 DEF ParseInv
<1>7. CASE UNCHANGED vars
  BY <1>1, <1>7 DEF vars, ParseInv
<1> QED BY <1>3, <1>4, <1>5, <1>6, <1>7 DEF Next, Ended

LEMMA ParseAlways == Spec => []ParseInv
<1>1. Init => ParseInv
  BY ParseInit
<1>2. ParseInv /\ [Next]_vars => ParseInv'
  BY ParseStep
<1> QED BY <1>1, <1>2, PTL DEF Spec

\* vprintf reads its format up to the final zero and no further, whatever the
\* call: only a lone % before the end takes it past.
THEOREM PrintfReadsInFormat == Spec => []ReadsInFormat
<1>1. ParseInv => ReadsInFormat
  <2> SUFFICES ASSUME ParseInv PROVE ReadsInFormat
    OBVIOUS
  <2>1. Len(fmt) \in Nat
    BY Positions DEF ParseInv
  <2> QED BY <2>1 DEF ParseInv, ReadsInFormat
<1> QED BY <1>1, ParseAlways, PTL

----------------------------------------------------------------------------
(* What the conversions store. *)

LEMMA StoreIs ==
  ASSUME NEW X, NEW s \in Seq(X), NEW i \in Int
  PROVE  /\ DOMAIN Store(i, s) = i .. i + Len(s) - 1
         /\ \A k \in i .. i + Len(s) - 1 : Store(i, s)[k] = s[k - i + 1]
BY DEF Store

\* A second store that starts in or right behind the first and ends behind it.
LEMMA StoreOver ==
  ASSUME NEW X, NEW u \in Seq(X), NEW v \in Seq(X), NEW i \in 0..Len(u), i + Len(v) >= Len(u)
  PROVE  Over(Store(i, v), Store(0, u)) = Store(0, SubSeq(u, 1, i) \o v)
<1> DEFINE a == SubSeq(u, 1, i)
           w == a \o v
           n == i + Len(v)
           f == Store(i, v)
           g == Store(0, u)
           h == Over(f, g)
<1>1. a \in Seq(X) /\ Len(a) = i /\ \A j \in 1..i : a[j] = u[j]
  OBVIOUS
<1>2. Len(u) \in Nat /\ Len(v) \in Nat /\ i \in Nat /\ n \in Nat
  OBVIOUS
<1> HIDE DEF a
<1>3. /\ w \in Seq(X) /\ Len(w) = n /\ \A j \in 1..i : w[j] = u[j]
      /\ \A j \in 1..Len(v) : w[i + j] = v[j]
  <2>1. a \in Seq(X) /\ v \in Seq(X)
    BY <1>1
  <2>2. /\ w \in Seq(X) /\ Len(w) = Len(a) + Len(v)
        /\ \A j \in 1..Len(a) : w[j] = a[j]
        /\ \A j \in 1..Len(v) : w[Len(a) + j] = v[j]
    BY <2>1
  <2> HIDE DEF w
  <2> QED BY <1>1, <1>2, <2>2
<1> HIDE DEF w
<1>4. DOMAIN f = i .. n - 1 /\ \A k \in i .. n - 1 : f[k] = v[k - i + 1]
  BY <1>2, StoreIs
<1>5. DOMAIN g = 0 .. Len(u) - 1 /\ \A k \in 0 .. Len(u) - 1 : g[k] = u[k + 1]
  <2>1. ASSUME NEW k \in 0 .. Len(u) - 1 PROVE Store(0, u)[k] = u[k + 1]
    BY <1>2 DEF Store
  <2>2. DOMAIN Store(0, u) = 0 .. Len(u) - 1
    BY <1>2 DEF Store
  <2> QED BY <2>1, <2>2
<1> HIDE DEF f, g
<1>6. h = [k \in (i .. n - 1) \cup (0 .. Len(u) - 1) |-> IF k \in i .. n - 1 THEN f[k] ELSE g[k]]
  BY <1>4, <1>5 DEF Over
<1>7. (i .. n - 1) \cup (0 .. Len(u) - 1) = 0 .. n - 1
  BY <1>2
<1>8. h = [k \in 0 .. n - 1 |-> IF k \in i .. n - 1 THEN f[k] ELSE g[k]]
  BY <1>6, <1>7
<1> HIDE DEF h
<1>9. ASSUME NEW k \in 0 .. n - 1
      PROVE  (IF k \in i .. n - 1 THEN f[k] ELSE g[k]) = w[k + 1]
  <2>1. CASE k \in i .. n - 1
    <3> DEFINE j == k - i + 1
    <3>1. j \in 1..Len(v) /\ i + j = k + 1
      BY <1>2, <2>1
    <3>2. f[k] = v[j]
      BY <1>4, <2>1
    <3> HIDE DEF j
    <3>3. w[i + j] = v[j]
      BY <1>3, <3>1
    <3> QED BY <2>1, <3>1, <3>2, <3>3
  <2>2. CASE k \notin i .. n - 1
    <3>1. k \in 0 .. Len(u) - 1 /\ k + 1 \in 1..i
      BY <1>2, <2>2
    <3>2. g[k] = u[k + 1] /\ w[k + 1] = u[k + 1]
      BY <1>3, <1>5, <3>1
    <3> QED BY <2>2, <3>2
  <2> QED BY <2>1, <2>2
<1>10. Store(0, w) = [k \in 0 .. n - 1 |-> w[k + 1]]
  <2>1. 0 + Len(w) - 1 = n - 1
    BY <1>2, <1>3
  <2>2. ASSUME NEW k \in 0 .. n - 1 PROVE k - 0 + 1 = k + 1
    BY <1>2
  <2>3. Store(0, w) = [k \in 0 .. n - 1 |-> w[k - 0 + 1]]
    BY <2>1 DEF Store
  <2> QED BY <2>2, <2>3
<1>11. h = Store(0, w)
  BY <1>8, <1>9, <1>10
<1> QED BY <1>11 DEF h, f, g, w, a, n

LEMMA StoreBehind ==
  ASSUME NEW X, NEW u \in Seq(X), NEW v \in Seq(X)
  PROVE  Over(Store(Len(u), v), Store(0, u)) = Store(0, u \o v)
<1> DEFINE i == Len(u)
<1>1. i \in 0..Len(u) /\ i + Len(v) >= Len(u) /\ SubSeq(u, 1, i) = u
  OBVIOUS
<1> HIDE DEF i
<1>2. Over(Store(i, v), Store(0, u)) = Store(0, SubSeq(u, 1, i) \o v)
  BY <1>1, StoreOver
<1> QED BY <1>1, <1>2 DEF i

LEMMA StringOfStore ==
  ASSUME NEW X, NEW s \in Seq(X)
  PROVE  StringOf(Store(0, s)) = s
<1> DEFINE d == Store(0, s)
           L == Len(s)
           Q(n) == n \notin DOMAIN d /\ 0 .. n - 1 \subseteq DOMAIN d
<1>1. L \in Nat /\ DOMAIN d = 0 .. L - 1
  BY DEF Store
<1>2. ASSUME NEW k \in 1..L PROVE d[k - 1] = s[k]
  BY <1>1 DEF Store
<1> HIDE DEF d
<1>3. Cardinality(DOMAIN d) = L
  <2>1. 0 \in Int /\ L - 1 \in Int
    BY <1>1
  <2> DEFINE z == 0
             m == L - 1
  <2> HIDE DEF z, m
  <2>2. z \in Int /\ m \in Int
    BY <2>1 DEF z, m
  <2>3. Cardinality(z..m) = IF z > m THEN 0 ELSE m - z + 1
    BY <2>2, FS_Interval
  <2> QED BY <1>1, <2>3 DEF z, m
<1>4. Q(L) /\ \A n \in 0..L : Q(n) => n = L
  BY <1>1
<1>5. StringOf(d) = LET n == CHOOSE n \in 0 .. Cardinality(DOMAIN d) : Q(n)
                    IN [k \in 1..n |-> d[k - 1]]
  BY DEF StringOf
<1> DEFINE c == CHOOSE n \in 0 .. Cardinality(DOMAIN d) : Q(n)
<1>6. c = L
  <2> HIDE DEF Q
  <2> QED BY <1>1, <1>3, <1>4
<1>7. StringOf(d) = [k \in 1..L |-> d[k - 1]]
  BY <1>5, <1>6
<1>8. s = [k \in 1..L |-> s[k]]
  OBVIOUS
<1>9. StringOf(d) = s
  BY <1>2, <1>7, <1>8
<1> QED BY <1>9 DEF d

LEMMA WildStore ==
  ASSUME NEW X, NEW s \in Seq(X)
  PROVE  Wild(Store(0, s)) <=> Len(s) >= BUF
<1>1. Len(s) \in Nat /\ DOMAIN Store(0, s) = 0 .. Len(s) - 1
  BY DEF Store
<1>2. BUF \in Nat /\ BUF > 2
  BY PrintfAssumption
<1>3. CASE Len(s) >= BUF
  <2>1. Len(s) - 1 \in DOMAIN Store(0, s) /\ Len(s) - 1 \notin 0 .. BUF - 2
    BY <1>1, <1>2, <1>3
  <2> QED BY <1>3, <2>1 DEF Wild
<1>4. CASE ~(Len(s) >= BUF)
  <2>1. DOMAIN Store(0, s) \subseteq 0 .. BUF - 2
    BY <1>1, <1>2, <1>4
  <2> QED BY <1>4, <2>1 DEF Wild
<1> QED BY <1>3, <1>4

LEMMA ZerosIs ==
  ASSUME NEW n \in Int
  PROVE  /\ Zeros(n) \in Seq(Chars) /\ Len(Zeros(n)) = Pos(n) /\ Pos(n) \in Nat
         /\ \A j \in 1..Pos(n) : Zeros(n)[j] = "0"
<1>1. Pos(n) \in Nat
  BY DEF Pos
<1>2. "0" \in Chars
  BY CharsAre
<1> QED BY <1>1, <1>2 DEF Zeros

LEMMA PosIs ==
  ASSUME NEW n \in Int
  PROVE  Pos(n) \in Nat /\ Pos(Pos(n)) = Pos(n) /\ Pos(n) >= n /\ (n > 0 => Pos(n) = n) /\ (n <= 0 => Pos(n) = 0)
BY DEF Pos

LEMMA WidthIs ==
  /\ W \in Nat /\ W - 1 \in Nat /\ IntW \in Nat /\ IntW - 1 \in Nat /\ IntW - 1 <= W
  /\ Pow2[W] = 2 * Pow2[W - 1] /\ Pow2[W - 1] \in Nat \ {0} /\ Pow2[W] \in Nat \ {0}
  /\ Pow2[IntW] = 2 * Pow2[IntW - 1] /\ Pow2[IntW - 1] \in Nat \ {0} /\ Pow2[IntW] \in Nat \ {0}
<1>1. W \in Nat /\ W - 1 \in Nat /\ IntW \in Nat /\ IntW - 1 \in Nat /\ IntW - 1 <= W
  BY PrintfAssumption
<1> DEFINE u == W - 1
           v == IntW - 1
<1>2. u \in Nat /\ v \in Nat /\ u + 1 = W /\ v + 1 = IntW
  BY <1>1
<1> HIDE DEF u, v
<1>3. /\ Pow2[u + 1] = 2 * Pow2[u] /\ Pow2[v + 1] = 2 * Pow2[v]
      /\ Pow2[u] \in Nat \ {0} /\ Pow2[v] \in Nat \ {0}
  BY <1>2, Pow2Is
<1>4. Pow2[W] \in Nat \ {0} /\ Pow2[IntW] \in Nat \ {0}
  BY <1>1, Pow2Is
<1> QED BY <1>1, <1>2, <1>3, <1>4 DEF u, v

LEMMA ModIs ==
  ASSUME NEW x \in Nat, NEW m \in Nat \ {0}
  PROVE  x % m \in 0 .. m - 1 /\ x % m <= x /\ (x < m => x % m = x)
OBVIOUS

\* A word read as a signed number.
LEMMA SignedWord ==
  ASSUME NEW x \in 0 .. Pow2[W] - 1
  PROVE  /\ x < Pow2[W - 1] => Signed(x, W) = x
         /\ x >= Pow2[W - 1] => Signed(x, W) = x - Pow2[W]
<1>1. x \in Nat /\ Pow2[W] \in Nat \ {0} /\ x < Pow2[W] /\ Pow2[W - 1] \in Nat
  BY WidthIs
<1>2. x % Pow2[W] = x
  BY <1>1, ModIs
<1> QED BY <1>1, <1>2 DEF Signed

\* No padding changes when it is passed as an int.
LEMMA PaddingInt ==
  ASSUME NEW p \in Paddings
  PROVE  Signed(p, IntW) = p
<1> DEFINE m == Pow2[IntW]
           h == Pow2[IntW - 1]
<1>1. m \in Nat \ {0} /\ h \in Nat /\ m = 2 * h
  BY WidthIs
<1>2. p \in 0 .. h - 1
  BY PrintfAssumption
<1>3. Signed(p, IntW) = IF p % m >= h THEN (p % m) - m ELSE p % m
  BY DEF Signed
<1> HIDE DEF m, h
<1>4. p \in Nat /\ p < m /\ p < h
  BY <1>1, <1>2
<1>5. p % m = p
  BY <1>1, <1>4, ModIs
<1> QED BY <1>1, <1>3, <1>4, <1>5

LEMMA SignedInt ==
  ASSUME NEW x \in Nat
  PROVE  Signed(x, IntW) \in Int /\ Signed(x, IntW) <= x /\ Signed(x, IntW) < Pow2[IntW - 1]
<1> DEFINE m == Pow2[IntW]
           h == Pow2[IntW - 1]
           y == x % m
<1>1. m \in Nat \ {0} /\ h \in Nat /\ m = 2 * h
  BY WidthIs
<1>2. Signed(x, IntW) = IF y >= h THEN y - m ELSE y
  BY DEF Signed
<1> HIDE DEF m, h
<1>3. y \in 0 .. m - 1 /\ y <= x
  BY <1>1, ModIs
<1> HIDE DEF y
<1> QED BY <1>1, <1>2, <1>3 DEF h

LEMMA NoDigits ==
  ASSUME NEW n \in Int, n <= 0, NEW b
  PROVE  DigitsOf(n, b) = << >>
BY DEF DigitsOf

LEMMA CharString ==
  ASSUME NEW c \in Chars
  PROVE  <<c>> \in Seq(Chars) /\ Len(<<c>>) = 1
OBVIOUS

LEMMA WordCount ==
  ASSUME NEW b \in Bases, NEW n \in Nat, n < Pow2[W]
  PROVE  /\ DigitsOf(n, b) \in Seq(Chars) /\ Len(DigitsOf(n, b)) = Count(n, b)
         /\ Count(n, b) \in Nat /\ Count(n, b) <= W /\ (n # 0 => Count(n, b) >= 1)
<1>1. W \in Nat
  BY WidthIs
<1>2. Count(n, b) <= W
  BY <1>1, CountBound
<1>3. DigitsOf(n, b) \in Seq(Chars)
  BY DigitsOfIs
<1>4. Count(n, b) \in Nat /\ (n # 0 => Count(n, b) = Count(n \div b, b) + 1)
  BY CountIs
<1>5. n \div b \in Nat
  BY DivIs
<1>6. Count(n \div b, b) \in Nat
  BY <1>5, CountIs
<1> QED BY <1>2, <1>3, <1>4, <1>6 DEF Count

LEMMA BufferFits == BUF \in Nat /\ W \in Nat /\ W >= 1 /\ W + 2 < BUF /\ PointerDigits + 2 < BUF
                    /\ PointerDigits \in Nat \ {0}
BY PrintfAssumption

LEMMA BasesAre == 2 \in Bases /\ 10 \in Bases /\ 16 \in Bases
BY DEF Bases

LEMMA DecimalFits ==
  ASSUME NEW n \in Nat, n < Pow2[W]
  PROVE  Decimal(n) \in Seq(Chars) /\ Len(Decimal(n)) < BUF
<1>1. Decimal(n) \in Seq(Chars)
  BY ReadDecimalOfDecimal
<1>2. CASE n = 0
  <2>1. Decimal(n) = <<"0">>
    BY <1>2 DEF Decimal
  <2>2. Len(<<"0">>) = 1
    OBVIOUS
  <2> QED BY <1>1, <2>1, <2>2, BufferFits
<1>3. CASE n # 0
  <2>1. Decimal(n) = DigitsOf(n, 10)
    BY <1>3 DEF Decimal
  <2>2. Len(DigitsOf(n, 10)) \in Nat /\ Len(DigitsOf(n, 10)) <= W
    BY WordCount, BasesAre
  <2> QED BY <1>1, <2>1, <2>2, BufferFits
<1> QED BY <1>2, <1>3

LEMMA UtosIs ==
  ASSUME NEW w \in Nat
  PROVE  utos(w) = Store(0, Decimal(w))
BY DEF utos, Decimal

\* A negative number: the sign, and the digits of its absolute value.
LEMMA ItosIs ==
  ASSUME NEW w \in 0 .. Pow2[W] - 1
  PROVE  /\ Signed(w, W) >= 0 => itos(w) = Store(0, Decimal(w))
         /\ Signed(w, W) < 0 /\ w # Pow2[W - 1] =>
              /\ itos(w) = Store(0, <<"-">> \o DigitsOf(Pow2[W] - w, 10))
              /\ <<"-">> \o DigitsOf(Pow2[W] - w, 10) \in Seq(Chars)
              /\ Len(<<"-">> \o DigitsOf(Pow2[W] - w, 10)) < BUF
         /\ w = Pow2[W - 1] =>
              /\ Signed(w, W) < 0
              /\ itos(w) = Store(0, <<"-">>)
              /\ <<"-">> \o DigitsOf(Pow2[W] - w, 10) \in Seq(Chars)
              /\ Len(<<"-">> \o DigitsOf(Pow2[W] - w, 10)) > 1
<1> DEFINE a == Signed(w, W)
           h == Pow2[W - 1]
           m == Pow2[W]
           n == m - w
           s == <<"-">>
           D == DigitsOf(n, 10)
<1>1. w \in Nat /\ h \in Nat \ {0} /\ m = 2 * h /\ w < m /\ m \in Nat
  BY WidthIs
<1>2. (w < h => a = w) /\ (w >= h => a = w - m)
  BY SignedWord
<1>3. itos(w) = IF a = 0 THEN Store(0, <<"0">>)
                ELSE IF a < 0 THEN Over(Store(1, DigitsOf(Signed(-a, W), 10)), Store(0, <<"-">>))
                ELSE Store(0, DigitsOf(a, 10))
  BY DEF itos
<1>4. s \in Seq(Chars) /\ Len(s) = 1
  BY CharsAre, CharString
<1> HIDE DEF a, s
<1>5. CASE w < h
  <2>1. a = w /\ w # h
    BY <1>1, <1>2, <1>5
  <2>2. itos(w) = Store(0, Decimal(w))
    <3>1. CASE w = 0
      BY <1>3, <2>1, <3>1 DEF Decimal
    <3>2. CASE w # 0
      <4>1. ~(w = 0) /\ ~(w < 0)
        BY <1>1, <3>2
      <4>2. itos(w) = Store(0, DigitsOf(w, 10))
        BY <1>3, <2>1, <4>1, Zenon
      <4> QED BY <3>2, <4>2 DEF Decimal
    <3> QED BY <3>1, <3>2
  <2>3. ~(a < 0)
    BY <1>1, <2>1
  <2> HIDE DEF h, m, n, D
  <2> QED BY <2>1, <2>2, <2>3 DEF a, h
<1>6. CASE w >= h
  <2>1. a = w - m /\ a < 0 /\ ~(a = 0) /\ ~(a >= 0) /\ -a = n /\ n \in Nat /\ n # 0 /\ n <= h /\ n < m
    BY <1>1, <1>2, <1>6
  <2>2. itos(w) = Over(Store(1, DigitsOf(Signed(n, W), 10)), Store(0, s))
    BY <1>3, <2>1 DEF s
  <2>3. D \in Seq(Chars) /\ Len(D) \in Nat /\ Len(D) <= W /\ Len(D) >= 1
    BY <2>1, WordCount, BasesAre
  <2>4. n \in 0 .. Pow2[W] - 1
    BY <1>1, <2>1
  <2>5. (n < h => Signed(n, W) = n) /\ (n >= h => Signed(n, W) = n - m)
    BY <2>4, SignedWord
  <2> HIDE DEF h, m, n, D
  <2>6. s \o D \in Seq(Chars) /\ Len(s \o D) = 1 + Len(D)
    <3>1. s \in Seq(Chars) /\ D \in Seq(Chars)
      BY <1>4, <2>3
    <3>2. s \o D \in Seq(Chars) /\ Len(s \o D) = Len(s) + Len(D)
      BY <3>1
    <3> QED BY <1>4, <3>2
  <2>7. Len(s \o D) < BUF /\ Len(s \o D) > 1
    BY <2>3, <2>6, BufferFits
  <2>8. CASE w = h
    <3>1. n = h /\ Signed(n, W) = n - m /\ n - m \in Int /\ n - m <= 0
      BY <1>1, <2>1, <2>5, <2>8 DEF n
    <3>2. DigitsOf(Signed(n, W), 10) = << >>
      BY <3>1, NoDigits
    <3>3. << >> \in Seq(Chars) /\ s \o << >> = s
      BY <1>4
    <3>4. Over(Store(Len(s), << >>), Store(0, s)) = Store(0, s \o << >>)
      <4> DEFINE e == << >>
      <4>1. e \in Seq(Chars)
        OBVIOUS
      <4> HIDE DEF e
      <4>2. Over(Store(Len(s), e), Store(0, s)) = Store(0, s \o e)
        BY <1>4, <4>1, StoreBehind
      <4> QED BY <4>2 DEF e
    <3>5. itos(w) = Store(0, s)
      BY <1>4, <2>2, <3>2, <3>3, <3>4
    <3> QED BY <2>1, <2>6, <2>7, <2>8, <3>5 DEF a, h, s, D, n, m
  <2>9. CASE w # h
    <3>1. Signed(n, W) = n
      BY <1>1, <2>1, <2>5, <2>9 DEF n
    <3>2. itos(w) = Over(Store(1, D), Store(0, s))
      BY <2>2, <3>1 DEF D
    <3>3. Over(Store(Len(s), D), Store(0, s)) = Store(0, s \o D)
      BY <1>4, <2>3, StoreBehind
    <3>4. itos(w) = Store(0, s \o D)
      BY <1>4, <3>2, <3>3
    <3> QED BY <2>1, <2>6, <2>7, <2>9, <3>4 DEF a, h, s, D, n, m
  <2> QED BY <2>8, <2>9
<1> QED BY <1>1, <1>5, <1>6

LEMMA Concat ==
  ASSUME NEW X, NEW u \in Seq(X), NEW v \in Seq(X)
  PROVE  u \o v \in Seq(X) /\ Len(u \o v) = Len(u) + Len(v) /\ Len(u) \in Nat /\ Len(v) \in Nat
OBVIOUS

LEMMA PadToIs ==
  ASSUME NEW n \in Int, NEW s \in Seq(Chars)
  PROVE  PadTo(n, s) \in Seq(Chars) /\ Len(PadTo(n, s)) = Pos(n - Len(s)) + Len(s) /\ Len(s) \in Nat
<1>1. Len(s) \in Nat /\ n - Len(s) \in Int
  OBVIOUS
<1> DEFINE z == Zeros(n - Len(s))
<1>2. z \in Seq(Chars) /\ Len(z) = Pos(n - Len(s))
  BY <1>1, ZerosIs
<1> HIDE DEF z
<1>3. z \o s \in Seq(Chars) /\ Len(z \o s) = Len(z) + Len(s)
  BY <1>2, Concat
<1> QED BY <1>1, <1>2, <1>3 DEF PadTo, z

\* A zero behind zeros.
LEMMA PadZero ==
  ASSUME NEW p \in Nat
  PROVE  PadTo(p, <<"0">>) = IF p = 0 THEN <<"0">> ELSE Zeros(p)
<1> DEFINE o == <<"0">>
           z == Zeros(p - 1)
<1>1. o \in Seq(Chars) /\ Len(o) = 1 /\ o[1] = "0"
  BY CharsAre, CharString
<1>2. PadTo(p, o) = z \o o
  BY <1>1 DEF PadTo
<1>3. z \in Seq(Chars) /\ Len(z) = Pos(p - 1) /\ \A j \in 1..Pos(p - 1) : z[j] = "0"
  BY ZerosIs
<1> HIDE DEF o, z
<1>4. CASE p = 0
  <2>1. Pos(p - 1) = 0
    BY <1>4 DEF Pos
  <2>2. z = << >>
    BY <1>3, <2>1
  <2>3. z \o o = o
    BY <1>1, <2>2
  <2> QED BY <1>2, <1>4, <2>3 DEF o
<1>5. CASE p # 0
  <2>1. Pos(p - 1) = p - 1 /\ Pos(p) = p /\ p - 1 \in Nat
    BY <1>5 DEF Pos
  <2>2. Zeros(p) \in Seq(Chars) /\ Len(Zeros(p)) = p /\ \A j \in 1..p : Zeros(p)[j] = "0"
    BY <2>1, ZerosIs
  <2>3. /\ z \o o \in Seq(Chars) /\ Len(z \o o) = Len(z) + Len(o)
        /\ \A j \in 1..Len(z) : (z \o o)[j] = z[j]
        /\ \A j \in 1..Len(o) : (z \o o)[Len(z) + j] = o[j]
    <3>1. z \in Seq(Chars) /\ o \in Seq(Chars)
      BY <1>1, <1>3
    <3> QED BY <3>1
  <2> DEFINE y == z \o o
  <2> HIDE DEF y
  <2>4. y \in Seq(Chars) /\ Len(y) = p
    BY <1>1, <1>3, <2>1, <2>3 DEF y
  <2>5. ASSUME NEW j \in 1..p PROVE y[j] = "0"
    <3>1. CASE j <= p - 1
      <4>1. j \in 1..Len(z) /\ j \in 1..Pos(p - 1)
        BY <1>3, <2>1, <3>1
      <4>2. y[j] = z[j]
        BY <2>3, <4>1 DEF y
      <4> QED BY <1>3, <4>1, <4>2
    <3>2. CASE j = p
      <4>1. 1 \in 1..Len(o) /\ Len(z) + 1 = j
        BY <1>1, <1>3, <2>1, <3>2
      <4>2. y[Len(z) + 1] = o[1]
        BY <2>3, <4>1 DEF y
      <4> QED BY <1>1, <4>1, <4>2
    <3> QED BY <3>1, <3>2
  <2>6. y = Zeros(p)
    BY <2>2, <2>4, <2>5
  <2> QED BY <1>2, <1>5, <2>6 DEF y, o
<1> QED BY <1>4, <1>5

LEMMA ItoxIs ==
  ASSUME NEW w \in Nat, w < Pow2[W], NEW p \in Nat
  PROVE  LET D == IF w = 0 THEN <<"0">> ELSE DigitsOf(w, 16)
         IN  /\ itox(w, p) = Store(0, <<"0", "x">> \o PadTo(p, D))
             /\ <<"0", "x">> \o PadTo(p, D) \in Seq(Chars)
             /\ Len(<<"0", "x">> \o PadTo(p, D)) = 2 + Pos(p - Len(D)) + Len(D)
             /\ Len(D) \in 1..W
<1> DEFINE D == IF w = 0 THEN <<"0">> ELSE DigitsOf(w, 16)
           u == <<"0", "x">>
           z == Zeros(p - Len(D))
<1>1. u \in Seq(Chars) /\ Len(u) = 2
  BY CharsAre, PairIs
<1>2. D \in Seq(Chars) /\ Len(D) \in 1..W
  <2>1. CASE w = 0
    <3>1. D = <<"0">>
      BY <2>1
    <3>2. <<"0">> \in Seq(Chars) /\ Len(<<"0">>) = 1
      BY CharsAre, CharString
    <3> HIDE DEF D
    <3>3. D \in Seq(Chars) /\ Len(D) = 1
      BY <3>1, <3>2
    <3> QED BY <3>3, BufferFits
  <2>2. CASE w # 0
    <3>1. D = DigitsOf(w, 16)
      BY <2>2
    <3>2. DigitsOf(w, 16) \in Seq(Chars) /\ Len(DigitsOf(w, 16)) \in Nat
          /\ Len(DigitsOf(w, 16)) <= W /\ Len(DigitsOf(w, 16)) >= 1
      BY <2>2, WordCount, BasesAre
    <3> QED BY <3>1, <3>2, BufferFits
  <2> QED BY <2>1, <2>2
<1>3. PadTo(p, D) \in Seq(Chars) /\ Len(PadTo(p, D)) = Pos(p - Len(D)) + Len(D)
  <2> HIDE DEF D
  <2> QED BY <1>2, PadToIs
<1>4. u \o PadTo(p, D) \in Seq(Chars) /\ Len(u \o PadTo(p, D)) = Len(u) + Len(PadTo(p, D))
  <2> HIDE DEF D, u
  <2> QED BY <1>1, <1>3, Concat
<1>5. Pos(p - Len(D)) \in Nat
  <2> HIDE DEF D
  <2> QED BY <1>2, PosIs
<1>6. Len(u \o PadTo(p, D)) = 2 + Pos(p - Len(D)) + Len(D)
  <2> HIDE DEF D, u
  <2> QED BY <1>1, <1>2, <1>3, <1>4, <1>5
<1>7. itox(w, p) = Store(0, u \o PadTo(p, D))
  <2>1. CASE w = 0
    <3> DEFINE y == PadTo(p, <<"0">>)
    <3>1. y = IF p = 0 THEN <<"0">> ELSE Zeros(p)
      BY PadZero
    <3>2. D = <<"0">>
      BY <2>1
    <3>3. itox(w, p) = Over(Store(2, y), Store(0, u))
      <4> HIDE DEF y
      <4> QED BY <2>1, <3>1 DEF itox
    <3>4. y \in Seq(Chars)
      BY <1>3, <3>2
    <3>5. Over(Store(Len(u), y), Store(0, u)) = Store(0, u \o y)
      <4> HIDE DEF u, y
      <4> QED BY <1>1, <3>4, StoreBehind
    <3> HIDE DEF u
    <3> QED BY <1>1, <3>2, <3>3, <3>5
  <2>2. CASE w # 0
    <3> DEFINE n == Count(w, 16)
               pad == Pos(p - n)
               v == u \o z
    <3>1. D = DigitsOf(w, 16) /\ Len(D) = n
      BY <2>2 DEF Count
    <3>2. itox(w, p) = Over(Store(2 + pad, D), Over(Store(2, Zeros(pad)), Store(0, u)))
      BY <2>2 DEF itox
    <3> HIDE DEF u, D
    <3>3. n \in Nat
      BY <1>2, <3>1
    <3> HIDE DEF n
    <3>4. Zeros(pad) = z
      <4>1. Pos(pad) = Pos(p - n)
        BY <3>3, PosIs
      <4> QED BY <3>1, <4>1 DEF Zeros
    <3>5. z \in Seq(Chars) /\ Len(z) = pad /\ pad \in Nat
      <4> DEFINE i == p - n
      <4>1. i \in Int /\ z = Zeros(i)
        BY <3>1, <3>3
      <4> HIDE DEF i, z
      <4>2. z \in Seq(Chars) /\ Len(z) = Pos(i) /\ Pos(i) \in Nat
        BY <4>1, ZerosIs
      <4> QED BY <4>2 DEF i
    <3> HIDE DEF z, pad
    <3>6. Over(Store(Len(u), z), Store(0, u)) = Store(0, v)
      BY <1>1, <3>5, StoreBehind
    <3>7. v \in Seq(Chars) /\ Len(v) = Len(u) + Len(z)
      BY <1>1, <3>5, Concat
    <3> HIDE DEF v
    <3>8. Over(Store(Len(v), D), Store(0, v)) = Store(0, v \o D)
      BY <1>2, <3>7, StoreBehind
    <3>9. itox(w, p) = Store(0, v \o D)
      <4>1. Len(v) = 2 + pad
        BY <1>1, <3>5, <3>7
      <4> QED BY <1>1, <3>2, <3>4, <3>6, <3>8, <4>1
    <3>10. v \o D = u \o (z \o D)
      <4>1. u \in Seq(Chars) /\ z \in Seq(Chars) /\ D \in Seq(Chars)
        BY <1>1, <1>2, <3>5
      <4>2. (u \o z) \o D = u \o (z \o D)
        BY <4>1, ConcatAssociative
      <4> QED BY <4>2 DEF v
    <3> QED BY <3>9, <3>10 DEF PadTo, z
  <2> QED BY <2>1, <2>2
<1> HIDE DEF D
<1>8. /\ itox(w, p) = Store(0, <<"0", "x">> \o PadTo(p, D))
      /\ <<"0", "x">> \o PadTo(p, D) \in Seq(Chars)
      /\ Len(<<"0", "x">> \o PadTo(p, D)) = 2 + Pos(p - Len(D)) + Len(D)
      /\ Len(D) \in 1..W
  <2> HIDE DEF u
  <2> QED BY <1>2, <1>4, <1>6, <1>7 DEF u
<1> QED BY <1>8, Zenon DEF D

LEMMA MaxIs ==
  ASSUME NEW a \in Nat, NEW b \in Int, b >= -1
  PROVE  Max({a, b}) = a + Pos(Pos(b) - a)
<1> DEFINE m == IF a >= b THEN a ELSE b
           Q(x) == \A y \in {a, b} : x >= y
<1>1. m \in {a, b} /\ Q(m)
  OBVIOUS
<1>2. \A x \in {a, b} : Q(x) => x = m
  OBVIOUS
<1>3. Max({a, b}) = CHOOSE x \in {a, b} : Q(x)
  BY DEF Max
<1>4. m = a + Pos(Pos(b) - a)
  BY DEF Pos
<1> HIDE DEF Q, m
<1>5. Max({a, b}) = m
  BY <1>1, <1>2, <1>3
<1> QED BY <1>4, <1>5

LEMMA ItobZero ==
  ASSUME NEW p \in Nat
  PROVE  /\ itob(0, p) = Store(0, <<"0", "b">> \o Zeros(p - 2))
         /\ <<"0", "b">> \o Zeros(p - 2) \in Seq(Chars)
         /\ Len(<<"0", "b">> \o Zeros(p - 2)) = 2 + Pos(p - 2)
<1> DEFINE u == <<"0", "b">>
           z == Zeros(p - 2)
<1>1. u \in Seq(Chars) /\ Len(u) = 2
  BY CharsAre, PairIs
<1>2. z \in Seq(Chars) /\ Len(z) = Pos(p - 2) /\ Pos(p - 2) \in Nat
  BY ZerosIs
<1>3. itob(0, p) = Over(Store(2, z), Store(0, u))
  BY DEF itob
<1> HIDE DEF u, z
<1>4. Over(Store(Len(u), z), Store(0, u)) = Store(0, u \o z)
  BY <1>1, <1>2, StoreBehind
<1>5. u \o z \in Seq(Chars) /\ Len(u \o z) = Len(u) + Len(z)
  BY <1>1, <1>2, Concat
<1> QED BY <1>1, <1>2, <1>3, <1>4, <1>5 DEF u, z

\* Where the digits of the int copy, or the padding, end: m behind the prefix.
Counted(w) == Count(Signed(w, IntW), 2)
Room(w, p) == Counted(w) + Pos(p - Counted(w))

LEMMA CountedIs ==
  ASSUME NEW w \in Nat, w < Pow2[W]
  PROVE  Counted(w) \in Nat /\ Counted(w) <= Count(w, 2) /\ Counted(w) <= W /\ Count(w, 2) \in Nat
<1> DEFINE a == Signed(w, IntW)
<1>1. a \in Int /\ a <= w /\ Counted(w) = Count(a, 2)
  BY SignedInt DEF Counted
<1>2. Count(w, 2) \in Nat /\ Count(w, 2) <= W /\ W \in Nat
  BY WordCount, BasesAre, WidthIs
<1> HIDE DEF a
<1>3. CASE a <= 0
  <2>1. DigitsOf(a, 2) = << >>
    BY <1>1, <1>3, NoDigits
  <2>2. Count(a, 2) = 0
    BY <2>1 DEF Count
  <2> QED BY <1>1, <1>2, <2>2
<1>4. CASE a > 0
  <2>1. a \in Nat
    BY <1>1, <1>4
  <2>2. Count(a, 2) <= Count(w, 2) /\ Count(a, 2) \in Nat
    BY <1>1, <2>1, CountGrows, CountIs, BasesAre
  <2> QED BY <1>1, <1>2, <2>2
<1> QED BY <1>1, <1>3, <1>4

\* The digits end where the counted ones would; they overwrite the prefix, and
\* then what is before data, if there are more of them.
LEMMA ItobIs ==
  ASSUME NEW w \in Nat \ {0}, w < Pow2[W], NEW p \in Nat
  PROVE  LET C == Count(w, 2)
             m == Room(w, p)
         IN  /\ C \in Nat \ {0} /\ m \in Nat /\ m >= p /\ m <= W + p /\ (m <= W \/ m = p)
             /\ C > m + 2 => Wild(itob(w, p))
             /\ C <= m + 2 => \E s \in Seq(Chars) :
                   /\ itob(w, p) = Store(0, s) /\ Len(s) = m + 2
                   /\ C <= m => s = <<"0", "b">> \o PadTo(p, DigitsOf(w, 2))
<1> DEFINE C == Count(w, 2)
           m == Room(w, p)
           c == Counted(w)
           pad == Pos(p - c)
           D == DigitsOf(w, 2)
           o == <<"0", "b">>
           z == Zeros(pad)
           u == o \o z
           i == (2 + c + pad) - C
<1>1. w # 0 /\ ~(w = 0) /\ w \in Nat
  OBVIOUS
<1>2. itob(w, p) = Over(Store(i, D), Over(Store(2, z), Store(0, o)))
  BY <1>1, Zenon DEF itob, Counted
<1>3. c \in Nat /\ c <= C /\ c <= W /\ C \in Nat /\ W \in Nat
  BY CountedIs, WidthIs
<1>4. D \in Seq(Chars) /\ Len(D) = C /\ C >= 1
  BY WordCount, BasesAre
<1>5. m = c + pad
  BY DEF Room
<1>6. o \in Seq(Chars) /\ Len(o) = 2
  BY CharsAre, PairIs
<1> HIDE DEF C, c, D, o, m
<1>7. /\ pad \in Nat /\ Pos(pad) = pad /\ pad >= p - c /\ (p - c > 0 => pad = p - c)
      /\ (p - c <= 0 => pad = 0)
  <2>1. p - c \in Int
    BY <1>3
  <2> QED BY <2>1, PosIs
<1> HIDE DEF pad
<1>8. z \in Seq(Chars) /\ Len(z) = pad /\ \A j \in 1..pad : z[j] = "0"
  BY <1>7, ZerosIs
<1>9. Over(Store(2, z), Store(0, o)) = Store(0, u)
  <2> HIDE DEF z
  <2>1. Over(Store(Len(o), z), Store(0, o)) = Store(0, o \o z)
    BY <1>6, <1>8, StoreBehind
  <2> QED BY <1>6, <2>1
<1>10. u \in Seq(Chars) /\ Len(u) = 2 + pad
  <2> HIDE DEF z
  <2>1. o \o z \in Seq(Chars) /\ Len(o \o z) = Len(o) + Len(z)
    BY <1>6, <1>8, Concat
  <2> QED BY <1>6, <1>8, <2>1
<1>11. C \in Nat \ {0} /\ m \in Nat /\ m >= p /\ m <= W + p /\ (m <= W \/ m = p)
  BY <1>3, <1>4, <1>5, <1>7
<1>12. i \in Int /\ i = 2 + m - C
  BY <1>3, <1>5, <1>7
<1> HIDE DEF i
<1>13. ASSUME C > m + 2 PROVE Wild(itob(w, p))
  <2> DEFINE f == Store(i, D)
             g == Over(Store(2, z), Store(0, o))
  <2>1. i \in i .. i + C - 1 /\ i \notin 0 .. BUF - 2
    BY <1>3, <1>4, <1>11, <1>12, <1>13
  <2>2. DOMAIN f = i .. i + Len(D) - 1
    BY <1>4, <1>12, StoreIs
  <2> HIDE DEF f, g
  <2>3. DOMAIN Over(f, g) = DOMAIN f \cup DOMAIN g
    BY DEF Over
  <2>4. i \in DOMAIN Over(f, g)
    BY <1>4, <2>1, <2>2, <2>3
  <2>5. Over(f, g) = itob(w, p)
    BY <1>2 DEF f, g
  <2>6. i \in DOMAIN itob(w, p)
    BY <2>4, <2>5
  <2> QED BY <2>1, <2>6 DEF Wild
<1>14. ASSUME C <= m + 2
       PROVE  \E s \in Seq(Chars) : /\ itob(w, p) = Store(0, s) /\ Len(s) = m + 2
                                    /\ C <= m => s = o \o PadTo(p, D)
  <2> HIDE DEF z, u
  <2> DEFINE a == SubSeq(u, 1, i)
             s == a \o D
  <2>1. i \in 0..Len(u) /\ i + Len(D) >= Len(u)
    BY <1>3, <1>4, <1>5, <1>7, <1>10, <1>11, <1>12, <1>14
  <2>2. Over(Store(i, D), Store(0, u)) = Store(0, s)
    BY <1>4, <1>10, <2>1, StoreOver
  <2>3. a \in Seq(Chars) /\ Len(a) = i
    BY <1>10, <2>1
  <2> HIDE DEF a
  <2>4. s \in Seq(Chars) /\ Len(s) = Len(a) + Len(D)
    BY <1>4, <2>3, Concat
  <2>5. Len(s) = m + 2
    <3> HIDE DEF s
    <3> QED BY <1>3, <1>4, <1>11, <1>12, <2>3, <2>4
  <2>6. itob(w, p) = Store(0, s)
    <3> HIDE DEF s
    <3> QED BY <1>2, <1>9, <2>2
  <2>7. ASSUME C <= m PROVE s = o \o PadTo(p, D)
    <3> DEFINE q == Zeros(p - C)
    <3>1. p - C \in Int
      BY <1>3
    <3>2. Pos(p - C) = m - C
      BY <1>3, <1>5, <1>7, <2>7 DEF Pos
    <3>3. q \in Seq(Chars) /\ Len(q) = m - C /\ \A j \in 1 .. m - C : q[j] = "0"
      BY <3>1, <3>2, ZerosIs
    <3> HIDE DEF q
    <3>4. /\ o \o q \in Seq(Chars) /\ Len(o \o q) = Len(o) + Len(q)
          /\ \A j \in 1..Len(o) : (o \o q)[j] = o[j]
          /\ \A j \in 1..Len(q) : (o \o q)[Len(o) + j] = q[j]
      <4>1. o \in Seq(Chars) /\ q \in Seq(Chars)
        BY <1>6, <3>3
      <4> QED BY <4>1
    <3>5. /\ \A j \in 1..Len(o) : u[j] = o[j]
          /\ \A j \in 1..Len(z) : u[Len(o) + j] = z[j]
      <4>1. o \in Seq(Chars) /\ z \in Seq(Chars)
        BY <1>6, <1>8
      <4> QED BY <4>1 DEF u
    <3>6. \A j \in 1..i : a[j] = u[j]
      BY <1>10, <2>1 DEF a
    <3> DEFINE y == o \o q
    <3>7. Len(y) = i
      BY <1>3, <1>6, <1>11, <1>12, <3>3, <3>4
    <3>8. ASSUME NEW j \in 1..i PROVE y[j] = a[j]
      <4>1. CASE j <= 2
        <5>1. j \in 1..Len(o)
          BY <1>6, <4>1
        <5> QED BY <3>4, <3>5, <3>6, <5>1
      <4>2. CASE j > 2
        <5> DEFINE l == j - 2
        <5>1. l \in 1..Len(q) /\ l \in 1..Len(z) /\ Len(o) + l = j /\ l \in 1 .. m - C /\ l \in 1..pad
          BY <1>3, <1>5, <1>6, <1>7, <1>8, <1>11, <1>12, <3>3, <4>2
        <5> HIDE DEF l
        <5>2. y[Len(o) + l] = q[l] /\ u[Len(o) + l] = z[l]
          BY <3>4, <3>5, <5>1
        <5>3. q[l] = "0" /\ z[l] = "0"
          BY <1>8, <3>3, <5>1
        <5>4. a[j] = u[j]
          BY <3>6
        <5> HIDE DEF y
        <5> QED BY <5>1, <5>2, <5>3, <5>4
      <4>3. j <= 2 \/ j > 2
        BY <1>12
      <4> QED BY <4>1, <4>2, <4>3
    <3>9. y = a
      <4>1. y \in Seq(Chars)
        BY <3>4
      <4> HIDE DEF y
      <4> QED BY <2>3, <3>7, <3>8, <4>1
    <3>10. (o \o q) \o D = o \o (q \o D)
      <4>1. o \in Seq(Chars) /\ q \in Seq(Chars) /\ D \in Seq(Chars)
        BY <1>4, <1>6, <3>3
      <4> QED BY <4>1, ConcatAssociative
    <3>11. PadTo(p, D) = q \o D
      BY <1>4 DEF PadTo, q
    <3> QED BY <3>9, <3>10, <3>11
  <2> HIDE DEF s
  <2> QED BY <2>4, <2>5, <2>6, <2>7
<1>15. /\ C \in Nat \ {0} /\ m \in Nat /\ m >= p /\ m <= W + p /\ (m <= W \/ m = p)
       /\ C > m + 2 => Wild(itob(w, p))
       /\ C <= m + 2 => \E s \in Seq(Chars) :
             /\ itob(w, p) = Store(0, s) /\ Len(s) = m + 2
             /\ C <= m => s = o \o PadTo(p, D)
  BY <1>11, <1>13, <1>14
<1> QED BY <1>15, Zenon DEF C, m, o, D

----------------------------------------------------------------------------
(* What a token prints. *)

Converting == {"d", "u", "x", "b", "p"}

\* What the directive of t converts, with its padding read as it was spelled.
Converted(t) ==
  CASE t.spec = "d" -> itos(t.word)
    [] t.spec = "u" -> utos(t.word)
    [] t.spec = "x" -> itox(t.word, Pos(t.padding))
    [] t.spec = "b" -> itob(t.word, Pos(t.padding))
    [] t.spec = "p" -> itox(t.word, PointerDigits)

\* s is what t means, or shorter if t is not printable.
Shows(t, s) ==
  /\ s \in Seq(Chars) /\ Meaning(t) \in Seq(Chars)
  /\ Printable(t) => s = Meaning(t)
  /\ ~Printable(t) => Len(s) < Len(Meaning(t))

LEMMA TokenWord ==
  ASSUME NEW t \in Tokens, t.spec \in Specs
  PROVE  /\ t.word \in Nat /\ t.word < Pow2[W] /\ t.word \in 0 .. Pow2[W] - 1
         /\ t.padding \in Int /\ t.padding >= -1 /\ Pos(t.padding) \in Nat
<1>1. t.word \in Words \cup {0} /\ t.padding \in Paddings \cup {NoPadding}
  BY TokenIs, SpecIs
<1>2. Pow2[W] \in Nat \ {0}
  BY WidthIs
<1>3. t.word \in 0 .. Pow2[W] - 1
  <2>1. 0 \in 0 .. Pow2[W] - 1
    BY <1>2
  <2>2. Words \subseteq 0 .. Pow2[W] - 1
    BY PrintfAssumption, Zenon
  <2> QED BY <1>1, <2>1, <2>2, Zenon
<1>4. t.padding \in Int /\ t.padding >= -1
  <2>1. CASE t.padding = NoPadding
    BY <2>1 DEF NoPadding
  <2>2. CASE t.padding # NoPadding
    <3>1. t.padding \in Nat
      BY <1>1, <2>2, PaddingIs
    <3> QED BY <3>1
  <2> QED BY <2>1, <2>2
<1>5. Pos(t.padding) \in Nat
  BY <1>4, PosIs
<1> QED BY <1>2, <1>3, <1>4, <1>5

LEMMA SignedTokens ==
  ASSUME NEW t \in Tokens, t.spec = "d"
  PROVE  /\ Wild(Converted(t)) <=> Overruns(t)
         /\ \E s : Converted(t) = Store(0, s) /\ Shows(t, s)
<1> DEFINE w == t.word
           m == <<"-">> \o DigitsOf(Pow2[W] - w, 10)
<1>1. w \in Nat /\ w < Pow2[W] /\ w \in 0 .. Pow2[W] - 1
  BY TokenWord DEF Specs, Consuming
<1>2. Converted(t) = itos(w)
  BY DEF Converted
<1>3. Meaning(t) = IF Signed(w, W) < 0 THEN m ELSE Decimal(w)
  BY DEF Meaning
<1>4. (Printable(t) <=> w # Pow2[W - 1]) /\ ~Overruns(t)
  BY DEF Printable, Overruns
<1>5. Signed(w, W) \in Int
  BY <1>1, SignedWord, WidthIs
<1> HIDE DEF w, m
<1>6. CASE Signed(w, W) >= 0
  <2>1. itos(w) = Store(0, Decimal(w)) /\ Decimal(w) \in Seq(Chars) /\ Len(Decimal(w)) < BUF
    BY <1>1, <1>6, ItosIs, DecimalFits
  <2>2. w # Pow2[W - 1]
    BY <1>1, <1>5, <1>6, ItosIs
  <2>3. Meaning(t) = Decimal(w)
    BY <1>3, <1>5, <1>6
  <2>4. ~Wild(Store(0, Decimal(w)))
    <3>1. ~(Len(Decimal(w)) >= BUF)
      BY <2>1, BufferFits
    <3> QED BY <2>1, <3>1, WildStore
  <2> QED BY <1>2, <1>4, <2>1, <2>2, <2>3, <2>4 DEF Shows
<1>7. CASE Signed(w, W) < 0 /\ w # Pow2[W - 1]
  <2>1. itos(w) = Store(0, m) /\ m \in Seq(Chars) /\ Len(m) < BUF
    BY <1>1, <1>7, ItosIs DEF m
  <2>2. Meaning(t) = m
    BY <1>3, <1>7
  <2>3. ~Wild(Store(0, m))
    <3>1. ~(Len(m) >= BUF)
      BY <2>1, BufferFits
    <3> QED BY <2>1, <3>1, WildStore
  <2> QED BY <1>2, <1>4, <1>7, <2>1, <2>2, <2>3 DEF Shows
<1>8. CASE w = Pow2[W - 1]
  <2> DEFINE s == <<"-">>
  <2>1. itos(w) = Store(0, s) /\ m \in Seq(Chars) /\ Len(m) > 1 /\ Signed(w, W) < 0
    BY <1>1, <1>8, ItosIs DEF m
  <2>2. s \in Seq(Chars) /\ Len(s) = 1
    BY CharsAre, CharString
  <2> HIDE DEF s
  <2>3. Meaning(t) = m
    BY <1>3, <2>1
  <2>4. ~Wild(Store(0, s))
    <3>1. ~(Len(s) >= BUF)
      BY <2>2, BufferFits
    <3> QED BY <2>2, <3>1, WildStore
  <2>5. Len(s) < Len(m)
    BY <2>1, <2>2
  <2>6. Shows(t, s)
    BY <1>4, <1>8, <2>1, <2>2, <2>3, <2>5 DEF Shows
  <2> QED BY <1>2, <1>4, <2>1, <2>4, <2>6
<1> QED BY <1>5, <1>6, <1>7, <1>8

LEMMA UnsignedTokens ==
  ASSUME NEW t \in Tokens, t.spec = "u"
  PROVE  /\ Wild(Converted(t)) <=> Overruns(t)
         /\ \E s : Converted(t) = Store(0, s) /\ Shows(t, s)
<1> DEFINE w == t.word
<1>1. w \in Nat /\ w < Pow2[W]
  BY TokenWord DEF Specs, Consuming
<1>2. Converted(t) = utos(w) /\ Meaning(t) = Decimal(w) /\ Printable(t) /\ ~Overruns(t)
  BY DEF Converted, Meaning, Printable, Overruns
<1> HIDE DEF w
<1>3. utos(w) = Store(0, Decimal(w)) /\ Decimal(w) \in Seq(Chars) /\ Len(Decimal(w)) < BUF
  BY <1>1, UtosIs, DecimalFits
<1>4. ~(Len(Decimal(w)) >= BUF)
  BY <1>3, BufferFits
<1>5. ~Wild(Store(0, Decimal(w)))
  BY <1>3, <1>4, WildStore
<1> QED BY <1>2, <1>3, <1>5 DEF Shows

LEMMA HexTokens ==
  ASSUME NEW t \in Tokens, t.spec = "x"
  PROVE  /\ Wild(Converted(t)) <=> Overruns(t)
         /\ \E s : Converted(t) = Store(0, s) /\ Shows(t, s)
<1> DEFINE w == t.word
           p == Pos(t.padding)
           D == IF w = 0 THEN <<"0">> ELSE DigitsOf(w, 16)
           s == <<"0", "x">> \o PadTo(p, D)
<1>1. w \in Nat /\ w < Pow2[W] /\ p \in Nat /\ t.padding \in Int
  BY TokenWord DEF Specs, Consuming
<1>2. Converted(t) = itox(w, p) /\ Meaning(t) = s /\ Printable(t)
  BY DEF Converted, Meaning, Printable
<1>3. Overruns(t) <=> t.padding + 2 >= BUF
  BY DEF Overruns
<1>4. itox(w, p) = Store(0, s) /\ s \in Seq(Chars) /\ Len(s) = 2 + Pos(p - Len(D)) + Len(D) /\ Len(D) \in 1..W
  BY <1>1, ItoxIs
<1> HIDE DEF w, D, s
<1>5. (t.padding + 2 >= BUF) <=> (Len(s) >= BUF)
  BY <1>1, <1>4, BufferFits DEF Pos
<1>6. Wild(Store(0, s)) <=> Len(s) >= BUF
  BY <1>4, WildStore
<1>7. Shows(t, s)
  BY <1>2, <1>4 DEF Shows
<1> QED BY <1>2, <1>3, <1>4, <1>5, <1>6, <1>7

LEMMA PointerTokens ==
  ASSUME NEW t \in Tokens, t.spec = "p"
  PROVE  /\ Wild(Converted(t)) <=> Overruns(t)
         /\ \E s : Converted(t) = Store(0, s) /\ Shows(t, s)
<1> DEFINE w == t.word
           p == PointerDigits
           D == IF w = 0 THEN <<"0">> ELSE DigitsOf(w, 16)
           s == <<"0", "x">> \o PadTo(p, D)
<1>1. w \in Nat /\ w < Pow2[W] /\ p \in Nat \ {0}
  BY TokenWord, BufferFits DEF Specs, Consuming
<1>2. Converted(t) = itox(w, p) /\ Printable(t) /\ ~Overruns(t)
      /\ Meaning(t) = <<"0", "x">> \o PadTo(p, DigitsOf(w, 16))
  BY DEF Converted, Meaning, Printable, Overruns
<1>3. PadTo(p, D) = PadTo(p, DigitsOf(w, 16))
  <2>1. CASE w = 0
    <3>1. D = <<"0">> /\ DigitsOf(w, 16) = << >>
      BY <1>1, <2>1, NoDigits
    <3>2. PadTo(p, <<"0">>) = Zeros(p)
      BY <1>1, PadZero
    <3>3. PadTo(p, << >>) = Zeros(p)
      <4>1. Zeros(p) \in Seq(Chars) /\ p - Len(<< >>) = p
        BY <1>1, ZerosIs
      <4>2. Zeros(p) \o << >> = Zeros(p)
        BY <4>1
      <4> QED BY <4>1, <4>2 DEF PadTo
    <3> HIDE DEF D
    <3> QED BY <3>1, <3>2, <3>3
  <2>2. CASE w # 0
    BY <2>2
  <2> QED BY <2>1, <2>2
<1>4. itox(w, p) = Store(0, s) /\ s \in Seq(Chars) /\ Len(s) = 2 + Pos(p - Len(D)) + Len(D) /\ Len(D) \in 1..W
  BY <1>1, ItoxIs
<1>4a. Meaning(t) = s
  BY <1>2, <1>3
<1> HIDE DEF w, D, s
<1>5. ~(Len(s) >= BUF)
  BY <1>1, <1>4, BufferFits DEF Pos
<1>6. Wild(Store(0, s)) <=> Len(s) >= BUF
  BY <1>4, WildStore
<1>7. Shows(t, s)
  BY <1>2, <1>4, <1>4a DEF Shows
<1> QED BY <1>2, <1>4, <1>5, <1>6, <1>7

LEMMA BinaryTokens ==
  ASSUME NEW t \in Tokens, t.spec = "b"
  PROVE  /\ Wild(Converted(t)) <=> Overruns(t)
         /\ ~Overruns(t) => \E s : Converted(t) = Store(0, s) /\ Shows(t, s)
<1> DEFINE w == t.word
           p == Pos(t.padding)
           o == <<"0", "b">>
           D == IF w = 0 THEN <<"0">> ELSE DigitsOf(w, 2)
           M == o \o PadTo(p, D)
<1>1. w \in Nat /\ w < Pow2[W] /\ p \in Nat /\ t.padding \in Int /\ t.padding >= -1
  BY TokenWord DEF Specs, Consuming
<1>2. Converted(t) = itob(w, p) /\ Meaning(t) = M
  BY DEF Converted, Meaning
<1>3. Printable(t) <=> w # 0 /\ Shortfall(t) <= 0
  BY DEF Printable
<1>4. Overruns(t) <=> \/ w = 0 /\ t.padding >= BUF
                      \/ w # 0 /\ (t.padding + 2 >= BUF \/ Shortfall(t) > 2)
  BY DEF Overruns
<1>5. D \in Seq(Chars)
  <2>1. CASE w = 0
    <3>1. D = <<"0">>
      BY <2>1
    <3> QED BY <3>1, CharsAre, CharString
  <2>2. CASE w # 0
    <3>1. D = DigitsOf(w, 2)
      BY <2>2
    <3> QED BY <1>1, <3>1, WordCount, BasesAre
  <2> QED BY <2>1, <2>2
<1>6. o \in Seq(Chars) /\ Len(o) = 2
  BY CharsAre, PairIs
<1>7. M \in Seq(Chars) /\ Len(M) = 2 + Pos(p - Len(D)) + Len(D) /\ Len(D) \in Nat
  <2> HIDE DEF D, o
  <2>1. PadTo(p, D) \in Seq(Chars) /\ Len(PadTo(p, D)) = Pos(p - Len(D)) + Len(D) /\ Len(D) \in Nat
    BY <1>1, <1>5, PadToIs
  <2>2. M \in Seq(Chars) /\ Len(M) = Len(o) + Len(PadTo(p, D))
    BY <1>6, <2>1, Concat
  <2>3. Pos(p - Len(D)) \in Nat
    BY <1>1, <2>1, PosIs
  <2> QED BY <1>6, <2>1, <2>2, <2>3
<1> HIDE DEF M
<1>8. CASE w = 0
  <2> DEFINE s == o \o Zeros(p - 2)
  <2>1. itob(w, p) = Store(0, s) /\ s \in Seq(Chars) /\ Len(s) = 2 + Pos(p - 2)
    BY <1>1, <1>8, ItobZero
  <2>2. D = <<"0">>
    BY <1>8
  <2>3. Len(D) = 1
    BY <2>2, CharsAre, CharString
  <2> HIDE DEF w, D, s, o
  <2>4. (t.padding >= BUF) <=> (Len(s) >= BUF)
    BY <1>1, <2>1, BufferFits DEF Pos
  <2>5. Len(s) < Len(M)
    BY <1>1, <1>7, <2>1, <2>3 DEF Pos
  <2>6. Wild(Store(0, s)) <=> Len(s) >= BUF
    BY <2>1, WildStore
  <2>7. Shows(t, s)
    BY <1>2, <1>3, <1>7, <1>8, <2>1, <2>5 DEF Shows
  <2> QED BY <1>2, <1>4, <1>8, <2>1, <2>4, <2>6, <2>7
<1>9. CASE w # 0
  <2> DEFINE C == Count(w, 2)
             m == Room(w, p)
  <2>1. D = DigitsOf(w, 2) /\ Len(D) = C
    BY <1>9 DEF Count
  <2>2. /\ C \in Nat \ {0} /\ m \in Nat /\ m >= p /\ (m <= W \/ m = p)
        /\ C > m + 2 => Wild(itob(w, p))
        /\ C <= m + 2 => \E s \in Seq(Chars) :
              /\ itob(w, p) = Store(0, s) /\ Len(s) = m + 2
              /\ C <= m => s = <<"0", "b">> \o PadTo(p, DigitsOf(w, 2))
    <3>1. w \in Nat \ {0}
      BY <1>1, <1>9
    <3> HIDE DEF w, p
    <3> QED BY <1>1, <3>1, ItobIs
  <2>3. Shortfall(t) = C - m
    <3>1. Counted(w) \in Nat
      BY <1>1, CountedIs
    <3>2. Max({Counted(w), t.padding}) = Counted(w) + Pos(p - Counted(w))
      BY <1>1, <3>1, MaxIs
    <3> QED BY <3>2 DEF Shortfall, Counted, Room
  <2> HIDE DEF w, D, o, C, m
  <2>4. CASE C > m + 2
    <3>1. Shortfall(t) > 2
      BY <2>2, <2>3, <2>4
    <3> QED BY <1>2, <1>4, <1>9, <2>2, <2>4, <3>1
  <2>5. CASE C <= m + 2
    <3>1. PICK s \in Seq(Chars) : /\ itob(w, p) = Store(0, s) /\ Len(s) = m + 2
                                  /\ C <= m => s = <<"0", "b">> \o PadTo(p, DigitsOf(w, 2))
      BY <2>2, <2>5
    <3>2. ~(Shortfall(t) > 2) /\ (Shortfall(t) <= 0 <=> C <= m)
      BY <2>2, <2>3, <2>5
    <3>3. (t.padding + 2 >= BUF) <=> (Len(s) >= BUF)
      BY <1>1, <2>2, <3>1, BufferFits DEF Pos
    <3>4. Wild(Store(0, s)) <=> Len(s) >= BUF
      BY WildStore
    <3>5. ASSUME C <= m PROVE s = M
      BY <2>1, <3>1, <3>5 DEF M, o
    <3>6. ASSUME ~(C <= m) PROVE Len(s) < Len(M)
      BY <1>1, <1>7, <2>1, <2>2, <3>1, <3>6 DEF Pos
    <3>7. Shows(t, s)
      BY <1>2, <1>3, <1>7, <1>9, <3>2, <3>5, <3>6 DEF Shows
    <3> QED BY <1>2, <1>4, <1>9, <3>1, <3>2, <3>3, <3>4, <3>7
  <2> QED BY <2>2, <2>4, <2>5
<1> QED BY <1>8, <1>9

----------------------------------------------------------------------------
(* What vprintf has put, and what it has taken, for a call that is not ambiguous. *)

\* What a directive or a run of text puts, as long as nothing is overrun.
Printed(t) ==
  IF Overruns(t) THEN << >>
  ELSE IF t.spec = "text" THEN t.run
  ELSE IF t.spec \in Converting THEN StringOf(Converted(t))
  ELSE Puts(t.spec, t.word)

Prints(c) == [k \in DOMAIN c |-> Printed(c[k])]
Passes(c) == [k \in DOMAIN c |-> Passed(c[k])]

\* The parse is r characters into token k: inside of a run of text, or at the
\* start of a token.
AlignedAt(k, r) ==
  /\ cur_char = Start(call, k) + r
  /\ r # 0 => k <= Len(call) /\ call[k].spec = "text" /\ r < Len(call[k].run)
  /\ arg = Len(Joined(Passes(call), k - 1))
  /\ out = Joined(Prints(call), k - 1) \o (IF r = 0 THEN << >> ELSE SubSeq(call[k].run, 1, r))
  /\ \A i \in 1 .. k - 1 : ~Overruns(call[i])

Aligned == \E k \in 1 .. Len(call) + 1 : \E r \in 0..2 : AlignedAt(k, r)

FollowInv ==
  /\ ParseInv
  /\ ~Ambiguous =>
       /\ ended = "no" => Aligned
       /\ ended = "returned" => /\ out = Joined(Prints(call), Len(call))
                                /\ \A i \in 1..Len(call) : ~Overruns(call[i])
       /\ ended = "wild" => \E i \in 1..Len(call) : Overruns(call[i])

LEMMA PutsIs ==
  ASSUME NEW c, NEW w \in Nat
  PROVE  Puts(c, w) \in Seq(Chars)
<1>1. Digit(w % 16) \in Chars
  BY DivBy16, DigitIs
<1>2. <<Digit(w % 16)>> \in Seq(Chars)
  BY <1>1, CharString
<1>3. "s" \in Chars /\ "%" \in Chars /\ "Invalid printf specifier!!!" \in Chars
  BY DEF Chars
<1>4. <<Digit(w % 16), "s">> \in Seq(Chars)
  BY <1>1, <1>3, PairIs
<1>5. <<"%">> \in Seq(Chars) /\ <<"Invalid printf specifier!!!">> \in Seq(Chars)
  BY <1>3, CharString
<1>6. CASE c = "c"
  BY <1>2, <1>6 DEF Puts
<1>7. CASE c = "s"
  BY <1>4, <1>7 DEF Puts, StringAt
<1>8. CASE c = "%"
  BY <1>5, <1>8 DEF Puts
<1>9. CASE c \notin {"c", "s", "%"}
  BY <1>5, <1>9 DEF Puts
<1> QED BY <1>6, <1>7, <1>8, <1>9

LEMMA ConvertedIs ==
  ASSUME NEW t \in Tokens, t.spec \in Converting
  PROVE  /\ Wild(Converted(t)) <=> Overruns(t)
         /\ ~Overruns(t) => \E s : Converted(t) = Store(0, s) /\ Shows(t, s)
BY SignedTokens, UnsignedTokens, HexTokens, PointerTokens, BinaryTokens, Zenon DEF Converting

\* What is put for a token is what it means, or shorter if it is not printable.
LEMMA PrintedIs ==
  ASSUME NEW t \in Tokens
  PROVE  Printed(t) \in Seq(Chars) /\ (~Overruns(t) => Shows(t, Printed(t)))
<1>1. CASE Overruns(t)
  BY <1>1 DEF Printed
<1>2. CASE ~Overruns(t) /\ t.spec = "text"
  <2>1. t.run \in Runs
    BY <1>2, TextSpelling
  <2>2. t.run \in Seq(Chars)
    BY <2>1, RunIs
  <2>3. Printed(t) = t.run /\ Meaning(t) = t.run /\ Printable(t)
    BY <1>2 DEF Printed, Meaning, Printable
  <2> QED BY <2>2, <2>3 DEF Shows
<1>3. CASE ~Overruns(t) /\ t.spec \in Converting
  <2>1. PICK s : Converted(t) = Store(0, s) /\ Shows(t, s)
    BY <1>3, ConvertedIs
  <2>2. s \in Seq(Chars)
    BY <2>1 DEF Shows
  <2>3. StringOf(Converted(t)) = s
    BY <2>1, <2>2, StringOfStore
  <2>4. Printed(t) = s
    <3>1. t.spec # "text"
      BY <1>3 DEF Converting
    <3> QED BY <1>3, <2>3, <3>1 DEF Printed
  <2> QED BY <2>1, <2>2, <2>4
<1>4. CASE ~Overruns(t) /\ t.spec # "text" /\ t.spec \notin Converting
  <2>1. t.word \in Nat
    <3>1. CASE t.spec \in Specs
      BY <3>1, TokenWord
    <3>2. CASE t.spec = "lone"
      <4>1. t \in {Directive(s, 0, NoPadding) : s \in {"%", "z", "lone"}}
        <5>1. t \notin {Text(r) : r \in Runs}
          BY <3>2 DEF Text
        <5>2. t \notin {Directive(s, w, p) : s \in Consuming, w \in Words, p \in Paddings \cup {NoPadding}}
          BY <3>2 DEF Directive, Consuming
        <5> QED BY <5>1, <5>2 DEF Tokens, Runs
      <4>2. t.word = 0
        BY <4>1 DEF Directive
      <4> QED BY <4>2
    <3> QED BY <1>4, <3>1, <3>2, TokenIs
  <2>2. Printed(t) = Puts(t.spec, t.word)
    BY <1>4 DEF Printed
  <2>3. Meaning(t) = Puts(t.spec, t.word) /\ Printable(t)
    BY <1>4 DEF Meaning, Printable, Converting
  <2>4. Puts(t.spec, t.word) \in Seq(Chars)
    BY <2>1, PutsIs
  <2> QED BY <2>2, <2>3, <2>4 DEF Shows
<1> QED BY <1>1, <1>2, <1>3, <1>4

LEMMA PrintsAre ==
  ASSUME NEW c \in Calls
  PROVE  /\ Prints(c) \in [1..Len(c) -> Seq(Chars)]
         /\ \A k \in 1..Len(c) : Prints(c)[k] = Printed(c[k])
<1>1. DOMAIN c = 1..Len(c) /\ \A k \in 1..Len(c) : c[k] \in Tokens
  BY CallIs
<1>2. ASSUME NEW k \in 1..Len(c) PROVE Printed(c[k]) \in Seq(Chars)
  BY <1>1, PrintedIs
<1> QED BY <1>1, <1>2 DEF Prints

LEMMA PassesAre ==
  ASSUME NEW c \in Calls
  PROVE  /\ Passes(c) \in [1..Len(c) -> Seq(Nat)]
         /\ \A k \in 1..Len(c) : Passes(c)[k] = Passed(c[k])
<1>1. DOMAIN c = 1..Len(c) /\ \A k \in 1..Len(c) : c[k] \in Tokens
  BY CallIs
<1>2. ASSUME NEW k \in 1..Len(c) PROVE Passed(c[k]) \in Seq(Nat)
  <2>1. CASE c[k].spec \in Consuming
    <3>1. c[k].word \in Nat
      BY <1>1, <2>1, TokenWord DEF Specs
    <3> DEFINE w == c[k].word
    <3> HIDE DEF w
    <3>2. <<w>> \in Seq(Nat)
      BY <3>1 DEF w
    <3> QED BY <2>1, <3>2 DEF Passed, w
  <2>2. CASE c[k].spec \notin Consuming
    BY <2>2 DEF Passed
  <2> QED BY <2>1, <2>2
<1> QED BY <1>1, <1>2 DEF Passes

\* The argument that a directive takes is the one passed for it.
LEMMA ArgumentIs ==
  ASSUME call \in Calls, NEW k \in 1..Len(call)
  PROVE  /\ call[k].spec \in Consuming =>
               Arguments[Len(Joined(Passes(call), k - 1)) + 1] = call[k].word
         /\ Len(Joined(Passes(call), k)) = Len(Joined(Passes(call), k - 1))
                                             + (IF call[k].spec \in Consuming THEN 1 ELSE 0)
         /\ Len(Joined(Passes(call), k - 1)) \in Nat
<1> DEFINE N == Len(call)
           s == Passes(call)
           l == Len(Joined(s, k - 1))
<1>1. N \in Nat /\ s \in [1..N -> Seq(Nat)] /\ s[k] = Passed(call[k])
  BY CallIs, PassesAre
<1>2. Arguments = FlattenSeq(s)
  BY DEF Arguments, Passes
<1> HIDE DEF s, N
<1>3. l \in Nat /\ Len(Joined(s, k)) = l + Len(s[k])
  <2>1. k \in 1..N /\ k - 1 \in 0..N
    BY <1>1 DEF N
  <2> QED BY <1>1, <2>1, JoinedLen
<1>4. CASE call[k].spec \in Consuming
  <2>1. s[k] = <<call[k].word>>
    BY <1>1, <1>4 DEF Passed
  <2>2. Len(s[k]) = 1 /\ s[k][1] = call[k].word
    BY <2>1
  <2> DEFINE j == 1
  <2>3. j \in 1..Len(s[k])
    BY <2>2
  <2> HIDE DEF j
  <2>4. FlattenSeq(s)[l + j] = s[k][j]
    <3>1. k \in 1..N
      BY DEF N
    <3> QED BY <1>1, <2>3, <3>1, JoinedAt
  <2> HIDE DEF l
  <2>5. FlattenSeq(s)[l + 1] = call[k].word
    BY <2>2, <2>4 DEF j
  <2> QED BY <1>2, <1>3, <1>4, <2>2, <2>5 DEF s, l
<1>5. CASE call[k].spec \notin Consuming
  <2>1. s[k] = << >>
    BY <1>1, <1>5 DEF Passed
  <2>2. Len(s[k]) = 0
    BY <2>1
  <2> QED BY <1>3, <1>5, <2>2 DEF s
<1> QED BY <1>4, <1>5

\* What stands where a token starts, or at the end.
LEMMA FirstChar ==
  ASSUME NEW c \in Calls, NEW f, f = FlattenSeq(Spellings(c)), NEW k \in 1..Len(c) + 1
  PROVE  /\ k = Len(c) + 1 => At(f, Start(c, k)) = NUL
         /\ k <= Len(c) /\ c[k].spec # "text" => At(f, Start(c, k)) = "%"
         /\ k <= Len(c) /\ c[k].spec = "text" => /\ c[k].run \in Runs
                                                 /\ At(f, Start(c, k)) = c[k].run[1]
         /\ At(f, Start(c, k)) # ":"
<1>1. Len(c) \in Nat /\ f \in Seq(Chars) /\ Len(f) \in Nat /\ Start(c, k) \in Nat \ {0}
  BY CallIs, Positions
<1>2. CASE k = Len(c) + 1
  <2>1. Start(c, k) > Len(f)
    BY <1>1, <1>2, Positions
  <2>2. At(f, Start(c, k)) = NUL
    BY <1>1, <2>1, AtIs
  <2>3. NUL # ":" /\ ~(k <= Len(c))
    BY <1>1, <1>2 DEF NUL
  <2> QED BY <1>2, <2>2, <2>3
<1>3. CASE k <= Len(c)
  <2> DEFINE s == Spelling(c[k])
             i == 0
  <2>1. k \in 1..Len(c) /\ c[k] \in Tokens /\ k # Len(c) + 1
    BY <1>1, <1>3, CallIs
  <2>2. /\ Len(s) \in Nat \ {0} /\ (c[k].spec # "text" => s[1] = "%")
        /\ (c[k].spec = "text" => s[1] \in {"a", ".", "7"})
    BY <2>1, SpellingIs
  <2>3. i \in Nat /\ i < Len(s)
    BY <2>2
  <2>4. At(f, Start(c, k) + i) = s[i + 1]
    <3> HIDE DEF i
    <3> QED BY <2>1, <2>3, SpelledAt
  <2>5. At(f, Start(c, k)) = s[1]
    <3>1. Start(c, k) + i = Start(c, k) /\ i + 1 = 1
      BY <1>1
    <3> HIDE DEF i
    <3> QED BY <2>4, <3>1
  <2>6. CASE c[k].spec = "text"
    <3>1. s = c[k].run /\ c[k].run \in Runs
      BY <2>1, <2>6, TextSpelling
    <3> QED BY <2>1, <2>2, <2>5, <2>6, <3>1
  <2>7. CASE c[k].spec # "text"
    BY <2>1, <2>2, <2>5, <2>7
  <2> QED BY <2>6, <2>7
<1> QED BY <1>1, <1>2, <1>3

\* Text that begins with ".:" makes the directive before it ambiguous.
LEMMA DotRun ==
  ASSUME NEW r \in Runs, r[1] = ".", Len(r) # 1
  PROVE  IsPrefix(<<".", ":">>, r)
<1>1. CASE r = <<".", ":">>
  BY <1>1 DEF IsPrefix
<1>2. CASE r = <<".", ":", "7">>
  <2> DEFINE u == <<".", ":">>
             a == SubSeq(u, 1, Len(u))
             b == SubSeq(r, 1, Len(u))
  <2>1. u \in Seq(Chars) /\ Len(u) = 2 /\ u[1] = "." /\ u[2] = ":"
    BY CharsAre, PairIs
  <2>2. r \in Seq(Chars)
    BY RunIs
  <2>3. Len(r) = 3 /\ r[1] = "." /\ r[2] = ":"
    BY <1>2
  <2> HIDE DEF u
  <2>4. a \in Seq(Chars) /\ Len(a) = Len(u) /\ \A j \in 1..Len(u) : a[j] = u[j]
    BY <2>1
  <2>5. b \in Seq(Chars) /\ Len(b) = Len(u) /\ \A j \in 1..Len(u) : b[j] = r[j]
    BY <2>1, <2>2, <2>3
  <2> HIDE DEF a, b
  <2>6. ASSUME NEW j \in 1..Len(u) PROVE a[j] = b[j]
    <3>1. j = 1 \/ j = 2
      BY <2>1
    <3> QED BY <2>1, <2>3, <2>4, <2>5, <3>1
  <2>7. a = b
    BY <2>4, <2>5, <2>6
  <2>8. Len(u) <= Len(r)
    BY <2>1, <2>3
  <2> QED BY <2>7, <2>8 DEF IsPrefix, a, b, u
<1>3. CASE r \in {<<"a">>, <<".">>, <<"7">>}
  BY <1>3
<1> QED BY <1>1, <1>2, <1>3 DEF Runs

\* In a call that is not ambiguous a directive ends where it was spelled to end,
\* with the padding it was spelled with.
LEMMA DirectiveRead ==
  ASSUME call \in Calls, fmt = FlattenSeq(Spellings(call)), NEW k \in 1..Len(call),
         call[k].spec \in Specs, cur_char = Start(call, k), ~Ambiguous
  PROVE  AfterDirective = Start(call, k + 1) /\ padding = Pos(call[k].padding)
<1> DEFINE D == Decimal(call[k].padding)
           n == Start(call, k + 1)
           N == Len(call)
<1>1. /\ cur_char \in Nat \ {0} /\ Len(fmt) \in Nat /\ fmt \in Seq(Chars)
      /\ n <= Len(fmt) + 1 /\ n \in Nat
      /\ call[k].padding = NoPadding => n = cur_char + 2
      /\ call[k].padding # NoPadding =>
              /\ HasPadding /\ call[k].padding \in Nat
              /\ n = cur_char + 4 + Len(D) /\ Len(D) \in Nat
              /\ \A j \in 1..Len(D) : CharAt(cur_char + 3 + j) = D[j]
  BY DirectiveAt
<1>2. N \in Nat /\ k + 1 \in 1..N + 1 /\ call[k].spec # "text"
  BY CallIs, SpecIs
<1>3. /\ k + 1 = N + 1 => At(fmt, n) = NUL
      /\ k + 1 <= N /\ call[k + 1].spec # "text" => At(fmt, n) = "%"
      /\ k + 1 <= N /\ call[k + 1].spec = "text" => /\ call[k + 1].run \in Runs
                                                    /\ At(fmt, n) = call[k + 1].run[1]
  BY <1>2, FirstChar
<1>4. ASSUME k + 1 <= N, call[k + 1].spec = "text"
      PROVE  ~(IF call[k].padding = NoPadding
               THEN IsPrefix(<<".", ":">>, call[k + 1].run)
               ELSE IsDecimal(Head(call[k + 1].run)))
  <2>1. k \in 1 .. Len(call) - 1
    BY <1>2, <1>4
  <2> QED BY <1>2, <1>4, <2>1, Zenon DEF Ambiguous
<1>5. CASE call[k].padding = NoPadding
  <2>1. ~HasPadding
    <3> SUFFICES ASSUME HasPadding PROVE FALSE
      OBVIOUS
    <3>1. At(fmt, n) = "." /\ At(fmt, n + 1) = ":"
      <4>1. n = cur_char + 2 /\ n + 1 = cur_char + 3
        BY <1>1, <1>5
      <4> QED BY <4>1, CharAtIs DEF HasPadding
    <3>2. k + 1 <= N /\ call[k + 1].spec = "text"
      BY <1>2, <1>3, <3>1 DEF NUL
    <3> DEFINE r == call[k + 1].run
    <3>3. r \in Runs /\ r[1] = "."
      BY <1>3, <3>1, <3>2
    <3>4. Len(r) = 1
      <4>1. ~IsPrefix(<<".", ":">>, r)
        BY <1>4, <1>5, <3>2
      <4> HIDE DEF r
      <4> QED BY <3>3, <4>1, DotRun
    <3>5. Start(call, (k + 1) + 1) = n + 1
      <4>1. k + 1 \in 1..N /\ call[k + 1] \in Tokens
        BY <1>2, <3>2, CallIs
      <4>2. Spelling(call[k + 1]) = r
        BY <3>2, <4>1, TextSpelling
      <4>3. Start(call, (k + 1) + 1) = Start(call, k + 1) + Len(Spelling(call[k + 1]))
        BY <4>1, Positions
      <4> QED BY <3>4, <4>2, <4>3
    <3>6. At(fmt, Start(call, (k + 1) + 1)) # ":"
      <4>1. (k + 1) + 1 \in 1..N + 1
        BY <1>2, <3>2
      <4> QED BY <4>1, FirstChar
    <3> QED BY <3>1, <3>5, <3>6
  <2>2. AfterDirective = cur_char + 2 /\ padding = 0
    BY <2>1 DEF AfterDirective, padding
  <2>3. Pos(call[k].padding) = 0
    BY <1>5 DEF Pos, NoPadding
  <2> QED BY <1>1, <1>5, <2>2, <2>3
<1>6. CASE call[k].padding # NoPadding
  <2> DEFINE e == PaddingEnd
             p == call[k].padding
  <2>1. /\ e \in cur_char + 4 .. Len(fmt) + 1 /\ ~IsDecimal(CharAt(e))
        /\ \A i \in cur_char + 4 .. e - 1 : IsDecimal(CharAt(i))
    BY <1>1, <1>6, PaddingEndIs
  <2>2. HasPadding /\ p \in Nat /\ n = cur_char + 4 + Len(D) /\ Len(D) \in Nat
        /\ \A j \in 1..Len(D) : CharAt(cur_char + 3 + j) = D[j]
    BY <1>1, <1>6
  <2>3. D \in Seq(Decimals) /\ D \in Seq(Chars) /\ ReadDecimal(D) = p
    BY <2>2, ReadDecimalOfDecimal
  <2>4. AfterDirective = e /\ padding = Signed(ReadDecimal(SubSeq(fmt, cur_char + 4, e - 1)), IntW)
    BY <2>2 DEF AfterDirective, padding
  <2>5. Pos(p) = p /\ Signed(p, IntW) = p
    <3>1. call[k] \in Tokens
      BY <1>2, CallIs
    <3>2. p \in Paddings
      BY <1>2, <1>6, <3>1, TokenIs, SpecIs
    <3> QED BY <2>2, <3>2, PaddingInt DEF Pos
  <2>6. ~IsDecimal(At(fmt, n))
    <3>1. CASE k + 1 = N + 1
      <4>1. NUL \notin Decimals
        BY DEF NUL, Decimals
      <4> QED BY <1>3, <3>1, <4>1, IsDecimalIs
    <3>2. CASE k + 1 <= N /\ call[k + 1].spec # "text"
      <4>1. "%" \notin Decimals
        BY DEF Decimals
      <4> QED BY <1>3, <3>2, <4>1, IsDecimalIs
    <3>3. CASE k + 1 <= N /\ call[k + 1].spec = "text"
      <4> DEFINE r == call[k + 1].run
      <4>1. r \in Runs /\ At(fmt, n) = r[1]
        BY <1>3, <3>3
      <4>2. ~IsDecimal(Head(r))
        BY <1>4, <1>6, <3>3
      <4> HIDE DEF r
      <4>3. r \in Seq(Chars) /\ Len(r) \in 1..3
        BY <4>1, RunIs
      <4>4. Head(r) = r[1]
        BY <4>3
      <4> QED BY <4>1, <4>2, <4>4
    <3> QED BY <1>2, <3>1, <3>2, <3>3
  <2> HIDE DEF e, p, D, n
  <2>6a. /\ cur_char \in Nat /\ e \in Nat /\ Len(D) \in Nat /\ Len(fmt) \in Nat
         /\ n = cur_char + 4 + Len(D) /\ e >= cur_char + 4 /\ e <= Len(fmt) + 1
    BY <1>1, <2>1, <2>2
  <2>7. e >= n
    <3> SUFFICES ASSUME e < n PROVE FALSE
      BY <1>1, <2>1
    <3> DEFINE j == e - cur_char - 3
    <3>1. j \in 1..Len(D) /\ cur_char + 3 + j = e
      BY <2>6a
    <3> HIDE DEF j
    <3>2. CharAt(e) = D[j]
      BY <2>2, <3>1
    <3>3. D[j] \in Decimals
      BY <2>3, <3>1
    <3> QED BY <2>1, <3>2, <3>3, IsDecimalIs
  <2>8. ~(e > n)
    <3> SUFFICES ASSUME e > n PROVE FALSE
      OBVIOUS
    <3>1. n \in cur_char + 4 .. e - 1
      BY <1>1, <2>1, <2>2
    <3>2. IsDecimal(CharAt(n))
      BY <2>1, <3>1
    <3> QED BY <2>6, <3>2, CharAtIs
  <2>9. e = n
    BY <1>1, <2>1, <2>7, <2>8
  <2>10. SubSeq(fmt, cur_char + 4, e - 1) = D
    <3> DEFINE a == cur_char + 4
               b == e - 1
               s == SubSeq(fmt, a, b)
    <3>1. a \in Nat /\ a >= 1 /\ b \in Nat /\ b <= Len(fmt) /\ b - a + 1 = Len(D)
      <4>1. a \in Nat /\ a >= 1
        BY <2>6a
      <4>2. b \in Nat /\ b <= Len(fmt)
        BY <2>6a
      <4>3. (b - a) + 1 = Len(D)
        BY <2>6a, <2>9
      <4> QED BY <4>1, <4>2, <4>3
    <3> HIDE DEF a, b
    <3>2. s \in Seq(Chars) /\ Len(s) = Len(D) /\ \A j \in 1..Len(D) : s[j] = fmt[a + j - 1]
      <4>1. a \in Int /\ b \in Int /\ \A i \in a..b : fmt[i] \in Chars
        BY <1>1, <3>1
      <4>2. /\ SubSeq(fmt, a, b) \in Seq(Chars)
            /\ Len(SubSeq(fmt, a, b)) = IF a <= b THEN b - a + 1 ELSE 0
            /\ \A i \in 1 .. b - a + 1 : SubSeq(fmt, a, b)[i] = fmt[a + i - 1]
        BY <4>1, SubSeqProperties
      <4> HIDE DEF s
      <4>3. Len(SubSeq(fmt, a, b)) = Len(D)
        BY <2>6a, <3>1, <4>2
      <4> QED BY <3>1, <4>2, <4>3 DEF s
    <3>3. ASSUME NEW j \in 1..Len(D) PROVE fmt[a + j - 1] = D[j]
      <4>1. cur_char + 3 + j = a + j - 1 /\ a + j - 1 <= Len(fmt)
        <5>1. cur_char + 3 + j = a + j - 1
          BY <2>6a DEF a
        <5>2. a + j - 1 <= b
          BY <2>6a, <3>1
        <5> QED BY <2>6a, <3>1, <5>1, <5>2
      <4>2. CharAt(cur_char + 3 + j) = D[j]
        BY <2>2
      <4> QED BY <4>1, <4>2 DEF CharAt
    <3> HIDE DEF s
    <3>4. s = D
      BY <2>3, <3>2, <3>3
    <3> QED BY <3>4 DEF s, a, b
  <2> QED BY <2>3, <2>4, <2>5, <2>9, <2>10 DEF n, p
<1> QED BY <1>5, <1>6

----------------------------------------------------------------------------
(* The alignment is kept. *)

LEMMA PrefixStep ==
  ASSUME NEW X, NEW J \in Seq(X), NEW u \in Seq(X), NEW r \in 0 .. Len(u) - 1
  PROVE  Append(J \o (IF r = 0 THEN << >> ELSE SubSeq(u, 1, r)), u[r + 1]) = J \o SubSeq(u, 1, r + 1)
<1> DEFINE a == IF r = 0 THEN << >> ELSE SubSeq(u, 1, r)
           c == u[r + 1]
           b == SubSeq(u, 1, r + 1)
<1>1. a \in Seq(X) /\ Len(a) = r /\ \A j \in 1..r : a[j] = u[j]
  OBVIOUS
<1>2. c \in X /\ r \in Nat
  OBVIOUS
<1>3. b \in Seq(X) /\ Len(b) = r + 1 /\ \A j \in 1..(r + 1) : b[j] = u[j]
  OBVIOUS
<1> HIDE DEF a, b
<1>4. Append(a, c) = b
  <2>1. Append(a, c) \in Seq(X) /\ Len(Append(a, c)) = r + 1
    BY <1>1, <1>2
  <2>2. ASSUME NEW j \in 1..(r + 1) PROVE Append(a, c)[j] = u[j]
    <3>1. CASE j <= r
      <4>1. j \in 1..r
        BY <1>2, <3>1
      <4>2. Append(a, c)[j] = a[j]
        BY <1>1, <1>2, <4>1
      <4> QED BY <1>1, <4>1, <4>2
    <3>2. CASE j = r + 1
      BY <1>1, <1>2, <3>2
    <3>3. j <= r \/ j = r + 1
      BY <1>2
    <3> QED BY <3>1, <3>2, <3>3
  <2> DEFINE y == Append(a, c)
  <2> HIDE DEF y
  <2> QED BY <1>2, <1>3, <2>1, <2>2 DEF y
<1>5. Append(J \o a, c) = J \o Append(a, c)
  <2> HIDE DEF c
  <2> QED BY <1>1, <1>2
<1> QED BY <1>4, <1>5 DEF a, b

\* The three places the parse can be at.
LEMMA AlignedChar ==
  ASSUME ParseInv, NEW k \in 1 .. Len(call) + 1, NEW r \in 0..2, AlignedAt(k, r)
  PROVE  \/ k = Len(call) + 1 /\ r = 0 /\ CharAt(cur_char) = NUL
         \/ /\ k \in 1..Len(call) /\ call[k].spec = "text" /\ r \in 0 .. Len(call[k].run) - 1
            /\ CharAt(cur_char) = call[k].run[r + 1] /\ CharAt(cur_char) \notin {"%", NUL}
         \/ /\ k \in 1..Len(call) /\ r = 0 /\ cur_char = Start(call, k)
            /\ call[k].spec # "text" /\ CharAt(cur_char) = "%"
<1>1. call \in Calls /\ fmt = FlattenSeq(Spellings(call)) /\ cur_char = Start(call, k) + r
      /\ (r # 0 => k <= Len(call) /\ call[k].spec = "text" /\ r < Len(call[k].run))
  BY DEF ParseInv, AlignedAt
<1>2. Len(call) \in Nat /\ Start(call, k) \in Nat
  BY <1>1, CallIs, Positions
<1>3. CASE k = Len(call) + 1
  <2>1. r = 0
    BY <1>1, <1>2, <1>3
  <2>2. cur_char = Start(call, k)
    BY <1>1, <1>2, <2>1
  <2>3. At(fmt, Start(call, k)) = NUL
    BY <1>1, <1>3, FirstChar
  <2> QED BY <1>3, <2>1, <2>2, <2>3, CharAtIs
<1>4. CASE k <= Len(call) /\ call[k].spec = "text"
  <2> DEFINE u == call[k].run
  <2>1. k \in 1..Len(call) /\ call[k] \in Tokens
    BY <1>1, <1>2, <1>4, CallIs
  <2>2. Spelling(call[k]) = u /\ u \in Runs
    BY <1>4, <2>1, TextSpelling
  <2>3. Len(u) \in 1..3 /\ \A j \in 1..Len(u) : u[j] \notin {"%", "NUL"}
    BY <2>2, RunIs
  <2>4. r < Len(u) /\ r \in Nat
    <3>1. r # 0 => r < Len(u)
      BY <1>1
    <3> DEFINE l == Len(u)
    <3>4. l \in 1..3
      BY <2>3
    <3> HIDE DEF l
    <3>2. r = 0 => r < l
      BY <3>4
    <3>3. r < Len(u)
      BY <3>1, <3>2 DEF l
    <3> QED BY <3>3
  <2>5. At(fmt, Start(call, k) + r) = u[r + 1]
    <3>1. r < Len(Spelling(call[k]))
      BY <2>2, <2>4
    <3>2. At(fmt, Start(call, k) + r) = Spelling(call[k])[r + 1]
      BY <1>1, <2>1, <2>4, <3>1, SpelledAt
    <3> QED BY <2>2, <3>2
  <2> HIDE DEF u
  <2>6. r + 1 \in 1..Len(u) /\ r \in 0 .. Len(u) - 1
    BY <2>3, <2>4
  <2>7. u[r + 1] \notin {"%", NUL}
    BY <2>3, <2>6 DEF NUL
  <2> QED BY <1>1, <1>4, <2>1, <2>5, <2>6, <2>7, CharAtIs DEF u
<1>5. CASE k <= Len(call) /\ call[k].spec # "text"
  <2>1. r = 0 /\ k \in 1..Len(call)
    BY <1>1, <1>2, <1>5
  <2>2. cur_char = Start(call, k)
    BY <1>1, <1>2, <2>1
  <2>3. At(fmt, Start(call, k)) = "%"
    BY <1>1, <1>5, FirstChar
  <2> QED BY <1>5, <2>1, <2>2, <2>3, CharAtIs
<1> QED BY <1>2, <1>3, <1>4, <1>5

LEMMA PrintsStep ==
  ASSUME NEW c \in Calls, NEW k \in 1..Len(c)
  PROVE  /\ Joined(Prints(c), k - 1) \in Seq(Chars) /\ Printed(c[k]) \in Seq(Chars)
         /\ Joined(Prints(c), k) = Joined(Prints(c), k - 1) \o Printed(c[k])
         /\ Joined(Prints(c), k) \in Seq(Chars)
<1> DEFINE N == Len(c)
           s == Prints(c)
<1>1. N \in Nat /\ s \in [1..N -> Seq(Chars)] /\ s[k] = Printed(c[k])
  BY CallIs, PrintsAre
<1>2. k \in 1..N /\ k - 1 \in 0..N /\ k \in 0..N
  BY <1>1
<1> HIDE DEF N, s
<1>3. /\ Joined(s, k) = Joined(s, k - 1) \o s[k] /\ Joined(s, k - 1) \in Seq(Chars)
      /\ Joined(s, k) \in Seq(Chars) /\ s[k] \in Seq(Chars)
  BY <1>1, <1>2, JoinedIs
<1> QED BY <1>1, <1>3 DEF s

\* The state at the start of the token behind k.
LEMMA NextToken ==
  ASSUME call \in Calls, call' = call, NEW k \in 1..Len(call),
         \A i \in 1 .. k - 1 : ~Overruns(call[i]), ~Overruns(call[k]),
         cur_char' = Start(call, k + 1), arg' = Len(Joined(Passes(call), k)),
         out' = Joined(Prints(call), k)
  PROVE  Aligned'
<1> DEFINE n == k + 1
           z == 0
<1>1. Len(call) \in Nat
  BY CallIs
<1>2. n \in 1 .. Len(call) + 1 /\ n - 1 = k /\ z \in 0..2
  BY <1>1
<1>3. ASSUME NEW i \in 1 .. n - 1 PROVE ~Overruns(call[i])
  <2>1. CASE i = k
    BY <2>1
  <2>2. CASE i # k
    <3>1. i \in 1 .. k - 1
      BY <2>2
    <3> QED BY <3>1
  <2> QED BY <2>1, <2>2
<1>4. cur_char' = Start(call, n) + z
  <2>1. Start(call, n) \in Nat
    BY <1>2, Positions
  <2> HIDE DEF n
  <2> QED BY <2>1 DEF n
<1>5. out' = Joined(Prints(call), k) \o << >>
  <2> DEFINE J == Joined(Prints(call), k)
  <2>1. J \in Seq(Chars)
    BY PrintsStep
  <2> HIDE DEF J
  <2>2. J \o << >> = J
    BY <2>1
  <2> QED BY <2>2 DEF J
<1>6. AlignedAt(n, z)'
  <2> HIDE DEF n
  <2>1. ~(z # 0)
    OBVIOUS
  <2> QED BY <1>2, <1>3, <1>4, <1>5, <2>1 DEF AlignedAt
<1> HIDE DEF n, z
<1> QED BY <1>2, <1>6 DEF Aligned

LEMMA TextAligned ==
  ASSUME ParseInv, NEW k \in 1 .. Len(call) + 1, NEW r \in 0..2, AlignedAt(k, r), text
  PROVE  Aligned'
<1> DEFINE u == call[k].run
           J == Joined(Prints(call), k - 1)
<1>1. call \in Calls /\ CharAt(cur_char) \notin {"%", NUL} /\ call' = call /\ arg' = arg
      /\ cur_char' = cur_char + 1 /\ out' = Append(out, CharAt(cur_char))
  BY DEF ParseInv, text
<1>2. /\ k \in 1..Len(call) /\ call[k].spec = "text" /\ r \in 0 .. Len(u) - 1
      /\ CharAt(cur_char) = u[r + 1]
  BY <1>1, AlignedChar
<1>3. call[k] \in Tokens /\ Len(call) \in Nat
  BY <1>1, <1>2, CallIs
<1>4. u \in Runs /\ Spelling(call[k]) = u
  BY <1>2, <1>3, TextSpelling
<1>5. u \in Seq(Chars) /\ Len(u) \in 1..3
  BY <1>4, RunIs
<1>6. J \in Seq(Chars)
  BY <1>1, <1>2, PrintsStep
<1>7. /\ cur_char = Start(call, k) + r /\ arg = Len(Joined(Passes(call), k - 1))
      /\ out = J \o (IF r = 0 THEN << >> ELSE SubSeq(u, 1, r))
      /\ \A i \in 1 .. k - 1 : ~Overruns(call[i])
  BY DEF AlignedAt
<1>8. out' = J \o SubSeq(u, 1, r + 1)
  <2> HIDE DEF u, J
  <2>1. Append(J \o (IF r = 0 THEN << >> ELSE SubSeq(u, 1, r)), u[r + 1]) = J \o SubSeq(u, 1, r + 1)
    BY <1>2, <1>5, <1>6, PrefixStep
  <2>2. out' = Append(out, u[r + 1])
    BY <1>1, <1>2
  <2> QED BY <1>7, <2>1, <2>2
<1>9. Start(call, k) \in Nat /\ Start(call, k + 1) = Start(call, k) + Len(u)
  BY <1>1, <1>2, <1>4, Positions
<1>10. cur_char' = Start(call, k) + (r + 1)
  BY <1>1, <1>7, <1>9
<1>11. CASE r + 1 < Len(u)
  <2> DEFINE q == r + 1
  <2>1. q \in 0..2 /\ q # 0 /\ ~(q = 0)
    <3> DEFINE l == Len(u)
    <3>1. l \in 1..3 /\ q < l /\ r \in 0..2
      BY <1>5, <1>11
    <3> HIDE DEF l
    <3> QED BY <3>1
  <2>4. k <= Len(call)
    <3>1. k \in 1..Len(call)
      BY <1>2
    <3> QED BY <1>3, <3>1
  <2>2. cur_char' = Start(call, k) + q /\ out' = J \o SubSeq(u, 1, q) /\ q < Len(u)
    BY <1>8, <1>10, <1>11
  <2> HIDE DEF q
  <2>3. AlignedAt(k, q)'
    BY <1>1, <1>2, <1>7, <2>1, <2>2, <2>4 DEF AlignedAt
  <2> QED BY <1>1, <2>1, <2>3 DEF Aligned
<1>12. CASE r + 1 = Len(u)
  <2>1. SubSeq(u, 1, r + 1) = u
    <3> HIDE DEF u
    <3> QED BY <1>5, <1>12
  <2>2. cur_char' = Start(call, k + 1)
    BY <1>9, <1>10, <1>12
  <2>3. ~Overruns(call[k])
    BY <1>2 DEF Overruns
  <2>4. Printed(call[k]) = u
    BY <1>2, <2>3 DEF Printed
  <2>5. Joined(Prints(call), k) = J \o u
    BY <1>1, <1>2, <2>4, PrintsStep
  <2>6. arg' = Len(Joined(Passes(call), k))
    <3>1. call[k].spec \notin Consuming
      BY <1>2 DEF Consuming
    <3>2. /\ Len(Joined(Passes(call), k)) = Len(Joined(Passes(call), k - 1)) + 0
          /\ Len(Joined(Passes(call), k - 1)) \in Nat
      BY <1>1, <1>2, <3>1, ArgumentIs
    <3> QED BY <1>1, <1>7, <3>2
  <2> HIDE DEF u, J
  <2>7. out' = Joined(Prints(call), k)
    BY <1>8, <2>1, <2>5
  <2> QED BY <1>1, <1>2, <1>7, <2>2, <2>3, <2>6, <2>7, NextToken
<1>13. r + 1 < Len(u) \/ r + 1 = Len(u)
  <2> HIDE DEF u
  <2> QED BY <1>2, <1>5
<1> QED BY <1>11, <1>12, <1>13

LEMMA DirectiveAligned ==
  ASSUME ParseInv, ~Ambiguous, NEW k \in 1 .. Len(call) + 1, NEW r \in 0..2, AlignedAt(k, r), directive
  PROVE  \/ ended' = "no" /\ Aligned'
         \/ ended' = "wild" /\ \E i \in 1..Len(call) : Overruns(call[i])
<1> DEFINE c == CharAt(cur_char + 1)
           w == IF c \in Consuming THEN Arguments[arg + 1] ELSE 0
           t == call[k]
           J == Joined(Prints(call), k - 1)
<1>1. /\ call \in Calls /\ fmt = FlattenSeq(Spellings(call))
      /\ CharAt(cur_char) = "%" /\ c # NUL /\ ended = "no" /\ call' = call
      /\ cur_char' = AfterDirective
      /\ arg' = IF c \in Consuming THEN arg + 1 ELSE arg
      /\ (c \in Converting) => /\ out' = out \o StringOf(Converts(c, w))
                               /\ ended' = IF Wild(Converts(c, w)) THEN "wild" ELSE "no"
      /\ (c \notin Converting) => out' = out \o Puts(c, w) /\ ended' = ended
  BY DEF ParseInv, directive, Converting
<1>2. k \in 1..Len(call) /\ r = 0 /\ cur_char = Start(call, k) /\ t.spec # "text"
  BY <1>1, AlignedChar DEF NUL
<1>3. Len(call) \in Nat /\ t \in Tokens /\ fmt \in Seq(Chars) /\ Len(fmt) \in Nat
  BY <1>1, <1>2, CallIs, Positions
<1>4. t.spec \in Specs
  <2> SUFFICES ASSUME t.spec = "lone" PROVE FALSE
    BY <1>2, <1>3, TokenIs
  <2>1. cur_char = Len(fmt)
    BY <1>1, <1>2, LoneEnds
  <2>2. cur_char + 1 \in Nat \ {0} /\ cur_char + 1 > Len(fmt)
    BY <1>3, <2>1
  <2> QED BY <1>1, <1>3, <2>2, AtIs, CharAtIs
<1>5. c = t.spec
  BY <1>1, <1>2, <1>4, DirectiveAt
<1>6. AfterDirective = Start(call, k + 1) /\ padding = Pos(t.padding)
  BY <1>1, <1>2, <1>4, DirectiveRead
<1>7. /\ arg = Len(Joined(Passes(call), k - 1)) /\ out = J \o << >>
      /\ \A i \in 1 .. k - 1 : ~Overruns(call[i])
  BY <1>2 DEF AlignedAt
<1>8. J \in Seq(Chars) /\ Joined(Prints(call), k) = J \o Printed(t)
  BY <1>1, <1>2, PrintsStep
<1>9. out = J
  <2> HIDE DEF J
  <2>1. J \o << >> = J
    BY <1>8
  <2> QED BY <1>7, <2>1
<1>10. (t.spec \in Consuming => w = t.word) /\ arg' = Len(Joined(Passes(call), k))
  <2>1. /\ t.spec \in Consuming => Arguments[Len(Joined(Passes(call), k - 1)) + 1] = t.word
        /\ Len(Joined(Passes(call), k)) = Len(Joined(Passes(call), k - 1))
                                             + (IF t.spec \in Consuming THEN 1 ELSE 0)
        /\ Len(Joined(Passes(call), k - 1)) \in Nat
    BY <1>1, <1>2, ArgumentIs
  <2>2. t.spec \in Consuming => w = t.word
    BY <1>5, <1>7, <2>1
  <2>3. CASE t.spec \in Consuming
    BY <1>1, <1>5, <1>7, <2>1, <2>2, <2>3
  <2>4. CASE t.spec \notin Consuming
    BY <1>1, <1>5, <1>7, <2>1, <2>2, <2>4
  <2> QED BY <2>3, <2>4
<1> HIDE DEF c, w, J
<1>11. CASE t.spec \in Converting
  <2>1. w = t.word
    <3>1. t.spec \in Consuming
      BY <1>11 DEF Converting, Consuming
    <3> QED BY <1>10, <3>1
  <2>2. Converts(c, w) = Converted(t)
    <3> HIDE DEF t
    <3>1. CASE t.spec = "d"
      BY <1>5, <2>1, <3>1 DEF Converts, Converted
    <3>2. CASE t.spec = "u"
      BY <1>5, <2>1, <3>2 DEF Converts, Converted
    <3>3. CASE t.spec = "x"
      BY <1>5, <1>6, <2>1, <3>3 DEF Converts, Converted
    <3>4. CASE t.spec = "b"
      BY <1>5, <1>6, <2>1, <3>4 DEF Converts, Converted
    <3>5. CASE t.spec = "p"
      BY <1>5, <2>1, <3>5 DEF Converts, Converted
    <3> QED BY <1>11, <3>1, <3>2, <3>3, <3>4, <3>5 DEF Converting
  <2>3. out' = out \o StringOf(Converted(t)) /\ ended' = IF Wild(Converted(t)) THEN "wild" ELSE "no"
    BY <1>1, <1>5, <1>11, <2>2
  <2>4. Wild(Converted(t)) <=> Overruns(t)
    BY <1>3, <1>11, ConvertedIs
  <2>5. CASE Overruns(t)
    BY <1>2, <2>3, <2>4, <2>5
  <2>6. CASE ~Overruns(t)
    <3>1. Printed(t) = StringOf(Converted(t))
      BY <1>2, <1>11, <2>6 DEF Printed
    <3>2. out' = Joined(Prints(call), k) /\ ended' = "no"
      BY <1>8, <1>9, <2>3, <2>4, <2>6, <3>1
    <3>3. cur_char' = Start(call, k + 1)
      BY <1>1, <1>6
    <3>4. Aligned'
      BY <1>1, <1>2, <1>7, <1>10, <2>6, <3>2, <3>3, NextToken
    <3> QED BY <3>2, <3>4
  <2> QED BY <2>5, <2>6
<1>12. CASE t.spec \notin Converting
  <2>1. ~Overruns(t)
    BY <1>12 DEF Overruns, Converting
  <2>2. Puts(c, w) = Puts(t.spec, t.word)
    <3> HIDE DEF t
    <3>1. CASE t.spec \in Consuming
      BY <1>5, <1>10, <3>1
    <3>2. CASE t.spec \notin Consuming
      <4>1. t.spec = "%" \/ t.spec = "z"
        BY <1>4, <3>2 DEF Specs
      <4> QED BY <1>5, <4>1 DEF Puts
    <3> QED BY <3>1, <3>2
  <2>3. Printed(t) = Puts(t.spec, t.word)
    BY <1>2, <1>12, <2>1 DEF Printed
  <2>4. out' = Joined(Prints(call), k) /\ ended' = "no"
    BY <1>1, <1>5, <1>8, <1>9, <1>12, <2>2, <2>3
  <2>5. cur_char' = Start(call, k + 1)
    BY <1>1, <1>6
  <2>6. Aligned'
    BY <1>1, <1>2, <1>7, <1>10, <2>1, <2>4, <2>5, NextToken
  <2> QED BY <2>4, <2>6
<1> QED BY <1>11, <1>12

LEMMA FollowInit == Init => FollowInv
<1> SUFFICES ASSUME Init PROVE FollowInv
  OBVIOUS
<1> DEFINE one == 1
           z == 0
<1>1. call \in Calls /\ cur_char = 1 /\ arg = 0 /\ out = << >> /\ ended = "no"
  BY DEF Init
<1>2. Len(call) \in Nat /\ Start(call, 1) = 1
  BY <1>1, CallIs, Positions
<1>3. Joined(Passes(call), 0) = << >> /\ Joined(Prints(call), 0) = << >>
  <2>1. Passes(call) \in [1..Len(call) -> Seq(Nat)] /\ Prints(call) \in [1..Len(call) -> Seq(Chars)]
    BY <1>1, PassesAre, PrintsAre
  <2> QED BY <1>2, <2>1, JoinedIs
<1>4. /\ one \in 1 .. Len(call) + 1 /\ z \in 0..2 /\ one - 1 = 0 /\ cur_char = Start(call, one) + z
      /\ ~(z # 0)
  BY <1>1, <1>2
<1>5. arg = Len(Joined(Passes(call), 0)) /\ out = Joined(Prints(call), 0) \o << >>
  BY <1>1, <1>3
<1>6. \A i \in 1 .. one - 1 : ~Overruns(call[i])
  <2>1. 1 .. one - 1 = {}
    OBVIOUS
  <2> QED BY <2>1
<1> HIDE DEF one, z
<1>7. AlignedAt(one, z)
  BY <1>4, <1>5, <1>6 DEF AlignedAt
<1>8. Aligned
  BY <1>4, <1>7 DEF Aligned
<1> QED BY <1>1, <1>8, ParseInit DEF FollowInv

LEMMA FollowStep == FollowInv /\ [Next]_vars => FollowInv'
<1> SUFFICES ASSUME FollowInv, [Next]_vars PROVE FollowInv'
  OBVIOUS
<1>1. ParseInv /\ ParseInv'
  BY ParseStep DEF FollowInv
<1>2. call \in Calls /\ Len(call) \in Nat
  BY <1>1, CallIs DEF ParseInv
<1> SUFFICES ASSUME ~Ambiguous'
             PROVE  /\ ended' = "no" => Aligned'
                    /\ ended' = "returned" => /\ out' = Joined(Prints(call'), Len(call'))
                                              /\ \A i \in 1..Len(call') : ~Overruns(call'[i])
                    /\ ended' = "wild" => \E i \in 1..Len(call') : Overruns(call'[i])
  BY <1>1 DEF FollowInv
<1>3. call' = call
  BY DEF Next, text, return, directive, lone_percent, Ended, vars
<1>4. ~Ambiguous
  BY <1>3 DEF Ambiguous
<1>5. /\ ended = "no" => Aligned
      /\ ended = "returned" => /\ out = Joined(Prints(call), Len(call))
                               /\ \A i \in 1..Len(call) : ~Overruns(call[i])
      /\ ended = "wild" => \E i \in 1..Len(call) : Overruns(call[i])
  BY <1>4 DEF FollowInv
<1>6. CASE text
  <2>1. ended = "no" /\ ended' = ended
    BY <1>6 DEF text
  <2>2. PICK k \in 1 .. Len(call) + 1, r \in 0..2 : AlignedAt(k, r)
    BY <1>5, <2>1 DEF Aligned
  <2>3. Aligned'
    BY <1>1, <1>6, <2>2, TextAligned
  <2> QED BY <2>1, <2>3
<1>7. CASE return
  <2>1. ended = "no" /\ CharAt(cur_char) = NUL /\ ended' = "returned" /\ out' = out
    BY <1>7 DEF return
  <2>2. PICK k \in 1 .. Len(call) + 1, r \in 0..2 : AlignedAt(k, r)
    BY <1>5, <2>1 DEF Aligned
  <2>3. k = Len(call) + 1 /\ r = 0
    BY <1>1, <2>1, <2>2, AlignedChar DEF NUL
  <2>4. k - 1 = Len(call)
    BY <1>2, <2>3
  <2>5. out = Joined(Prints(call), Len(call)) \o << >> /\ \A i \in 1..Len(call) : ~Overruns(call[i])
    BY <2>2, <2>3, <2>4 DEF AlignedAt
  <2>6. out = Joined(Prints(call), Len(call))
    <3> DEFINE N == Len(call)
               J == Joined(Prints(call), N)
    <3>1. N \in Nat /\ N \in 0..N /\ Prints(call) \in [1..N -> Seq(Chars)]
      BY <1>2, PrintsAre
    <3> HIDE DEF N
    <3>2. J \in Seq(Chars)
      BY <3>1, JoinedIs
    <3>3. out = J \o << >>
      BY <2>5 DEF N
    <3> HIDE DEF J
    <3>4. J \o << >> = J
      BY <3>2
    <3> QED BY <3>3, <3>4 DEF J, N
  <2> QED BY <1>3, <2>1, <2>5, <2>6
<1>8. CASE directive
  <2>1. ended = "no"
    BY <1>8 DEF directive
  <2>2. PICK k \in 1 .. Len(call) + 1, r \in 0..2 : AlignedAt(k, r)
    BY <1>5, <2>1 DEF Aligned
  <2>3. \/ ended' = "no" /\ Aligned'
        \/ ended' = "wild" /\ \E i \in 1..Len(call) : Overruns(call[i])
    BY <1>1, <1>4, <1>8, <2>2, DirectiveAligned
  <2> QED BY <1>3, <2>3
<1>9. CASE lone_percent
  BY <1>9 DEF lone_percent
<1>10. CASE UNCHANGED vars
  <2>1. /\ ended' = ended /\ out' = out /\ arg' = arg /\ cur_char' = cur_char /\ fmt' = fmt
    BY <1>10 DEF vars
  <2>2. Aligned' <=> Aligned
    BY <1>3, <2>1 DEF Aligned, AlignedAt
  <2> QED BY <1>3, <1>5, <2>1, <2>2
<1> QED BY <1>6, <1>7, <1>8, <1>9, <1>10 DEF Next, Ended

LEMMA FollowAlways == Spec => []FollowInv
<1>1. Init => FollowInv
  BY FollowInit
<1>2. FollowInv /\ [Next]_vars => FollowInv'
  BY FollowStep
<1> QED BY <1>1, <1>2, PTL DEF Spec

\* A conversion of vprintf stores outside of its 128 characters only for the two
\* kinds of number named by Overruns, and a call that returns has had none of
\* them: for all widths, words, paddings and calls.
THEOREM PrintfBufferKept == Spec => []BufferKept
<1>1. FollowInv => BufferKept
  <2> SUFFICES ASSUME FollowInv, ~Ambiguous
               PROVE  /\ ended = "wild" => \E k \in DOMAIN call : Overruns(call[k])
                      /\ ended = "returned" => \A k \in DOMAIN call : ~Overruns(call[k])
    BY DEF BufferKept
  <2>1. DOMAIN call = 1..Len(call)
    BY CallIs DEF FollowInv, ParseInv
  <2> QED BY <2>1 DEF FollowInv
<1> QED BY <1>1, FollowAlways, PTL

----------------------------------------------------------------------------
(* The output and the meaning. *)

\* Parts that are no longer than others, one of them shorter, join to less.
LEMMA JoinedShorter ==
  ASSUME NEW X, NEW N \in Nat, NEW s \in [1..N -> Seq(X)], NEW m \in [1..N -> Seq(X)],
         \A k \in 1..N : Len(s[k]) <= Len(m[k]),
         NEW q \in 1..N, Len(s[q]) < Len(m[q])
  PROVE  Len(Joined(s, N)) < Len(Joined(m, N))
<1> DEFINE Below(n) == /\ Len(Joined(s, n)) \in Nat /\ Len(Joined(m, n)) \in Nat
                       /\ Len(Joined(s, n)) <= Len(Joined(m, n))
                       /\ q <= n => Len(Joined(s, n)) < Len(Joined(m, n))
           S == {n \in Nat : n <= N => Below(n)}
<1>1. 0 \in S
  <2>1. Joined(s, 0) = << >> /\ Joined(m, 0) = << >>
    BY JoinedIs
  <2>2. Len(Joined(s, 0)) = 0 /\ Len(Joined(m, 0)) = 0 /\ ~(q <= 0)
    BY <2>1
  <2> QED BY <2>2
<1>2. ASSUME NEW n \in Nat, n \in S PROVE n + 1 \in S
  <2> SUFFICES ASSUME n + 1 <= N PROVE Below(n + 1)
    OBVIOUS
  <2> DEFINE k == n + 1
             ls == Len(s[k])
             lm == Len(m[k])
             js == Len(Joined(s, n))
             jm == Len(Joined(m, n))
  <2>1. k \in 1..N /\ k - 1 = n /\ n <= N
    OBVIOUS
  <2>2. js \in Nat /\ jm \in Nat /\ js <= jm /\ (q <= n => js < jm)
    BY <1>2, <2>1
  <2>3. ls \in Nat /\ lm \in Nat /\ ls <= lm /\ (q = k => ls < lm)
    <3>1. ls \in Nat /\ lm \in Nat
      BY <2>1, JoinedLen
    <3>2. ls <= lm
      BY <2>1
    <3>3. q = k => ls < lm
      <4> HIDE DEF k
      <4> QED OBVIOUS
    <3> QED BY <3>1, <3>2, <3>3
  <2>4. Len(Joined(s, k)) = js + ls
    <3> HIDE DEF k
    <3>1. Len(Joined(s, k)) = Len(Joined(s, k - 1)) + Len(s[k])
      BY <2>1, JoinedLen
    <3> QED BY <2>1, <3>1
  <2>5. Len(Joined(m, k)) = jm + lm
    <3> HIDE DEF k
    <3>1. Len(Joined(m, k)) = Len(Joined(m, k - 1)) + Len(m[k])
      BY <2>1, JoinedLen
    <3> QED BY <2>1, <3>1
  <2> HIDE DEF ls, lm, js, jm
  <2>6. /\ js + ls \in Nat /\ jm + lm \in Nat /\ js + ls <= jm + lm
        /\ q <= k => js + ls < jm + lm
    <3>1. q <= k => q <= n \/ q = k
      OBVIOUS
    <3> HIDE DEF k
    <3> QED BY <2>2, <2>3, <3>1
  <2> HIDE DEF k
  <2>7. Below(k)
    BY <2>4, <2>5, <2>6
  <2> QED BY <2>7 DEF k
<1>3. \A n \in Nat : n \in S
  <2> HIDE DEF S
  <2> QED BY <1>1, <1>2, SetInduction
<1>4. N \in S
  BY <1>3
<1> QED BY <1>4

\* A call that vprintf returns from has printed what its tokens mean exactly if
\* all its numbers are printable: for all widths, words, paddings and calls.
THEOREM PrintfFormatFollowed == Spec => []FormatFollowed
<1>1. FollowInv => FormatFollowed
  <2> DEFINE N == Len(call)
             s == Prints(call)
             m == [k \in DOMAIN call |-> Meaning(call[k])]
  <2> SUFFICES ASSUME FollowInv, ended = "returned", ~Ambiguous
               PROVE  (out = FlattenSeq(m)) <=> \A k \in DOMAIN call : Printable(call[k])
    BY DEF FormatFollowed
  <2>1. call \in Calls /\ N \in Nat /\ DOMAIN call = 1..N /\ \A k \in 1..N : call[k] \in Tokens
    BY CallIs DEF FollowInv, ParseInv
  <2>2. out = Joined(s, N) /\ \A k \in 1..N : ~Overruns(call[k])
    BY DEF FollowInv
  <2>3. s \in [1..N -> Seq(Chars)] /\ \A k \in 1..N : s[k] = Printed(call[k])
    BY <2>1, PrintsAre
  <2>4. ASSUME NEW k \in 1..N PROVE Shows(call[k], s[k]) /\ m[k] = Meaning(call[k])
    <3>1. Shows(call[k], Printed(call[k]))
      BY <2>1, <2>2, PrintedIs
    <3> QED BY <2>1, <2>3, <3>1
  <2>5. /\ m \in [1..N -> Seq(Chars)]
        /\ \A k \in 1..N : m[k] = Meaning(call[k])
    <3>1. ASSUME NEW k \in 1..N PROVE Meaning(call[k]) \in Seq(Chars)
      BY <2>4 DEF Shows
    <3> QED BY <2>1, <3>1
  <2>6. ASSUME NEW k \in 1..N
        PROVE  /\ Printable(call[k]) => s[k] = m[k]
               /\ ~Printable(call[k]) => Len(s[k]) < Len(m[k])
    BY <2>4 DEF Shows
  <2> HIDE DEF N, s, m
  <2>7. FlattenSeq(m) = Joined(m, N)
    <3>1. m = [j \in 1..N |-> m[j]]
      BY <2>5
    <3> QED BY <3>1 DEF Joined
  <2>8. CASE \A k \in 1..N : Printable(call[k])
    <3>1. \A k \in 1..N : s[k] = m[k]
      BY <2>6, <2>8
    <3>2. s = m
      <4>1. s = [k \in 1..N |-> s[k]] /\ m = [k \in 1..N |-> m[k]]
        BY <2>3, <2>5
      <4>2. [k \in 1..N |-> s[k]] = [k \in 1..N |-> m[k]]
        BY <3>1
      <4> QED BY <4>1, <4>2
    <3> QED BY <2>1, <2>2, <2>7, <2>8, <3>2
  <2>9. CASE ~\A k \in 1..N : Printable(call[k])
    <3>1. PICK q \in 1..N : ~Printable(call[q])
      BY <2>9
    <3>2. Len(s[q]) < Len(m[q])
      BY <2>6, <3>1
    <3>3. ASSUME NEW k \in 1..N PROVE Len(s[k]) <= Len(m[k])
      <4>1. Len(s[k]) \in Nat /\ Len(m[k]) \in Nat
        <5>1. s[k] \in Seq(Chars) /\ m[k] \in Seq(Chars)
          BY <2>3, <2>5
        <5> QED BY <5>1
      <4>2. CASE Printable(call[k])
        BY <2>6, <4>1, <4>2
      <4>3. CASE ~Printable(call[k])
        BY <2>6, <4>1, <4>3
      <4> QED BY <4>2, <4>3
    <3>4. Len(Joined(s, N)) < Len(Joined(m, N))
      BY <2>1, <2>3, <2>5, <3>2, <3>3, JoinedShorter
    <3>5. Len(Joined(m, N)) \in Nat
      <4>1. N \in 0..N
        BY <2>1
      <4>2. Joined(m, N) \in Seq(Chars)
        BY <2>1, <2>5, <4>1, JoinedIs
      <4> QED BY <4>2
    <3>6. Joined(s, N) # Joined(m, N)
      BY <3>4, <3>5
    <3> QED BY <2>1, <2>2, <2>7, <2>9, <3>6
  <2> QED BY <2>8, <2>9
<1> QED BY <1>1, FollowAlways, PTL
=============================================================================
