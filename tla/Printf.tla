------------------------------- MODULE Printf -------------------------------
(***************************************************************************)
(* vprintf (kernel/utils/printf.h) and the conversions of printf.cpp.      *)
(*                                                                         *)
(* A call is given as a list of tokens, what its author means: the format  *)
(* is their spelling, the arguments are the directives', in order.  vprintf*)
(* works on the format, one character or directive a step, and its output  *)
(* is compared with what the tokens stand for.                             *)
(*                                                                         *)
(* The widths are parameters: W stands for 64, IntW for 32, BUF for 128.   *)
(***************************************************************************)
EXTENDS Integers, Sequences, SequencesExt, FiniteSetsExt, TLC

CONSTANTS
  W,             \* bits of uint64_t and int64_t
  IntW,          \* bits of int
  BUF,           \* characters of toStrResult::data
  PointerDigits, \* sizeof(void *) * 2
  Words,         \* the arguments that calls pass
  Paddings,      \* the paddings that directives ask for
  MaxTokens      \* bound: tokens of a call

\* 2 to the power of n.
Pow2[n \in Nat] == IF n = 0 THEN 1 ELSE 2 * Pow2[n - 1]

\* The buffer takes a word in binary, and a pointer, with prefix and final zero;
\* no directive asks for a padding that is not an int.
ASSUME PrintfAssumption ==
  /\ W \in Nat /\ IntW \in 1..W /\ PointerDigits \in Nat \ {0}
  /\ BUF \in Nat /\ W + 2 < BUF /\ PointerDigits + 2 < BUF
  /\ Words \subseteq 0 .. Pow2[W] - 1
  /\ Paddings \subseteq 0 .. Pow2[IntW - 1] - 1 /\ MaxTokens \in Nat

VARIABLES
  call,      \* the tokens
  fmt,       \* the format, a sequence of characters without its final zero
  cur_char,  \* index into it; Len(fmt) + 1 is the final zero
  arg,       \* how many arguments va_arg has taken
  out,       \* the characters put so far
  ended      \* "no", "returned", "past" the format, or "wild": data was overrun

vars == <<call, fmt, cur_char, arg, out, ended>>

----------------------------------------------------------------------------
(* Numbers, digits and what a conversion stores. *)

hex_digit_table == <<"0", "1", "2", "3", "4", "5", "6", "7",
                     "8", "9", "A", "B", "C", "D", "E", "F">>
Digit(d) == hex_digit_table[d + 1]
IsDecimal(c) == \E d \in 0..9 : c = Digit(d)

Pos(n) == IF n > 0 THEN n ELSE 0

\* A w-bit pattern read as a signed number.
Signed(x, w) == LET y == x % Pow2[w] IN IF y >= Pow2[w - 1] THEN y - Pow2[w] ELSE y

\* The digits of n, most significant first; none if n is not positive.  The loop
\* stores them from the last one on.
DigitsOf(n, base) ==
  LET digits[a \in Nat] ==
        IF a = 0 THEN << >> ELSE Append(digits[a \div base], Digit(a % base))
  IN IF n > 0 THEN digits[n] ELSE << >>

\* How often the counting loop runs, while (b > 0) b /= base: once for each digit.
Count(n, base) == Len(DigitsOf(n, base))

\* data as a function on the indices stored to, which may lie outside of it.
\* Store(i, s): the characters s from index i on.
Store(i, s) == [k \in i .. i + Len(s) - 1 |-> s[k - i + 1]]

\* The stores of f behind those of g.
Over(f, g) == [k \in DOMAIN f \cup DOMAIN g |-> IF k \in DOMAIN f THEN f[k] ELSE g[k]]

Zeros(n) == [k \in 1 .. Pos(n) |-> "0"]

\* The string that starts data: up to the first zero.
StringOf(data) ==
  LET n == CHOOSE n \in 0 .. Cardinality(DOMAIN data) :
             n \notin DOMAIN data /\ 0 .. n - 1 \subseteq DOMAIN data
  IN [k \in 1..n |-> data[k - 1]]

\* Some store is outside of data or takes the place of the zero at its end.
Wild(data) == ~(DOMAIN data \subseteq 0 .. BUF - 2)

\* Without optimisation (CMakeLists.txt has -O0) -a wraps for the least integer,
\* which stays negative and has no digits.
itos(x) ==
  LET a == Signed(x, W) IN
  IF a = 0 THEN Store(0, <<"0">>)
  ELSE IF a < 0 THEN Over(Store(1, DigitsOf(Signed(-a, W), 10)), Store(0, <<"-">>))
  ELSE Store(0, DigitsOf(a, 10))

utos(a) == IF a = 0 THEN Store(0, <<"0">>) ELSE Store(0, DigitsOf(a, 10))

\* A padding that is added to the digits instead of holding them.
Bug_itox(x, padding) ==
  Over(Store(2 + Pos(padding), DigitsOf(x, 16)),
       Over(Store(2, Zeros(padding)), Store(0, <<"0", "x">>)))

itox(x, padding) ==
  LET n   == Count(x, 16)
      pad == Pos(padding - n)
  IN IF x = 0
     THEN Over(Store(2, IF padding = 0 THEN <<"0">> ELSE Zeros(padding)), Store(0, <<"0", "x">>))
     ELSE Over(Store(2 + pad, DigitsOf(x, 16)), Over(Store(2, Zeros(pad)), Store(0, <<"0", "x">>)))

\* The digits are counted on an int copy of x, but all those of x are stored,
\* backwards from the counted end.
itob(x, padding) ==
  LET counted == Count(Signed(x, IntW), 2)
      pad     == Pos(padding - counted)
      indx    == 2 + counted + pad
  IN IF x = 0
     THEN Over(Store(2, Zeros(padding - 2)), Store(0, <<"0", "b">>))
     ELSE Over(Store(indx - Count(x, 2), DigitsOf(x, 2)),
               Over(Store(2, Zeros(pad)), Store(0, <<"0", "b">>)))

----------------------------------------------------------------------------
(* Calls. *)

NoPadding == -1
Text(run) == [spec |-> "text", run |-> run, word |-> 0, padding |-> NoPadding]
Directive(spec, word, padding) ==
  [spec |-> spec, run |-> << >>, word |-> word, padding |-> padding]

Consuming == {"c", "d", "u", "x", "b", "p", "s"}

Tokens ==
  {Text(r) : r \in {<<"a">>, <<".">>, <<".", ":">>, <<".", ":", "7">>, <<"7">>}}
    \cup {Directive(s, w, p) : s \in Consuming, w \in Words, p \in Paddings \cup {NoPadding}}
    \cup {Directive(s, 0, NoPadding) : s \in {"%", "z", "lone"}}

\* A lone % may only be the last character of a format.
Calls ==
  {t \in BoundedSeq(Tokens, MaxTokens) : \A k \in 1 .. Len(t) - 1 : t[k].spec # "lone"}

Decimal(n) == IF n = 0 THEN <<"0">> ELSE DigitsOf(n, 10)

Spelling(t) ==
  CASE t.spec = "text" -> t.run
    [] t.spec = "lone" -> <<"%">>
    [] OTHER -> <<"%", t.spec>> \o (IF t.padding = NoPadding THEN << >>
                                    ELSE <<".", ":">> \o Decimal(t.padding))

\* What the caller passes behind the format.
Passed(t) == IF t.spec \in Consuming THEN <<t.word>> ELSE << >>
Arguments == FlattenSeq([k \in DOMAIN call |-> Passed(call[k])])

\* What %s prints for the string an argument points to, and %c for a character.
StringAt(w) == <<Digit(w % 16), "s">>

----------------------------------------------------------------------------
(* vprintf. *)

Init ==
  /\ call \in Calls
  /\ fmt = FlattenSeq([k \in DOMAIN call |-> Spelling(call[k])])
  /\ cur_char = 1 /\ arg = 0 /\ out = << >> /\ ended = "no"

NUL == "NUL"
CharAt(i) == IF i <= Len(fmt) THEN fmt[i] ELSE NUL

\* A loop that looks for the % alone.
Bug_text ==
  /\ ended = "no" /\ CharAt(cur_char) # "%"
  /\ out' = Append(out, CharAt(cur_char))
  /\ cur_char' = cur_char + 1
  /\ UNCHANGED <<call, fmt, arg, ended>>

\* The inner loop: put what is neither % nor the end.
text ==
  /\ ended = "no" /\ CharAt(cur_char) \notin {"%", NUL}
  /\ out' = Append(out, CharAt(cur_char))
  /\ cur_char' = cur_char + 1
  /\ UNCHANGED <<call, fmt, arg, ended>>

return ==
  /\ ended = "no" /\ CharAt(cur_char) = NUL
  /\ ended' = "returned"
  /\ UNCHANGED <<call, fmt, cur_char, arg, out>>

\* ".:" behind the conversion character, and the digits behind that.
HasPadding == CharAt(cur_char + 2) = "." /\ CharAt(cur_char + 3) = ":"
PaddingEnd ==
  CHOOSE e \in cur_char + 4 .. Len(fmt) + 1 :
    /\ ~IsDecimal(CharAt(e))
    /\ \A i \in cur_char + 4 .. e - 1 : IsDecimal(CharAt(i))
ValueOf(c) == CHOOSE d \in 0..9 : c = Digit(d)
ReadDecimal(s) ==
  LET value[i \in 0 .. Len(s)] == IF i = 0 THEN 0 ELSE value[i - 1] * 10 + ValueOf(s[i])
  IN value[Len(s)]

\* Accumulated in a uint32_t, passed to the conversions as an int.
padding ==
  IF HasPadding THEN Signed(ReadDecimal(SubSeq(fmt, cur_char + 4, PaddingEnd - 1)), IntW) ELSE 0

\* An index left on the character behind the padding, which the loop then skips.
Bug_AfterDirective == IF HasPadding THEN PaddingEnd + 1 ELSE cur_char + 2
AfterDirective == IF HasPadding THEN PaddingEnd ELSE cur_char + 2

\* A directive that puts characters and no converted number.
Puts(c, w) ==
  CASE c = "c" -> <<Digit(w % 16)>>
    [] c = "s" -> StringAt(w)
    [] c = "%" -> <<"%">>
    [] OTHER   -> <<"Invalid printf specifier!!!">>

\* Directives whose text comes from a conversion.
Converts(c, w) ==
  CASE c = "d" -> itos(w)
    [] c = "u" -> utos(w)
    [] c = "x" -> itox(w, padding)
    [] c = "b" -> itob(w, padding)
    [] c = "p" -> itox(w, PointerDigits)

directive ==
  LET c == CharAt(cur_char + 1)
      w == IF c \in Consuming THEN Arguments[arg + 1] ELSE 0
  IN
  /\ ended = "no" /\ CharAt(cur_char) = "%" /\ c # NUL
  /\ cur_char' = AfterDirective
  /\ arg' = IF c \in Consuming THEN arg + 1 ELSE arg
  /\ IF c \in {"d", "u", "x", "b", "p"}
     THEN /\ out' = out \o StringOf(Converts(c, w))
          /\ ended' = IF Wild(Converts(c, w)) THEN "wild" ELSE "no"
     ELSE out' = out \o Puts(c, w) /\ UNCHANGED ended
  /\ UNCHANGED <<call, fmt>>

\* A % before the end: the character behind the final zero is looked at, and the
\* loop goes on there.
lone_percent ==
  /\ ended = "no" /\ CharAt(cur_char) = "%" /\ CharAt(cur_char + 1) = NUL
  /\ ended' = "past"
  /\ UNCHANGED <<call, fmt, cur_char, arg, out>>

Ended == ended # "no" /\ UNCHANGED vars

Next == text \/ return \/ directive \/ lone_percent \/ Ended

Spec == Init /\ [][Next]_vars

----------------------------------------------------------------------------
(* Properties. *)

PadTo(n, s) == Zeros(n - Len(s)) \o s

\* What a token stands for.
Meaning(t) ==
  LET w == t.word
      p == Pos(t.padding)
  IN CASE t.spec = "text" -> t.run
       [] t.spec = "d" -> (IF Signed(w, W) < 0 THEN <<"-">> \o DigitsOf(Pow2[W] - w, 10) ELSE Decimal(w))
       [] t.spec = "u" -> Decimal(w)
       [] t.spec = "x" -> <<"0", "x">> \o PadTo(p, IF w = 0 THEN <<"0">> ELSE DigitsOf(w, 16))
       [] t.spec = "p" -> <<"0", "x">> \o PadTo(PointerDigits, DigitsOf(w, 16))
       [] t.spec = "b" -> <<"0", "b">> \o PadTo(p, IF w = 0 THEN <<"0">> ELSE DigitsOf(w, 2))
       [] OTHER -> Puts(t.spec, w)

\* By how many digits itob's end, counted on the int copy or padded, is short.
Shortfall(t) ==
  Count(t.word, 2) - Max({Count(Signed(t.word, IntW), 2), t.padding})

\* The least integer, zero in binary, and numbers that the int copy cuts down and
\* no padding makes up for, do not print as they should.
Printable(t) ==
  CASE t.spec = "d" -> t.word # Pow2[W - 1]
    [] t.spec = "b" -> t.word # 0 /\ Shortfall(t) <= 0
    [] OTHER -> TRUE

\* A padding that does not fit the buffer, or a binary number that comes out
\* short by more than its prefix.
Overruns(t) ==
  \/ t.spec = "x" /\ t.padding + 2 >= BUF
  \/ t.spec = "b" /\ t.word = 0 /\ t.padding >= BUF
  \/ t.spec = "b" /\ t.word # 0 /\ (t.padding + 2 >= BUF \/ Shortfall(t) > 2)

\* Text that reads as the padding of the directive before it.
Ambiguous ==
  \E k \in 1 .. Len(call) - 1 :
    /\ call[k].spec # "text" /\ call[k + 1].spec = "text"
    /\ IF call[k].padding = NoPadding
       THEN IsPrefix(<<".", ":">>, call[k + 1].run)
       ELSE IsDecimal(Head(call[k + 1].run))

\* A call that returns has printed what its tokens mean if, and only if, each of
\* its numbers is printable: the directives, their paddings and the arguments
\* are taken apart as they were put together.
FormatFollowed ==
  (ended = "returned" /\ ~Ambiguous) =>
     ((out = FlattenSeq([k \in DOMAIN call |-> Meaning(call[k])]))
        <=> \A k \in DOMAIN call : Printable(call[k]))

\* vprintf never reads behind the final zero of its format, unless the last
\* character before it is a lone %.
ReadsInFormat ==
  cur_char <= Len(fmt) + 1 /\ (ended = "past" => Last(call).spec = "lone")

\* A conversion stores outside of its buffer exactly for the two kinds of number
\* above, and keeps the buffer's last zero otherwise.
BufferKept ==
  ~Ambiguous => /\ ended = "wild" => \E k \in DOMAIN call : Overruns(call[k])
                /\ ended = "returned" => \A k \in DOMAIN call : ~Overruns(call[k])
=============================================================================
