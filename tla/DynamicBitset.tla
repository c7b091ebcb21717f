--------------------------- MODULE DynamicBitset ---------------------------
(***************************************************************************)
(* std::dynamic_bitset (kernel/utils/datastructs/dynamic_bitset.h): bits   *)
(* in 64-bit words, on memory the allocator hands out uncleared.           *)
(*                                                                         *)
(* A set is a record: m_bitcount, and m_set, a function from the word's    *)
(* index to the set of bits that are one in it.                            *)
(***************************************************************************)
EXTENDS Integers

WORD == 64
Bit  == 0 .. WORD - 1

ROUND_UP(x, up) == ((x + up - 1) \div up) * up

\* A size in words where bytes are wanted.
Bug_alloc_size(bitcount) == ROUND_UP(bitcount \div 64, 8)

\* The bytes the constructor asks for.
alloc_size(bitcount) == ROUND_UP(bitcount \div 8, 8)

\* Loops that go one word too far.
Bug_Words(bitcount) == {indx \in 0 .. bitcount : indx * WORD < bitcount + WORD - 1}

\* The words the loops over the set visit: indx * 64 < m_bitcount.
Words(bitcount) == {indx \in 0 .. bitcount : indx * WORD < bitcount}

\* Whether position pos of the set is one.
IsSet(s, pos) == (pos % WORD) \in s.m_set[pos \div WORD]

Least(S) == CHOOSE i \in S : \A j \in S : i <= j

NotFull(s) == {indx \in Words(s.m_bitcount) : s.m_set[indx] # Bit}

\* first_clear's assertion: some visited word is not all ones.
has_clear(s) == NotFull(s) # {}

\* The first word that is not all ones, and the number of its trailing ones.
first_clear(s) ==
  LET indx == Least(NotFull(s)) IN
  indx * WORD + Least(Bit \ s.m_set[indx])

\* A loop that stops before the last word of a set that fills its words.
Bug_Scanned(bitcount) == {indx \in 0 .. bitcount : indx * WORD < bitcount - WORD}

\* The words has_zero compares as a whole: indx * 64 < m_bitcount - 1.
Scanned(bitcount) == {indx \in 0 .. bitcount : indx * WORD < bitcount - 1}

\* Then the low bits of the word the loop ended at: the last one of a set with
\* m_bitcount % 64 = 1, the one behind the set with 2 .. 63.
has_zero(s) ==
  LET remainder == s.m_bitcount % WORD
      behind    == (s.m_bitcount - 1 + WORD - 1) \div WORD
  IN \/ \E indx \in Scanned(s.m_bitcount) : s.m_set[indx] # Bit
     \/ remainder > 0 /\ ~(0 .. remainder - 1 \subseteq s.m_set[behind])

\* A reference that keeps the position instead of the bit's place in its word.
Bug_SetBit(s, pos) == [s EXCEPT !.m_set[pos \div WORD] = @ \cup {pos}]

\* s[pos].set() and s[pos].clear(), through a reference to word and bit.
SetBit(s, pos)   == [s EXCEPT !.m_set[pos \div WORD] = @ \cup {pos % WORD}]

\* A reference that addresses the first word whatever the position.
Bug_ClearBit(s, pos) == [s EXCEPT !.m_set[0] = @ \ {pos % WORD}]

ClearBit(s, pos) == [s EXCEPT !.m_set[pos \div WORD] = @ \ {pos % WORD}]
============================================================================
