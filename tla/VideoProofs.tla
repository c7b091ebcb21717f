---------------------------- MODULE VideoProofs ----------------------------
(***************************************************************************)
(* Proofs about Video, for every width and height of the page: each method *)
(* keeps every cursor of the ring inside its row, and therefore never      *)
(* writes outside the page; and read through the ring the page is the      *)
(* terminal of module Terminal.                                            *)
(***************************************************************************)
EXTENDS Video, SequenceTheorems, TLAPS

\* What every method keeps of the object.
InBounds(s) ==
  s \in Screen /\ (\A i \in Row : s.pos[i] <= VGA_WIDTH) /\ s.stray = FALSE

LEMMA SlotInRing ==
  ASSUME NEW s, s.pos_head \in Nat
  PROVE  CursorSlot(s) \in Row
BY VideoAssumption DEF CursorSlot, POS_CALC_INDX, Row

LEMMA Blanks == BlankRow \in [Col -> Entry \cup {ErasedEntry}]
BY DEF BlankRow, BlankEntry, vga_entry, Entry

LEMMA NewLineInBounds ==
  ASSUME NEW s, InBounds(s)
  PROVE  InBounds(new_line(s)) /\ Cursor(new_line(s)) = 0
<1> DEFINE head == (s.pos_head + VGA_HEIGHT - 1) % VGA_HEIGHT
           t    == [s EXCEPT !.pos_head = head]
           slot == CursorSlot(t)
           mem  == [y \in Row |-> IF y < VGA_HEIGHT - 1 THEN s.videomem[y + 1]
                                                       ELSE BlankRow]
           n    == new_line(s)
<1>1. s \in Screen
  BY DEF InBounds
<1>2. head \in Nat
  BY <1>1, VideoAssumption DEF Screen
<1>3. t \in Screen /\ t.pos_head = head /\ t.pos = s.pos
  BY <1>1, <1>2 DEF Screen
<1>4. slot \in Row
  BY <1>2, <1>3, SlotInRing
<1>5. mem \in [Row -> [Col -> Entry \cup {ErasedEntry}]]
  BY <1>1, Blanks, VideoAssumption DEF Screen, Row
<1>6. n = [videomem |-> mem, color |-> s.color, pos_head |-> head,
           pos |-> [s.pos EXCEPT ![slot] = 0], stray |-> s.stray]
  <2>1. n = [t EXCEPT !.pos[slot] = 0,
                      !.videomem = [y \in Row |->
                         IF y < VGA_HEIGHT - 1 THEN t.videomem[y + 1] ELSE BlankRow]]
    BY DEF new_line
  <2>2. t = [videomem |-> s.videomem, color |-> s.color, pos_head |-> head,
             pos |-> s.pos, stray |-> s.stray]
    BY <1>1 DEF Screen
  <2> HIDE DEF t, slot, head, n
  <2> QED BY <2>1, <2>2
<1> HIDE DEF mem, head, n, t, slot
<1>7. n \in Screen
  BY <1>1, <1>2, <1>4, <1>5, <1>6 DEF Screen
<1>8. \A i \in Row : n.pos[i] = IF i = slot THEN 0 ELSE s.pos[i]
  BY <1>1, <1>4, <1>6 DEF Screen
<1>9. InBounds(n)
  BY <1>6, <1>7, <1>8, VideoAssumption DEF InBounds
<1>10. CursorSlot(n) = slot
  BY <1>3, <1>6 DEF CursorSlot, POS_CALC_INDX, slot
<1>11. Cursor(n) = 0
  BY <1>4, <1>8, <1>10 DEF Cursor, POS_INDX, CursorSlot
<1> QED BY <1>9, <1>11 DEF n

LEMMA DelLineInBounds ==
  ASSUME NEW s, InBounds(s)
  PROVE  InBounds(del_line(s))
<1> DEFINE mem == [y \in Row |-> IF y > 0 THEN s.videomem[y - 1] ELSE BlankRow]
<1>1. s \in Screen
  BY DEF InBounds
<1>2. mem \in [Row -> [Col -> Entry \cup {ErasedEntry}]]
  BY <1>1, Blanks, VideoAssumption DEF Screen, Row
<1>3. s.pos_head + (1 % VGA_HEIGHT) \in Nat
  BY <1>1, VideoAssumption DEF Screen
<1>4. del_line(s) = [s EXCEPT !.pos_head = s.pos_head + (1 % VGA_HEIGHT),
                              !.videomem = mem]
  BY <1>1 DEF del_line, Screen
<1> HIDE DEF mem
<1> QED BY <1>1, <1>2, <1>3, <1>4 DEF InBounds, Screen

\* An entry written in the bottom row changes a cell of it and nothing else.
LEMMA WriteEntryInBounds ==
  ASSUME NEW s, InBounds(s), NEW v \in Entry \cup {ErasedEntry}, NEW x \in Col
  PROVE  InBounds(write_entry(s, v, x))
<1>1. s \in Screen /\ VGA_HEIGHT - 1 \in Row
  BY VideoAssumption DEF InBounds, Row
<1>2. write_entry(s, v, x) = [s EXCEPT !.videomem[VGA_HEIGHT - 1][x] = v]
  BY DEF write_entry
<1>3. [s.videomem EXCEPT ![VGA_HEIGHT - 1][x] = v]
        \in [Row -> [Col -> Entry \cup {ErasedEntry}]]
  BY <1>1 DEF Screen
<1>4. write_entry(s, v, x) =
        [s EXCEPT !.videomem = [s.videomem EXCEPT ![VGA_HEIGHT - 1][x] = v]]
  BY <1>1, <1>2 DEF Screen
<1> QED BY <1>1, <1>3, <1>4 DEF InBounds, Screen

\* A cursor moved within its row.
LEMMA MovedInBounds ==
  ASSUME NEW s, InBounds(s), NEW n \in 0 .. VGA_WIDTH
  PROVE  InBounds([s EXCEPT !.pos[CursorSlot(s)] = n])
<1>1. s \in Screen /\ CursorSlot(s) \in Row
  BY SlotInRing DEF InBounds, Screen
<1>2. n \in Nat /\ n <= VGA_WIDTH
  BY VideoAssumption
<1>3. [s EXCEPT !.pos[CursorSlot(s)] = n] =
        [s EXCEPT !.pos = [s.pos EXCEPT ![CursorSlot(s)] = n]]
  BY <1>1 DEF Screen
<1>4. /\ [s.pos EXCEPT ![CursorSlot(s)] = n] \in [Row -> Nat]
      /\ \A i \in Row : [s.pos EXCEPT ![CursorSlot(s)] = n][i] <= VGA_WIDTH
  BY <1>1, <1>2 DEF InBounds, Screen
<1> QED BY <1>1, <1>3, <1>4 DEF InBounds, Screen

----------------------------------------------------------------------------
(* The cases of putc. *)

LEMMA PutInBounds ==
  ASSUME NEW s, InBounds(s), NEW c \in Glyphs \cup {SPACE}
  PROVE  InBounds(put(s, c))
<1> DEFINE t == IF Cursor(s) = VGA_WIDTH THEN new_line(s) ELSE s
           m == [t EXCEPT !.pos[CursorSlot(t)] = @ + 1]
<1>1. InBounds(t) /\ Cursor(t) # VGA_WIDTH
  BY NewLineInBounds, VideoAssumption
<1>2. put(s, c) = write_entry(m, vga_entry(c, t.color), Cursor(t))
  BY DEF put
<1> HIDE DEF t
<1>3. t \in Screen /\ CursorSlot(t) \in Row
  BY <1>1, SlotInRing DEF InBounds, Screen
<1>4. Cursor(t) = t.pos[CursorSlot(t)]
  BY DEF Cursor, POS_INDX, CursorSlot
<1>5. Cursor(t) \in Nat /\ Cursor(t) <= VGA_WIDTH
  BY <1>1, <1>3, <1>4 DEF InBounds, Screen
<1>6. Cursor(t) \in Col /\ Cursor(t) + 1 \in 0 .. VGA_WIDTH
  BY <1>1, <1>5, VideoAssumption DEF Col
<1>7. m = [t EXCEPT !.pos[CursorSlot(t)] = Cursor(t) + 1]
  BY <1>4
<1>8. InBounds(m)
  BY <1>1, <1>6, <1>7, MovedInBounds
<1>9. vga_entry(c, t.color) \in Entry
  BY <1>3 DEF vga_entry, Entry, Screen
<1> QED BY <1>2, <1>6, <1>8, <1>9, WriteEntryInBounds

LEMMA BackspaceInBounds ==
  ASSUME NEW s, InBounds(s)
  PROVE  InBounds(backspace(s))
<1> DEFINE m == [s EXCEPT !.pos[CursorSlot(s)] = @ - 1]
<1>1. CASE Cursor(s) > 0 /\ Cursor(s) <= VGA_WIDTH
  <2>1. backspace(s) = write_entry(m, ErasedEntry, Cursor(s) - 1)
    BY <1>1 DEF backspace
  <2>2. s \in Screen /\ CursorSlot(s) \in Row
    BY SlotInRing DEF InBounds, Screen
  <2>3. Cursor(s) = s.pos[CursorSlot(s)]
    BY DEF Cursor, POS_INDX, CursorSlot
  <2>4. Cursor(s) \in Nat
    BY <2>2, <2>3 DEF Screen
  <2>5. Cursor(s) - 1 \in Col /\ Cursor(s) - 1 \in 0 .. VGA_WIDTH
    BY <1>1, <2>4, VideoAssumption DEF Col
  <2>6. m = [s EXCEPT !.pos[CursorSlot(s)] = Cursor(s) - 1]
    BY <2>3
  <2>7. InBounds(m)
    BY <2>5, <2>6, MovedInBounds
  <2> QED BY <2>1, <2>5, <2>7, WriteEntryInBounds
<1>2. CASE ~ (Cursor(s) > 0 /\ Cursor(s) <= VGA_WIDTH)
  <2>1. backspace(s) = del_line(s)
    BY <1>2 DEF backspace
  <2> QED BY <2>1, DelLineInBounds
<1> QED BY <1>1, <1>2

LEMMA TabInBounds ==
  ASSUME NEW s, InBounds(s)
  PROVE  InBounds(tab(s))
<1>1. InBounds(put(s, SPACE))
  BY PutInBounds
<1>2. InBounds(put(put(s, SPACE), SPACE))
  BY <1>1, PutInBounds
<1>3. InBounds(put(put(put(s, SPACE), SPACE), SPACE))
  BY <1>2, PutInBounds
<1> QED BY <1>3, PutInBounds DEF tab

LEMMA PutcInBounds ==
  ASSUME NEW s, InBounds(s), NEW c \in Char
  PROVE  InBounds(putc(s, c))
<1>1. CASE c = NL
  BY <1>1, NewLineInBounds DEF putc, NL, BS, TAB
<1>2. CASE c = BS
  BY <1>2, BackspaceInBounds DEF putc, NL, BS, TAB
<1>3. CASE c = TAB
  BY <1>3, TabInBounds DEF putc, NL, BS, TAB
<1>4. CASE c \notin {NL, BS, TAB}
  <2>1. putc(s, c) = put(s, c)
    BY <1>4 DEF putc
  <2> QED BY <1>4, <2>1, PutInBounds DEF Char
<1> QED BY <1>1, <1>2, <1>3, <1>4

LEMMA ClearInBounds ==
  ASSUME NEW s, InBounds(s)
  PROVE  InBounds(clear(s))
<1> DEFINE mem == [y \in Row |-> BlankRow]
           zero == [i \in Row |-> 0]
<1>1. clear(s) = [s EXCEPT !.videomem = mem, !.pos = zero]
  BY DEF clear
<1>2. mem \in [Row -> [Col -> Entry \cup {ErasedEntry}]]
  BY Blanks
<1>3. zero \in [Row -> Nat] /\ \A i \in Row : zero[i] <= VGA_WIDTH
  BY VideoAssumption
<1> HIDE DEF mem, zero
<1> QED BY <1>1, <1>2, <1>3 DEF InBounds, Screen

----------------------------------------------------------------------------
(* All the methods together. *)

LEMMA InitInBounds == Init => InBounds(screen)
BY Blanks, VideoAssumption DEF Init, InBounds, Screen

LEMMA NextInBounds == InBounds(screen) /\ [Next]_screen => InBounds(screen')
<1> SUFFICES ASSUME InBounds(screen), [Next]_screen PROVE InBounds(screen')
  OBVIOUS
<1>1. ASSUME NEW c \in Char, Putc(c) PROVE InBounds(screen')
  BY <1>1, PutcInBounds DEF Putc
<1>2. CASE Clear
  BY <1>2, ClearInBounds DEF Clear
<1>3. ASSUME NEW f \in Colors, SetColor(f) PROVE InBounds(screen')
  BY <1>3 DEF SetColor, set_color, InBounds, Screen
<1>4. CASE UNCHANGED screen
  BY <1>4
<1> QED BY <1>1, <1>2, <1>3, <1>4 DEF Next

----------------------------------------------------------------------------
(* The ring of cursors and the rows.  Slots are counted modulo the height of  *)
(* the page; nothing bounds the height, so the arithmetic is proved here.     *)

\* Whole turns of the ring do not matter.
LEMMA ModTurns ==
  ASSUME NEW h \in Nat \ {0}, NEW a \in Nat, NEW q \in Nat
  PROVE  (a + q * h) % h = a % h
<1> DEFINE r == a % h
           p == a \div h
           b == a + q * h
           s == b % h
           t == b \div h
<1>1. r \in 0 .. h - 1 /\ p \in Int /\ a = h * p + r
  OBVIOUS
<1>2. b \in Nat
  OBVIOUS
<1>3. s \in 0 .. h - 1 /\ t \in Int /\ b = h * t + s
  <2> HIDE DEF b
  <2> QED BY <1>2
<1>4. b = h * (p + q) + r
  BY <1>1
<1> HIDE DEF r, p, b, s, t
<1> DEFINE k == t - (p + q)
<1>5. k \in Int /\ h * k = r - s
  BY <1>1, <1>3, <1>4
<1> HIDE DEF k
<1>6. ~ (k >= 1)
  BY <1>1, <1>3, <1>5
<1>7. ~ (k <= -1)
  BY <1>1, <1>3, <1>5
<1>8. r = s
  BY <1>1, <1>3, <1>5, <1>6, <1>7
<1> QED BY <1>8 DEF r, s, b

\* Reducing before adding or after is the same.
LEMMA ModAdd ==
  ASSUME NEW h \in Nat \ {0}, NEW a \in Nat, NEW k \in Nat
  PROVE  ((a % h) + k) % h = (a + k) % h
<1> DEFINE r == a % h
           q == a \div h
<1>1. r \in Nat /\ q \in Nat /\ a = r + q * h
  OBVIOUS
<1> HIDE DEF r, q
<1>2. a + k = (r + k) + q * h /\ r + k \in Nat
  BY <1>1
<1>3. ((r + k) + q * h) % h = (r + k) % h
  BY <1>1, <1>2, ModTurns
<1> QED BY <1>2, <1>3 DEF r

\* Fewer steps than a turn never come back to the same place.
LEMMA ModApart ==
  ASSUME NEW h \in Nat \ {0}, NEW a \in Nat, NEW k \in 1 .. h - 1
  PROVE  (a + k) % h # a % h
<1> SUFFICES ASSUME (a + k) % h = a % h PROVE FALSE
  OBVIOUS
<1> DEFINE p == a \div h
           r == a % h
           b == a + k
           t == b \div h
<1>1. r \in 0 .. h - 1 /\ p \in Int /\ a = h * p + r
  OBVIOUS
<1>2. t \in Int /\ b = h * t + r
  <2>1. b \in Nat /\ b % h = r
    OBVIOUS
  <2> HIDE DEF b
  <2> QED BY <2>1
<1> DEFINE d == t - p
<1>3. d \in Int /\ h * d = k
  <2>1. b = a + k
    OBVIOUS
  <2> HIDE DEF p, r, b, t
  <2> QED BY <1>1, <1>2, <2>1
<1> HIDE DEF d
<1>4. ~ (d >= 1)
  BY <1>3
<1>5. ~ (d <= 0)
  BY <1>3
<1> QED BY <1>3, <1>4, <1>5

\* Extent and ScreenLines, of any screen.
SlotOf(s, y) == POS_CALC_INDX(s, VGA_HEIGHT - 1 + (VGA_HEIGHT - 1 - y))
ExtentOf(s, y) == s.pos[SlotOf(s, y)]
LinesOf(s) ==
  [r \in 1..VGA_HEIGHT |-> [x \in 1..ExtentOf(s, r - 1) |-> s.videomem[r - 1][x - 1]]]

LEMMA OfScreen ==
  /\ \A y : Extent(y) = ExtentOf(screen, y)
  /\ ScreenLines = LinesOf(screen)
BY DEF Extent, ScreenLines, LinesOf, ExtentOf, SlotOf, POS_INDX

\* The ring has a slot for each row, another one for another row.
LEMMA Slots ==
  ASSUME NEW s, s.pos_head \in Nat, NEW y \in Row
  PROVE  /\ SlotOf(s, y) \in Row
         /\ SlotOf(s, VGA_HEIGHT - 1) = CursorSlot(s)
         /\ y # VGA_HEIGHT - 1 => SlotOf(s, y) # CursorSlot(s)
<1> DEFINE h == VGA_HEIGHT
           a == h - 1 + s.pos_head
           k == h - 1 - y
<1>1. h \in Nat \ {0} /\ y \in Nat /\ y <= h - 1
  BY VideoAssumption DEF Row
<1>2. a \in Nat /\ k \in Nat
  BY <1>1
<1>3. SlotOf(s, y) = (a + k) % h
  <2>1. (h - 1 + k) + s.pos_head = a + k
    BY <1>1
  <2> QED BY <2>1 DEF SlotOf, POS_CALC_INDX
<1>4. CursorSlot(s) = a % h
  BY DEF CursorSlot, POS_CALC_INDX
<1>5. SlotOf(s, h - 1) = a % h
  <2>1. (h - 1 + (h - 1 - (h - 1))) + s.pos_head = a
    BY <1>1
  <2> QED BY <2>1 DEF SlotOf, POS_CALC_INDX
<1>6. (a + k) % h \in 0 .. h - 1
  <2> HIDE DEF a, k, h
  <2> QED BY <1>1, <1>2
<1>7. ASSUME y # h - 1 PROVE SlotOf(s, y) # CursorSlot(s)
  <2>1. k \in 1 .. h - 1
    BY <1>1, <1>7
  <2> HIDE DEF a, k, h
  <2> QED BY <1>1, <1>2, <1>3, <1>4, <2>1, ModApart
<1> QED BY <1>3, <1>4, <1>5, <1>6, <1>7 DEF Row

LEMMA CursorIsExtent ==
  ASSUME NEW s, s.pos_head \in Nat
  PROVE  Cursor(s) = ExtentOf(s, VGA_HEIGHT - 1)
<1>1. VGA_HEIGHT - 1 \in Row
  BY VideoAssumption DEF Row
<1> QED BY <1>1, Slots DEF Cursor, ExtentOf, POS_INDX, CursorSlot

LEMMA ExtentType ==
  ASSUME NEW s, InBounds(s), NEW y \in Row
  PROVE  ExtentOf(s, y) \in Nat /\ ExtentOf(s, y) <= VGA_WIDTH
<1>1. s \in Screen /\ SlotOf(s, y) \in Row
  BY Slots DEF InBounds, Screen
<1> QED BY <1>1 DEF InBounds, Screen, ExtentOf

\* new_line turns the ring back by one, and the rows with it.
LEMMA NewLineExtents ==
  ASSUME NEW s, InBounds(s)
  PROVE  /\ \A y \in Row : y < VGA_HEIGHT - 1 =>
              /\ ExtentOf(new_line(s), y) = ExtentOf(s, y + 1)
              /\ new_line(s).videomem[y] = s.videomem[y + 1]
         /\ ExtentOf(new_line(s), VGA_HEIGHT - 1) = 0
         /\ new_line(s).videomem[VGA_HEIGHT - 1] = BlankRow
         /\ new_line(s).color = s.color
<1> DEFINE h    == VGA_HEIGHT
           head == (s.pos_head + h - 1) % h
           t    == [s EXCEPT !.pos_head = head]
           slot == CursorSlot(t)
           mem  == [y \in Row |-> IF y < VGA_HEIGHT - 1 THEN s.videomem[y + 1]
                                                       ELSE BlankRow]
           n    == new_line(s)
<1>1. s \in Screen /\ s.pos_head \in Nat
  BY DEF InBounds, Screen
<1>2. head \in Nat
  BY <1>1, VideoAssumption
<1>3. n = [videomem |-> mem, color |-> s.color, pos_head |-> head,
           pos |-> [s.pos EXCEPT ![slot] = 0], stray |-> s.stray]
  <2>1. n = [t EXCEPT !.pos[slot] = 0,
                      !.videomem = [y \in Row |->
                         IF y < VGA_HEIGHT - 1 THEN t.videomem[y + 1] ELSE BlankRow]]
    BY DEF new_line
  <2>2. t = [videomem |-> s.videomem, color |-> s.color, pos_head |-> head,
             pos |-> s.pos, stray |-> s.stray]
    BY <1>1 DEF Screen
  <2> HIDE DEF t, slot, head, n
  <2> QED BY <2>1, <2>2
<1>4. t.pos_head = head
  BY <1>1 DEF Screen
<1> HIDE DEF n, t, slot
<1>5. CursorSlot(n) = slot
  BY <1>3, <1>4 DEF CursorSlot, POS_CALC_INDX, slot
<1>6. n.pos_head = head /\ n.pos = [s.pos EXCEPT ![slot] = 0] /\ n.videomem = mem
      /\ n.color = s.color
  BY <1>3
<1>7. ASSUME NEW y \in Row, y < h - 1
      PROVE  ExtentOf(n, y) = ExtentOf(s, y + 1) /\ n.videomem[y] = s.videomem[y + 1]
  <2>1. y + 1 \in Row /\ y \in Nat /\ h \in Nat \ {0}
    BY <1>7, VideoAssumption DEF Row
  <2>2. SlotOf(n, y) \in Row /\ SlotOf(n, y) # slot
    BY <1>2, <1>5, <1>6, <1>7, <2>1, Slots
  <2>3. SlotOf(n, y) = SlotOf(s, y + 1)
    <3> DEFINE a == s.pos_head + h - 1
               k == h - 1 + (h - 1 - y)
               b == h - 1 + (h - 1 - (y + 1)) + s.pos_head
               one == 1
    <3>1. a \in Nat /\ k \in Nat /\ b \in Nat /\ a + k = b + one * h /\ one \in Nat
      BY <1>1, <1>7, <2>1
    <3>2. SlotOf(n, y) = ((a % h) + k) % h
      <4>1. k + head = (a % h) + k
        BY <1>2, <2>1
      <4> QED BY <1>6, <4>1 DEF SlotOf, POS_CALC_INDX
    <3>3. SlotOf(s, y + 1) = b % h
      BY DEF SlotOf, POS_CALC_INDX
    <3> HIDE DEF a, k, b, h, one
    <3>4. ((a % h) + k) % h = (a + k) % h
      BY <2>1, <3>1, ModAdd
    <3>5. (b + one * h) % h = b % h
      BY <2>1, <3>1, ModTurns
    <3> QED BY <3>1, <3>2, <3>3, <3>4, <3>5
  <2>4. n.pos[SlotOf(n, y)] = s.pos[SlotOf(n, y)]
    BY <1>1, <1>6, <2>2 DEF Screen
  <2>5. n.videomem[y] = s.videomem[y + 1]
    BY <1>6, <1>7
  <2> QED BY <2>3, <2>4, <2>5 DEF ExtentOf
<1>8. ExtentOf(n, h - 1) = 0
  <2>1. Cursor(n) = 0
    BY NewLineInBounds DEF n
  <2> QED BY <1>2, <1>6, <2>1, CursorIsExtent
<1>9. n.videomem[h - 1] = BlankRow
  BY <1>6, VideoAssumption DEF Row
<1> QED BY <1>6, <1>7, <1>8, <1>9 DEF n

\* del_line turns it forward; the cursor of the bottom row becomes the top row's.
LEMMA DelLineExtents ==
  ASSUME NEW s, InBounds(s)
  PROVE  /\ \A y \in Row : y > 0 =>
              /\ ExtentOf(del_line(s), y) = ExtentOf(s, y - 1)
              /\ del_line(s).videomem[y] = s.videomem[y - 1]
         /\ ExtentOf(del_line(s), 0) = Cursor(s)
         /\ del_line(s).videomem[0] = BlankRow
         /\ del_line(s).color = s.color
<1> DEFINE h   == VGA_HEIGHT
           n   == del_line(s)
           hd  == s.pos_head + (1 % h)
           mem == [y \in Row |-> IF y > 0 THEN s.videomem[y - 1] ELSE BlankRow]
<1>1. s \in Screen /\ s.pos_head \in Nat /\ h \in Nat \ {0}
  BY VideoAssumption DEF InBounds, Screen
<1>2. n = [s EXCEPT !.pos_head = hd, !.videomem = mem]
  BY <1>1 DEF del_line, Screen
<1> HIDE DEF n, mem
<1>3. n.pos_head = hd /\ n.pos = s.pos /\ n.videomem = mem /\ n.color = s.color
  BY <1>1, <1>2 DEF Screen
<1>4. 1 % h = IF h = 1 THEN 0 ELSE 1
  BY <1>1
<1>5. ASSUME NEW y \in Row, y > 0
      PROVE  ExtentOf(n, y) = ExtentOf(s, y - 1) /\ n.videomem[y] = s.videomem[y - 1]
  <2>1. y \in Nat /\ y <= h - 1 /\ h # 1
    BY <1>1, <1>5 DEF Row
  <2>2. (h - 1 + (h - 1 - y)) + hd = (h - 1 + (h - 1 - (y - 1))) + s.pos_head
    BY <1>1, <1>4, <2>1
  <2>3. SlotOf(n, y) = SlotOf(s, y - 1)
    BY <1>3, <2>2 DEF SlotOf, POS_CALC_INDX
  <2>4. n.videomem[y] = s.videomem[y - 1]
    BY <1>3, <1>5 DEF mem
  <2> QED BY <1>3, <2>3, <2>4 DEF ExtentOf
<1>6. ExtentOf(n, 0) = Cursor(s)
  <2> DEFINE a == h - 1 + s.pos_head
             one == 1
  <2>1. CursorSlot(s) = a % h
    BY DEF CursorSlot, POS_CALC_INDX
  <2>2. a \in Nat /\ one \in Nat
    BY <1>1
  <2>3. (h - 1 + (h - 1 - 0)) + hd = IF h = 1 THEN a ELSE a + one * h
    BY <1>1, <1>4
  <2> HIDE DEF a, one, hd
  <2>4. (a + one * h) % h = a % h
    BY <1>1, <2>2, ModTurns
  <2>5. SlotOf(n, 0) = a % h
    BY <1>3, <2>3, <2>4 DEF SlotOf, POS_CALC_INDX
  <2> QED BY <1>3, <2>1, <2>5 DEF ExtentOf, Cursor, POS_INDX, CursorSlot
<1>7. n.videomem[0] = BlankRow
  BY <1>1, <1>3 DEF mem, Row
<1> QED BY <1>3, <1>5, <1>6, <1>7 DEF n

\* The bottom cursor moved to n and entry v written to column x of the bottom row.
Written(s, n, v, x) == write_entry([s EXCEPT !.pos[CursorSlot(s)] = n], v, x)

\* That touches the bottom row only.
LEMMA WriteExtents ==
  ASSUME NEW s, InBounds(s), NEW n \in 0 .. VGA_WIDTH, NEW x \in Col,
         NEW v \in Entry \cup {ErasedEntry},
         NEW w, w = Written(s, n, v, x)
  PROVE  /\ \A y \in Row : y # VGA_HEIGHT - 1 =>
              ExtentOf(w, y) = ExtentOf(s, y) /\ w.videomem[y] = s.videomem[y]
         /\ ExtentOf(w, VGA_HEIGHT - 1) = n
         /\ w.videomem[VGA_HEIGHT - 1] = [s.videomem[VGA_HEIGHT - 1] EXCEPT ![x] = v]
         /\ w.color = s.color
<1> DEFINE slot == CursorSlot(s)
           cursors == [s.pos EXCEPT ![slot] = n]
           mem == [s.videomem EXCEPT ![VGA_HEIGHT - 1][x] = v]
           m == [s EXCEPT !.pos = cursors]
<1>1. s \in Screen /\ s.pos_head \in Nat /\ slot \in Row /\ VGA_HEIGHT - 1 \in Row
  BY SlotInRing, VideoAssumption DEF InBounds, Screen, Row
<1>2. [s EXCEPT !.pos[CursorSlot(s)] = n] = m
  BY <1>1 DEF Screen
<1> HIDE DEF cursors
<1>3. m.videomem = s.videomem /\ m.pos_head = s.pos_head /\ m.pos = cursors /\ m.color = s.color
  BY <1>1 DEF Screen
<1>4. w = [m EXCEPT !.videomem[VGA_HEIGHT - 1][x] = v]
  BY <1>2 DEF Written, write_entry
<1>5. w = [m EXCEPT !.videomem = [m.videomem EXCEPT ![VGA_HEIGHT - 1][x] = v]]
  BY <1>1, <1>4 DEF Screen
<1>6. w = [m EXCEPT !.videomem = mem]
  BY <1>3, <1>5
<1>7. w.videomem = mem /\ w.pos = cursors /\ w.pos_head = s.pos_head /\ w.color = s.color
  <2> HIDE DEF mem
  <2> QED BY <1>1, <1>6 DEF Screen
<1>8. \A y : SlotOf(w, y) = SlotOf(s, y)
  BY <1>7 DEF SlotOf, POS_CALC_INDX
<1>9. ASSUME NEW y \in Row, y # VGA_HEIGHT - 1
      PROVE  ExtentOf(w, y) = ExtentOf(s, y) /\ w.videomem[y] = s.videomem[y]
  <2>1. SlotOf(s, y) \in Row /\ SlotOf(s, y) # slot
    BY <1>1, <1>9, Slots
  <2>2. cursors[SlotOf(s, y)] = s.pos[SlotOf(s, y)]
    BY <1>1, <2>1 DEF cursors, Screen
  <2>3. mem[y] = s.videomem[y]
    BY <1>1, <1>9 DEF Screen
  <2> QED BY <1>7, <1>8, <2>2, <2>3 DEF ExtentOf
<1>10. ExtentOf(w, VGA_HEIGHT - 1) = n
  <2>1. SlotOf(s, VGA_HEIGHT - 1) = slot
    BY <1>1, Slots
  <2>2. cursors[slot] = n
    BY <1>1 DEF cursors, Screen
  <2> QED BY <1>7, <1>8, <2>1, <2>2 DEF ExtentOf
<1>11. mem[VGA_HEIGHT - 1] = [s.videomem[VGA_HEIGHT - 1] EXCEPT ![x] = v]
  BY <1>1 DEF Screen
<1> QED BY <1>7, <1>9, <1>10, <1>11

\* clear empties every row.
LEMMA ClearExtents ==
  ASSUME NEW s, InBounds(s), NEW y \in Row
  PROVE  ExtentOf(clear(s), y) = 0 /\ clear(s).videomem[y] = BlankRow
<1> DEFINE mem == [z \in Row |-> BlankRow]
           zero == [i \in Row |-> 0]
<1>1. s \in Screen /\ s.pos_head \in Nat
  BY DEF InBounds, Screen
<1>2. clear(s) = [s EXCEPT !.videomem = mem, !.pos = zero]
  BY DEF clear
<1> HIDE DEF mem, zero
<1>3. clear(s).videomem = mem /\ clear(s).pos = zero /\ clear(s).pos_head = s.pos_head
  BY <1>1, <1>2 DEF Screen
<1>4. SlotOf(clear(s), y) \in Row
  BY <1>1, <1>3, Slots
<1> QED BY <1>3, <1>4 DEF ExtentOf, mem, zero

\* put and backspace as a cursor moved and an entry written.
LEMMA PutWrites ==
  ASSUME NEW s, InBounds(s), NEW c \in Glyphs \cup {SPACE},
         NEW t, t = IF Cursor(s) = VGA_WIDTH THEN new_line(s) ELSE s
  PROVE  /\ InBounds(t) /\ t.color = s.color
         /\ Cursor(t) \in Col /\ Cursor(t) + 1 \in 0 .. VGA_WIDTH
         /\ vga_entry(c, s.color) \in Entry
         /\ put(s, c) = Written(t, Cursor(t) + 1, vga_entry(c, s.color), Cursor(t))
<1> DEFINE m == [t EXCEPT !.pos[CursorSlot(t)] = @ + 1]
<1>1. InBounds(t) /\ Cursor(t) # VGA_WIDTH /\ t.color = s.color
  BY NewLineInBounds, NewLineExtents, VideoAssumption
<1>2. put(s, c) = write_entry(m, vga_entry(c, t.color), Cursor(t))
  BY DEF put
<1>3. t \in Screen /\ CursorSlot(t) \in Row
  BY <1>1, SlotInRing DEF InBounds, Screen
<1>4. Cursor(t) = t.pos[CursorSlot(t)]
  BY DEF Cursor, POS_INDX, CursorSlot
<1>5. Cursor(t) \in Nat /\ Cursor(t) <= VGA_WIDTH
  BY <1>1, <1>3, <1>4 DEF InBounds, Screen
<1>6. Cursor(t) \in Col /\ Cursor(t) + 1 \in 0 .. VGA_WIDTH
  BY <1>1, <1>5, VideoAssumption DEF Col
<1>7. m = [t EXCEPT !.pos[CursorSlot(t)] = Cursor(t) + 1]
  BY <1>4
<1>8. vga_entry(c, t.color) \in Entry
  BY <1>3 DEF vga_entry, Entry, Screen
<1> QED BY <1>1, <1>2, <1>6, <1>7, <1>8 DEF Written

LEMMA BackspaceWrites ==
  ASSUME NEW s, InBounds(s)
  PROVE  /\ Cursor(s) \in 0 .. VGA_WIDTH
         /\ Cursor(s) > 0 =>
              /\ Cursor(s) - 1 \in Col /\ Cursor(s) - 1 \in 0 .. VGA_WIDTH
              /\ backspace(s) = Written(s, Cursor(s) - 1, ErasedEntry, Cursor(s) - 1)
         /\ Cursor(s) = 0 => backspace(s) = del_line(s)
<1> DEFINE m == [s EXCEPT !.pos[CursorSlot(s)] = @ - 1]
<1>1. s \in Screen /\ CursorSlot(s) \in Row
  BY SlotInRing DEF InBounds, Screen
<1>2. Cursor(s) = s.pos[CursorSlot(s)]
  BY DEF Cursor, POS_INDX, CursorSlot
<1>3. Cursor(s) \in Nat /\ Cursor(s) <= VGA_WIDTH
  BY <1>1, <1>2 DEF InBounds, Screen
<1>4. m = [s EXCEPT !.pos[CursorSlot(s)] = Cursor(s) - 1]
  BY <1>2
<1>5. ASSUME Cursor(s) > 0
      PROVE  /\ Cursor(s) - 1 \in Col /\ Cursor(s) - 1 \in 0 .. VGA_WIDTH
             /\ backspace(s) = write_entry(m, ErasedEntry, Cursor(s) - 1)
  BY <1>3, <1>5, VideoAssumption DEF backspace, Col
<1>6. Cursor(s) = 0 => backspace(s) = del_line(s)
  BY DEF backspace
<1> QED BY <1>3, <1>4, <1>5, <1>6, VideoAssumption DEF Written

----------------------------------------------------------------------------
(* Past its cursor every row is blank. *)

RowsBlank(s) ==
  \A y \in Row, x \in Col :
    x >= ExtentOf(s, y) => s.videomem[y][x] \in {BlankEntry, ErasedEntry}

LEMMA NewLineBlank ==
  ASSUME NEW s, InBounds(s), RowsBlank(s)
  PROVE  RowsBlank(new_line(s))
<1> SUFFICES ASSUME NEW y \in Row, NEW x \in Col, x >= ExtentOf(new_line(s), y)
             PROVE  new_line(s).videomem[y][x] \in {BlankEntry, ErasedEntry}
  BY DEF RowsBlank
<1>1. CASE y < VGA_HEIGHT - 1
  <2>1. y + 1 \in Row
    BY <1>1, VideoAssumption DEF Row
  <2> QED BY <1>1, <2>1, NewLineExtents DEF RowsBlank
<1>2. CASE y = VGA_HEIGHT - 1
  BY <1>2, NewLineExtents DEF BlankRow
<1> QED BY <1>1, <1>2, VideoAssumption DEF Row

LEMMA DelLineBlank ==
  ASSUME NEW s, InBounds(s), RowsBlank(s)
  PROVE  RowsBlank(del_line(s))
<1> SUFFICES ASSUME NEW y \in Row, NEW x \in Col, x >= ExtentOf(del_line(s), y)
             PROVE  del_line(s).videomem[y][x] \in {BlankEntry, ErasedEntry}
  BY DEF RowsBlank
<1>1. CASE y > 0
  <2>1. y - 1 \in Row
    BY <1>1, VideoAssumption DEF Row
  <2> QED BY <1>1, <2>1, DelLineExtents DEF RowsBlank
<1>2. CASE y = 0
  BY <1>2, DelLineExtents DEF BlankRow
<1> QED BY <1>1, <1>2 DEF Row

\* A write at the cursor, or of the blank that backspace leaves behind it.
LEMMA WriteBlank ==
  ASSUME NEW s, InBounds(s), RowsBlank(s), NEW n \in 0 .. VGA_WIDTH, NEW x \in Col,
         NEW v \in Entry \cup {ErasedEntry},
         x < n \/ v = ErasedEntry, Cursor(s) <= n \/ (n = x /\ Cursor(s) = n + 1),
         NEW w, w = Written(s, n, v, x)
  PROVE  RowsBlank(w)
<1>0. /\ \A y \in Row : y # VGA_HEIGHT - 1 =>
           ExtentOf(w, y) = ExtentOf(s, y) /\ w.videomem[y] = s.videomem[y]
      /\ ExtentOf(w, VGA_HEIGHT - 1) = n
      /\ w.videomem[VGA_HEIGHT - 1] = [s.videomem[VGA_HEIGHT - 1] EXCEPT ![x] = v]
  BY WriteExtents
<1> SUFFICES ASSUME NEW y \in Row, NEW z \in Col, z >= ExtentOf(w, y)
             PROVE  w.videomem[y][z] \in {BlankEntry, ErasedEntry}
  BY DEF RowsBlank
<1>1. CASE y # VGA_HEIGHT - 1
  BY <1>0, <1>1 DEF RowsBlank
<1>2. CASE y = VGA_HEIGHT - 1
  <2>1. /\ ExtentOf(w, y) = n
        /\ w.videomem[y] = [s.videomem[y] EXCEPT ![x] = v]
    BY <1>0, <1>2
  <2>2. s.videomem[y] \in [Col -> Entry \cup {ErasedEntry}]
    BY DEF InBounds, Screen
  <2>3. Cursor(s) = ExtentOf(s, y)
    BY <1>2, CursorIsExtent DEF InBounds, Screen
  <2>4. CASE z = x
    <3>1. w.videomem[y][z] = v
      BY <2>1, <2>2, <2>4
    <3>2. ~ (x < n)
      BY <2>1, <2>4 DEF Col
    <3> QED BY <3>1, <3>2
  <2>5. CASE z # x
    <3>1. w.videomem[y][z] = s.videomem[y][z]
      BY <2>1, <2>2, <2>5
    <3>2. z >= Cursor(s)
      <4>1. ExtentOf(s, y) \in Nat
        BY ExtentType
      <4> QED BY <2>1, <2>3, <2>5, <4>1 DEF Col
    <3> QED BY <2>3, <3>1, <3>2 DEF RowsBlank
  <2> QED BY <2>4, <2>5
<1> QED BY <1>1, <1>2

LEMMA PutBlank ==
  ASSUME NEW s, InBounds(s), RowsBlank(s), NEW c \in Glyphs \cup {SPACE}
  PROVE  RowsBlank(put(s, c))
<1> DEFINE t == IF Cursor(s) = VGA_WIDTH THEN new_line(s) ELSE s
           n == Cursor(t) + 1
<1>1. RowsBlank(t)
  BY NewLineBlank
<1>2. /\ InBounds(t) /\ Cursor(t) \in Col /\ n \in 0 .. VGA_WIDTH
      /\ vga_entry(c, s.color) \in Entry
      /\ put(s, c) = Written(t, n, vga_entry(c, s.color), Cursor(t))
  <2> HIDE DEF t
  <2>1. t = IF Cursor(s) = VGA_WIDTH THEN new_line(s) ELSE s
    BY DEF t
  <2> QED BY <2>1, PutWrites
<1>3. Cursor(t) < n /\ Cursor(t) <= n
  BY <1>2 DEF Col
<1> HIDE DEF t, n
<1> QED BY <1>1, <1>2, <1>3, WriteBlank

LEMMA BackspaceBlank ==
  ASSUME NEW s, InBounds(s), RowsBlank(s)
  PROVE  RowsBlank(backspace(s))
<1>1. CASE Cursor(s) = 0
  BY <1>1, BackspaceWrites, DelLineBlank
<1>2. CASE Cursor(s) > 0
  <2> DEFINE n == Cursor(s) - 1
             w == Written(s, n, ErasedEntry, n)
  <2>1. n \in Col /\ n \in 0 .. VGA_WIDTH /\ backspace(s) = w /\ Cursor(s) = n + 1
    BY <1>2, BackspaceWrites
  <2> HIDE DEF n
  <2>2. ErasedEntry \in Entry \cup {ErasedEntry}
    OBVIOUS
  <2> QED BY <2>1, <2>2, WriteBlank
<1>3. Cursor(s) \in 0 .. VGA_WIDTH
  BY BackspaceWrites
<1> QED BY <1>1, <1>2, <1>3

LEMMA TabBlank ==
  ASSUME NEW s, InBounds(s), RowsBlank(s)
  PROVE  RowsBlank(tab(s))
<1> DEFINE a == put(s, SPACE)
           b == put(a, SPACE)
           c == put(b, SPACE)
<1>0. SPACE \in Glyphs \cup {SPACE}
  OBVIOUS
<1>1. InBounds(a) /\ RowsBlank(a)
  BY <1>0, PutInBounds, PutBlank
<1> HIDE DEF a
<1>2. InBounds(b) /\ RowsBlank(b)
  BY <1>0, <1>1, PutInBounds, PutBlank
<1> HIDE DEF b
<1>3. InBounds(c) /\ RowsBlank(c)
  BY <1>0, <1>2, PutInBounds, PutBlank
<1> HIDE DEF c
<1>4. RowsBlank(put(c, SPACE))
  BY <1>0, <1>3, PutBlank
<1> QED BY <1>4 DEF tab, a, b, c

LEMMA PutcBlank ==
  ASSUME NEW s, InBounds(s), RowsBlank(s), NEW c \in Char
  PROVE  RowsBlank(putc(s, c))
<1>1. CASE c = NL
  BY <1>1, NewLineBlank DEF putc, NL, BS, TAB
<1>2. CASE c = BS
  BY <1>2, BackspaceBlank DEF putc, NL, BS, TAB
<1>3. CASE c = TAB
  BY <1>3, TabBlank DEF putc, NL, BS, TAB
<1>4. CASE c \notin {NL, BS, TAB}
  <2>1. putc(s, c) = put(s, c)
    BY <1>4 DEF putc
  <2> QED BY <1>4, <2>1, PutBlank DEF Char
<1> QED BY <1>1, <1>2, <1>3, <1>4

----------------------------------------------------------------------------
(* The lines of the terminal. *)

Cell == Entry \cup {ErasedEntry}

LEMMA LineOf ==
  ASSUME NEW s, InBounds(s), NEW r \in 1 .. VGA_HEIGHT
  PROVE  /\ LinesOf(s)[r] = [x \in 1 .. ExtentOf(s, r - 1) |-> s.videomem[r - 1][x - 1]]
         /\ LinesOf(s)[r] \in Seq(Cell)
         /\ Len(LinesOf(s)[r]) = ExtentOf(s, r - 1)
         /\ r - 1 \in Row
<1>1. r - 1 \in Row
  BY VideoAssumption DEF Row
<1>2. LinesOf(s)[r] = [x \in 1 .. ExtentOf(s, r - 1) |-> s.videomem[r - 1][x - 1]]
  BY DEF LinesOf
<1> DEFINE n == ExtentOf(s, r - 1)
           row == s.videomem[r - 1]
<1>3. n \in Nat /\ n <= VGA_WIDTH
  BY <1>1, ExtentType
<1>4. row \in [Col -> Cell]
  BY <1>1 DEF InBounds, Screen, Cell
<1> HIDE DEF n, row
<1>5. \A x \in 1 .. n : row[x - 1] \in Cell
  BY <1>3, <1>4, VideoAssumption DEF Col
<1>6. LinesOf(s)[r] = [x \in 1 .. n |-> row[x - 1]]
  BY <1>2 DEF n, row
<1> DEFINE line == LinesOf(s)[r]
<1>7. line \in [1 .. n -> Cell]
  BY <1>5, <1>6
<1> HIDE DEF line
<1>8. line \in Seq(Cell)
  BY <1>3, <1>7, SeqDef
<1>9. Len(line) = n
  <2> DEFINE m == Len(line)
  <2>1. m \in Nat /\ DOMAIN line = 1 .. m /\ DOMAIN line = 1 .. n
    BY <1>7, <1>8, LenProperties
  <2> HIDE DEF m
  <2>2. 1 .. m = 1 .. n
    BY <2>1, Zenon
  <2>3. m = n
    BY <1>3, <2>1, <2>2
  <2> QED BY <2>3 DEF m
<1> QED BY <1>1, <1>2, <1>8, <1>9 DEF n, line

\* A row without entries is an empty line.
LEMMA EmptyLine ==
  ASSUME NEW s, InBounds(s), NEW r \in 1 .. VGA_HEIGHT, ExtentOf(s, r - 1) = 0
  PROVE  LinesOf(s)[r] = << >>
BY LineOf, EmptySeq

\* Two rows of equal extent and contents are equal lines.
LEMMA SameLine ==
  ASSUME NEW s, InBounds(s), NEW u, InBounds(u),
         NEW q \in 1 .. VGA_HEIGHT, NEW r \in 1 .. VGA_HEIGHT,
         ExtentOf(s, q - 1) = ExtentOf(u, r - 1), s.videomem[q - 1] = u.videomem[r - 1]
  PROVE  LinesOf(s)[q] = LinesOf(u)[r]
<1>1. /\ LinesOf(s)[q] = [x \in 1 .. ExtentOf(s, q - 1) |-> s.videomem[q - 1][x - 1]]
      /\ LinesOf(u)[r] = [x \in 1 .. ExtentOf(u, r - 1) |-> u.videomem[r - 1][x - 1]]
  BY DEF LinesOf
<1> QED BY <1>1

\* new_line scrolls the terminal up.
LEMMA NewLineScrolls ==
  ASSUME NEW s, InBounds(s)
  PROVE  LinesOf(new_line(s)) = Abstract!ScrollUp(LinesOf(s))
<1> DEFINE n == new_line(s)
<1>1. InBounds(n)
  BY NewLineInBounds
<1>2. /\ \A y \in Row : y < VGA_HEIGHT - 1 =>
           ExtentOf(n, y) = ExtentOf(s, y + 1) /\ n.videomem[y] = s.videomem[y + 1]
      /\ ExtentOf(n, VGA_HEIGHT - 1) = 0
  BY NewLineExtents
<1> HIDE DEF n
<1>3. ASSUME NEW r \in 1 .. VGA_HEIGHT
      PROVE  LinesOf(n)[r] = IF r = VGA_HEIGHT THEN << >> ELSE LinesOf(s)[r + 1]
  <2>1. CASE r = VGA_HEIGHT
    BY <1>1, <1>2, <2>1, EmptyLine
  <2>2. CASE r # VGA_HEIGHT
    <3> DEFINE q == r + 1
               y == r - 1
    <3>1. q \in 1 .. VGA_HEIGHT /\ y \in Row /\ y < VGA_HEIGHT - 1 /\ y + 1 = q - 1
      BY <2>2, VideoAssumption DEF Row
    <3>2. ExtentOf(n, r - 1) = ExtentOf(s, q - 1) /\ n.videomem[r - 1] = s.videomem[q - 1]
      BY <1>2, <3>1
    <3> HIDE DEF q
    <3>3. LinesOf(n)[r] = LinesOf(s)[q]
      BY <1>1, <3>1, <3>2, SameLine
    <3> QED BY <2>2, <3>3 DEF q
  <2> QED BY <2>1, <2>2
<1>4. LinesOf(n) = [r \in 1 .. VGA_HEIGHT |-> LinesOf(n)[r]]
  BY DEF LinesOf
<1> QED BY <1>3, <1>4 DEF Abstract!ScrollUp, n

\* del_line on an empty bottom row scrolls it down.
LEMMA DelLineScrolls ==
  ASSUME NEW s, InBounds(s), Cursor(s) = 0
  PROVE  LinesOf(del_line(s)) = Abstract!ScrollDown(LinesOf(s))
<1> DEFINE n == del_line(s)
<1>1. InBounds(n)
  BY DelLineInBounds
<1>2. /\ \A y \in Row : y > 0 =>
           ExtentOf(n, y) = ExtentOf(s, y - 1) /\ n.videomem[y] = s.videomem[y - 1]
      /\ ExtentOf(n, 0) = 0
  BY DelLineExtents
<1> HIDE DEF n
<1>3. ASSUME NEW r \in 1 .. VGA_HEIGHT
      PROVE  LinesOf(n)[r] = IF r = 1 THEN << >> ELSE LinesOf(s)[r - 1]
  <2>1. CASE r = 1
    <3>1. ExtentOf(n, r - 1) = 0
      BY <1>2, <2>1
    <3> QED BY <1>1, <2>1, <3>1, EmptyLine
  <2>2. CASE r # 1
    <3> DEFINE q == r - 1
               y == r - 1
    <3>1. q \in 1 .. VGA_HEIGHT /\ y \in Row /\ y > 0 /\ y - 1 = q - 1
      BY <2>2, VideoAssumption DEF Row
    <3>2. ExtentOf(n, r - 1) = ExtentOf(s, q - 1) /\ n.videomem[r - 1] = s.videomem[q - 1]
      BY <1>2, <3>1
    <3> HIDE DEF q
    <3>3. LinesOf(n)[r] = LinesOf(s)[q]
      BY <1>1, <3>1, <3>2, SameLine
    <3> QED BY <2>2, <3>3 DEF q
  <2> QED BY <2>1, <2>2
<1>4. LinesOf(n) = [r \in 1 .. VGA_HEIGHT |-> LinesOf(n)[r]]
  BY DEF LinesOf
<1> QED BY <1>3, <1>4 DEF Abstract!ScrollDown, n

\* The bottom line of the terminal is as long as its cursor says.
LEMMA BottomLine ==
  ASSUME NEW s, InBounds(s)
  PROVE  /\ VGA_HEIGHT \in 1 .. VGA_HEIGHT
         /\ Abstract!Bottom(LinesOf(s)) = LinesOf(s)[VGA_HEIGHT]
         /\ LinesOf(s)[VGA_HEIGHT] \in Seq(Cell)
         /\ Len(LinesOf(s)[VGA_HEIGHT]) = Cursor(s)
         /\ Cursor(s) \in 0 .. VGA_WIDTH
<1>1. VGA_HEIGHT \in 1 .. VGA_HEIGHT
  BY VideoAssumption
<1>2. Cursor(s) = ExtentOf(s, VGA_HEIGHT - 1)
  BY CursorIsExtent DEF InBounds, Screen
<1>3. Cursor(s) \in 0 .. VGA_WIDTH
  BY BackspaceWrites
<1> QED BY <1>1, <1>2, <1>3, LineOf DEF Abstract!Bottom

\* A write that leaves the other lines alone.
LEMMA WriteLines ==
  ASSUME NEW s, InBounds(s), NEW n \in 0 .. VGA_WIDTH, NEW x \in Col, NEW v \in Cell,
         NEW w, w = Written(s, n, v, x), NEW line,
         line = [k \in 1 .. n |-> IF k = x + 1 THEN v ELSE s.videomem[VGA_HEIGHT - 1][k - 1]]
  PROVE  LinesOf(w) = [LinesOf(s) EXCEPT ![VGA_HEIGHT] = line]
<1>1. InBounds(w)
  BY MovedInBounds, WriteEntryInBounds DEF Written, Cell
<1>2. /\ \A y \in Row : y # VGA_HEIGHT - 1 =>
           ExtentOf(w, y) = ExtentOf(s, y) /\ w.videomem[y] = s.videomem[y]
      /\ ExtentOf(w, VGA_HEIGHT - 1) = n
      /\ w.videomem[VGA_HEIGHT - 1] = [s.videomem[VGA_HEIGHT - 1] EXCEPT ![x] = v]
  BY WriteExtents DEF Cell
<1>3. ASSUME NEW r \in 1 .. VGA_HEIGHT, r # VGA_HEIGHT
      PROVE  LinesOf(w)[r] = LinesOf(s)[r]
  <2> DEFINE y == r - 1
  <2>1. y \in Row /\ y # VGA_HEIGHT - 1
    BY <1>3, VideoAssumption DEF Row
  <2>2. ExtentOf(w, r - 1) = ExtentOf(s, r - 1) /\ w.videomem[r - 1] = s.videomem[r - 1]
    BY <1>2, <2>1
  <2> QED BY <1>1, <2>2, SameLine
<1>4. LinesOf(w)[VGA_HEIGHT] = line
  <2> DEFINE old == s.videomem[VGA_HEIGHT - 1]
             row == w.videomem[VGA_HEIGHT - 1]
  <2>1. LinesOf(w)[VGA_HEIGHT] = [k \in 1 .. n |-> row[k - 1]]
    <3>1. VGA_HEIGHT \in 1 .. VGA_HEIGHT
      BY VideoAssumption
    <3> QED BY <1>2, <3>1 DEF LinesOf
  <2>2. old \in [Col -> Cell]
    <3>1. VGA_HEIGHT - 1 \in Row
      BY VideoAssumption DEF Row
    <3> QED BY <3>1 DEF InBounds, Screen, Cell
  <2>3. row = [old EXCEPT ![x] = v]
    BY <1>2
  <2> HIDE DEF old, row
  <2>4. ASSUME NEW k \in 1 .. n PROVE row[k - 1] = IF k = x + 1 THEN v ELSE old[k - 1]
    <3>1. k - 1 \in Col /\ (k - 1 = x <=> k = x + 1)
      BY VideoAssumption DEF Col
    <3> QED BY <2>2, <2>3, <3>1
  <2>5. line = [k \in 1 .. n |-> IF k = x + 1 THEN v ELSE old[k - 1]]
    BY DEF old
  <2> QED BY <2>1, <2>4, <2>5
<1>5. /\ LinesOf(w) = [r \in 1 .. VGA_HEIGHT |-> LinesOf(w)[r]]
      /\ LinesOf(s) = [r \in 1 .. VGA_HEIGHT |-> LinesOf(s)[r]]
  BY DEF LinesOf
<1> QED BY <1>3, <1>4, <1>5

\* put types an entry, on a new line if the bottom one is full.
LEMMA PutTypes ==
  ASSUME NEW s, InBounds(s), NEW c \in Glyphs \cup {SPACE}
  PROVE  LinesOf(put(s, c)) = Abstract!Type(LinesOf(s), vga_entry(c, s.color))
<1> DEFINE t == IF Cursor(s) = VGA_WIDTH THEN new_line(s) ELSE s
           e == vga_entry(c, s.color)
           x == Cursor(t)
           n == Cursor(t) + 1
           old == LinesOf(t)[VGA_HEIGHT]
           line == [k \in 1 .. n |-> IF k = x + 1 THEN e
                                      ELSE t.videomem[VGA_HEIGHT - 1][k - 1]]
<1>1. /\ InBounds(t) /\ x \in Col /\ n \in 0 .. VGA_WIDTH /\ e \in Entry
      /\ put(s, c) = Written(t, n, e, x)
  <2> HIDE DEF t
  <2>1. t = IF Cursor(s) = VGA_WIDTH THEN new_line(s) ELSE s
    BY DEF t
  <2> QED BY <2>1, PutWrites
<1>2. LinesOf(t) = IF Cursor(s) = VGA_WIDTH THEN Abstract!ScrollUp(LinesOf(s))
                                            ELSE LinesOf(s)
  BY NewLineScrolls
<1>3. Len(Abstract!Bottom(LinesOf(s))) = Cursor(s)
  BY BottomLine
<1>4. Abstract!Type(LinesOf(s), e) = [LinesOf(t) EXCEPT ![VGA_HEIGHT] = Append(@, e)]
  BY <1>2, <1>3 DEF Abstract!Type
<1> HIDE DEF t, e
<1>5. VGA_HEIGHT \in 1 .. VGA_HEIGHT /\ old \in Seq(Cell) /\ Len(old) = x
  BY <1>1, BottomLine
<1>6. old = [k \in 1 .. x |-> t.videomem[VGA_HEIGHT - 1][k - 1]]
  <2>1. x = ExtentOf(t, VGA_HEIGHT - 1)
    BY <1>1, CursorIsExtent DEF InBounds, Screen
  <2> QED BY <1>5, <2>1 DEF LinesOf
<1>7. Append(old, e) = line
  <2> DEFINE row == t.videomem[VGA_HEIGHT - 1]
  <2>1. x \in Nat /\ n = x + 1 /\ e \in Cell
    BY <1>1 DEF Col, Cell
  <2>2. old = [k \in 1 .. x |-> row[k - 1]]
    BY <1>6
  <2>3. line = [k \in 1 .. n |-> IF k = x + 1 THEN e ELSE row[k - 1]]
    OBVIOUS
  <2> HIDE DEF old, line, row, x, n
  <2>4. /\ Append(old, e) \in Seq(Cell) /\ Len(Append(old, e)) = n
        /\ \A k \in 1 .. x : Append(old, e)[k] = old[k]
        /\ Append(old, e)[x + 1] = e
    BY <1>5, <2>1
  <2>5. DOMAIN Append(old, e) = 1 .. n /\ Append(old, e) \in [1 .. n -> Cell]
    BY <2>4, LenProperties
  <2>6. ASSUME NEW k \in 1 .. n PROVE Append(old, e)[k] = line[k]
    <3>1. CASE k = x + 1
      BY <2>3, <2>4, <3>1
    <3>2. CASE k # x + 1
      <4>1. k \in 1 .. x
        BY <2>1, <3>2
      <4> QED BY <2>2, <2>3, <2>4, <3>2, <4>1
    <3> QED BY <3>1, <3>2
  <2>7. Append(old, e) = [k \in 1 .. n |-> Append(old, e)[k]]
    BY <2>5
  <2> QED BY <2>3, <2>6, <2>7
<1>8. LinesOf(put(s, c)) = [LinesOf(t) EXCEPT ![VGA_HEIGHT] = line]
  <2>1. e \in Cell /\ put(s, c) = Written(t, n, e, x) /\ n \in 0 .. VGA_WIDTH /\ x \in Col
    BY <1>1 DEF Cell
  <2>2. line = [k \in 1 .. n |-> IF k = x + 1 THEN e
                                   ELSE t.videomem[VGA_HEIGHT - 1][k - 1]]
    OBVIOUS
  <2> HIDE DEF line, x, n
  <2> QED BY <1>1, <2>1, <2>2, WriteLines
<1>9. [LinesOf(t) EXCEPT ![VGA_HEIGHT] = Append(@, e)]
        = [LinesOf(t) EXCEPT ![VGA_HEIGHT] = line]
  BY <1>7
<1> QED BY <1>4, <1>8, <1>9 DEF e

\* putc keeps the colour.
LEMMA PutColor ==
  ASSUME NEW s, InBounds(s), NEW c \in Glyphs \cup {SPACE}
  PROVE  put(s, c).color = s.color
<1> DEFINE t == IF Cursor(s) = VGA_WIDTH THEN new_line(s) ELSE s
           n == Cursor(t) + 1
           e == vga_entry(c, s.color)
           x == Cursor(t)
<1>1. /\ InBounds(t) /\ t.color = s.color /\ x \in Col /\ n \in 0 .. VGA_WIDTH
      /\ e \in Entry /\ put(s, c) = Written(t, n, e, x)
  <2> HIDE DEF t
  <2>1. t = IF Cursor(s) = VGA_WIDTH THEN new_line(s) ELSE s
    BY DEF t
  <2> QED BY <2>1, PutWrites
<1> DEFINE w == Written(t, n, e, x)
<1>2. /\ w = Written(t, n, e, x) /\ e \in Entry \cup {ErasedEntry}
      /\ InBounds(t) /\ x \in Col /\ n \in 0 .. VGA_WIDTH
  BY <1>1
<1> HIDE DEF t, n, e, x, w
<1>3. w.color = t.color
  <2>1. t \in Screen
    BY <1>2 DEF InBounds
  <2> QED BY <1>2, <2>1 DEF Written, write_entry, Screen
<1> QED BY <1>1, <1>2, <1>3

\* backspace rubs out the last entry, or gives an empty bottom line up.
LEMMA BackspaceRubs ==
  ASSUME NEW s, InBounds(s)
  PROVE  LinesOf(backspace(s)) = Abstract!Rub(LinesOf(s))
<1> DEFINE old == LinesOf(s)[VGA_HEIGHT]
<1>1. /\ VGA_HEIGHT \in 1 .. VGA_HEIGHT /\ Abstract!Bottom(LinesOf(s)) = old
      /\ old \in Seq(Cell) /\ Len(old) = Cursor(s) /\ Cursor(s) \in 0 .. VGA_WIDTH
  BY BottomLine
<1>2. old = << >> <=> Cursor(s) = 0
  BY <1>1, EmptySeq
<1>3. CASE Cursor(s) = 0
  <2>1. Abstract!Rub(LinesOf(s)) = Abstract!ScrollDown(LinesOf(s))
    BY <1>1, <1>2, <1>3 DEF Abstract!Rub
  <2>2. backspace(s) = del_line(s)
    BY <1>3, BackspaceWrites
  <2> QED BY <1>3, <2>1, <2>2, DelLineScrolls
<1>4. CASE Cursor(s) > 0
  <2> DEFINE n == Cursor(s) - 1
             v == ErasedEntry
             line == [k \in 1 .. n |-> IF k = n + 1 THEN v
                                        ELSE s.videomem[VGA_HEIGHT - 1][k - 1]]
  <2>1. /\ n \in Col /\ n \in 0 .. VGA_WIDTH /\ v \in Cell
        /\ backspace(s) = Written(s, n, v, n)
    BY <1>4, BackspaceWrites DEF Cell
  <2>2. Abstract!Rub(LinesOf(s))
          = [LinesOf(s) EXCEPT ![VGA_HEIGHT] = SubSeq(@, 1, Len(@) - 1)]
    BY <1>1, <1>2, <1>4 DEF Abstract!Rub
  <2>3. old = [k \in 1 .. Cursor(s) |-> s.videomem[VGA_HEIGHT - 1][k - 1]]
    <3>1. Cursor(s) = ExtentOf(s, VGA_HEIGHT - 1)
      BY CursorIsExtent DEF InBounds, Screen
    <3> QED BY <1>1, <3>1 DEF LinesOf
  <2>4. SubSeq(old, 1, Len(old) - 1) = line
    <3> DEFINE row == s.videomem[VGA_HEIGHT - 1]
    <3>1. n \in Nat /\ Len(old) - 1 = n /\ Cursor(s) = n + 1
      BY <1>1, <2>1 DEF Col
    <3>2. old = [k \in 1 .. n + 1 |-> row[k - 1]]
      BY <2>3, <3>1
    <3>3. line = [k \in 1 .. n |-> row[k - 1]]
      BY <3>1
    <3> HIDE DEF old, line, row, n
    <3>4. /\ SubSeq(old, 1, n) \in Seq(Cell) /\ Len(SubSeq(old, 1, n)) = n
          /\ \A k \in 1 .. n : SubSeq(old, 1, n)[k] = old[k]
      BY <1>1, <3>1
    <3>5. SubSeq(old, 1, n) \in [1 .. n -> Cell]
      BY <3>4, LenProperties
    <3>6. SubSeq(old, 1, n) = [k \in 1 .. n |-> SubSeq(old, 1, n)[k]]
      BY <3>5
    <3>7. ASSUME NEW k \in 1 .. n PROVE SubSeq(old, 1, n)[k] = row[k - 1]
      BY <3>1, <3>2, <3>4
    <3> QED BY <3>1, <3>3, <3>6, <3>7
  <2>5. LinesOf(backspace(s)) = [LinesOf(s) EXCEPT ![VGA_HEIGHT] = line]
    <3>1. line = [k \in 1 .. n |-> IF k = n + 1 THEN v
                                     ELSE s.videomem[VGA_HEIGHT - 1][k - 1]]
      OBVIOUS
    <3> HIDE DEF line, n, v
    <3> QED BY <2>1, <3>1, WriteLines
  <2> QED BY <2>2, <2>4, <2>5
<1> QED BY <1>1, <1>3, <1>4

\* A tab types four times the same space.
LEMMA TabTypes ==
  ASSUME NEW s, InBounds(s)
  PROVE  LET e == vga_entry(SPACE, s.color)
             T(l) == Abstract!Type(l, e)
         IN  e \in Entry /\ LinesOf(tab(s)) = T(T(T(T(LinesOf(s)))))
<1> DEFINE e == vga_entry(SPACE, s.color)
           a == put(s, SPACE)
           b == put(a, SPACE)
           c == put(b, SPACE)
<1>0. SPACE \in Glyphs \cup {SPACE} /\ e \in Entry
  BY DEF InBounds, Screen, vga_entry, Entry
<1>1. InBounds(a) /\ a.color = s.color /\ LinesOf(a) = Abstract!Type(LinesOf(s), e)
  BY <1>0, PutInBounds, PutColor, PutTypes
<1> HIDE DEF a
<1>2. InBounds(b) /\ b.color = s.color /\ LinesOf(b) = Abstract!Type(LinesOf(a), e)
  BY <1>0, <1>1, PutInBounds, PutColor, PutTypes
<1> HIDE DEF b
<1>3. InBounds(c) /\ c.color = s.color /\ LinesOf(c) = Abstract!Type(LinesOf(b), e)
  BY <1>0, <1>2, PutInBounds, PutColor, PutTypes
<1> HIDE DEF c
<1>4. LinesOf(put(c, SPACE)) = Abstract!Type(LinesOf(c), e)
  BY <1>0, <1>3, PutTypes
<1>5. tab(s) = put(c, SPACE)
  BY DEF tab, a, b, c
<1> QED BY <1>0, <1>1, <1>2, <1>3, <1>4, <1>5

LEMMA InitTerminal == Init => Abstract!Init
<1> SUFFICES ASSUME Init PROVE Abstract!Init
  OBVIOUS
<1>1. InBounds(screen)
  BY InitInBounds
<1>2. ASSUME NEW r \in 1 .. VGA_HEIGHT PROVE LinesOf(screen)[r] = << >>
  <2>1. r - 1 \in Row /\ screen.pos_head \in Nat
    BY VideoAssumption DEF Row, Init
  <2>2. SlotOf(screen, r - 1) \in Row
    BY <2>1, Slots
  <2>3. ExtentOf(screen, r - 1) = 0
    BY <2>2 DEF ExtentOf, Init
  <2> QED BY <1>1, <2>3, EmptyLine
<1>3. LinesOf(screen) = [r \in 1 .. VGA_HEIGHT |-> LinesOf(screen)[r]]
  BY DEF LinesOf
<1> QED BY <1>2, <1>3, OfScreen DEF Abstract!Init, Abstract!Blank

LEMMA NextTerminal ==
  ASSUME InBounds(screen), [Next]_screen
  PROVE  [Abstract!Next]_ScreenLines
<1>1. ScreenLines = LinesOf(screen) /\ ScreenLines' = LinesOf(screen')
  BY DEF ScreenLines, LinesOf, Extent, ExtentOf, SlotOf, POS_INDX
<1>2. ASSUME NEW c \in Char, Putc(c) PROVE Abstract!Next
  <2>1. CASE c = NL
    <3>1. screen' = new_line(screen)
      BY <1>2, <2>1 DEF Putc, putc, NL, BS, TAB
    <3> QED BY <1>1, <3>1, NewLineScrolls DEF Abstract!Next
  <2>2. CASE c = BS
    <3>1. screen' = backspace(screen)
      BY <1>2, <2>2 DEF Putc, putc, NL, BS, TAB
    <3> QED BY <1>1, <3>1, BackspaceRubs DEF Abstract!Next
  <2>3. CASE c = TAB
    <3>1. screen' = tab(screen)
      BY <1>2, <2>3 DEF Putc, putc, NL, BS, TAB
    <3> DEFINE e == vga_entry(SPACE, screen.color)
    <3>2. /\ e \in Entry
          /\ LinesOf(screen') = Abstract!Type(Abstract!Type(Abstract!Type(
                                  Abstract!Type(LinesOf(screen), e), e), e), e)
      BY <3>1, TabTypes
    <3> HIDE DEF e
    <3> QED BY <1>1, <3>2 DEF Abstract!Next
  <2>4. CASE c \notin {NL, BS, TAB}
    <3> DEFINE e == vga_entry(c, screen.color)
    <3>1. screen' = put(screen, c) /\ c \in Glyphs \cup {SPACE}
      BY <1>2, <2>4 DEF Putc, putc, Char
    <3>2. e \in Entry /\ LinesOf(screen') = Abstract!Type(LinesOf(screen), e)
      <4>1. e \in Entry
        BY <3>1 DEF InBounds, Screen, vga_entry, Entry
      <4> QED BY <3>1, <4>1, PutTypes
    <3> HIDE DEF e
    <3> QED BY <1>1, <3>2 DEF Abstract!Next
  <2> QED BY <2>1, <2>2, <2>3, <2>4
<1>3. CASE Clear
  <2>1. screen' = clear(screen) /\ InBounds(screen')
    BY <1>3, ClearInBounds DEF Clear
  <2>2. ASSUME NEW r \in 1 .. VGA_HEIGHT PROVE LinesOf(screen')[r] = << >>
    <3>1. r - 1 \in Row
      BY VideoAssumption DEF Row
    <3>2. ExtentOf(screen', r - 1) = 0
      BY <2>1, <3>1, ClearExtents
    <3> QED BY <2>1, <3>2, EmptyLine
  <2>3. LinesOf(screen') = [r \in 1 .. VGA_HEIGHT |-> LinesOf(screen')[r]]
    BY DEF LinesOf
  <2>4. ScreenLines' = Abstract!Blank
    BY <1>1, <2>2, <2>3 DEF Abstract!Blank
  <2> QED BY <2>4 DEF Abstract!Next
<1>4. ASSUME NEW f \in Colors, SetColor(f) PROVE ScreenLines' = ScreenLines
  <2>1. /\ screen'.videomem = screen.videomem /\ screen'.pos = screen.pos
        /\ screen'.pos_head = screen.pos_head
    BY <1>4 DEF SetColor, set_color, InBounds, Screen
  <2>2. \A y : ExtentOf(screen', y) = ExtentOf(screen, y)
    BY <2>1 DEF ExtentOf, SlotOf, POS_CALC_INDX
  <2> QED BY <1>1, <2>1, <2>2 DEF LinesOf
<1>5. CASE UNCHANGED screen
  BY <1>1, <1>5
<1> QED BY <1>2, <1>3, <1>4, <1>5 DEF Next

LEMMA NextBlank ==
  ASSUME InBounds(screen), RowsBlank(screen), [Next]_screen
  PROVE  RowsBlank(screen')
<1>1. ASSUME NEW c \in Char, Putc(c) PROVE RowsBlank(screen')
  BY <1>1, PutcBlank DEF Putc
<1>2. CASE Clear
  <2> SUFFICES ASSUME NEW y \in Row, NEW x \in Col
               PROVE  screen'.videomem[y][x] \in {BlankEntry, ErasedEntry}
    BY DEF RowsBlank
  <2>1. screen'.videomem[y] = BlankRow
    BY <1>2, ClearExtents DEF Clear
  <2> QED BY <2>1 DEF BlankRow
<1>3. ASSUME NEW f \in Colors, SetColor(f) PROVE RowsBlank(screen')
  <2>1. /\ screen'.videomem = screen.videomem /\ screen'.pos = screen.pos
        /\ screen'.pos_head = screen.pos_head
    BY <1>3 DEF SetColor, set_color, InBounds, Screen
  <2>2. \A y : ExtentOf(screen', y) = ExtentOf(screen, y)
    BY <2>1 DEF ExtentOf, SlotOf, POS_CALC_INDX
  <2> QED BY <2>1, <2>2 DEF RowsBlank
<1>4. CASE UNCHANGED screen
  BY <1>4
<1> QED BY <1>1, <1>2, <1>3, <1>4 DEF Next

----------------------------------------------------------------------------
(* The theorems. *)

\* Every method keeps the screen's type, for every size of the page.
THEOREM TypeCorrect == Spec => []TypeOK
<1>1. InBounds(screen) => TypeOK
  BY DEF InBounds, TypeOK
<1>2. Init => InBounds(screen)
  BY InitInBounds
<1>3. InBounds(screen) /\ [Next]_screen => InBounds(screen)'
  BY NextInBounds
<1> QED BY <1>1, <1>2, <1>3, PTL DEF Spec

\* Called one at a time, the methods of Video never let a cursor pass the end
\* of its row and never write outside the page, for every size of the page and
\* however far del_line's unreduced pos_head has grown.
THEOREM CursorsInRows == Spec => []CursorInRow
<1>1. InBounds(screen) => CursorInRow
  BY DEF InBounds, CursorInRow
<1>2. Init => InBounds(screen)
  BY InitInBounds
<1>3. InBounds(screen) /\ [Next]_screen => InBounds(screen)'
  BY NextInBounds
<1> QED BY <1>1, <1>2, <1>3, PTL DEF Spec

\* What the ring says of a row is the truth: past its cursor the row is blank, after
\* any mixture of characters, backspaces, tabs and clears, for every size of the
\* page.
THEOREM RowsEnd == Spec => []RowExtents
<1>1. InBounds(screen) /\ RowsBlank(screen) => RowExtents
  BY OfScreen DEF RowExtents, RowsBlank
<1>2. Init => InBounds(screen) /\ RowsBlank(screen)
  <2>1. Init => RowsBlank(screen)
    BY DEF Init, RowsBlank, BlankRow
  <2> QED BY <2>1, InitInBounds
<1>3. InBounds(screen) /\ RowsBlank(screen) /\ [Next]_screen
        => InBounds(screen)' /\ RowsBlank(screen)'
  <2>1. ASSUME InBounds(screen), RowsBlank(screen), [Next]_screen
        PROVE  InBounds(screen') /\ RowsBlank(screen')
    BY <2>1, NextInBounds, NextBlank
  <2> QED BY <2>1
<1> QED BY <1>1, <1>2, <1>3, PTL DEF Spec

\* The screen implements the abstract terminal, for every size of the page: each
\* call of a method is one step of module Terminal on the lines that the ring of
\* cursors cuts out of video memory.
THEOREM ImplementsTerminal == Spec => IsTerminal
<1>1. Init => InBounds(screen)
  BY InitInBounds
<1>2. InBounds(screen) /\ [Next]_screen => InBounds(screen)'
  BY NextInBounds
<1>3. Init => Abstract!Init
  BY InitTerminal
<1>4. InBounds(screen) /\ [Next]_screen => [Abstract!Next]_ScreenLines
  BY NextTerminal
<1> QED BY <1>1, <1>2, <1>3, <1>4, PTL DEF Spec, IsTerminal, Abstract!Spec
============================================================================
