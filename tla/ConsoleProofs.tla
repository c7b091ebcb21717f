--------------------------- MODULE ConsoleProofs ---------------------------
(***************************************************************************)
(* Proofs about the screen that the kernel thread and the keyboard handler *)
(* share, for every size of the page and every text and keys.              *)
(***************************************************************************)
EXTENDS Console, VideoProofs

\* The places of the default case of putc.
InPut == {"check", "load", "aim", "fetch", "incr", "store"}

\* The loop counter stays inside its loop, and is 0 outside of the loops.
Counter ==
  /\ pc = "clear" => reg.i < VGA_HEIGHT * VGA_WIDTH
  /\ pc = "memset" => reg.i < VGA_HEIGHT
  /\ pc \in {"scroll", "move"} => reg.i < (VGA_HEIGHT - 1) * VGA_WIDTH
  /\ pc = "blank" => reg.i < VGA_WIDTH
  /\ pc \notin {"clear", "memset", "scroll", "move", "blank"} => reg.i = 0

\* Where the thread is in putc's default case, it writes no newline, and where
\* it is in clear it has not written anything yet.
Places ==
  /\ pc \in InPut => op # NL
  /\ pc \in {"start", "clear", "memset", "color"} => op = NL

\* What the thread relies on between its test of the cursor and its write.
Tested ==
  /\ pc \in {"check", "fetch"} => reg.slot = CursorSlot(screen)
  /\ (pc = "zero" /\ op # NL) => reg.slot = CursorSlot(screen)
  /\ (pc \in {"scroll", "move", "blank"} /\ op # NL) => Cursor(screen) = 0
  /\ pc \in {"aim", "fetch"} => Cursor(screen) < VGA_WIDTH
  /\ pc \in {"incr", "store"} => reg.value < VGA_WIDTH

CInv ==
  /\ ConsoleTypeOK /\ Counter /\ Places
  /\ raced = FALSE => InBounds(screen) /\ Tested

----------------------------------------------------------------------------
(* The types of the methods, wherever the cursors are. *)

\* Single stores into the object.
Moved(s, i, n) == [s EXCEPT !.pos[i] = n]
Poked(s, y, x, v) == [s EXCEPT !.videomem[y][x] = v]
Turned(s, n) == [s EXCEPT !.pos_head = n]

LEMMA ScreenFields ==
  ASSUME NEW s \in Screen
  PROVE  /\ s.videomem \in [Row -> [Col -> Cell]] /\ s.color \in Colors \cup {BLACK}
         /\ s.pos_head \in Nat /\ s.pos \in [Row -> Nat] /\ s.stray \in BOOLEAN
         /\ s = [videomem |-> s.videomem, color |-> s.color, pos_head |-> s.pos_head,
                 pos |-> s.pos, stray |-> s.stray]
         /\ CursorSlot(s) \in Row /\ Cursor(s) = s.pos[CursorSlot(s)] /\ Cursor(s) \in Nat
<1>1. /\ s.videomem \in [Row -> [Col -> Cell]] /\ s.color \in Colors \cup {BLACK}
      /\ s.pos_head \in Nat /\ s.pos \in [Row -> Nat] /\ s.stray \in BOOLEAN
      /\ s = [videomem |-> s.videomem, color |-> s.color, pos_head |-> s.pos_head,
              pos |-> s.pos, stray |-> s.stray]
  BY DEF Screen, Cell
<1>2. CursorSlot(s) \in Row
  BY <1>1, SlotInRing
<1>3. Cursor(s) = s.pos[CursorSlot(s)]
  BY DEF Cursor, POS_INDX, CursorSlot
<1> QED
  BY <1>1, <1>2, <1>3

LEMMA SameFields ==
  ASSUME NEW a \in Screen, NEW b \in Screen,
         a.videomem = b.videomem, a.color = b.color, a.pos_head = b.pos_head,
         a.pos = b.pos, a.stray = b.stray
  PROVE  a = b
<1>1. a = [videomem |-> a.videomem, color |-> a.color, pos_head |-> a.pos_head,
           pos |-> a.pos, stray |-> a.stray]
  BY ScreenFields
<1>2. b = [videomem |-> b.videomem, color |-> b.color, pos_head |-> b.pos_head,
           pos |-> b.pos, stray |-> b.stray]
  BY ScreenFields
<1> QED
  BY <1>1, <1>2

LEMMA MovedFields ==
  ASSUME NEW s \in Screen, NEW i \in Row, NEW n \in Nat
  PROVE  LET m == Moved(s, i, n) IN
         /\ m \in Screen /\ m.videomem = s.videomem /\ m.color = s.color
         /\ m.pos_head = s.pos_head /\ m.stray = s.stray
         /\ \A j \in Row : m.pos[j] = IF j = i THEN n ELSE s.pos[j]
<1> DEFINE cursors == [s.pos EXCEPT ![i] = n]
<1>1. /\ cursors \in [Row -> Nat]
      /\ \A j \in Row : cursors[j] = IF j = i THEN n ELSE s.pos[j]
  BY ScreenFields
<1>2. Moved(s, i, n) = [s EXCEPT !.pos = cursors]
  BY DEF Moved
<1> HIDE DEF cursors
<1>3. Moved(s, i, n) \in Screen /\ Moved(s, i, n).pos = cursors
  BY <1>1, <1>2 DEF Screen
<1>4. /\ Moved(s, i, n).videomem = s.videomem /\ Moved(s, i, n).color = s.color
      /\ Moved(s, i, n).pos_head = s.pos_head /\ Moved(s, i, n).stray = s.stray
  BY <1>2 DEF Screen
<1> QED
  BY <1>1, <1>3, <1>4

LEMMA PokedFields ==
  ASSUME NEW s \in Screen, NEW y \in Row, NEW x \in Col, NEW v \in Cell
  PROVE  LET m == Poked(s, y, x, v) IN
         /\ m \in Screen /\ m.pos = s.pos /\ m.color = s.color
         /\ m.pos_head = s.pos_head /\ m.stray = s.stray
         /\ \A b \in Row, a \in Col :
              m.videomem[b][a] = IF b = y /\ a = x THEN v ELSE s.videomem[b][a]
<1> DEFINE mem == [s.videomem EXCEPT ![y][x] = v]
           m == Poked(s, y, x, v)
<1>1. /\ mem \in [Row -> [Col -> Cell]]
      /\ \A b \in Row, a \in Col :
              mem[b][a] = IF b = y /\ a = x THEN v ELSE s.videomem[b][a]
  BY ScreenFields
<1>2. m = [s EXCEPT !.videomem = mem]
  BY DEF Poked
<1> HIDE DEF mem, m
<1>3. m \in Screen /\ m.videomem = mem
  BY <1>1, <1>2 DEF Screen, Cell
<1>4. m.pos = s.pos /\ m.color = s.color /\ m.pos_head = s.pos_head /\ m.stray = s.stray
  BY <1>2 DEF Screen
<1> QED
  BY <1>1, <1>3, <1>4 DEF m

LEMMA TurnedFields ==
  ASSUME NEW s \in Screen, NEW n \in Nat
  PROVE  LET m == Turned(s, n) IN
         /\ m \in Screen /\ m.videomem = s.videomem /\ m.color = s.color
         /\ m.pos_head = n /\ m.stray = s.stray /\ m.pos = s.pos
BY DEF Turned, Screen

LEMMA WriteType ==
  ASSUME NEW s \in Screen, NEW v \in Cell, NEW x
  PROVE  write_entry(s, v, x) \in Screen /\ write_entry(s, v, x).pos = s.pos
<1>1. CASE x \in Col
  <2>1. VGA_HEIGHT - 1 \in Row
    BY VideoAssumption DEF Row
  <2>2. write_entry(s, v, x) = Poked(s, VGA_HEIGHT - 1, x, v)
    BY <1>1 DEF write_entry, Poked
  <2> QED
    BY <2>1, <2>2, <1>1, PokedFields
<1>2. CASE x \notin Col
  BY <1>2 DEF write_entry, Screen
<1> QED
  BY <1>1, <1>2

LEMMA EntryType ==
  ASSUME NEW s \in Screen, NEW c \in Glyphs \cup {SPACE}
  PROVE  vga_entry(c, s.color) \in Cell
BY ScreenFields DEF vga_entry, Entry, Cell

LEMMA NewLineFields ==
  ASSUME NEW s \in Screen
  PROVE  LET head == (s.pos_head + VGA_HEIGHT - 1) % VGA_HEIGHT
             n == new_line(s) IN
         /\ head \in Nat /\ CursorSlot(Turned(s, head)) \in Row
         /\ n \in Screen /\ n.pos_head = head /\ n.color = s.color /\ n.stray = s.stray
         /\ n.pos = [s.pos EXCEPT ![CursorSlot(Turned(s, head))] = 0]
         /\ n.videomem = [y \in Row |-> IF y < VGA_HEIGHT - 1 THEN s.videomem[y + 1]
                                                             ELSE BlankRow]
<1> DEFINE head == (s.pos_head + VGA_HEIGHT - 1) % VGA_HEIGHT
           t    == Turned(s, head)
           slot == CursorSlot(t)
           mem  == [y \in Row |-> IF y < VGA_HEIGHT - 1 THEN s.videomem[y + 1]
                                                       ELSE BlankRow]
           n    == new_line(s)
<1>1. head \in Nat
  BY ScreenFields, VideoAssumption
<1>2. /\ t \in Screen /\ t.videomem = s.videomem /\ t.color = s.color
      /\ t.pos_head = head /\ t.stray = s.stray /\ t.pos = s.pos
  BY <1>1, TurnedFields
<1>3. slot \in Row
  BY <1>2, ScreenFields
<1>4. mem \in [Row -> [Col -> Cell]]
  <2>1. s.videomem \in [Row -> [Col -> Cell]]
    BY ScreenFields
  <2>2. BlankRow \in [Col -> Cell]
    BY Blanks DEF Cell
  <2> QED
    BY <2>1, <2>2, VideoAssumption DEF Row
<1>5. n = [t EXCEPT !.pos[slot] = 0,
                    !.videomem = [y \in Row |->
                       IF y < VGA_HEIGHT - 1 THEN t.videomem[y + 1] ELSE BlankRow]]
  BY DEF new_line, Turned
<1>6. t = [videomem |-> s.videomem, color |-> s.color, pos_head |-> head,
           pos |-> s.pos, stray |-> s.stray]
  BY <1>2, ScreenFields
<1> HIDE DEF t, slot, head, n
<1>7. n = [videomem |-> mem, color |-> s.color, pos_head |-> head,
           pos |-> [s.pos EXCEPT ![slot] = 0], stray |-> s.stray]
  BY <1>5, <1>6
<1>8. [s.pos EXCEPT ![slot] = 0] \in [Row -> Nat]
  BY <1>3, ScreenFields
<1> HIDE DEF mem
<1>9. n \in Screen
  BY <1>1, <1>4, <1>7, <1>8, ScreenFields DEF Screen, Cell
<1> QED
  BY <1>1, <1>3, <1>7, <1>9 DEF n, head, slot, t, mem

LEMMA PutType ==
  ASSUME NEW s \in Screen, NEW c \in Glyphs \cup {SPACE}
  PROVE  put(s, c) \in Screen
<1> DEFINE t == IF Cursor(s) = VGA_WIDTH THEN new_line(s) ELSE s
           v == vga_entry(c, t.color)
<1>1. t \in Screen
  BY NewLineFields
<1>2. put(s, c) = write_entry(Moved(t, CursorSlot(t), t.pos[CursorSlot(t)] + 1), v, Cursor(t))
  BY DEF put, Moved
<1> HIDE DEF t
<1>3. CursorSlot(t) \in Row /\ t.pos[CursorSlot(t)] + 1 \in Nat /\ v \in Cell
  BY <1>1, ScreenFields, EntryType
<1> HIDE DEF v
<1>4. Moved(t, CursorSlot(t), t.pos[CursorSlot(t)] + 1) \in Screen
  BY <1>1, <1>3, MovedFields
<1> QED
  BY <1>2, <1>3, <1>4, WriteType

LEMMA BackspaceType ==
  ASSUME NEW s \in Screen
  PROVE  backspace(s) \in Screen
<1>1. CASE Cursor(s) > 0 /\ Cursor(s) <= VGA_WIDTH
  <2>1. backspace(s) = write_entry(Moved(s, CursorSlot(s), s.pos[CursorSlot(s)] - 1),
                                   ErasedEntry, Cursor(s) - 1)
    BY <1>1 DEF backspace, Moved
  <2>2. CursorSlot(s) \in Row /\ s.pos[CursorSlot(s)] - 1 \in Nat
    BY <1>1, ScreenFields
  <2>3. Moved(s, CursorSlot(s), s.pos[CursorSlot(s)] - 1) \in Screen
    BY <2>2, MovedFields
  <2>4. ErasedEntry \in Cell
    BY DEF Cell
  <2> QED
    BY <2>1, <2>3, <2>4, WriteType
<1>2. CASE ~ (Cursor(s) > 0 /\ Cursor(s) <= VGA_WIDTH)
  <2> DEFINE mem == [y \in Row |-> IF y > 0 THEN s.videomem[y - 1] ELSE BlankRow]
  <2>1. mem \in [Row -> [Col -> Cell]]
    <3>1. s.videomem \in [Row -> [Col -> Cell]]
      BY ScreenFields
    <3>2. BlankRow \in [Col -> Cell]
      BY Blanks DEF Cell
    <3> QED
      BY <3>1, <3>2, VideoAssumption DEF Row
  <2>2. s.pos_head + (1 % VGA_HEIGHT) \in Nat
    BY ScreenFields, VideoAssumption
  <2>3. backspace(s) = [s EXCEPT !.pos_head = s.pos_head + (1 % VGA_HEIGHT),
                                 !.videomem = mem]
    BY <1>2 DEF backspace, del_line, Screen
  <2> HIDE DEF mem
  <2> QED
    BY <2>1, <2>2, <2>3 DEF Screen, Cell
<1> QED
  BY <1>1, <1>2

LEMMA PutcType ==
  ASSUME NEW s \in Screen, NEW c \in Char
  PROVE  putc(s, c) \in Screen
<1>1. CASE c = NL
  BY <1>1, NewLineFields DEF putc, NL, BS, TAB
<1>2. CASE c = BS
  BY <1>2, BackspaceType DEF putc, NL, BS, TAB
<1>3. CASE c = TAB
  <2>1. put(s, SPACE) \in Screen
    BY PutType
  <2>2. put(put(s, SPACE), SPACE) \in Screen
    BY <2>1, PutType
  <2>3. put(put(put(s, SPACE), SPACE), SPACE) \in Screen
    BY <2>2, PutType
  <2>4. tab(s) \in Screen
    BY <2>3, PutType DEF tab
  <2> QED
    BY <1>3, <2>4 DEF putc, NL, BS, TAB
<1>4. CASE c \notin {NL, BS, TAB}
  <2>1. putc(s, c) = put(s, c)
    BY <1>4 DEF putc
  <2> QED
    BY <1>4, <2>1, PutType DEF Char
<1> QED
  BY <1>1, <1>2, <1>3, <1>4

----------------------------------------------------------------------------
(* The cells of the page, counted row by row. *)

LEMMA CellPlace ==
  ASSUME NEW w \in Nat \ {0}, NEW n \in Nat, NEW i \in Nat, i < n * w
  PROVE  /\ i \div w \in 0 .. n - 1 /\ i % w \in 0 .. w - 1
         /\ i = (i \div w) * w + (i % w)
<1> DEFINE q == i \div w
           r == i % w
<1>1. q \in Int /\ r \in 0 .. w - 1 /\ i = w * q + r
  OBVIOUS
<1> HIDE DEF q, r
<1>2. ~ (q <= -1)
  <2> SUFFICES ASSUME q <= -1 PROVE FALSE
    OBVIOUS
  <2>1. w * q <= -w
    BY <1>1
  <2> QED
    BY <2>1, <1>1
<1>3. ~ (q >= n)
  <2> SUFFICES ASSUME q >= n PROVE FALSE
    OBVIOUS
  <2>1. w * q >= n * w
    BY <1>1
  <2> QED
    BY <2>1, <1>1
<1>4. q \in 0 .. n - 1
  BY <1>1, <1>2, <1>3
<1>5. w * q = q * w
  BY <1>1
<1>6. i = q * w + r
  BY <1>1, <1>5
<1> QED
  BY <1>1, <1>4, <1>6 DEF q, r

LEMMA CellUnique ==
  ASSUME NEW w \in Nat \ {0}, NEW y \in Nat, NEW x \in 0 .. w - 1,
         NEW q \in Nat, NEW r \in 0 .. w - 1, y * w + x = q * w + r
  PROVE  y = q /\ x = r
<1> DEFINE d == y - q
<1>1. d \in Int /\ d * w = r - x
  OBVIOUS
<1> HIDE DEF d
<1>2. ~ (d >= 1)
  BY <1>1
<1>3. ~ (d <= -1)
  BY <1>1
<1>4. d = 0
  BY <1>1, <1>2, <1>3
<1> QED
  BY <1>4 DEF d

LEMMA CellAbove ==
  ASSUME NEW w \in Nat \ {0}, NEW n \in Nat, NEW y \in 0 .. n - 1, NEW x \in 0 .. w - 1
  PROVE  y * w + x \in Nat /\ y * w + x < n * w
<1> DEFINE d == n - 1 - y
<1>1. d \in Nat /\ n = d + 1 + y
  OBVIOUS
<1> HIDE DEF d
<1>2. y * w \in Nat /\ d * w \in Nat
  BY <1>1
<1>3. n * w = d * w + w + y * w
  BY <1>1
<1> QED
  BY <1>2, <1>3

LEMMA PageSize ==
  LET h == VGA_HEIGHT
      w == VGA_WIDTH IN
  /\ h * w \in Nat \ {0} /\ (h - 1) * w \in Nat
  /\ (h - 1) * w <= h * w /\ w <= h * w /\ h * w = (h - 1) * w + w
  /\ h > 1 => (h - 1) * w > 0
  /\ h <= h * w
<1> DEFINE h == VGA_HEIGHT
           w == VGA_WIDTH
           g == h - 1
<1>1. h \in Nat \ {0} /\ w \in Nat \ {0} /\ g \in Nat /\ h = g + 1
  BY VideoAssumption
<1> HIDE DEF h, w, g
<1>2. g * w \in Nat /\ h * w = g * w + w
  BY <1>1
<1>3. g > 0 => g * w > 0
  BY <1>1
<1>4. (h > 1) = (g > 0)
  BY <1>1
<1>5. h <= h * w
  <2> DEFINE v == w - 1
  <2>1. v \in Nat /\ w = v + 1
    BY <1>1
  <2> HIDE DEF v
  <2>2. h * v \in Nat /\ h * w = h * v + h
    BY <2>1, <1>1
  <2> QED
    BY <2>2, <1>1
<1> QED
  BY <1>1, <1>2, <1>3, <1>4, <1>5 DEF h, w, g

----------------------------------------------------------------------------
(* The bounds of single stores. *)

LEMMA MovedBounds ==
  ASSUME NEW s, InBounds(s), NEW i \in Row, NEW n \in 0 .. VGA_WIDTH
  PROVE  InBounds(Moved(s, i, n))
<1>1. s \in Screen /\ n \in Nat /\ n <= VGA_WIDTH
  BY VideoAssumption DEF InBounds
<1>2. Moved(s, i, n) \in Screen /\ Moved(s, i, n).stray = FALSE
  <2>1. Moved(s, i, n) \in Screen /\ Moved(s, i, n).stray = s.stray
    BY <1>1, MovedFields
  <2>2. s.stray = FALSE
    BY DEF InBounds
  <2> QED
    BY <2>1, <2>2
<1>3. \A j \in Row : Moved(s, i, n).pos[j] = IF j = i THEN n ELSE s.pos[j]
  BY <1>1, MovedFields
<1> QED
  BY <1>1, <1>2, <1>3 DEF InBounds

LEMMA PokedBounds ==
  ASSUME NEW s, InBounds(s), NEW y \in Row, NEW x \in Col, NEW v \in Cell
  PROVE  InBounds(Poked(s, y, x, v))
<1>1. s \in Screen
  BY DEF InBounds
<1>2. /\ Poked(s, y, x, v) \in Screen /\ Poked(s, y, x, v).pos = s.pos
      /\ Poked(s, y, x, v).stray = s.stray
  BY <1>1, PokedFields
<1> QED
  BY <1>2 DEF InBounds

LEMMA TurnedBounds ==
  ASSUME NEW s, InBounds(s), NEW n \in Nat
  PROVE  InBounds(Turned(s, n))
<1>1. s \in Screen
  BY DEF InBounds
<1>2. Turned(s, n) \in Screen /\ Turned(s, n).pos = s.pos /\ Turned(s, n).stray = s.stray
  BY <1>1, TurnedFields
<1> QED
  BY <1>2 DEF InBounds

\* A store that leaves pos_head alone leaves the cursor's slot alone.
LEMMA SlotStays ==
  ASSUME NEW s, NEW t, t.pos_head = s.pos_head
  PROVE  CursorSlot(t) = CursorSlot(s) /\ (t.pos = s.pos => Cursor(t) = Cursor(s))
BY DEF CursorSlot, Cursor, POS_INDX, POS_CALC_INDX

----------------------------------------------------------------------------
(* The thread's steps keep the types and the bounds. *)

Pcs == BetweenCalls \cup {"clear", "memset", "check", "load", "turn", "slot",
            "zero", "scroll", "move", "blank", "aim", "fetch", "incr", "store"}
Reg == [slot : Row, value : Nat, i : 0 .. VGA_HEIGHT * VGA_WIDTH - 1,
        cell : Entry \cup {ErasedEntry}]

\* What CInv says of the values a step uses.
LEMMA CFacts ==
  ASSUME CInv
  PROVE  /\ screen \in Screen /\ reg \in Reg
         /\ reg.slot \in Row /\ reg.value \in Nat /\ reg.i \in Nat
         /\ reg.i < VGA_HEIGHT * VGA_WIDTH /\ reg.cell \in Cell
         /\ 0 \in Row /\ 0 \in 0 .. VGA_HEIGHT * VGA_WIDTH - 1 /\ 0 \in 0 .. VGA_WIDTH
         /\ VGA_HEIGHT - 1 \in Row /\ VGA_WIDTH \in Nat \ {0}
<1>1. screen \in Screen /\ reg \in Reg
  BY DEF CInv, ConsoleTypeOK, TypeOK, Reg
<1>2. /\ reg.slot \in Row /\ reg.value \in Nat /\ reg.i \in 0 .. VGA_HEIGHT * VGA_WIDTH - 1
      /\ reg.cell \in Cell
  BY <1>1 DEF Reg, Cell
<1>3. VGA_HEIGHT * VGA_WIDTH \in Nat \ {0}
  BY PageSize
<1>4. reg.i \in Nat /\ reg.i < VGA_HEIGHT * VGA_WIDTH /\ 0 \in 0 .. VGA_HEIGHT * VGA_WIDTH - 1
  BY <1>2, <1>3
<1>5. 0 \in Row /\ VGA_HEIGHT - 1 \in Row /\ 0 \in 0 .. VGA_WIDTH /\ VGA_WIDTH \in Nat \ {0}
  BY VideoAssumption DEF Row
<1> QED
  BY <1>1, <1>2, <1>4, <1>5

LEMMA TypeNext ==
  ASSUME CInv, screen' \in Screen, pc' \in Pcs, reg' \in Reg,
         op' \in TextChars \cup {NL}, text' \in 0..MaxText, keys' \in 0..MaxKeys,
         touched' \in BOOLEAN, raced' \in BOOLEAN
  PROVE  ConsoleTypeOK'
BY DEF ConsoleTypeOK, TypeOK, Pcs, Reg

\* An access of the thread changes pc, the screen and reg only.
LEMMA AccessCInv ==
  ASSUME CInv, screen' \in Screen, pc' \in Pcs, reg' \in Reg,
         UNCHANGED <<op, text, keys, touched, raced>>,
         Counter', Places',
         raced = FALSE => InBounds(screen') /\ Tested'
  PROVE  CInv'
<1>1. /\ op \in TextChars \cup {NL} /\ text \in 0..MaxText /\ keys \in 0..MaxKeys
      /\ touched \in BOOLEAN /\ raced \in BOOLEAN
  BY DEF CInv, ConsoleTypeOK
<1>2. /\ op' \in TextChars \cup {NL} /\ text' \in 0..MaxText /\ keys' \in 0..MaxKeys
      /\ touched' \in BOOLEAN /\ raced' \in BOOLEAN
  BY <1>1, Zenon
<1>3. ConsoleTypeOK'
  BY <1>2, TypeNext, Zenon
<1>4. raced' = FALSE => InBounds(screen)' /\ Tested'
  BY Zenon
<1> QED
  BY <1>3, <1>4, Zenon DEF CInv

\* The loop counter after a turn of a loop over n cells.
Count(r, n) ==
  [r EXCEPT !.i = IF r.i + 1 < n THEN @ + 1 ELSE 0, !.cell = BlankEntry]

LEMMA BlankCell == BlankEntry \in Cell
BY DEF BlankEntry, vga_entry, Entry, Cell

LEMMA Counted ==
  ASSUME CInv, NEW n \in Nat, n <= VGA_HEIGHT * VGA_WIDTH
  PROVE  /\ Count(reg, n) \in Reg
         /\ Count(reg, n).slot = reg.slot /\ Count(reg, n).value = reg.value
         /\ Count(reg, n).i = IF reg.i + 1 < n THEN reg.i + 1 ELSE 0
<1> DEFINE k == IF reg.i + 1 < n THEN reg.i + 1 ELSE 0
<1>1. k \in 0 .. VGA_HEIGHT * VGA_WIDTH - 1
  BY CFacts, PageSize
<1>2. Count(reg, n) = [reg EXCEPT !.i = k, !.cell = BlankEntry]
  BY CFacts DEF Count, Reg
<1> HIDE DEF k
<1>3. Count(reg, n) \in Reg /\ Count(reg, n).i = k
  BY <1>1, <1>2, CFacts, BlankCell DEF Reg, Cell
<1>4. Count(reg, n).slot = reg.slot /\ Count(reg, n).value = reg.value
  BY <1>2, CFacts DEF Reg
<1> QED
  BY <1>3, <1>4 DEF k

LEMMA BeginClearCInv == ASSUME CInv, begin_clear PROVE CInv'
<1>1. /\ pc = "start" /\ pc' = "clear"
      /\ UNCHANGED <<screen, reg, op, text, keys, touched, raced>>
  BY DEF begin_clear
<1>2. screen' \in Screen /\ reg' \in Reg /\ reg'.i < VGA_HEIGHT * VGA_WIDTH
  BY <1>1, CFacts
<1>3. Counter'
  BY <1>1, <1>2 DEF Counter
<1>4. Places'
  BY <1>1 DEF CInv, Places, InPut
<1>5. raced = FALSE => InBounds(screen') /\ Tested'
  BY <1>1 DEF CInv, Tested
<1> QED
  BY <1>1, <1>2, <1>3, <1>4, <1>5, AccessCInv DEF Pcs

LEMMA ClearCellCInv == ASSUME CInv, clear_cell PROVE CInv'
<1> DEFINE n == VGA_HEIGHT * VGA_WIDTH
<1>1. n \in Nat /\ n <= n
  BY PageSize
<1>2. /\ pc = "clear" /\ pc' = IF reg.i + 1 < n THEN "clear" ELSE "memset"
      /\ screen' = Poked(screen, CellRow, CellCol, BlankEntry)
      /\ reg' = Count(reg, n)
      /\ UNCHANGED <<op, text, keys, touched, raced>>
  BY DEF clear_cell, Loop, Access, Poked, Count
<1>3. CellRow \in Row /\ CellCol \in Col
  BY CFacts, CellPlace, VideoAssumption DEF CellRow, CellCol, Row, Col
<1> HIDE DEF n
<1>4. reg' \in Reg /\ reg'.i = IF reg.i + 1 < n THEN reg.i + 1 ELSE 0
  BY <1>1, <1>2, Counted DEF n
<1>5. screen' \in Screen
  BY <1>2, <1>3, CFacts, BlankCell, PokedFields
<1>6. Counter'
  BY <1>2, <1>4, VideoAssumption DEF Counter, n
<1>7. Places'
  BY <1>2 DEF CInv, Places, InPut
<1>8. raced = FALSE => InBounds(screen') /\ Tested'
  <2>1. Tested'
    BY <1>2 DEF Tested
  <2>2. raced = FALSE => InBounds(screen')
    BY <1>2, <1>3, BlankCell, PokedBounds DEF CInv
  <2> QED
    BY <2>1, <2>2
<1> QED
  BY <1>2, <1>4, <1>5, <1>6, <1>7, <1>8, AccessCInv DEF Pcs

LEMMA ClearPosCInv == ASSUME CInv, clear_pos PROVE CInv'
<1> DEFINE n == VGA_HEIGHT
<1>1. n \in Nat /\ n <= VGA_HEIGHT * VGA_WIDTH
  BY PageSize, VideoAssumption
<1>2. /\ pc = "memset" /\ pc' = IF reg.i + 1 < n THEN "memset" ELSE "color"
      /\ screen' = Moved(screen, reg.i, 0)
      /\ reg' = Count(reg, n)
      /\ UNCHANGED <<op, text, keys, touched, raced>>
  BY DEF clear_pos, Loop, Access, Moved, Count
<1>3. reg.i \in Row
  <2>1. reg.i < VGA_HEIGHT
    BY <1>2 DEF CInv, Counter
  <2> QED
    BY <2>1, CFacts, VideoAssumption DEF Row
<1> HIDE DEF n
<1>4. reg' \in Reg /\ reg'.i = IF reg.i + 1 < n THEN reg.i + 1 ELSE 0
  BY <1>1, <1>2, Counted
<1>5. screen' \in Screen
  BY <1>2, <1>3, CFacts, MovedFields
<1>6. Counter'
  BY <1>2, <1>4 DEF Counter, n
<1>7. Places'
  BY <1>2 DEF CInv, Places, InPut
<1>8. raced = FALSE => InBounds(screen') /\ Tested'
  <2>1. Tested'
    BY <1>2 DEF Tested
  <2>2. raced = FALSE => InBounds(screen')
    BY <1>2, <1>3, CFacts, MovedBounds DEF CInv
  <2> QED
    BY <2>1, <2>2
<1> QED
  BY <1>2, <1>4, <1>5, <1>6, <1>7, <1>8, AccessCInv DEF Pcs, BetweenCalls

LEMMA ColorCInv == ASSUME CInv, NEW c \in Colors, color(c) PROVE CInv'
<1>1. /\ pc = "color" /\ pc' = "idle" /\ screen' = [screen EXCEPT !.color = c]
      /\ UNCHANGED <<reg, op, text, keys, touched, raced>>
  BY DEF color, set_color
<1>2. screen' \in Screen /\ screen'.pos = screen.pos /\ screen'.stray = screen.stray
  BY <1>1, CFacts DEF Screen
<1>3. Counter' /\ Places'
  BY <1>1 DEF CInv, Counter, Places, InPut
<1>4. raced = FALSE => InBounds(screen') /\ Tested'
  <2>1. Tested'
    BY <1>1 DEF Tested
  <2>2. raced = FALSE => InBounds(screen')
    BY <1>2 DEF InBounds, CInv
  <2> QED
    BY <2>1, <2>2
<1>5. reg' \in Reg
  BY <1>1, CFacts
<1> QED
  BY <1>1, <1>2, <1>3, <1>4, <1>5, AccessCInv DEF Pcs, BetweenCalls

\* The characters of the text that are not newlines are written by put.
LEMMA TextTypes ==
  ASSUME NEW c \in TextChars \cup {NL}, c # NL
  PROVE  c \in Glyphs \cup {SPACE}
BY ConsoleAssumption

\* A fresh load of reg.
LEMMA LoadedReg ==
  ASSUME CInv, NEW slot \in Row, NEW value \in Nat,
         reg' = Loaded(slot, value)
  PROVE  reg' \in Reg /\ reg'.slot = slot /\ reg'.value = value /\ reg'.i = 0
BY CFacts, BlankCell DEF Reg, Loaded, Cell

LEMMA BeginPutcCInv == ASSUME CInv, NEW c \in TextChars, begin_putc(c) PROVE CInv'
<1>1. /\ pc = "idle" /\ pc' = IF c = NL THEN "turn" ELSE "check"
      /\ op' = c /\ text < MaxText /\ text' = text + 1
      /\ reg' = Loaded(CursorSlot(screen), screen.pos_head)
      /\ UNCHANGED <<screen, keys, touched, raced>>
  BY DEF begin_putc
<1>2. CursorSlot(screen) \in Row /\ screen.pos_head \in Nat /\ screen' \in Screen
  BY <1>1, CFacts, ScreenFields
<1>3. reg' \in Reg /\ reg'.slot = CursorSlot(screen) /\ reg'.i = 0
  BY <1>1, <1>2, LoadedReg
<1>4. /\ op' \in TextChars \cup {NL} /\ text' \in 0..MaxText /\ keys' \in 0..MaxKeys
      /\ touched' \in BOOLEAN /\ raced' \in BOOLEAN
  <2>1. /\ text \in 0..MaxText /\ keys \in 0..MaxKeys
        /\ touched \in BOOLEAN /\ raced \in BOOLEAN
    BY DEF CInv, ConsoleTypeOK
  <2>2. text' \in 0..MaxText
    BY <2>1, <1>1, ConsoleAssumption
  <2> QED
    BY <2>1, <2>2, <1>1, Zenon
<1>5. pc' \in Pcs
  BY <1>1 DEF Pcs
<1>6. ConsoleTypeOK'
  BY <1>2, <1>3, <1>4, <1>5, TypeNext
<1>7. Counter' /\ Places'
  BY <1>1, <1>3 DEF Counter, Places, InPut
<1>8. Tested'
  BY <1>1, <1>3 DEF Tested
<1>9. raced' = FALSE => InBounds(screen)'
  BY <1>1 DEF CInv
<1> QED
  BY <1>6, <1>7, <1>8, <1>9 DEF CInv

LEMMA CheckCInv == ASSUME CInv, check PROVE CInv'
<1>1. /\ pc = "check" /\ pc' = IF screen.pos[reg.slot] = VGA_WIDTH THEN "load" ELSE "aim"
      /\ UNCHANGED <<screen, reg, op, text, keys, touched, raced>>
  BY DEF check, Access
<1>2. screen' \in Screen /\ reg' \in Reg
  BY <1>1, CFacts
<1>3. Counter' /\ Places'
  BY <1>1 DEF CInv, Counter, Places, InPut
<1>4. ASSUME raced = FALSE PROVE InBounds(screen') /\ Tested'
  <2>1. InBounds(screen) /\ reg.slot = CursorSlot(screen)
    BY <1>1, <1>4 DEF CInv, Tested
  <2>2. Cursor(screen) = screen.pos[reg.slot] /\ reg.slot \in Row /\ Cursor(screen) \in Nat
    BY <2>1, CFacts, ScreenFields
  <2>3. Cursor(screen) <= VGA_WIDTH
    BY <2>1, <2>2 DEF InBounds
  <2>4. pc' = "aim" => Cursor(screen) < VGA_WIDTH
    BY <1>1, <2>2, <2>3, VideoAssumption
  <2> QED
    BY <1>1, <2>1, <2>4 DEF Tested
<1> QED
  BY <1>1, <1>2, <1>3, <1>4, AccessCInv DEF Pcs

LEMMA LoadHeadCInv == ASSUME CInv, load_head PROVE CInv'
<1>1. /\ pc = "load" /\ pc' = "turn"
      /\ reg' = Loaded(0, screen.pos_head)
      /\ UNCHANGED <<screen, op, text, keys, touched, raced>>
  BY DEF load_head, Load, Access
<1>2. 0 \in Row /\ screen.pos_head \in Nat /\ screen' \in Screen
  BY <1>1, CFacts, ScreenFields
<1>3. reg' \in Reg /\ reg'.i = 0
  BY <1>1, <1>2, CFacts, BlankCell DEF Reg, Loaded, Cell
<1>4. Counter' /\ Places'
  BY <1>1, <1>3 DEF CInv, Counter, Places, InPut
<1>5. raced = FALSE => InBounds(screen') /\ Tested'
  BY <1>1 DEF CInv, Tested
<1> QED
  BY <1>1, <1>2, <1>3, <1>4, <1>5, AccessCInv DEF Pcs

LEMMA StoreHeadCInv == ASSUME CInv, store_head PROVE CInv'
<1> DEFINE n == (reg.value + VGA_HEIGHT - 1) % VGA_HEIGHT
<1>1. /\ pc = "turn" /\ pc' = "slot" /\ screen' = Turned(screen, n)
      /\ UNCHANGED <<reg, op, text, keys, touched, raced>>
  BY DEF store_head, Access, Turned
<1>2. n \in Nat
  BY CFacts, VideoAssumption
<1> HIDE DEF n
<1>3. screen' \in Screen /\ reg' \in Reg
  BY <1>1, <1>2, CFacts, TurnedFields
<1>4. Counter' /\ Places'
  BY <1>1 DEF CInv, Counter, Places, InPut
<1>5. Tested'
  BY <1>1 DEF Tested
<1>6. raced = FALSE => InBounds(screen')
  BY <1>1, <1>2, TurnedBounds DEF CInv
<1> QED
  BY <1>1, <1>3, <1>4, <1>5, <1>6, AccessCInv DEF Pcs

LEMMA LoadSlotCInv == ASSUME CInv, load_slot PROVE CInv'
<1>1. /\ pc = "slot" /\ pc' = "zero"
      /\ reg' = Loaded(CursorSlot(screen), 0)
      /\ UNCHANGED <<screen, op, text, keys, touched, raced>>
  BY DEF load_slot, Load, Access
<1>2. CursorSlot(screen) \in Row /\ screen' \in Screen
  BY <1>1, CFacts, ScreenFields
<1>3. reg' \in Reg /\ reg'.slot = CursorSlot(screen) /\ reg'.i = 0
  BY <1>1, <1>2, CFacts, BlankCell DEF Reg, Loaded, Cell
<1>4. Counter' /\ Places'
  BY <1>1, <1>3 DEF CInv, Counter, Places, InPut
<1>5. raced = FALSE => InBounds(screen') /\ Tested'
  BY <1>1, <1>3 DEF CInv, Tested
<1> QED
  BY <1>1, <1>2, <1>3, <1>4, <1>5, AccessCInv DEF Pcs

LEMMA ZeroPosCInv == ASSUME CInv, zero_pos PROVE CInv'
<1>1. /\ pc = "zero" /\ pc' = IF VGA_HEIGHT > 1 THEN "scroll" ELSE "blank"
      /\ screen' = Moved(screen, reg.slot, 0)
      /\ UNCHANGED <<reg, op, text, keys, touched, raced>>
  BY DEF zero_pos, Access, Moved
<1>2. reg.slot \in Row /\ screen \in Screen /\ 0 \in Nat /\ reg' \in Reg
  BY <1>1, CFacts
<1>3. /\ screen' \in Screen /\ screen'.pos_head = screen.pos_head
      /\ screen'.pos[reg.slot] = 0
  BY <1>1, <1>2, MovedFields
<1>4. reg.i = 0
  BY <1>1 DEF CInv, Counter
<1>5. Counter'
  <2>1. 0 < VGA_WIDTH /\ (VGA_HEIGHT > 1 => 0 < (VGA_HEIGHT - 1) * VGA_WIDTH)
    BY PageSize, VideoAssumption
  <2>2. reg'.i = 0
    BY <1>1, <1>4
  <2>3. CASE VGA_HEIGHT > 1
    BY <1>1, <2>1, <2>2, <2>3 DEF Counter
  <2>4. CASE ~ (VGA_HEIGHT > 1)
    BY <1>1, <2>1, <2>2, <2>4 DEF Counter
  <2> QED
    BY <2>3, <2>4
<1>6. Places'
  BY <1>1 DEF CInv, Places, InPut
<1>7. ASSUME raced = FALSE PROVE InBounds(screen') /\ Tested'
  <2>1. InBounds(screen) /\ (op # NL => reg.slot = CursorSlot(screen))
    BY <1>1, <1>7 DEF CInv, Tested
  <2>2. InBounds(screen')
    BY <1>1, <1>2, <2>1, CFacts, MovedBounds
  <2>3. CursorSlot(screen') = CursorSlot(screen)
    BY <1>3, SlotStays
  <2>4. Cursor(screen') = screen'.pos[CursorSlot(screen')]
    BY <1>3, ScreenFields
  <2>5. op # NL => Cursor(screen') = 0
    BY <1>3, <2>1, <2>3, <2>4
  <2>6. Tested'
    BY <1>1, <2>5 DEF Tested
  <2> QED
    BY <2>2, <2>6
<1> QED
  BY <1>1, <1>2, <1>3, <1>5, <1>6, <1>7, AccessCInv DEF Pcs

\* The cell a turn of the scroll loop copies, and the one it writes.
LEMMA ScrollPlace ==
  ASSUME CInv, pc \in {"scroll", "move"}
  PROVE  /\ CellRow \in 0 .. VGA_HEIGHT - 2 /\ CellRow \in Row /\ CellRow + 1 \in Row
         /\ CellCol \in Col /\ reg.i = CellRow * VGA_WIDTH + CellCol
         /\ screen.videomem[CellRow + 1][CellCol] \in Cell
<1> DEFINE g == VGA_HEIGHT - 1
<1>1. g \in Nat /\ VGA_WIDTH \in Nat \ {0} /\ reg.i \in Nat /\ reg.i < g * VGA_WIDTH
  <2>1. reg.i < g * VGA_WIDTH
    BY Zenon DEF CInv, Counter
  <2>2. reg.i \in Nat
    BY CFacts
  <2> QED
    BY <2>1, <2>2, VideoAssumption
<1> HIDE DEF g
<1>2. /\ CellRow \in 0 .. g - 1 /\ CellCol \in 0 .. VGA_WIDTH - 1
      /\ reg.i = CellRow * VGA_WIDTH + CellCol
  BY <1>1, CellPlace DEF CellRow, CellCol
<1> HIDE DEF CellRow, CellCol
<1>3. /\ CellRow \in 0 .. VGA_HEIGHT - 2 /\ CellRow \in Row /\ CellRow + 1 \in Row
      /\ CellCol \in Col
  BY <1>2, VideoAssumption DEF g, Row, Col
<1>4. screen.videomem \in [Row -> [Col -> Cell]]
  BY CFacts, ScreenFields
<1> QED
  BY <1>2, <1>3, <1>4

LEMMA LoadCellCInv == ASSUME CInv, load_cell PROVE CInv'
<1> DEFINE v == screen.videomem[CellRow + 1][CellCol]
<1>1. /\ pc = "scroll" /\ pc' = "move" /\ reg' = [reg EXCEPT !.cell = v]
      /\ UNCHANGED <<screen, op, text, keys, touched, raced>>
  BY DEF load_cell, Access
<1>2. v \in Cell
  BY <1>1, ScrollPlace
<1> HIDE DEF v
<1>3. reg' \in Reg /\ reg'.i = reg.i
  BY <1>1, <1>2, CFacts DEF Reg, Cell
<1>4. screen' \in Screen
  BY <1>1, CFacts
<1>5. Counter'
  BY <1>1, <1>3 DEF CInv, Counter
<1>6. Places'
  BY <1>1 DEF CInv, Places, InPut
<1>7. raced = FALSE => InBounds(screen') /\ Tested'
  BY <1>1 DEF CInv, Tested
<1> QED
  BY <1>1, <1>3, <1>4, <1>5, <1>6, <1>7, AccessCInv DEF Pcs

LEMMA ScrollCellCInv == ASSUME CInv, scroll_cell PROVE CInv'
<1> DEFINE n == (VGA_HEIGHT - 1) * VGA_WIDTH
           v == reg.cell
<1>1. n \in Nat /\ n <= VGA_HEIGHT * VGA_WIDTH
  BY PageSize
<1>2. /\ pc = "move" /\ pc' = IF reg.i + 1 < n THEN "scroll" ELSE "blank"
      /\ screen' = Poked(screen, CellRow, CellCol, v)
      /\ reg' = Count(reg, n)
      /\ UNCHANGED <<op, text, keys, touched, raced>>
  BY DEF scroll_cell, Loop, Access, Poked, Count
<1>3. CellRow \in Row /\ CellCol \in Col /\ v \in Cell
  BY <1>2, ScrollPlace, CFacts
<1> HIDE DEF n, v
<1>4. reg' \in Reg /\ reg'.i = IF reg.i + 1 < n THEN reg.i + 1 ELSE 0
  BY <1>1, <1>2, Counted
<1>5. /\ screen' \in Screen /\ screen'.pos = screen.pos
      /\ screen'.pos_head = screen.pos_head
  BY <1>2, <1>3, CFacts, PokedFields
<1>6. Counter'
  BY <1>2, <1>4, CFacts DEF Counter, n
<1>7. Places'
  BY <1>2 DEF CInv, Places, InPut
<1>8. ASSUME raced = FALSE PROVE InBounds(screen') /\ Tested'
  <2>1. InBounds(screen) /\ (op # NL => Cursor(screen) = 0)
    BY <1>2, <1>8 DEF CInv, Tested
  <2>2. Cursor(screen') = Cursor(screen)
    BY <1>5, SlotStays
  <2>3. InBounds(screen')
    BY <1>2, <1>3, <2>1, PokedBounds
  <2>4. Tested'
    BY <1>2, <2>1, <2>2 DEF Tested
  <2> QED
    BY <2>3, <2>4
<1> QED
  BY <1>2, <1>4, <1>5, <1>6, <1>7, <1>8, AccessCInv DEF Pcs

LEMMA BlankCellCInv == ASSUME CInv, blank_cell PROVE CInv'
<1> DEFINE n == VGA_WIDTH
<1>1. n \in Nat /\ n <= VGA_HEIGHT * VGA_WIDTH
  BY PageSize, VideoAssumption
<1>2. /\ pc = "blank"
      /\ pc' = IF reg.i + 1 < n THEN "blank" ELSE IF op = NL THEN "idle" ELSE "aim"
      /\ screen' = Poked(screen, VGA_HEIGHT - 1, reg.i, BlankEntry)
      /\ reg' = Count(reg, n)
      /\ UNCHANGED <<op, text, keys, touched, raced>>
  BY DEF blank_cell, Loop, Access, Poked, Count
<1>3. VGA_HEIGHT - 1 \in Row /\ reg.i \in Col
  <2>1. reg.i < VGA_WIDTH
    BY <1>2 DEF CInv, Counter
  <2> QED
    BY <2>1, CFacts DEF Col
<1> HIDE DEF n
<1>4. reg' \in Reg /\ reg'.i = IF reg.i + 1 < n THEN reg.i + 1 ELSE 0
  BY <1>1, <1>2, Counted
<1>5. /\ screen' \in Screen /\ screen'.pos = screen.pos
      /\ screen'.pos_head = screen.pos_head
  BY <1>2, <1>3, CFacts, BlankCell, PokedFields
<1>6. Counter'
  BY <1>2, <1>4 DEF Counter, n
<1>7. Places'
  BY <1>2 DEF CInv, Places, InPut
<1>8. ASSUME raced = FALSE PROVE InBounds(screen') /\ Tested'
  <2>1. InBounds(screen) /\ (op # NL => Cursor(screen) = 0)
    BY <1>2, <1>8 DEF CInv, Tested
  <2>2. Cursor(screen') = Cursor(screen)
    BY <1>5, SlotStays
  <2>3. InBounds(screen')
    BY <1>2, <1>3, <2>1, BlankCell, PokedBounds
  <2>4. 0 < VGA_WIDTH
    BY VideoAssumption
  <2>5. Tested'
    BY <1>2, <2>1, <2>2, <2>4 DEF Tested
  <2> QED
    BY <2>3, <2>5
<1> QED
  BY <1>2, <1>4, <1>5, <1>6, <1>7, <1>8, AccessCInv DEF Pcs, BetweenCalls

LEMMA AimCInv == ASSUME CInv, aim PROVE CInv'
<1>1. /\ pc = "aim" /\ pc' = "fetch"
      /\ reg' = Loaded(CursorSlot(screen), 0)
      /\ UNCHANGED <<screen, op, text, keys, touched, raced>>
  BY DEF aim, Load, Access
<1>2. CursorSlot(screen) \in Row /\ screen' \in Screen
  BY <1>1, CFacts, ScreenFields
<1>3. reg' \in Reg /\ reg'.slot = CursorSlot(screen) /\ reg'.i = 0
  BY <1>1, <1>2, CFacts, BlankCell DEF Reg, Loaded, Cell
<1>4. Counter' /\ Places'
  BY <1>1, <1>3 DEF CInv, Counter, Places, InPut
<1>5. raced = FALSE => InBounds(screen') /\ Tested'
  BY <1>1, <1>3 DEF CInv, Tested
<1> QED
  BY <1>1, <1>2, <1>3, <1>4, <1>5, AccessCInv DEF Pcs

LEMMA FetchCInv == ASSUME CInv, fetch PROVE CInv'
<1>1. /\ pc = "fetch" /\ pc' = "incr"
      /\ reg' = Loaded(reg.slot, screen.pos[reg.slot])
      /\ UNCHANGED <<screen, op, text, keys, touched, raced>>
  BY DEF fetch, Load, Access
<1>2. reg.slot \in Row /\ screen.pos[reg.slot] \in Nat /\ screen' \in Screen
  BY <1>1, CFacts, ScreenFields
<1>3. reg' \in Reg /\ reg'.value = screen.pos[reg.slot] /\ reg'.i = 0
  BY <1>1, <1>2, LoadedReg
<1>4. Counter' /\ Places'
  BY <1>1, <1>3 DEF CInv, Counter, Places, InPut
<1>5. ASSUME raced = FALSE PROVE InBounds(screen') /\ Tested'
  <2>1. InBounds(screen) /\ reg.slot = CursorSlot(screen) /\ Cursor(screen) < VGA_WIDTH
    BY <1>1, <1>5 DEF CInv, Tested
  <2>2. Cursor(screen) = screen.pos[CursorSlot(screen)]
    BY CFacts, ScreenFields
  <2>3. reg'.value < VGA_WIDTH
    BY <1>3, <2>1, <2>2
  <2> QED
    BY <1>1, <2>1, <2>3 DEF Tested
<1> QED
  BY <1>1, <1>2, <1>3, <1>4, <1>5, AccessCInv DEF Pcs

LEMMA IncrCInv == ASSUME CInv, incr PROVE CInv'
<1> DEFINE n == reg.value + 1
<1>1. /\ pc = "incr" /\ pc' = "store" /\ screen' = Moved(screen, reg.slot, n)
      /\ UNCHANGED <<reg, op, text, keys, touched, raced>>
  BY DEF incr, Access, Moved
<1>2. reg.slot \in Row /\ n \in Nat /\ reg' \in Reg
  BY <1>1, CFacts
<1>3. ASSUME raced = FALSE
      PROVE  InBounds(screen) /\ n \in 0 .. VGA_WIDTH /\ reg.value < VGA_WIDTH
  <2>1. InBounds(screen) /\ reg.value < VGA_WIDTH
    BY <1>1, <1>3 DEF CInv, Tested
  <2> QED
    BY <2>1, CFacts
<1> HIDE DEF n
<1>4. screen' \in Screen
  BY <1>1, <1>2, CFacts, MovedFields
<1>5. Counter' /\ Places'
  BY <1>1 DEF CInv, Counter, Places, InPut
<1>6. ASSUME raced = FALSE PROVE InBounds(screen') /\ Tested'
  <2>1. InBounds(screen')
    BY <1>1, <1>2, <1>3, <1>6, MovedBounds
  <2>2. Tested'
    BY <1>1, <1>3, <1>6 DEF Tested
  <2> QED
    BY <2>1, <2>2
<1> QED
  BY <1>1, <1>2, <1>4, <1>5, <1>6, AccessCInv DEF Pcs

LEMMA StoreCInv == ASSUME CInv, store PROVE CInv'
<1> DEFINE v == vga_entry(op, screen.color)
<1>1. /\ pc = "store" /\ pc' = "idle" /\ screen' = write_entry(screen, v, reg.value)
      /\ UNCHANGED <<reg, op, text, keys, touched, raced>>
  BY DEF store, Access
<1>2. op \in Glyphs \cup {SPACE}
  BY <1>1, TextTypes DEF CInv, ConsoleTypeOK, Places, InPut
<1>3. v \in Cell
  BY <1>2, CFacts, EntryType
<1> HIDE DEF v
<1>4. screen' \in Screen /\ reg' \in Reg
  BY <1>1, <1>3, CFacts, WriteType
<1>5. Counter' /\ Places'
  BY <1>1 DEF CInv, Counter, Places, InPut
<1>6. ASSUME raced = FALSE PROVE InBounds(screen') /\ Tested'
  <2>1. InBounds(screen) /\ reg.value < VGA_WIDTH
    BY <1>1, <1>6 DEF CInv, Tested
  <2>2. reg.value \in Col
    BY <2>1, CFacts DEF Col
  <2>3. InBounds(screen')
    BY <1>1, <1>3, <2>1, <2>2, WriteEntryInBounds DEF Cell
  <2>4. Tested'
    BY <1>1 DEF Tested
  <2> QED
    BY <2>3, <2>4
<1> QED
  BY <1>1, <1>4, <1>5, <1>6, AccessCInv DEF Pcs, BetweenCalls

\* A key, wherever it falls: raced remembers the places where it may undo
\* what the thread has tested.
LEMMA KeyCInv == ASSUME CInv, NEW c \in KeyChars, Key(c) PROVE CInv'
<1>1. /\ keys < MaxKeys /\ keys' = keys + 1 /\ screen' = putc(screen, c)
      /\ touched' = (touched \/ pc \notin BetweenCalls)
      /\ raced' = (raced \/ Races)
      /\ UNCHANGED <<pc, op, reg, text>>
  BY DEF Key
<1>2. c \in Char
  BY ConsoleAssumption
<1>3. screen' \in Screen
  BY <1>1, <1>2, CFacts, PutcType
<1>4. /\ op' \in TextChars \cup {NL} /\ text' \in 0..MaxText /\ keys' \in 0..MaxKeys
      /\ touched' \in BOOLEAN /\ raced' \in BOOLEAN
  <2>1. op \in TextChars \cup {NL} /\ text \in 0..MaxText /\ keys \in 0..MaxKeys
    BY DEF CInv, ConsoleTypeOK
  <2>2. keys' \in 0..MaxKeys
    BY <2>1, <1>1, ConsoleAssumption
  <2>3. touched' \in BOOLEAN /\ raced' \in BOOLEAN
    BY <1>1, Zenon
  <2> QED
    BY <2>1, <2>2, <2>3, <1>1, Zenon
<1>5. pc' \in Pcs /\ reg' \in Reg
  BY <1>1 DEF CInv, ConsoleTypeOK, Pcs, Reg
<1>6. ConsoleTypeOK'
  BY <1>3, <1>4, <1>5, TypeNext
<1>7. Counter' /\ Places'
  BY <1>1 DEF CInv, Counter, Places
<1>8. ASSUME raced' = FALSE PROVE InBounds(screen)' /\ Tested'
  <2>1. raced = FALSE /\ ~Races
    BY <1>1, <1>8, Zenon DEF CInv, ConsoleTypeOK
  <2>2. InBounds(screen) /\ Tested
    BY <2>1 DEF CInv
  <2>3. InBounds(screen')
    BY <1>1, <1>2, <2>2, PutcInBounds
  <2>4. pc \notin {"aim", "fetch"} /\ (pc \in {"scroll", "move", "blank"} => op = NL)
    BY <2>1 DEF CInv, Places, InPut, Races
  <2>5. pc \in {"check", "zero"} /\ op # NL => reg.slot = CursorSlot(screen')
    BY <2>1 DEF Races
  <2>6. pc = "check" => op # NL
    BY DEF CInv, Places, InPut
  <2>7. Tested'
    BY <1>1, <2>2, <2>4, <2>5, <2>6 DEF Tested
  <2> QED
    BY <2>3, <2>7
<1> QED
  BY <1>6, <1>7, <1>8 DEF CInv

LEMMA InitCInv == ConsoleInit => CInv
<1> SUFFICES ASSUME ConsoleInit PROVE CInv
  OBVIOUS
<1>1. InBounds(screen) /\ screen \in Screen
  BY InitInBounds DEF ConsoleInit, InBounds
<1>2. 0 \in Row /\ 0 \in 0 .. VGA_HEIGHT * VGA_WIDTH - 1
  BY PageSize, VideoAssumption DEF Row
<1>3. ConsoleTypeOK
  <2>1. pc \in Pcs /\ op \in TextChars \cup {NL}
    BY DEF ConsoleInit, Pcs, BetweenCalls
  <2>2. reg \in Reg
    BY <1>2, BlankCell DEF ConsoleInit, Reg, Loaded, Cell
  <2>3. text \in 0..MaxText /\ keys \in 0..MaxKeys
    BY ConsoleAssumption DEF ConsoleInit
  <2>4. touched \in BOOLEAN /\ raced \in BOOLEAN
    BY DEF ConsoleInit
  <2> QED
    BY <1>1, <2>1, <2>2, <2>3, <2>4 DEF ConsoleTypeOK, TypeOK, Pcs, Reg
<1>4. Counter /\ Places /\ Tested
  BY DEF ConsoleInit, Counter, Places, Tested, InPut, Loaded
<1> QED
  BY <1>1, <1>3, <1>4 DEF CInv

LEMMA StepCInv == CInv /\ [ConsoleNext]_vars => CInv'
<1> SUFFICES ASSUME CInv, [ConsoleNext]_vars PROVE CInv'
  OBVIOUS
<1>1. CASE begin_clear \/ clear_cell \/ clear_pos
  BY <1>1, BeginClearCInv, ClearCellCInv, ClearPosCInv
<1>2. ASSUME NEW c \in Colors, color(c) PROVE CInv'
  BY <1>2, ColorCInv
<1>3. ASSUME NEW c \in TextChars, begin_putc(c) PROVE CInv'
  BY <1>3, BeginPutcCInv
<1>4. CASE check \/ load_head \/ store_head \/ load_slot \/ zero_pos
  BY <1>4, CheckCInv, LoadHeadCInv, StoreHeadCInv, LoadSlotCInv, ZeroPosCInv
<1>5. CASE load_cell \/ scroll_cell \/ blank_cell \/ aim \/ fetch \/ incr \/ store
  BY <1>5, LoadCellCInv, ScrollCellCInv, BlankCellCInv, AimCInv, FetchCInv, IncrCInv, StoreCInv
<1>6. ASSUME NEW c \in KeyChars, Key(c) PROVE CInv'
  BY <1>6, KeyCInv
<1>7. CASE UNCHANGED vars
  BY <1>7 DEF vars, CInv, ConsoleTypeOK, TypeOK, Counter, Places, Tested
<1> QED
  BY <1>1, <1>2, <1>3, <1>4, <1>5, <1>6, <1>7, Zenon DEF ConsoleNext, Main, Finished

----------------------------------------------------------------------------
(* What the accesses of a call add up to. *)

\* The screen at the end of new_line, once pos_head and the cursor are set and
\* the cells before the i-th of the rows above the bottom one are in place.
ScrolledMem(mem, i) ==
  [y \in Row |-> [x \in Col |->
     IF y = VGA_HEIGHT - 1 THEN BlankEntry
     ELSE IF y * VGA_WIDTH + x < i THEN mem[y][x] ELSE mem[y + 1][x]]]
Scrolled(s, i) == [s EXCEPT !.videomem = ScrolledMem(s.videomem, i)]

\* The same, once the rows above the bottom one and its first i cells are.
BlankedMem(mem, i) ==
  [y \in Row |-> [x \in Col |->
     IF y = VGA_HEIGHT - 1 /\ x >= i THEN BlankEntry ELSE mem[y][x]]]
Blanked(s, i) == [s EXCEPT !.videomem = BlankedMem(s.videomem, i)]

\* The end of putc's default case, once the bottom row has room for c.
Typed(c, s) ==
  write_entry(Moved(s, CursorSlot(s), Cursor(s) + 1), vga_entry(c, s.color), Cursor(s))

\* What follows new_line in putc.
Rest(c, s) == IF c = NL THEN s ELSE Typed(c, s)

LEMMA SameCells ==
  ASSUME NEW a \in Screen, NEW b \in Screen,
         a.color = b.color, a.pos_head = b.pos_head, a.stray = b.stray,
         \A j \in Row : a.pos[j] = b.pos[j],
         \A y \in Row, x \in Col : a.videomem[y][x] = b.videomem[y][x]
  PROVE  a = b
<1>1. a.pos = b.pos
  BY ScreenFields
<1>2. ASSUME NEW y \in Row PROVE a.videomem[y] = b.videomem[y]
  <2>1. a.videomem[y] \in [Col -> Cell] /\ b.videomem[y] \in [Col -> Cell]
    BY ScreenFields
  <2> QED
    BY <2>1
<1>3. a.videomem = b.videomem
  <2>1. a.videomem \in [Row -> [Col -> Cell]] /\ b.videomem \in [Row -> [Col -> Cell]]
    BY ScreenFields
  <2> QED
    BY <2>1, <1>2
<1> QED
  BY <1>1, <1>3, SameFields

LEMMA ScrolledFields ==
  ASSUME NEW s \in Screen, NEW i \in Nat
  PROVE  LET m == Scrolled(s, i) IN
         /\ m \in Screen /\ m.pos = s.pos /\ m.color = s.color
         /\ m.pos_head = s.pos_head /\ m.stray = s.stray
         /\ \A y \in Row, x \in Col :
              m.videomem[y][x] = IF y = VGA_HEIGHT - 1 THEN BlankEntry
                                 ELSE IF y * VGA_WIDTH + x < i THEN s.videomem[y][x]
                                 ELSE s.videomem[y + 1][x]
<1> DEFINE mem == ScrolledMem(s.videomem, i)
           m == Scrolled(s, i)
<1>1. \A y \in Row, x \in Col :
         mem[y][x] = IF y = VGA_HEIGHT - 1 THEN BlankEntry
                     ELSE IF y * VGA_WIDTH + x < i THEN s.videomem[y][x]
                     ELSE s.videomem[y + 1][x]
  BY DEF ScrolledMem
<1>2. mem \in [Row -> [Col -> Cell]]
  <2>1. s.videomem \in [Row -> [Col -> Cell]]
    BY ScreenFields
  <2>2. ASSUME NEW y \in Row, y # VGA_HEIGHT - 1 PROVE y + 1 \in Row
    BY <2>2, VideoAssumption DEF Row
  <2>3. \A y \in Row, x \in Col : mem[y][x] \in Cell
    <3> HIDE DEF mem
    <3> QED
      BY <2>1, <2>2, <1>1, BlankCell
  <2>4. mem = [y \in Row |-> [x \in Col |-> mem[y][x]]]
    BY DEF ScrolledMem
  <2> HIDE DEF mem
  <2> QED
    BY <2>3, <2>4
<1>3. m = [s EXCEPT !.videomem = mem]
  BY DEF Scrolled
<1> HIDE DEF mem, m
<1>4. m \in Screen /\ m.videomem = mem
  BY <1>2, <1>3 DEF Screen, Cell
<1>5. m.pos = s.pos /\ m.color = s.color /\ m.pos_head = s.pos_head /\ m.stray = s.stray
  BY <1>3 DEF Screen
<1> QED
  BY <1>1, <1>4, <1>5 DEF m

LEMMA BlankedFields ==
  ASSUME NEW s \in Screen, NEW i \in Nat
  PROVE  LET m == Blanked(s, i) IN
         /\ m \in Screen /\ m.pos = s.pos /\ m.color = s.color
         /\ m.pos_head = s.pos_head /\ m.stray = s.stray
         /\ \A y \in Row, x \in Col :
              m.videomem[y][x] = IF y = VGA_HEIGHT - 1 /\ x >= i THEN BlankEntry
                                 ELSE s.videomem[y][x]
<1> DEFINE mem == BlankedMem(s.videomem, i)
           m == Blanked(s, i)
<1>1. \A y \in Row, x \in Col :
         mem[y][x] = IF y = VGA_HEIGHT - 1 /\ x >= i THEN BlankEntry ELSE s.videomem[y][x]
  BY DEF BlankedMem
<1>2. mem \in [Row -> [Col -> Cell]]
  <2>1. s.videomem \in [Row -> [Col -> Cell]]
    BY ScreenFields
  <2>2. \A y \in Row, x \in Col : mem[y][x] \in Cell
    <3> HIDE DEF mem
    <3> QED
      BY <2>1, <1>1, BlankCell
  <2>3. mem = [y \in Row |-> [x \in Col |-> mem[y][x]]]
    BY DEF BlankedMem
  <2> HIDE DEF mem
  <2> QED
    BY <2>2, <2>3
<1>3. m = [s EXCEPT !.videomem = mem]
  BY DEF Blanked
<1> HIDE DEF mem, m
<1>4. m \in Screen /\ m.videomem = mem
  BY <1>2, <1>3 DEF Screen, Cell
<1>5. m.pos = s.pos /\ m.color = s.color /\ m.pos_head = s.pos_head /\ m.stray = s.stray
  BY <1>3 DEF Screen
<1> QED
  BY <1>1, <1>4, <1>5 DEF m

\* A turn of the scroll loop brings the page one cell nearer to its outcome.
LEMMA ScrollTurn ==
  ASSUME NEW s \in Screen, NEW i \in Nat, NEW q \in Row, NEW r \in Col,
         q # VGA_HEIGHT - 1, i = q * VGA_WIDTH + r
  PROVE  Scrolled(Poked(s, q, r, s.videomem[q + 1][r]), i + 1) = Scrolled(s, i)
<1> DEFINE v == s.videomem[q + 1][r]
           p == Poked(s, q, r, v)
           a == Scrolled(p, i + 1)
           b == Scrolled(s, i)
<1>1. q + 1 \in Row
  BY VideoAssumption DEF Row
<1>2. v \in Cell
  BY <1>1, ScreenFields
<1>3. /\ p \in Screen /\ p.pos = s.pos /\ p.color = s.color
      /\ p.pos_head = s.pos_head /\ p.stray = s.stray
      /\ \A y \in Row, x \in Col :
           p.videomem[y][x] = IF y = q /\ x = r THEN v ELSE s.videomem[y][x]
  <2> HIDE DEF v
  <2> QED
    BY <1>2, PokedFields
<1>4. i + 1 \in Nat
  OBVIOUS
<1> HIDE DEF p
<1>5. /\ a \in Screen /\ a.pos = p.pos /\ a.color = p.color
      /\ a.pos_head = p.pos_head /\ a.stray = p.stray
      /\ \A y \in Row, x \in Col :
           a.videomem[y][x] = IF y = VGA_HEIGHT - 1 THEN BlankEntry
                              ELSE IF y * VGA_WIDTH + x < i + 1 THEN p.videomem[y][x]
                              ELSE p.videomem[y + 1][x]
  <2> DEFINE j == i + 1
  <2> HIDE DEF j
  <2>1. j \in Nat
    BY <1>4 DEF j
  <2>2. LET m == Scrolled(p, j) IN
        /\ m \in Screen /\ m.pos = p.pos /\ m.color = p.color
        /\ m.pos_head = p.pos_head /\ m.stray = p.stray
        /\ \A y \in Row, x \in Col :
             m.videomem[y][x] = IF y = VGA_HEIGHT - 1 THEN BlankEntry
                                ELSE IF y * VGA_WIDTH + x < j THEN p.videomem[y][x]
                                ELSE p.videomem[y + 1][x]
    BY <1>3, <2>1, ScrolledFields
  <2> QED
    BY <2>2 DEF j
<1>6. /\ b \in Screen /\ b.pos = s.pos /\ b.color = s.color
      /\ b.pos_head = s.pos_head /\ b.stray = s.stray
      /\ \A y \in Row, x \in Col :
           b.videomem[y][x] = IF y = VGA_HEIGHT - 1 THEN BlankEntry
                              ELSE IF y * VGA_WIDTH + x < i THEN s.videomem[y][x]
                              ELSE s.videomem[y + 1][x]
  BY ScrolledFields
<1> HIDE DEF a, b
<1>7. ASSUME NEW y \in Row, NEW x \in Col PROVE a.videomem[y][x] = b.videomem[y][x]
  <2>1. CASE y = VGA_HEIGHT - 1
    BY <2>1, <1>5, <1>6
  <2>2. CASE y # VGA_HEIGHT - 1
    <3> DEFINE k == y * VGA_WIDTH + x
    <3>1. k \in Nat
      BY VideoAssumption, CellAbove DEF Row, Col
    <3>2. k = i => y = q /\ x = r
      BY CellUnique, VideoAssumption DEF Row, Col
    <3>3. y + 1 \in Row
      BY <2>2, VideoAssumption DEF Row
    <3>4. y = q /\ x = r => k = i
      OBVIOUS
    <3>5. /\ a.videomem[y][x] = IF k < i + 1 THEN p.videomem[y][x] ELSE p.videomem[y + 1][x]
          /\ b.videomem[y][x] = IF k < i THEN s.videomem[y][x] ELSE s.videomem[y + 1][x]
      BY <2>2, <1>5, <1>6
    <3> HIDE DEF k
    <3>6. CASE k < i
      <4>1. k < i + 1 /\ k # i
        BY <3>1, <3>6
      <4> QED
        BY <4>1, <3>4, <3>5, <3>6, <1>3
    <3>7. CASE k = i
      <4>1. k < i + 1 /\ ~ (k < i)
        BY <3>1, <3>7
      <4> QED
        BY <4>1, <3>2, <3>5, <3>7, <1>3
    <3>8. CASE k > i
      <4>1. ~ (k < i + 1) /\ ~ (k < i)
        BY <3>1, <3>8
      <4>2. ~ (y + 1 = q /\ x = r)
        <5> SUFFICES ASSUME y + 1 = q, x = r PROVE FALSE
          OBVIOUS
        <5> DEFINE w == VGA_WIDTH
        <5>1. w \in Nat \ {0} /\ y \in Nat /\ x \in Nat
          BY VideoAssumption DEF Row, Col
        <5>2. i = (y + 1) * w + x /\ k = y * w + x
          BY DEF k
        <5> HIDE DEF w
        <5>3. (y + 1) * w = y * w + w /\ y * w \in Nat
          BY <5>1
        <5> QED
          BY <5>1, <5>2, <5>3, <3>8
      <4>3. p.videomem[y + 1][x] = s.videomem[y + 1][x]
        BY <4>2, <3>3, <1>3
      <4> QED
        BY <4>1, <4>3, <3>5
    <3> QED
      BY <3>1, <3>6, <3>7, <3>8
  <2> QED
    BY <2>1, <2>2
<1>8. a = b
  BY <1>3, <1>5, <1>6, <1>7, SameCells
<1> QED
  BY <1>8 DEF a, b, p, v

\* With every row above the bottom one in place, only its blanks are missing.
LEMMA ScrollDone ==
  ASSUME NEW s \in Screen, NEW n, n = (VGA_HEIGHT - 1) * VGA_WIDTH
  PROVE  Scrolled(s, n) = Blanked(s, 0)
<1> DEFINE a == Scrolled(s, n)
           b == Blanked(s, 0)
           z == 0
<1>1. n \in Nat
  BY PageSize
<1>2. /\ a \in Screen /\ a.pos = s.pos /\ a.color = s.color
      /\ a.pos_head = s.pos_head /\ a.stray = s.stray
      /\ \A y \in Row, x \in Col :
           a.videomem[y][x] = IF y = VGA_HEIGHT - 1 THEN BlankEntry
                              ELSE IF y * VGA_WIDTH + x < n THEN s.videomem[y][x]
                              ELSE s.videomem[y + 1][x]
  BY <1>1, ScrolledFields
<1>3. z \in Nat /\ \A x \in Col : x >= z
  BY DEF Col
<1>4. /\ b \in Screen /\ b.pos = s.pos /\ b.color = s.color
      /\ b.pos_head = s.pos_head /\ b.stray = s.stray
      /\ \A y \in Row, x \in Col :
           b.videomem[y][x] = IF y = VGA_HEIGHT - 1 /\ x >= z THEN BlankEntry
                              ELSE s.videomem[y][x]
  <2> HIDE DEF z
  <2>1. LET m == Blanked(s, z) IN
        /\ m \in Screen /\ m.pos = s.pos /\ m.color = s.color
        /\ m.pos_head = s.pos_head /\ m.stray = s.stray
        /\ \A y \in Row, x \in Col :
             m.videomem[y][x] = IF y = VGA_HEIGHT - 1 /\ x >= z THEN BlankEntry
                                ELSE s.videomem[y][x]
    BY <1>3, BlankedFields
  <2> QED
    BY <2>1 DEF z
<1> HIDE DEF a, b, z
<1>5. ASSUME NEW y \in Row, NEW x \in Col PROVE a.videomem[y][x] = b.videomem[y][x]
  <2>1. CASE y = VGA_HEIGHT - 1
    BY <2>1, <1>2, <1>3, <1>4
  <2>2. CASE y # VGA_HEIGHT - 1
    <3> DEFINE g == VGA_HEIGHT - 1
    <3>1. g \in Nat /\ y \in 0 .. g - 1 /\ VGA_WIDTH \in Nat \ {0} /\ x \in 0 .. VGA_WIDTH - 1
      BY <2>2, VideoAssumption DEF Row, Col
    <3> HIDE DEF g
    <3>2. y * VGA_WIDTH + x < g * VGA_WIDTH
      BY <3>1, CellAbove
    <3>3. y * VGA_WIDTH + x < n
      BY <3>2 DEF g
    <3> QED
      BY <2>2, <3>3, <1>2, <1>4
  <2> QED
    BY <2>1, <2>2
<1>6. a = b
  BY <1>2, <1>4, <1>5, SameCells
<1> QED
  BY <1>6 DEF a, b

LEMMA BlankTurn ==
  ASSUME NEW s \in Screen, NEW i \in Col, NEW j, j = i + 1
  PROVE  Blanked(Poked(s, VGA_HEIGHT - 1, i, BlankEntry), j) = Blanked(s, i)
<1> DEFINE g == VGA_HEIGHT - 1
           p == Poked(s, g, i, BlankEntry)
           a == Blanked(p, j)
           b == Blanked(s, i)
<1>1. g \in Row /\ i \in Nat /\ j \in Nat /\ BlankEntry \in Cell
  BY VideoAssumption, BlankCell DEF Row, Col
<1>2. \A x \in Col : (x >= i) = (x = i \/ x >= j)
  BY <1>1 DEF Col
<1> HIDE DEF g
<1>3. /\ p \in Screen /\ p.pos = s.pos /\ p.color = s.color
      /\ p.pos_head = s.pos_head /\ p.stray = s.stray
      /\ \A y \in Row, x \in Col :
           p.videomem[y][x] = IF y = g /\ x = i THEN BlankEntry ELSE s.videomem[y][x]
  BY <1>1, PokedFields
<1> HIDE DEF p
<1>4. /\ a \in Screen /\ a.pos = p.pos /\ a.color = p.color
      /\ a.pos_head = p.pos_head /\ a.stray = p.stray
      /\ \A y \in Row, x \in Col :
           a.videomem[y][x] = IF y = g /\ x >= j THEN BlankEntry ELSE p.videomem[y][x]
  BY <1>1, <1>3, BlankedFields DEF g
<1>5. /\ b \in Screen /\ b.pos = s.pos /\ b.color = s.color
      /\ b.pos_head = s.pos_head /\ b.stray = s.stray
      /\ \A y \in Row, x \in Col :
           b.videomem[y][x] = IF y = g /\ x >= i THEN BlankEntry ELSE s.videomem[y][x]
  BY <1>1, BlankedFields DEF g
<1> HIDE DEF a, b
<1>6. ASSUME NEW y \in Row, NEW x \in Col PROVE a.videomem[y][x] = b.videomem[y][x]
  BY <1>2, <1>3, <1>4, <1>5
<1>7. a = b
  BY <1>3, <1>4, <1>5, <1>6, SameCells
<1> QED
  BY <1>7 DEF a, b, p, g

LEMMA BlankDone ==
  ASSUME NEW s \in Screen
  PROVE  Blanked(s, VGA_WIDTH) = s
<1> DEFINE b == Blanked(s, VGA_WIDTH)
<1>1. VGA_WIDTH \in Nat /\ \A x \in Col : ~ (x >= VGA_WIDTH)
  BY VideoAssumption DEF Col
<1>2. /\ b \in Screen /\ b.pos = s.pos /\ b.color = s.color
      /\ b.pos_head = s.pos_head /\ b.stray = s.stray
      /\ \A y \in Row, x \in Col :
           b.videomem[y][x] = IF y = VGA_HEIGHT - 1 /\ x >= VGA_WIDTH THEN BlankEntry
                              ELSE s.videomem[y][x]
  BY <1>1, BlankedFields
<1> HIDE DEF b
<1>3. \A y \in Row, x \in Col : b.videomem[y][x] = s.videomem[y][x]
  BY <1>1, <1>2
<1>4. b = s
  BY <1>2, <1>3, SameCells
<1> QED
  BY <1>4 DEF b

LEMMA ClearFields ==
  ASSUME NEW s \in Screen
  PROVE  LET m == clear(s) IN
         /\ m \in Screen /\ m.color = s.color
         /\ m.pos_head = s.pos_head /\ m.stray = s.stray
         /\ \A y \in Row, x \in Col : m.videomem[y][x] = BlankEntry
         /\ \A j \in Row : m.pos[j] = 0
<1> DEFINE mem == [y \in Row |-> BlankRow]
           zero == [i \in Row |-> 0]
           m == clear(s)
<1>1. m = [s EXCEPT !.videomem = mem, !.pos = zero]
  BY DEF clear
<1>2. mem \in [Row -> [Col -> Cell]]
  BY Blanks DEF Cell
<1>3. zero \in [Row -> Nat] /\ \A j \in Row : zero[j] = 0
  OBVIOUS
<1>4. \A y \in Row, x \in Col : mem[y][x] = BlankEntry
  BY DEF BlankRow
<1> HIDE DEF mem, zero, m
<1>5. m \in Screen /\ m.videomem = mem /\ m.pos = zero
  BY <1>1, <1>2, <1>3 DEF Screen, Cell
<1>6. m.color = s.color /\ m.pos_head = s.pos_head /\ m.stray = s.stray
  BY <1>1 DEF Screen
<1> QED
  BY <1>3, <1>4, <1>5, <1>6 DEF m

\* clear's outcome does not depend on the cells.
LEMMA ClearTurn ==
  ASSUME NEW s \in Screen, NEW y \in Row, NEW x \in Col
  PROVE  clear(Poked(s, y, x, BlankEntry)) = clear(s)
<1> DEFINE p == Poked(s, y, x, BlankEntry)
           a == clear(p)
           b == clear(s)
<1>1. /\ p \in Screen /\ p.color = s.color
      /\ p.pos_head = s.pos_head /\ p.stray = s.stray
  BY BlankCell, PokedFields
<1> HIDE DEF p
<1>2. /\ a \in Screen /\ a.color = p.color /\ a.pos_head = p.pos_head /\ a.stray = p.stray
      /\ \A u \in Row, v \in Col : a.videomem[u][v] = BlankEntry
      /\ \A j \in Row : a.pos[j] = 0
  BY <1>1, ClearFields
<1>3. /\ b \in Screen /\ b.color = s.color /\ b.pos_head = s.pos_head /\ b.stray = s.stray
      /\ \A u \in Row, v \in Col : b.videomem[u][v] = BlankEntry
      /\ \A j \in Row : b.pos[j] = 0
  BY ClearFields
<1> HIDE DEF a, b
<1>4. a = b
  BY <1>1, <1>2, <1>3, SameCells
<1> QED
  BY <1>4 DEF a, b, p

\* ... nor on the cursors.
LEMMA ClearMoved ==
  ASSUME NEW s \in Screen, NEW i \in Row, NEW n \in Nat
  PROVE  clear(Moved(s, i, n)) = clear(s)
<1> DEFINE p == Moved(s, i, n)
           a == clear(p)
           b == clear(s)
<1>1. /\ p \in Screen /\ p.color = s.color
      /\ p.pos_head = s.pos_head /\ p.stray = s.stray
  BY MovedFields
<1> HIDE DEF p
<1>2. /\ a \in Screen /\ a.color = p.color /\ a.pos_head = p.pos_head /\ a.stray = p.stray
      /\ \A u \in Row, v \in Col : a.videomem[u][v] = BlankEntry
      /\ \A j \in Row : a.pos[j] = 0
  BY <1>1, ClearFields
<1>3. /\ b \in Screen /\ b.color = s.color /\ b.pos_head = s.pos_head /\ b.stray = s.stray
      /\ \A u \in Row, v \in Col : b.videomem[u][v] = BlankEntry
      /\ \A j \in Row : b.pos[j] = 0
  BY ClearFields
<1> HIDE DEF a, b
<1>4. a = b
  BY <1>1, <1>2, <1>3, SameCells
<1> QED
  BY <1>4 DEF a, b, p

LEMMA ClearDone ==
  ASSUME NEW s \in Screen, \A y \in Row, x \in Col : s.videomem[y][x] = BlankEntry,
         \A j \in Row : s.pos[j] = 0
  PROVE  s = clear(s)
<1> DEFINE b == clear(s)
<1>1. /\ b \in Screen /\ b.color = s.color /\ b.pos_head = s.pos_head /\ b.stray = s.stray
      /\ \A u \in Row, v \in Col : b.videomem[u][v] = BlankEntry
      /\ \A j \in Row : b.pos[j] = 0
  BY ClearFields
<1> HIDE DEF b
<1>2. s = b
  BY <1>1, SameCells
<1> QED
  BY <1>2 DEF b

\* new_line is a turn of the ring, a reset of the cursor and a scroll.
LEMMA NewLineParts ==
  ASSUME NEW s \in Screen,
         NEW t, t = Turned(s, (s.pos_head + VGA_HEIGHT - 1) % VGA_HEIGHT)
  PROVE  new_line(s) = Scrolled(Moved(t, CursorSlot(t), 0), 0)
<1> DEFINE head == (s.pos_head + VGA_HEIGHT - 1) % VGA_HEIGHT
           slot == CursorSlot(t)
           z == 0
           m == Moved(t, slot, z)
           a == new_line(s)
           b == Scrolled(m, z)
<1>1. /\ head \in Nat /\ slot \in Row
      /\ a \in Screen /\ a.pos_head = head /\ a.color = s.color /\ a.stray = s.stray
      /\ a.pos = [s.pos EXCEPT ![slot] = 0]
      /\ a.videomem = [y \in Row |-> IF y < VGA_HEIGHT - 1 THEN s.videomem[y + 1]
                                                          ELSE BlankRow]
  BY NewLineFields
<1>2. \A j \in Row : a.pos[j] = IF j = slot THEN 0 ELSE s.pos[j]
  <2> HIDE DEF a, slot
  <2> QED
    BY <1>1, ScreenFields
<1>3. ASSUME NEW y \in Row, NEW x \in Col
      PROVE  a.videomem[y][x] = IF y = VGA_HEIGHT - 1 THEN BlankEntry
                                ELSE s.videomem[y + 1][x]
  <2> HIDE DEF a, slot, head
  <2>1. (y < VGA_HEIGHT - 1) = (y # VGA_HEIGHT - 1)
    BY VideoAssumption DEF Row
  <2>2. a.videomem[y] = IF y < VGA_HEIGHT - 1 THEN s.videomem[y + 1] ELSE BlankRow
    BY <1>1
  <2>3. BlankRow[x] = BlankEntry
    BY DEF BlankRow
  <2> QED
    BY <2>1, <2>2, <2>3
<1>4. z \in Nat /\ \A y \in Row, x \in Col : ~ (y * VGA_WIDTH + x < z)
  <2>1. \A y \in Row, x \in Col : y * VGA_WIDTH + x \in Nat
    BY CellAbove, VideoAssumption DEF Row, Col
  <2> QED
    BY <2>1
<1> HIDE DEF head, slot, z, a
<1>5. /\ t \in Screen /\ t.videomem = s.videomem /\ t.color = s.color
      /\ t.pos_head = head /\ t.stray = s.stray /\ t.pos = s.pos
  BY <1>1, TurnedFields DEF head
<1>6. /\ m \in Screen /\ m.videomem = t.videomem /\ m.color = t.color
      /\ m.pos_head = t.pos_head /\ m.stray = t.stray
      /\ \A j \in Row : m.pos[j] = IF j = slot THEN z ELSE t.pos[j]
  BY <1>1, <1>4, <1>5, MovedFields
<1> HIDE DEF m
<1>7. /\ b \in Screen /\ b.pos = m.pos /\ b.color = m.color
      /\ b.pos_head = m.pos_head /\ b.stray = m.stray
      /\ \A y \in Row, x \in Col :
           b.videomem[y][x] = IF y = VGA_HEIGHT - 1 THEN BlankEntry
                              ELSE IF y * VGA_WIDTH + x < z THEN m.videomem[y][x]
                              ELSE m.videomem[y + 1][x]
  BY <1>4, <1>6, ScrolledFields
<1> HIDE DEF b
<1>8. \A y \in Row, x \in Col : a.videomem[y][x] = b.videomem[y][x]
  BY <1>3, <1>4, <1>5, <1>6, <1>7
<1>9. \A j \in Row : a.pos[j] = b.pos[j]
  BY <1>2, <1>5, <1>6, <1>7 DEF z
<1>10. a.color = b.color /\ a.pos_head = b.pos_head /\ a.stray = b.stray
  BY <1>1, <1>5, <1>6, <1>7, Zenon
<1>11. a \in Screen /\ b \in Screen
  BY <1>1, <1>7, Zenon
<1>12. a = b
  BY <1>8, <1>9, <1>10, <1>11, SameCells
<1> QED
  BY <1>12 DEF a, b, m, z, slot

LEMMA PutTyped ==
  ASSUME NEW s, NEW c
  PROVE  put(s, c) = Typed(c, IF Cursor(s) = VGA_WIDTH THEN new_line(s) ELSE s)
<1> DEFINE t == IF Cursor(s) = VGA_WIDTH THEN new_line(s) ELSE s
<1>1. put(s, c) = write_entry([t EXCEPT !.pos[CursorSlot(t)] = @ + 1],
                              vga_entry(c, t.color), Cursor(t))
  BY DEF put
<1> HIDE DEF t
<1>2. t.pos[CursorSlot(t)] = Cursor(t)
  BY DEF Cursor, POS_INDX, CursorSlot
<1>3. [t EXCEPT !.pos[CursorSlot(t)] = @ + 1] = Moved(t, CursorSlot(t), Cursor(t) + 1)
  BY <1>2 DEF Moved
<1>4. put(s, c) = Typed(c, t)
  BY <1>1, <1>3 DEF Typed
<1> QED
  BY <1>4 DEF t

LEMMA PutcText ==
  ASSUME NEW s, NEW c \in TextChars
  PROVE  putc(s, c) = IF c = NL THEN new_line(s) ELSE put(s, c)
<1>1. c \in Glyphs \cup {SPACE, NL}
  BY ConsoleAssumption
<1>2. c # BS /\ c # TAB
  BY <1>1, VideoAssumption DEF NL, BS, TAB, SPACE
<1>3. CASE c = NL
  BY <1>3 DEF putc, NL, BS, TAB
<1>4. CASE c # NL
  BY <1>2, <1>4 DEF putc
<1> QED
  BY <1>3, <1>4

----------------------------------------------------------------------------
(* The invariant of the calls. *)

\* Where the thread is in a call, the screen that the call will leave, from the
\* one in memory; and what the thread has loaded is still what memory holds.
Settled ==
  /\ pc \in BetweenCalls => ghost = screen
  /\ pc = "clear" =>
       /\ ghost = clear(screen)
       /\ \A y \in Row, x \in Col :
            y * VGA_WIDTH + x < reg.i => screen.videomem[y][x] = BlankEntry
  /\ pc = "memset" =>
       /\ ghost = clear(screen)
       /\ \A y \in Row, x \in Col : screen.videomem[y][x] = BlankEntry
       /\ \A j \in Row : j < reg.i => screen.pos[j] = 0
  /\ pc = "check" => ghost = put(screen, op) /\ reg.slot = CursorSlot(screen)
  /\ pc = "load" => ghost = Rest(op, new_line(screen))
  /\ pc = "turn" => ghost = Rest(op, new_line(screen)) /\ reg.value = screen.pos_head
  /\ pc = "slot" => ghost = Rest(op, Scrolled(Moved(screen, CursorSlot(screen), 0), 0))
  /\ pc = "zero" => ghost = Rest(op, Scrolled(Moved(screen, reg.slot, 0), 0))
  /\ pc \in {"scroll", "move"} => ghost = Rest(op, Scrolled(screen, reg.i))
  /\ pc = "move" => reg.cell = screen.videomem[CellRow + 1][CellCol]
  /\ pc = "blank" => ghost = Rest(op, Blanked(screen, reg.i))
  /\ pc = "aim" => ghost = Typed(op, screen)
  /\ pc = "fetch" => ghost = Typed(op, screen) /\ reg.slot = CursorSlot(screen)
  /\ pc = "incr" =>
       ghost = write_entry(Moved(screen, reg.slot, reg.value + 1),
                           vga_entry(op, screen.color), reg.value)
  /\ pc = "store" => ghost = write_entry(screen, vga_entry(op, screen.color), reg.value)

AInv == CInv /\ (touched = FALSE => Settled)

LEMMA BeginClearSettled ==
  ASSUME CInv, Settled, touched = FALSE, begin_clear PROVE Settled'
<1>1. /\ pc = "start" /\ pc' = "clear" /\ ghost' = clear(ghost)
      /\ UNCHANGED <<screen, reg>>
  BY DEF begin_clear
<1>2. ghost' = clear(screen')
  BY <1>1 DEF Settled, BetweenCalls
<1>3. reg'.i = 0
  BY <1>1 DEF CInv, Counter
<1>4. \A y \in Row, x \in Col : ~ (y * VGA_WIDTH + x < reg'.i)
  <2>1. \A y \in Row, x \in Col : y * VGA_WIDTH + x \in Nat
    BY CellAbove, VideoAssumption DEF Row, Col
  <2> QED
    BY <2>1, <1>3
<1> QED
  BY <1>1, <1>2, <1>4 DEF Settled, BetweenCalls

LEMMA ClearCellSettled ==
  ASSUME CInv, Settled, clear_cell PROVE Settled'
<1> DEFINE n == VGA_HEIGHT * VGA_WIDTH
           q == CellRow
           r == CellCol
<1>1. n \in Nat /\ n <= n
  BY PageSize
<1>2. /\ pc = "clear" /\ pc' = IF reg.i + 1 < n THEN "clear" ELSE "memset"
      /\ screen' = Poked(screen, q, r, BlankEntry)
      /\ reg' = Count(reg, n) /\ UNCHANGED <<op, ghost>>
  BY DEF clear_cell, Loop, Access, Poked, Count
<1>3. q \in Row /\ r \in Col /\ reg.i = q * VGA_WIDTH + r
  <2>1. reg.i \in Nat /\ reg.i < VGA_HEIGHT * VGA_WIDTH
    BY CFacts
  <2> QED
    BY <2>1, CellPlace, VideoAssumption DEF CellRow, CellCol, Row, Col
<1>4. /\ ghost = clear(screen)
      /\ \A y \in Row, x \in Col :
           y * VGA_WIDTH + x < reg.i => screen.videomem[y][x] = BlankEntry
  BY <1>2 DEF Settled
<1>5. reg.i \in Nat /\ reg.i < n
  BY CFacts
<1> HIDE DEF n, q, r
<1>6. reg'.i = IF reg.i + 1 < n THEN reg.i + 1 ELSE 0
  BY <1>1, <1>2, Counted DEF n
<1>7. screen \in Screen
  BY CFacts
<1>8. \A y \in Row, x \in Col :
        screen'.videomem[y][x] = IF y = q /\ x = r THEN BlankEntry ELSE screen.videomem[y][x]
  BY <1>2, <1>3, <1>7, BlankCell, PokedFields
<1>9. ghost' = clear(screen')
  <2>1. clear(screen') = clear(screen)
    BY <1>2, <1>3, <1>7, ClearTurn
  <2> QED
    BY <2>1, <1>2, <1>4
<1>10. ASSUME NEW y \in Row, NEW x \in Col, y * VGA_WIDTH + x < reg.i + 1
       PROVE  screen'.videomem[y][x] = BlankEntry
  <2>1. y * VGA_WIDTH + x \in Nat
    BY CellAbove, VideoAssumption DEF Row, Col
  <2>2. y * VGA_WIDTH + x < reg.i \/ y * VGA_WIDTH + x = reg.i
    BY <2>1, <1>5, <1>10
  <2>3. y * VGA_WIDTH + x = reg.i => y = q /\ x = r
    BY <1>3, CellUnique, VideoAssumption DEF Row, Col
  <2> QED
    BY <2>2, <2>3, <1>4, <1>8
<1>11. CASE reg.i + 1 < n
  BY <1>2, <1>6, <1>9, <1>10, <1>11 DEF Settled, BetweenCalls
<1>12. CASE ~ (reg.i + 1 < n)
  <2>1. reg.i + 1 = n
    BY <1>1, <1>5, <1>12
  <2>2. \A y \in Row, x \in Col : y * VGA_WIDTH + x < n
    BY CellAbove, VideoAssumption DEF Row, Col, n
  <2>3. \A y \in Row, x \in Col : screen'.videomem[y][x] = BlankEntry
    BY <2>1, <2>2, <1>10
  <2>4. \A j \in Row : ~ (j < reg'.i)
    BY <1>6, <1>12 DEF Row
  <2> QED
    BY <2>3, <2>4, <1>2, <1>9, <1>12 DEF Settled, BetweenCalls
<1> QED
  BY <1>11, <1>12

LEMMA ClearPosSettled ==
  ASSUME CInv, Settled, clear_pos PROVE Settled'
<1> DEFINE n == VGA_HEIGHT
           i == reg.i
           z == 0
<1>1. n \in Nat /\ n <= VGA_HEIGHT * VGA_WIDTH /\ z \in Nat
  BY PageSize, VideoAssumption
<1>2. /\ pc = "memset" /\ pc' = IF i + 1 < n THEN "memset" ELSE "color"
      /\ screen' = Moved(screen, i, z)
      /\ reg' = Count(reg, n) /\ UNCHANGED <<op, ghost>>
  BY DEF clear_pos, Loop, Access, Moved, Count
<1>3. /\ ghost = clear(screen) /\ screen \in Screen
      /\ \A y \in Row, x \in Col : screen.videomem[y][x] = BlankEntry
      /\ \A j \in Row : j < i => screen.pos[j] = 0
  BY <1>2, CFacts DEF Settled
<1>4. i < n
  BY <1>2, Zenon DEF CInv, Counter
<1>5. i \in Nat /\ i \in Row
  BY <1>4, CFacts, VideoAssumption DEF Row
<1>6. reg'.i = IF i + 1 < n THEN i + 1 ELSE 0
  <2> HIDE DEF n
  <2> QED
    BY <1>1, <1>2, Counted
<1> HIDE DEF i, z
<1>7. clear(screen') = clear(screen)
  BY <1>1, <1>2, <1>3, <1>5, ClearMoved
<1>8. /\ screen' \in Screen /\ screen'.videomem = screen.videomem
      /\ \A j \in Row : screen'.pos[j] = IF j = i THEN z ELSE screen.pos[j]
  <2> DEFINE m == Moved(screen, i, z)
  <2>1. /\ m \in Screen /\ m.videomem = screen.videomem
        /\ \A j \in Row : m.pos[j] = IF j = i THEN z ELSE screen.pos[j]
    BY <1>1, <1>3, <1>5, MovedFields
  <2>2. screen' = m
    BY <1>2
  <2> HIDE DEF m
  <2> QED
    BY <2>1, <2>2
<1>9. \A y \in Row, x \in Col : screen'.videomem[y][x] = BlankEntry
  BY <1>3, <1>8
<1>10. \A j \in Row : j < i + 1 => screen'.pos[j] = 0
  <2>1. \A j \in Row : j < i + 1 => j < i \/ j = i
    BY <1>5 DEF Row
  <2> QED
    BY <2>1, <1>3, <1>8 DEF z
<1>11. ghost' = clear(screen')
  BY <1>2, <1>3, <1>7
<1>12. CASE i + 1 < n
  BY <1>2, <1>6, <1>9, <1>10, <1>11, <1>12 DEF Settled, BetweenCalls
<1>13. CASE ~ (i + 1 < n)
  <2>1. \A j \in Row : j < i + 1
    BY <1>1, <1>5, <1>13 DEF Row
  <2>2. screen' = clear(screen')
    BY <2>1, <1>8, <1>9, <1>10, ClearDone
  <2>3. pc' = "color" /\ ghost' = screen'
    BY <2>2, <1>2, <1>11, <1>13
  <2> QED
    BY <2>3 DEF Settled, BetweenCalls
<1> QED
  BY <1>12, <1>13

LEMMA ColorSettled ==
  ASSUME CInv, Settled, touched = FALSE, NEW c \in Colors, color(c) PROVE Settled'
<1>1. /\ pc = "color" /\ pc' = "idle" /\ screen' = set_color(screen, c)
      /\ ghost' = set_color(ghost, c)
  BY DEF color
<1>2. ghost = screen
  BY <1>1 DEF Settled, BetweenCalls
<1> QED
  BY <1>1, <1>2 DEF Settled, BetweenCalls

LEMMA BeginPutcSettled ==
  ASSUME CInv, Settled, touched = FALSE, NEW c \in TextChars, begin_putc(c)
  PROVE  Settled'
<1>1. /\ pc = "idle" /\ pc' = IF c = NL THEN "turn" ELSE "check"
      /\ op' = c /\ ghost' = putc(ghost, c) /\ UNCHANGED screen
      /\ reg' = Loaded(CursorSlot(screen), screen.pos_head)
  BY DEF begin_putc
<1>2. reg'.slot = CursorSlot(screen) /\ reg'.value = screen.pos_head
  BY <1>1 DEF Loaded
<1>3. ghost' = putc(screen, c)
  BY <1>1 DEF Settled, BetweenCalls
<1>4. CASE c = NL
  <2>1. ghost' = Rest(op', new_line(screen'))
    BY <1>1, <1>3, <1>4, PutcText DEF Rest
  <2> QED
    BY <1>1, <1>2, <1>4, <2>1 DEF Settled, BetweenCalls
<1>5. CASE c # NL
  <2>1. ghost' = put(screen', op')
    BY <1>1, <1>3, <1>5, PutcText
  <2> QED
    BY <1>1, <1>2, <1>5, <2>1 DEF Settled, BetweenCalls
<1> QED
  BY <1>4, <1>5

LEMMA CheckSettled ==
  ASSUME CInv, Settled, check PROVE Settled'
<1>1. /\ pc = "check" /\ pc' = IF screen.pos[reg.slot] = VGA_WIDTH THEN "load" ELSE "aim"
      /\ UNCHANGED <<screen, reg, op, ghost>>
  BY DEF check, Access
<1>2. ghost = put(screen, op) /\ reg.slot = CursorSlot(screen) /\ op # NL
  BY <1>1 DEF Settled, CInv, Places, InPut
<1>3. Cursor(screen) = screen.pos[reg.slot]
  BY <1>2, CFacts, ScreenFields
<1>4. put(screen, op) = Typed(op, IF Cursor(screen) = VGA_WIDTH THEN new_line(screen) ELSE screen)
  BY PutTyped
<1>5. CASE Cursor(screen) = VGA_WIDTH
  <2>1. ghost' = Rest(op', new_line(screen'))
    BY <1>1, <1>2, <1>4, <1>5 DEF Rest
  <2> QED
    BY <2>1, <1>1, <1>3, <1>5 DEF Settled, BetweenCalls
<1>6. CASE Cursor(screen) # VGA_WIDTH
  <2>1. ghost' = Typed(op', screen')
    BY <1>1, <1>2, <1>4, <1>6
  <2> QED
    BY <2>1, <1>1, <1>3, <1>6 DEF Settled, BetweenCalls
<1> QED
  BY <1>5, <1>6

LEMMA LoadHeadSettled ==
  ASSUME CInv, Settled, load_head PROVE Settled'
<1>1. /\ pc = "load" /\ pc' = "turn" /\ UNCHANGED <<screen, op, ghost>>
      /\ reg' = Loaded(0, screen.pos_head)
  BY DEF load_head, Load, Access
<1>2. reg'.value = screen'.pos_head
  BY <1>1 DEF Loaded
<1>3. ghost = Rest(op, new_line(screen))
  BY <1>1 DEF Settled
<1>4. ghost' = Rest(op', new_line(screen'))
  BY <1>1, <1>3
<1> QED
  BY <1>1, <1>2, <1>4 DEF Settled, BetweenCalls

LEMMA StoreHeadSettled ==
  ASSUME CInv, Settled, store_head PROVE Settled'
<1>1. /\ pc = "turn" /\ pc' = "slot" /\ UNCHANGED <<reg, op, ghost>>
      /\ screen' = Turned(screen, (reg.value + VGA_HEIGHT - 1) % VGA_HEIGHT)
  BY DEF store_head, Access, Turned
<1>2. ghost = Rest(op, new_line(screen)) /\ reg.value = screen.pos_head
  BY <1>1 DEF Settled
<1>3. new_line(screen) = Scrolled(Moved(screen', CursorSlot(screen'), 0), 0)
  <2>1. screen' = Turned(screen, (screen.pos_head + VGA_HEIGHT - 1) % VGA_HEIGHT)
    BY <1>1, <1>2
  <2>2. screen \in Screen
    BY CFacts
  <2> QED
    BY <2>1, <2>2, NewLineParts, Zenon
<1>4. ghost' = Rest(op', Scrolled(Moved(screen', CursorSlot(screen'), 0), 0))
  BY <1>1, <1>2, <1>3
<1> QED
  BY <1>1, <1>4 DEF Settled, BetweenCalls

LEMMA LoadSlotSettled ==
  ASSUME CInv, Settled, load_slot PROVE Settled'
<1>1. /\ pc = "slot" /\ pc' = "zero" /\ UNCHANGED <<screen, op, ghost>>
      /\ reg' = Loaded(CursorSlot(screen), 0)
  BY DEF load_slot, Load, Access
<1>2. ghost = Rest(op, Scrolled(Moved(screen, CursorSlot(screen), 0), 0))
  BY <1>1 DEF Settled
<1>3. reg'.slot = CursorSlot(screen)
  BY <1>1 DEF Loaded
<1>4. ghost' = Rest(op', Scrolled(Moved(screen', reg'.slot, 0), 0))
  BY <1>1, <1>2, <1>3
<1> QED
  BY <1>1, <1>4 DEF Settled, BetweenCalls

LEMMA ZeroPosSettled ==
  ASSUME CInv, Settled, zero_pos PROVE Settled'
<1>1. /\ pc = "zero" /\ pc' = IF VGA_HEIGHT > 1 THEN "scroll" ELSE "blank"
      /\ screen' = Moved(screen, reg.slot, 0) /\ UNCHANGED <<reg, op, ghost>>
  BY DEF zero_pos, Access, Moved
<1>2. ghost = Rest(op, Scrolled(Moved(screen, reg.slot, 0), 0))
  BY <1>1 DEF Settled
<1>3. reg'.i = 0
  BY <1>1 DEF CInv, Counter
<1>4. ghost' = Rest(op', Scrolled(screen', reg'.i))
  BY <1>1, <1>2, <1>3
<1>5. CASE VGA_HEIGHT > 1
  BY <1>1, <1>4, <1>5 DEF Settled, BetweenCalls
<1>6. CASE ~ (VGA_HEIGHT > 1)
  <2>1. (VGA_HEIGHT - 1) * VGA_WIDTH = 0
    BY <1>6, VideoAssumption
  <2>2. screen' \in Screen
    BY <1>1, CFacts, MovedFields
  <2>3. Scrolled(screen', 0) = Blanked(screen', 0)
    BY <2>1, <2>2, ScrollDone
  <2>4. ghost' = Rest(op', Blanked(screen', reg'.i))
    BY <2>3, <1>3, <1>4
  <2> QED
    BY <2>4, <1>1, <1>6 DEF Settled, BetweenCalls
<1> QED
  BY <1>5, <1>6

LEMMA LoadCellSettled ==
  ASSUME CInv, Settled, load_cell PROVE Settled'
<1> DEFINE v == screen.videomem[CellRow + 1][CellCol]
<1>1. /\ pc = "scroll" /\ pc' = "move" /\ reg' = [reg EXCEPT !.cell = v]
      /\ UNCHANGED <<screen, op, ghost>>
  BY DEF load_cell, Access
<1>2. reg'.i = reg.i /\ reg'.cell = v
  <2> HIDE DEF v
  <2> QED
    BY <1>1, CFacts DEF Reg
<1>3. ghost' = Rest(op', Scrolled(screen', reg'.i))
  BY <1>1, <1>2 DEF Settled
<1>4. reg'.cell = screen'.videomem[CellRow' + 1][CellCol']
  BY <1>1, <1>2 DEF CellRow, CellCol
<1> QED
  BY <1>1, <1>3, <1>4 DEF Settled, BetweenCalls

LEMMA ScrollCellSettled ==
  ASSUME CInv, Settled, scroll_cell PROVE Settled'
<1> DEFINE n == (VGA_HEIGHT - 1) * VGA_WIDTH
           q == CellRow
           r == CellCol
           v == screen.videomem[q + 1][r]
           i == reg.i
<1>1. n \in Nat /\ n <= VGA_HEIGHT * VGA_WIDTH
  BY PageSize
<1>2. /\ pc = "move" /\ pc' = IF i + 1 < n THEN "scroll" ELSE "blank"
      /\ screen' = Poked(screen, q, r, v)
      /\ reg' = Count(reg, n) /\ UNCHANGED <<op, ghost>>
  <2>1. pc = "move" /\ screen' = Poked(screen, q, r, reg.cell)
    BY DEF scroll_cell, Loop, Access, Poked
  <2>2. reg.cell = v
    BY <2>1 DEF Settled
  <2> QED
    BY <2>1, <2>2 DEF scroll_cell, Loop, Access, Count
<1>3. ghost = Rest(op, Scrolled(screen, i))
  BY <1>2 DEF Settled
<1>4. /\ q \in Row /\ r \in Col /\ q # VGA_HEIGHT - 1 /\ i = q * VGA_WIDTH + r
      /\ v \in Cell
  <2>1. /\ q \in 0 .. VGA_HEIGHT - 2 /\ q \in Row /\ r \in Col
        /\ i = q * VGA_WIDTH + r /\ v \in Cell
    BY <1>2, ScrollPlace
  <2>2. q # VGA_HEIGHT - 1
    BY <2>1, VideoAssumption
  <2> QED
    BY <2>1, <2>2
<1>5. screen \in Screen /\ i \in Nat
  BY CFacts
<1>6. i < n
  BY <1>2, Zenon DEF CInv, Counter
<1>7. reg'.i = IF i + 1 < n THEN i + 1 ELSE 0
  <2> HIDE DEF n
  <2> QED
    BY <1>1, <1>2, Counted
<1> HIDE DEF n, q, r, i
<1>8. Scrolled(screen', i + 1) = Scrolled(screen, i)
  BY <1>2, <1>4, <1>5, ScrollTurn
<1>9. screen' \in Screen
  <2> HIDE DEF v
  <2> QED
    BY <1>2, <1>4, <1>5, PokedFields
<1>10. ghost' = Rest(op', Scrolled(screen', i + 1))
  BY <1>2, <1>3, <1>8
<1>11. CASE i + 1 < n
  BY <1>2, <1>7, <1>10, <1>11 DEF Settled, BetweenCalls
<1>12. CASE ~ (i + 1 < n)
  <2>1. i + 1 = n
    BY <1>1, <1>5, <1>6, <1>12
  <2>2. Scrolled(screen', n) = Blanked(screen', 0)
    BY <1>9, ScrollDone DEF n
  <2>3. reg'.i = 0 /\ pc' = "blank"
    BY <1>2, <1>7, <1>12
  <2>4. ghost' = Rest(op', Blanked(screen', reg'.i))
    BY <2>1, <2>2, <2>3, <1>10
  <2> QED
    BY <2>3, <2>4 DEF Settled, BetweenCalls
<1> QED
  BY <1>11, <1>12

LEMMA BlankCellSettled ==
  ASSUME CInv, Settled, blank_cell PROVE Settled'
<1> DEFINE n == VGA_WIDTH
           i == reg.i
<1>1. n \in Nat /\ n <= VGA_HEIGHT * VGA_WIDTH
  BY PageSize, VideoAssumption
<1>2. /\ pc = "blank"
      /\ pc' = IF i + 1 < n THEN "blank" ELSE IF op = NL THEN "idle" ELSE "aim"
      /\ screen' = Poked(screen, VGA_HEIGHT - 1, i, BlankEntry)
      /\ reg' = Count(reg, n) /\ UNCHANGED <<op, ghost>>
  BY DEF blank_cell, Loop, Access, Poked, Count
<1>3. ghost = Rest(op, Blanked(screen, i))
  BY <1>2 DEF Settled
<1>4. i < n
  BY <1>2, Zenon DEF CInv, Counter
<1>5. screen \in Screen /\ i \in Nat /\ VGA_HEIGHT - 1 \in Row
  BY CFacts
<1>6. i \in Col
  BY <1>1, <1>4, <1>5 DEF Col
<1>7. reg'.i = IF i + 1 < n THEN i + 1 ELSE 0
  <2> HIDE DEF n
  <2> QED
    BY <1>1, <1>2, Counted
<1> HIDE DEF n, i
<1>8. Blanked(screen', i + 1) = Blanked(screen, i)
  <2> DEFINE j == i + 1
  <2>1. j = i + 1
    OBVIOUS
  <2> HIDE DEF j
  <2>2. Blanked(screen', j) = Blanked(screen, i)
    BY <2>1, <1>2, <1>5, <1>6, BlankTurn
  <2> QED
    BY <2>1, <2>2
<1>9. screen' \in Screen
  BY <1>2, <1>5, <1>6, BlankCell, PokedFields
<1>10. ghost' = Rest(op', Blanked(screen', i + 1))
  BY <1>2, <1>3, <1>8
<1>11. CASE i + 1 < n
  BY <1>2, <1>7, <1>10, <1>11 DEF Settled, BetweenCalls
<1>12. CASE ~ (i + 1 < n)
  <2>1. i + 1 = VGA_WIDTH
    BY <1>1, <1>4, <1>5, <1>12 DEF n
  <2>2. Blanked(screen', VGA_WIDTH) = screen'
    BY <1>9, BlankDone
  <2>3. ghost' = Rest(op', screen')
    BY <2>1, <2>2, <1>10
  <2>4. CASE op = NL
    <3>1. pc' = "idle" /\ ghost' = screen'
      BY <2>3, <2>4, <1>2, <1>12 DEF Rest
    <3> QED
      BY <3>1 DEF Settled, BetweenCalls
  <2>5. CASE op # NL
    <3>1. pc' = "aim" /\ ghost' = Typed(op', screen')
      BY <2>3, <2>5, <1>2, <1>12 DEF Rest
    <3> QED
      BY <3>1 DEF Settled, BetweenCalls
  <2> QED
    BY <2>4, <2>5
<1> QED
  BY <1>11, <1>12

LEMMA AimSettled ==
  ASSUME CInv, Settled, aim PROVE Settled'
<1>1. /\ pc = "aim" /\ pc' = "fetch" /\ UNCHANGED <<screen, op, ghost>>
      /\ reg' = Loaded(CursorSlot(screen), 0)
  BY DEF aim, Load, Access
<1>2. ghost' = Typed(op', screen')
  BY <1>1 DEF Settled
<1>3. reg'.slot = CursorSlot(screen')
  BY <1>1 DEF Loaded
<1> QED
  BY <1>1, <1>2, <1>3 DEF Settled, BetweenCalls

LEMMA FetchSettled ==
  ASSUME CInv, Settled, fetch PROVE Settled'
<1>1. /\ pc = "fetch" /\ pc' = "incr" /\ UNCHANGED <<screen, op, ghost>>
      /\ reg' = Loaded(reg.slot, screen.pos[reg.slot])
  BY DEF fetch, Load, Access
<1>2. ghost = Typed(op, screen) /\ reg.slot = CursorSlot(screen)
  BY <1>1 DEF Settled
<1>3. Cursor(screen) = screen.pos[CursorSlot(screen)]
  BY CFacts, ScreenFields
<1>4. reg'.slot = CursorSlot(screen) /\ reg'.value = Cursor(screen)
  BY <1>1, <1>2, <1>3 DEF Loaded
<1>5. ghost' = write_entry(Moved(screen', reg'.slot, reg'.value + 1),
                           vga_entry(op', screen'.color), reg'.value)
  BY <1>1, <1>2, <1>4 DEF Typed
<1> QED
  BY <1>1, <1>5 DEF Settled, BetweenCalls

LEMMA IncrSettled ==
  ASSUME CInv, Settled, incr PROVE Settled'
<1> DEFINE n == reg.value + 1
<1>1. /\ pc = "incr" /\ pc' = "store" /\ screen' = Moved(screen, reg.slot, n)
      /\ UNCHANGED <<reg, op, ghost>>
  BY DEF incr, Access, Moved
<1>2. ghost = write_entry(Moved(screen, reg.slot, n), vga_entry(op, screen.color), reg.value)
  BY <1>1 DEF Settled
<1>3. n \in Nat /\ reg.slot \in Row /\ screen \in Screen
  BY CFacts
<1> HIDE DEF n
<1>4. screen'.color = screen.color
  BY <1>1, <1>3, MovedFields
<1>5. ghost' = write_entry(screen', vga_entry(op', screen'.color), reg'.value)
  BY <1>1, <1>2, <1>4
<1> QED
  BY <1>1, <1>5 DEF Settled, BetweenCalls

LEMMA StoreSettled ==
  ASSUME CInv, Settled, store PROVE Settled'
<1>1. /\ pc = "store" /\ pc' = "idle" /\ UNCHANGED ghost
      /\ screen' = write_entry(screen, vga_entry(op, screen.color), reg.value)
  BY DEF store, Access
<1>2. ghost' = screen'
  BY <1>1 DEF Settled
<1> QED
  BY <1>1, <1>2 DEF Settled, BetweenCalls

\* A key between two calls is a call of its own; one inside a call sets touched.
LEMMA KeySettled ==
  ASSUME AInv, NEW c \in KeyChars, Key(c), touched' = FALSE
  PROVE  Settled'
<1>1. /\ touched' = (touched \/ pc \notin BetweenCalls)
      /\ screen' = putc(screen, c) /\ UNCHANGED pc
      /\ ghost' = IF touched' THEN ghost ELSE putc(ghost, c)
  BY DEF Key
<1>2. touched = FALSE /\ pc \in BetweenCalls
  BY <1>1, Zenon DEF AInv, CInv, ConsoleTypeOK
<1>3. ghost = screen
  BY <1>2 DEF AInv, Settled
<1>4. ghost' = screen'
  BY <1>1, <1>3
<1> QED
  BY <1>1, <1>2, <1>4 DEF Settled, BetweenCalls

LEMMA InitAInv == ConsoleInit => AInv
BY InitCInv DEF AInv, ConsoleInit, Settled, BetweenCalls

LEMMA StepAInv == AInv /\ [ConsoleNext]_vars => AInv'
<1> SUFFICES ASSUME AInv, [ConsoleNext]_vars PROVE AInv'
  OBVIOUS
<1>1. CInv /\ CInv'
  BY StepCInv DEF AInv
<1> SUFFICES ASSUME touched' = FALSE PROVE Settled'
  BY <1>1 DEF AInv
<1>2. ASSUME touched = FALSE PROVE Settled
  BY <1>2 DEF AInv
<1>3. CASE Main
  <2>1. touched = FALSE
    BY <1>3, Zenon DEF Main, begin_clear, clear_cell, clear_pos, color, begin_putc, check,
         load_head, store_head, load_slot, zero_pos, load_cell, scroll_cell, blank_cell,
         aim, fetch, incr, store, Load, Loop, Access
  <2>2. Settled
    BY <2>1, <1>2
  <2>3. CASE begin_clear \/ clear_cell \/ clear_pos
    BY <2>1, <2>2, <2>3, <1>1, BeginClearSettled, ClearCellSettled, ClearPosSettled
  <2>4. ASSUME NEW c \in Colors, color(c) PROVE Settled'
    BY <2>1, <2>2, <2>4, <1>1, ColorSettled
  <2>5. ASSUME NEW c \in TextChars, begin_putc(c) PROVE Settled'
    BY <2>1, <2>2, <2>5, <1>1, BeginPutcSettled
  <2>6. CASE check \/ load_head \/ store_head \/ load_slot \/ zero_pos
    BY <2>2, <2>6, <1>1, CheckSettled, LoadHeadSettled, StoreHeadSettled,
       LoadSlotSettled, ZeroPosSettled
  <2>7. CASE load_cell \/ scroll_cell \/ blank_cell \/ aim \/ fetch \/ incr \/ store
    BY <2>2, <2>7, <1>1, LoadCellSettled, ScrollCellSettled, BlankCellSettled, AimSettled,
       FetchSettled, IncrSettled, StoreSettled
  <2> QED
    BY <2>3, <2>4, <2>5, <2>6, <2>7, <1>3, Zenon DEF Main
<1>4. ASSUME NEW c \in KeyChars, Key(c) PROVE Settled'
  BY <1>4, KeySettled
<1>5. CASE UNCHANGED vars
  <2>1. touched = FALSE
    BY <1>5 DEF vars
  <2>2. Settled
    BY <2>1, <1>2
  <2> QED
    BY <2>2, <1>5 DEF vars, Settled, CellRow, CellCol
<1> QED
  BY <1>3, <1>4, <1>5, Zenon DEF ConsoleNext, Finished

----------------------------------------------------------------------------
(* Theorems. *)

\* The shared screen, the thread's registers and its loop counter keep their
\* types through every interleaving of the thread's accesses with the keyboard
\* handler's putc, raced or not.
THEOREM SharedScreenTyped == ConsoleSpec => []ConsoleTypeOK
<1>1. ConsoleInit => CInv
  BY InitCInv
<1>2. CInv /\ [ConsoleNext]_vars => CInv'
  BY StepCInv
<1>3. CInv => ConsoleTypeOK
  BY DEF CInv
<1> QED
  BY <1>1, <1>2, <1>3, PTL DEF ConsoleSpec

\* For every size of the page, a cursor leaves its row, or an entry the page,
\* only after a key was handled in one of the two windows of putc's default
\* case: between the point where the row is known to have room and the load of
\* the cursor, or, turning the ring, between the computation of an index of the
\* ring and its use in the test or in the reset of the cursor.
THEOREM OnlyRacesEscape == ConsoleSpec => []CursorSafe
<1>1. ConsoleInit => CInv
  BY InitCInv
<1>2. CInv /\ [ConsoleNext]_vars => CInv'
  BY StepCInv
<1>3. CInv => CursorSafe
  <2> SUFFICES ASSUME CInv, ~raced PROVE CursorInRow
    BY DEF CursorSafe
  <2>1. raced = FALSE
    BY Zenon DEF CInv, ConsoleTypeOK
  <2>2. InBounds(screen)
    BY <2>1 DEF CInv
  <2> QED
    BY <2>2 DEF InBounds, CursorInRow
<1> QED
  BY <1>1, <1>2, <1>3, PTL DEF ConsoleSpec

\* For every size of the page and every text and keys, the single accesses of
\* clear, set_color and putc add up to the methods taken as one step, as long
\* as no key falls inside a call.
THEOREM AccessesAddUp == ConsoleSpec => []CallsAtomic
<1>1. ConsoleInit => AInv
  BY InitAInv
<1>2. AInv /\ [ConsoleNext]_vars => AInv'
  BY StepAInv
<1>3. AInv => CallsAtomic
  <2> SUFFICES ASSUME AInv, pc \in BetweenCalls, ~touched PROVE screen = ghost
    BY DEF CallsAtomic
  <2>1. touched = FALSE
    BY Zenon DEF AInv, CInv, ConsoleTypeOK
  <2> QED
    BY <2>1 DEF AInv, Settled
<1> QED
  BY <1>1, <1>2, <1>3, PTL DEF ConsoleSpec
============================================================================
