------------------------------- MODULE Video -------------------------------
(***************************************************************************)
(* The text screen (kernel/utils/video.cpp), one call of a public method   *)
(* at a time.                                                              *)
(*                                                                         *)
(* The object is one record:                                               *)
(*   videomem  the cells of the visible page, by row and column            *)
(*   color     the colour of the characters written next                   *)
(*   pos       the ring of cursors, one per row                            *)
(*   pos_head  where the ring starts; del_line lets it grow past the ring  *)
(*   stray     history: an entry was written outside the visible page      *)
(* A cell holds <<character, colour>>; the character codes are abstract.   *)
(***************************************************************************)
EXTENDS Integers, Sequences

CONSTANTS
  VGA_WIDTH, VGA_HEIGHT,
  Glyphs,        \* the characters that putc's default case writes
  Colors,        \* the colours set_color is called with
  MaxHead        \* bound: pos_head

NL  == "newline"
BS  == "backspace"
TAB == "tab"
NUL == "nul"
SPACE == "space"
BLACK == 0

ASSUME VideoAssumption ==
  /\ VGA_WIDTH \in Nat \ {0}
  /\ VGA_HEIGHT \in Nat \ {0}
  /\ Glyphs \cap {NL, BS, TAB} = {}
  /\ Colors \subseteq 0..15
  /\ MaxHead \in Nat

VARIABLE screen

Row == 0 .. VGA_HEIGHT - 1
Col == 0 .. VGA_WIDTH - 1

\* vga_entry
Entry == (Glyphs \cup {SPACE}) \X (Colors \cup {BLACK})
vga_entry(c, color) == <<c, color>>

BlankEntry  == vga_entry(SPACE, BLACK)
ErasedEntry == vga_entry(NUL, BLACK)
BlankRow    == [x \in Col |-> BlankEntry]

\* pos has one cursor for each row.
POS_CALC_INDX(s, ind) == (ind + s.pos_head) % VGA_HEIGHT
POS_INDX(s, ind) == s.pos[POS_CALC_INDX(s, ind)]

\* The slot and the value of the cursor of the bottom row.
CursorSlot(s) == POS_CALC_INDX(s, VGA_HEIGHT - 1)
Cursor(s) == POS_INDX(s, VGA_HEIGHT - 1)

----------------------------------------------------------------------------
(* The methods. *)

\* Only the bottom row is written to; past its end the entry leaves the page.
write_entry(s, v, x) ==
  IF x \in Col THEN [s EXCEPT !.videomem[VGA_HEIGHT - 1][x] = v]
               ELSE [s EXCEPT !.stray = TRUE]

\* A new_line that leaves the old contents in the bottom row.
Bug_new_line(s) ==
  LET t == [s EXCEPT !.pos_head = (@ + VGA_HEIGHT - 1) % VGA_HEIGHT] IN
  [t EXCEPT !.pos[CursorSlot(t)] = 0,
            !.videomem = [y \in Row |-> IF y < VGA_HEIGHT - 1 THEN @[y + 1] ELSE @[y]]]

new_line(s) ==
  LET t == [s EXCEPT !.pos_head = (@ + VGA_HEIGHT - 1) % VGA_HEIGHT] IN
  [t EXCEPT !.pos[CursorSlot(t)] = 0,
            !.videomem = [y \in Row |-> IF y < VGA_HEIGHT - 1 THEN @[y + 1]
                                                             ELSE BlankRow]]

\* A del_line that scrolls the page but not the ring.
Bug_del_line(s) ==
  [s EXCEPT !.videomem = [y \in Row |-> IF y > 0 THEN @[y - 1] ELSE BlankRow]]

\* A del_line that turns the ring the wrong way.
Bug_del_line_head(s) ==
  [s EXCEPT !.pos_head = @ - 1,
            !.videomem = [y \in Row |-> IF y > 0 THEN @[y - 1] ELSE BlankRow]]

\* The code's pos_head + 1 % VGA_HEIGHT adds (1 % VGA_HEIGHT) and never wraps.
del_line(s) ==
  [s EXCEPT !.pos_head = @ + (1 % VGA_HEIGHT),
            !.videomem = [y \in Row |-> IF y > 0 THEN @[y - 1] ELSE BlankRow]]

\* A put that wraps one column too late.
Bug_put(s, c) ==
  LET t == IF Cursor(s) = VGA_WIDTH + 1 THEN new_line(s) ELSE s IN
  write_entry([t EXCEPT !.pos[CursorSlot(t)] = @ + 1], vga_entry(c, t.color), Cursor(t))

\* putc, default case.
put(s, c) ==
  LET t == IF Cursor(s) = VGA_WIDTH THEN new_line(s) ELSE s IN
  write_entry([t EXCEPT !.pos[CursorSlot(t)] = @ + 1], vga_entry(c, t.color), Cursor(t))

\* putc, case '\b'.
backspace(s) ==
  IF Cursor(s) > 0 /\ Cursor(s) <= VGA_WIDTH
  THEN write_entry([s EXCEPT !.pos[CursorSlot(s)] = @ - 1], ErasedEntry, Cursor(s) - 1)
  ELSE del_line(s)

\* putc, case '\t'.
tab(s) == put(put(put(put(s, SPACE), SPACE), SPACE), SPACE)

putc(s, c) ==
  CASE c = NL  -> new_line(s)
    [] c = BS  -> backspace(s)
    [] c = TAB -> tab(s)
    [] OTHER   -> put(s, c)

clear(s) ==
  [s EXCEPT !.videomem = [y \in Row |-> BlankRow], !.pos = [i \in Row |-> 0]]

set_color(s, fg) == [s EXCEPT !.color = fg]

----------------------------------------------------------------------------
\* The constructor.
Init ==
  screen = [videomem |-> [y \in Row |-> BlankRow], color |-> BLACK,
            pos_head |-> 0, pos |-> [i \in Row |-> 0], stray |-> FALSE]

Char == Glyphs \cup {SPACE, NL, BS, TAB}

Putc(c)     == screen' = putc(screen, c) /\ screen'.pos_head <= MaxHead
Clear       == screen' = clear(screen)
SetColor(f) == screen' = set_color(screen, f)

Next ==
  \/ \E c \in Char : Putc(c)
  \/ Clear
  \/ \E f \in Colors : SetColor(f)

Spec == Init /\ [][Next]_screen

----------------------------------------------------------------------------
(* Properties. *)

Screen == [videomem : [Row -> [Col -> Entry \cup {ErasedEntry}]],
           color : Colors \cup {BLACK}, pos_head : Nat,
           pos : [Row -> Nat], stray : BOOLEAN]

\* The type invariant of the screen.
TypeOK == screen \in Screen

\* No cursor of the ring ever passes the end of its row, so that nothing is
\* written outside the page: putc tests the bottom cursor for equality with
\* VGA_WIDTH only, and del_line hands it a cursor left there many calls ago.
CursorInRow == (\A i \in Row : screen.pos[i] <= VGA_WIDTH) /\ ~screen.stray

\* The cursor of the row n above the bottom one.
Extent(y) == POS_INDX(screen, VGA_HEIGHT - 1 + (VGA_HEIGHT - 1 - y))

\* Past the cursor that the ring holds for a row, the row shows nothing.
RowExtents ==
  \A y \in Row, x \in Col :
    x >= Extent(y) => screen.videomem[y][x] \in {BlankEntry, ErasedEntry}

\* The screen read back through the ring of cursors.
ScreenLines ==
  [r \in 1..VGA_HEIGHT |->
     [x \in 1..Extent(r - 1) |-> screen.videomem[r - 1][x - 1]]]

Abstract == INSTANCE Terminal WITH lines <- ScreenLines

\* Through every mixture of calls, the page and its ring of cursors are the
\* terminal of module Terminal: the ring turns with the rows in new_line and in
\* del_line, whose pos_head never wraps, and survives a clear that leaves
\* pos_head where it is.
IsTerminal == Abstract!Spec
============================================================================
