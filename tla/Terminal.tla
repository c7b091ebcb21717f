------------------------------ MODULE Terminal ------------------------------
(***************************************************************************)
(* What the text screen promises: a stack of VGA_HEIGHT lines, the last    *)
(* one being typed on.  Each line is the sequence of entries typed on it;  *)
(* nothing is said of video memory, of the ring of cursors or of blanks.   *)
(***************************************************************************)
EXTENDS Integers, Sequences

CONSTANTS VGA_WIDTH, VGA_HEIGHT, Entry

VARIABLE lines     \* lines[1] is the top of the screen

Bottom(l) == l[VGA_HEIGHT]

Blank == [r \in 1..VGA_HEIGHT |-> << >>]

\* Everything scrolls up by one and an empty line comes in at the bottom.
ScrollUp(l) ==
  [r \in 1..VGA_HEIGHT |-> IF r = VGA_HEIGHT THEN << >> ELSE l[r + 1]]

\* The bottom line goes away and an empty line comes in at the top.
ScrollDown(l) == [r \in 1..VGA_HEIGHT |-> IF r = 1 THEN << >> ELSE l[r - 1]]

\* Entry e goes to the end of the bottom line, or of a new one if that is full.
Type(l, e) ==
  LET room == IF Len(Bottom(l)) = VGA_WIDTH THEN ScrollUp(l) ELSE l IN
  [room EXCEPT ![VGA_HEIGHT] = Append(@, e)]

\* Backspace takes back the last entry of the bottom line; an empty bottom
\* line is given up and the cursor goes back to the end of the line above.
Rub(l) ==
  IF Bottom(l) # << >>
  THEN [l EXCEPT ![VGA_HEIGHT] = SubSeq(@, 1, Len(@) - 1)]
  ELSE ScrollDown(l)

Init == lines = Blank

Next ==
  \/ \E e \in Entry : lines' = Type(lines, e)
  \/ \E e \in Entry : lines' = Type(Type(Type(Type(lines, e), e), e), e)
  \/ lines' = ScrollUp(lines)
  \/ lines' = Rub(lines)
  \/ lines' = Blank

Spec == Init /\ [][Next]_lines
============================================================================
