------------------------------ MODULE Console ------------------------------
(***************************************************************************)
(* The screen shared by the kernel thread and the keyboard handler.        *)
(*                                                                         *)
(* init_interrupts turns interrupts on before kernel_main writes its first *)
(* character, and nothing keeps the keyboard handler's screen.putc out of  *)
(* the thread's clear, set_color and putc.  The thread therefore runs here *)
(* one memory access at a time (the build is -O0: every statement reloads  *)
(* what it uses), while the handler's putc is one step, as its interrupt   *)
(* gate keeps other interrupts out.  The thread may be interrupted between *)
(* any two of its accesses.                                                *)
(***************************************************************************)
EXTENDS Video

CONSTANTS
  TextChars,     \* the characters kernel_main writes
  KeyChars,      \* the characters of kbd_US the keyboard sends
  MaxText,       \* bound: characters kernel_main writes
  MaxKeys        \* bound: keys handled

ASSUME ConsoleAssumption ==
  /\ TextChars \subseteq Glyphs \cup {SPACE, NL}
  /\ KeyChars \subseteq Char
  /\ MaxText \in Nat /\ MaxKeys \in Nat

VARIABLES
  pc,        \* the thread's next access
  op,        \* the character the thread is writing
  reg,       \* what it has loaded: [slot, value, cell], and its loop counter i
  text,      \* characters written so far
  keys,      \* keys handled so far
  ghost,     \* history: the screen had every call been one step
  touched,   \* history: a key was handled inside a call of the thread
  raced      \* history: ... where it can spoil putc's test of the cursor

vars == <<screen, pc, op, reg, text, keys, ghost, touched, raced>>

\* The registers after the load of an index or a value.
Loaded(slot, value) == [slot |-> slot, value |-> value, i |-> 0, cell |-> BlankEntry]

ConsoleInit ==
  /\ Init
  /\ pc = "start" /\ op = NL
  /\ reg = Loaded(0, 0)
  /\ text = 0 /\ keys = 0
  /\ ghost = screen /\ touched = FALSE /\ raced = FALSE

----------------------------------------------------------------------------
(* The kernel thread. *)

\* One access: the thread goes from one place to the next.
Access(from, to, s, r) ==
  /\ pc = from /\ pc' = to
  /\ screen' = s /\ reg' = r
  /\ UNCHANGED <<op, text, keys, ghost, touched, raced>>

Load(from, to, slot, value) ==
  Access(from, to, screen, Loaded(slot, value))

\* A loop that goes one cell too far.
Bug_Loop(at, n, top, next, s) ==
  Access(at, IF reg.i + 1 <= n THEN top ELSE next, s,
         [reg EXCEPT !.i = IF reg.i + 1 <= n THEN @ + 1 ELSE 0, !.cell = BlankEntry])

\* The store that ends a turn of a loop over n cells, which starts at top.
Loop(at, n, top, next, s) ==
  Access(at, IF reg.i + 1 < n THEN top ELSE next, s,
         [reg EXCEPT !.i = IF reg.i + 1 < n THEN @ + 1 ELSE 0, !.cell = BlankEntry])

CellRow == reg.i \div VGA_WIDTH
CellCol == reg.i % VGA_WIDTH

\* kernel_main: screen.clear(), screen.set_color(), and then the text.
begin_clear ==
  /\ pc = "start" /\ pc' = "clear"
  /\ ghost' = IF touched THEN ghost ELSE clear(ghost)
  /\ UNCHANGED <<screen, op, reg, text, keys, touched, raced>>

clear_cell ==
  Loop("clear", VGA_HEIGHT * VGA_WIDTH, "clear", "memset",
       [screen EXCEPT !.videomem[CellRow][CellCol] = BlankEntry])

\* memset goes byte by byte; a cursor is below 256, so its first byte is all of it.
clear_pos ==
  Loop("memset", VGA_HEIGHT, "memset", "color", [screen EXCEPT !.pos[reg.i] = 0])

color(c) ==
  /\ pc = "color" /\ pc' = "idle"
  /\ screen' = set_color(screen, c)
  /\ ghost' = IF touched THEN ghost ELSE set_color(ghost, c)
  /\ UNCHANGED <<op, reg, text, keys, touched, raced>>

\* putc begins: new_line loads pos_head, the default case the cursor's slot.
begin_putc(c) ==
  /\ pc = "idle" /\ text < MaxText
  /\ op' = c /\ text' = text + 1
  /\ pc' = IF c = NL THEN "turn" ELSE "check"
  /\ reg' = Loaded(CursorSlot(screen), screen.pos_head)
  /\ ghost' = IF touched THEN ghost ELSE putc(ghost, c)
  /\ UNCHANGED <<screen, keys, touched, raced>>

\* if (POS_INDX(VGA_HEIGHT - 1) == VGA_WIDTH) new_line();
check ==
  Access("check", IF screen.pos[reg.slot] = VGA_WIDTH THEN "load" ELSE "aim",
         screen, reg)

load_head == Load("load", "turn", 0, screen.pos_head)

store_head ==
  Access("turn", "slot",
         [screen EXCEPT !.pos_head = (reg.value + VGA_HEIGHT - 1) % VGA_HEIGHT], reg)

load_slot == Load("slot", "zero", CursorSlot(screen), 0)

\* A new_line that forgets to reset the new row's cursor.
Bug_zero_pos == Access("zero", "scroll", screen, reg)

\* On a page of one row there is nothing to scroll.
zero_pos ==
  Access("zero", IF VGA_HEIGHT > 1 THEN "scroll" ELSE "blank",
         [screen EXCEPT !.pos[reg.slot] = 0], reg)

\* A scroll that copies a row onto itself.
Bug_load_cell ==
  Access("scroll", "move", screen,
         [reg EXCEPT !.cell = screen.videomem[CellRow][CellCol]])

load_cell ==
  Access("scroll", "move", screen,
         [reg EXCEPT !.cell = screen.videomem[CellRow + 1][CellCol]])

scroll_cell ==
  Loop("move", (VGA_HEIGHT - 1) * VGA_WIDTH, "scroll", "blank",
       [screen EXCEPT !.videomem[CellRow][CellCol] = reg.cell])

blank_cell ==
  Loop("blank", VGA_WIDTH, "blank", IF op = NL THEN "idle" ELSE "aim",
       [screen EXCEPT !.videomem[VGA_HEIGHT - 1][reg.i] = BlankEntry])

\* write_entry(vga_entry(c, color), POS_INDX(VGA_HEIGHT - 1)++, VGA_HEIGHT - 1);
aim == Load("aim", "fetch", CursorSlot(screen), 0)

fetch == Load("fetch", "incr", reg.slot, screen.pos[reg.slot])

incr == Access("incr", "store", [screen EXCEPT !.pos[reg.slot] = reg.value + 1], reg)

store ==
  Access("store", "idle",
         write_entry(screen, vga_entry(op, screen.color), reg.value), reg)

Main ==
  \/ begin_clear \/ clear_cell \/ clear_pos
  \/ \E c \in Colors : color(c)
  \/ \E c \in TextChars : begin_putc(c)
  \/ check \/ load_head \/ store_head \/ load_slot \/ zero_pos
  \/ load_cell \/ scroll_cell \/ blank_cell \/ aim \/ fetch \/ incr \/ store

----------------------------------------------------------------------------
(* The keyboard handler. *)

\* The places where the thread is in none of its calls.
BetweenCalls == {"start", "color", "idle"}

\* A key that can spoil the default case's test of the cursor.  The row has room,
\* by the test or after new_line's reset of the cursor, and the cursor has not
\* been loaded; or the thread holds the index of the cursor it is about to test
\* or to reset, and the key turns the ring, which makes that another row's.
Races ==
  /\ op # NL
  /\ \/ pc \in {"scroll", "move", "blank", "aim", "fetch"}
     \/ pc \in {"check", "zero"} /\ CursorSlot(screen') # reg.slot

\* handle_keyboard echoes character c.
Key(c) ==
  /\ keys < MaxKeys /\ keys' = keys + 1
  /\ screen' = putc(screen, c) /\ screen'.pos_head <= MaxHead
  /\ touched' = (touched \/ pc \notin BetweenCalls)
  /\ raced' = (raced \/ Races)
  /\ ghost' = IF touched' THEN ghost ELSE putc(ghost, c)
  /\ UNCHANGED <<pc, op, reg, text>>

Finished == pc = "idle" /\ text = MaxText /\ keys = MaxKeys /\ UNCHANGED vars

ConsoleNext == Main \/ (\E c \in KeyChars : Key(c)) \/ Finished

ConsoleSpec == ConsoleInit /\ [][ConsoleNext]_vars

----------------------------------------------------------------------------
(* Properties. *)

\* The type invariant of the shared screen.
ConsoleTypeOK ==
  /\ TypeOK
  /\ pc \in BetweenCalls \cup {"clear", "memset", "check", "load", "turn", "slot",
            "zero", "scroll", "move", "blank", "aim", "fetch", "incr", "store"}
  /\ op \in TextChars \cup {NL}
  /\ reg \in [slot : Row, value : Nat, i : 0 .. VGA_HEIGHT * VGA_WIDTH - 1,
              cell : Entry \cup {ErasedEntry}]
  /\ text \in 0..MaxText /\ keys \in 0..MaxKeys
  /\ touched \in BOOLEAN /\ raced \in BOOLEAN

\* As long as no key falls inside one of the thread's calls, the accesses of a
\* call add up to the call taken as one step: the screen is the one the calls
\* and the keys give in the order in which they began.
CallsAtomic == (pc \in BetweenCalls /\ ~touched) => screen = ghost

\* The cursor leaves its row, and the thread writes past video memory, only if
\* a key was handled in one of two windows of putc's default case: between the
\* point where the row is known to have room (the test, or new_line's reset of
\* the cursor) and the load of the cursor; or, if the key turns the ring, between
\* the computation of the index for the test or the reset and its use.  Keys
\* inside clear and its memset, inside the new_line of '\n', before new_line
\* stores pos_head, or between the increment and the write may spoil the text but
\* never the bounds.
CursorSafe == ~raced => CursorInRow
============================================================================
