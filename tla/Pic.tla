-------------------------------- MODULE Pic --------------------------------
(***************************************************************************)
(* The pair of 8259 interrupt controllers and the driver in                *)
(* kernel/interrupts/pic.cpp.                                              *)
(*                                                                         *)
(* A byte sent to a port is a number in 0..255.  A controller is a record: *)
(*   imr   the interrupt mask register, one bit per line (1 = masked)      *)
(*   irr   the lines whose edge has been latched and not yet acknowledged  *)
(*   isr   the lines acknowledged and not yet dismissed by an EOI          *)
(*   icw   the initialisation word the next data write is taken for,       *)
(*         0 when the controller is operational                            *)
(*   base  the vector of line 0                                            *)
(* Only the behaviour the kernel relies on is modelled.                    *)
(***************************************************************************)
EXTENDS Integers

Line == 0..7
Byte == 0..255

PIC1_COMMAND == 32      \* 0x20
PIC1_DATA    == 33
PIC2_COMMAND == 160     \* 0xA0
PIC2_DATA    == 161

ICW1 == 17              \* ICW1_INIT | ICW1_ICW4
ICW4_8086 == 1
PIC_EOI == 32           \* 0x20, the non-specific end-of-interrupt command
CASCADE == 2            \* the master line the slave is wired to

PicState == [imr : Byte, irr : SUBSET Line, isr : SUBSET Line,
             icw : {0, 2, 3, 4}, base : Byte]

Pow2(i) == <<1, 2, 4, 8, 16, 32, 64, 128>>[i + 1]

\* The lines whose bit is one in byte b.
Bits(b) == {i \in Line : (b \div Pow2(i)) % 2 = 1}

Highest(S) == CHOOSE i \in S : \A j \in S : i <= j

----------------------------------------------------------------------------
(* The controller (hardware). *)

\* A write to the command port: ICW1 restarts the controller, clearing the
\* mask and every latched edge; an EOI dismisses the line of highest priority.
command_write(p, b) ==
  IF 4 \in Bits(b)
  THEN [p EXCEPT !.icw = 2, !.imr = 0, !.irr = {}, !.isr = {}]
  ELSE IF b = PIC_EOI /\ p.isr # {}
       THEN [p EXCEPT !.isr = @ \ {Highest(@)}]
       ELSE p

\* A write to the data port: the next initialisation word, or the mask.
data_write(p, b) ==
  CASE p.icw = 2 -> [p EXCEPT !.icw = 3, !.base = b]
    [] p.icw = 3 -> [p EXCEPT !.icw = 4]
    [] p.icw = 4 -> [p EXCEPT !.icw = 0]
    [] OTHER     -> [p EXCEPT !.imr = b]

\* inline_asm::outb on one of the four ports of the two controllers.
outb(pics, port, b) ==
  CASE port = PIC1_COMMAND -> [pics EXCEPT !.master = command_write(@, b)]
    [] port = PIC1_DATA    -> [pics EXCEPT !.master = data_write(@, b)]
    [] port = PIC2_COMMAND -> [pics EXCEPT !.slave = command_write(@, b)]
    [] port = PIC2_DATA    -> [pics EXCEPT !.slave = data_write(@, b)]

\* inline_asm::inb on a data port reads the mask.
inb(pics, port) == IF port = PIC1_DATA THEN pics.master.imr ELSE pics.slave.imr

\* Device line d (0..15) latches an edge.
latch(pics, d) ==
  IF d < 8 THEN [pics EXCEPT !.master.irr = @ \cup {d}]
           ELSE [pics EXCEPT !.slave.irr = @ \cup {d - 8}]

Pending(p) == p.irr \ Bits(p.imr)

\* The lines the master has to offer, the cascade line standing for the slave.
Offered(pics) ==
  Pending(pics.master)
    \cup (IF Pending(pics.slave) # {} /\ CASCADE \notin Bits(pics.master.imr)
          THEN {CASCADE} ELSE {})

\* The master raises INTR for a line of higher priority than all in service.
Raised(pics) ==
  {l \in Offered(pics) : /\ \A k \in Offered(pics) : l <= k
                         /\ \A k \in pics.master.isr : l < k}

\* The device line (0..15) behind master line l, its vector, and the
\* controllers after the CPU's acknowledge.
Source(pics, l) ==
  IF l = CASCADE THEN 8 + Highest(Pending(pics.slave)) ELSE l

vector(pics, l) ==
  IF l = CASCADE THEN pics.slave.base + Highest(Pending(pics.slave))
                 ELSE pics.master.base + l

acknowledge(pics, l) ==
  IF l = CASCADE
  THEN LET s == Highest(Pending(pics.slave)) IN
       [pics EXCEPT !.master.isr = @ \cup {CASCADE},
                    !.slave.isr = @ \cup {s}, !.slave.irr = @ \ {s}]
  ELSE [pics EXCEPT !.master.isr = @ \cup {l}, !.master.irr = @ \ {l}]

----------------------------------------------------------------------------
(* The driver. *)

\* A remap that forgets to put the saved masks back.
Bug_remap_writes(offset1, offset2, a1, a2) ==
  << <<PIC1_COMMAND, ICW1>>, <<PIC2_COMMAND, ICW1>>,
     <<PIC1_DATA, offset1>>, <<PIC2_DATA, offset2>>,
     <<PIC1_DATA, 4>>,       <<PIC2_DATA, 2>>,
     <<PIC1_DATA, ICW4_8086>>, <<PIC2_DATA, ICW4_8086>> >>

\* The port writes of remap, in order, once it has read the masks a1 and a2.
remap_writes(offset1, offset2, a1, a2) ==
  << <<PIC1_COMMAND, ICW1>>, <<PIC2_COMMAND, ICW1>>,
     <<PIC1_DATA, offset1>>, <<PIC2_DATA, offset2>>,
     <<PIC1_DATA, 4>>,       <<PIC2_DATA, 2>>,
     <<PIC1_DATA, ICW4_8086>>, <<PIC2_DATA, ICW4_8086>>,
     <<PIC1_DATA, a1>>,      <<PIC2_DATA, a2>> >>

DataPort(irq_line) == IF irq_line < 8 THEN PIC1_DATA ELSE PIC2_DATA

\* value & ~(1 << i)
ClearBit(b, i) == IF i \in Bits(b) THEN b - Pow2(i) ELSE b

\* An unmask with the body of mask: value | (1 << i).
Bug_unmask(pics, irq_line) ==
  LET port == DataPort(irq_line)
      i    == irq_line % 8
  IN  outb(pics, port, IF i \in Bits(inb(pics, port)) THEN inb(pics, port)
                                                     ELSE inb(pics, port) + Pow2(i))

unmask(pics, irq_line) ==
  LET port == DataPort(irq_line) IN
  outb(pics, port, ClearBit(inb(pics, port), irq_line % 8))
============================================================================
