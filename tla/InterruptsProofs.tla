-------------------------- MODULE InterruptsProofs --------------------------
(***************************************************************************)
(* Proofs about Interrupts, for every set of devices, scancodes and faults *)
(* and every bound on the keys and on the frames.                          *)
(***************************************************************************)
EXTENDS Interrupts, TLAPS

----------------------------------------------------------------------------
(* The controllers. *)

\* Every nonempty set of lines has a line of highest priority.
LEMMA HighestExists ==
  ASSUME NEW S \in SUBSET Line, S # {}
  PROVE  Highest(S) \in S /\ \A j \in S : Highest(S) <= j
<1>1. \E i \in S : \A j \in S : i <= j
  <2> SUFFICES ASSUME \A i \in S : \E j \in S : j < i
               PROVE  FALSE
    BY DEF Line
  <2>0. 0 \notin S
    BY DEF Line
  <2>1. 1 \notin S
    BY <2>0 DEF Line
  <2>2. 2 \notin S
    BY <2>0, <2>1 DEF Line
  <2>3. 3 \notin S
    BY <2>0, <2>1, <2>2 DEF Line
  <2>4. 4 \notin S
    BY <2>0, <2>1, <2>2, <2>3 DEF Line
  <2>5. 5 \notin S
    BY <2>0, <2>1, <2>2, <2>3, <2>4 DEF Line
  <2>6. 6 \notin S
    BY <2>0, <2>1, <2>2, <2>3, <2>4, <2>5 DEF Line
  <2>7. 7 \notin S
    BY <2>0, <2>1, <2>2, <2>3, <2>4, <2>5, <2>6 DEF Line
  <2>8. PICK x \in S : TRUE
    OBVIOUS
  <2>9. x \in 0..7
    BY DEF Line
  <2> QED BY <2>0, <2>1, <2>2, <2>3, <2>4, <2>5, <2>6, <2>7, <2>9
<1> QED BY <1>1 DEF Highest

\* Clearing a bit of a byte closes no other line and opens that one.
LEMMA ClearBits ==
  ASSUME NEW b \in Byte
  PROVE  /\ ClearBit(b, 0) \in Byte /\ 0 \notin Bits(ClearBit(b, 0))
         /\ ClearBit(b, 1) \in Byte /\ 1 \notin Bits(ClearBit(b, 1))
         /\ 0 \notin Bits(b) => 0 \notin Bits(ClearBit(b, 1))
<1>1. Pow2(0) = 1 /\ Pow2(1) = 2
  BY DEF Pow2
<1>2. \A c : (0 \in Bits(c) <=> (c \div 1) % 2 = 1) /\ (1 \in Bits(c) <=> (c \div 2) % 2 = 1)
  BY <1>1 DEF Bits, Line
<1>3. b \in Nat /\ b <= 255 /\ b >= 0
  BY DEF Byte
<1>4. ClearBit(b, 0) = IF b % 2 = 1 THEN b - 1 ELSE b
  BY <1>1, <1>2, <1>3 DEF ClearBit
<1>5. ClearBit(b, 1) = IF (b \div 2) % 2 = 1 THEN b - 2 ELSE b
  BY <1>1, <1>2, <1>3 DEF ClearBit
<1>6. ClearBit(b, 0) \in Byte /\ 0 \notin Bits(ClearBit(b, 0))
  BY <1>2, <1>3, <1>4 DEF Byte
<1>7. ClearBit(b, 1) \in Byte /\ 1 \notin Bits(ClearBit(b, 1))
  BY <1>2, <1>3, <1>5 DEF Byte
<1>8. 0 \notin Bits(b) => 0 \notin Bits(ClearBit(b, 1))
  BY <1>2, <1>3, <1>5
<1> QED BY <1>6, <1>7, <1>8

Pics == [master : PicState, slave : PicState]

LEMMA CommandWriteType ==
  ASSUME NEW p \in PicState, NEW b \in Byte
  PROVE  command_write(p, b) \in PicState
<1>1. CASE 4 \in Bits(b)
  <2>1. command_write(p, b) = [p EXCEPT !.icw = 2, !.imr = 0, !.irr = {}, !.isr = {}]
    BY <1>1 DEF command_write
  <2>2. 0 \in Byte /\ 2 \in {0, 2, 3, 4} /\ {} \in SUBSET Line
    BY DEF Byte
  <2> QED BY <2>1, <2>2 DEF PicState
<1>2. CASE 4 \notin Bits(b)
  <2>1. \/ command_write(p, b) = [p EXCEPT !.isr = p.isr \ {Highest(p.isr)}]
        \/ command_write(p, b) = p
    BY <1>2 DEF command_write
  <2>2. p.isr \ {Highest(p.isr)} \in SUBSET Line
    BY DEF PicState
  <2> QED BY <2>1, <2>2 DEF PicState
<1> QED BY <1>1, <1>2

LEMMA DataWriteType ==
  ASSUME NEW p \in PicState, NEW b \in Byte
  PROVE  data_write(p, b) \in PicState
BY DEF data_write, PicState

\* A port write leaves two controllers.
LEMMA OutbType ==
  ASSUME NEW ps \in Pics, NEW b \in Byte,
         NEW port \in {PIC1_COMMAND, PIC1_DATA, PIC2_COMMAND, PIC2_DATA}
  PROVE  outb(ps, port, b) \in Pics
<1>1. ps.master \in PicState /\ ps.slave \in PicState
  BY DEF Pics
<1>2. /\ command_write(ps.master, b) \in PicState /\ data_write(ps.master, b) \in PicState
      /\ command_write(ps.slave, b) \in PicState /\ data_write(ps.slave, b) \in PicState
  BY <1>1, CommandWriteType, DataWriteType
<1> QED BY <1>1, <1>2 DEF outb, Pics, PIC1_COMMAND, PIC1_DATA, PIC2_COMMAND, PIC2_DATA

LEMMA LatchType ==
  ASSUME NEW ps \in Pics, NEW d \in 0..15
  PROVE  /\ latch(ps, d) \in Pics
         /\ latch(ps, d).master.isr = ps.master.isr
         /\ latch(ps, d).master.imr = ps.master.imr
         /\ latch(ps, d).master.icw = ps.master.icw
<1>1. CASE d < 8
  <2>1. d \in Line
    BY <1>1 DEF Line
  <2>2. latch(ps, d) = [ps EXCEPT !.master.irr = @ \cup {d}]
    BY <1>1 DEF latch
  <2> QED BY <2>1, <2>2 DEF Pics, PicState
<1>2. CASE ~ (d < 8)
  <2>1. d - 8 \in Line
    BY <1>2 DEF Line
  <2>2. latch(ps, d) = [ps EXCEPT !.slave.irr = @ \cup {d - 8}]
    BY <1>2 DEF latch
  <2> QED BY <2>1, <2>2 DEF Pics, PicState
<1> QED BY <1>1, <1>2

\* The acknowledge puts the accepted line in service and touches no mask.
LEMMA AcknowledgeType ==
  ASSUME NEW ps \in Pics, NEW l \in Raised(ps), CASCADE \notin ps.master.irr
  PROVE  /\ acknowledge(ps, l) \in Pics
         /\ acknowledge(ps, l).master.isr = ps.master.isr \cup {l}
         /\ acknowledge(ps, l).master.imr = ps.master.imr
         /\ acknowledge(ps, l).master.icw = ps.master.icw
         /\ acknowledge(ps, l).master.irr \subseteq ps.master.irr
         /\ Source(ps, l) \in 0..15
         /\ MasterLine(Source(ps, l)) = l
         /\ \A k \in ps.master.isr : l < k
<1> DEFINE h == Highest(Pending(ps.slave))
<1>1. ps.master \in PicState /\ ps.slave \in PicState
  BY DEF Pics
<1>2. l \in Offered(ps) /\ \A k \in ps.master.isr : l < k
  BY DEF Raised
<1>3. CASE l = CASCADE /\ Pending(ps.slave) # {}
  <2>1. Pending(ps.slave) \in SUBSET Line
    BY <1>1 DEF Pending, PicState
  <2>2. h \in Line
    BY <1>3, <2>1, HighestExists
  <2> HIDE DEF h
  <2>3. acknowledge(ps, l) = [ps EXCEPT !.master.isr = @ \cup {CASCADE},
                                 !.slave.isr = @ \cup {h}, !.slave.irr = @ \ {h}]
    BY <1>3 DEF acknowledge, h
  <2>4. Source(ps, l) = 8 + h
    BY <1>3 DEF Source, h
  <2>5. CASCADE \in Line
    BY DEF CASCADE, Line
  <2>6. /\ acknowledge(ps, l) \in Pics
        /\ acknowledge(ps, l).master.isr = ps.master.isr \cup {l}
        /\ acknowledge(ps, l).master.imr = ps.master.imr
        /\ acknowledge(ps, l).master.icw = ps.master.icw
        /\ acknowledge(ps, l).master.irr \subseteq ps.master.irr
    <3> DEFINE m == [ps.master EXCEPT !.isr = ps.master.isr \cup {CASCADE}]
               s == [ps.slave EXCEPT !.isr = ps.slave.isr \cup {h},
                                     !.irr = ps.slave.irr \ {h}]
    <3>1. acknowledge(ps, l) = [master |-> m, slave |-> s]
      BY <2>3 DEF Pics
    <3>2. m \in PicState /\ m.isr = ps.master.isr \cup {CASCADE} /\ m.imr = ps.master.imr
          /\ m.icw = ps.master.icw /\ m.irr = ps.master.irr
      BY <1>1, <2>5 DEF PicState
    <3>3. s \in PicState
      BY <1>1, <2>2 DEF PicState
    <3> HIDE DEF m, s
    <3> QED BY <1>3, <3>1, <3>2, <3>3 DEF Pics
  <2>7. Source(ps, l) \in 0..15 /\ MasterLine(Source(ps, l)) = l
    BY <1>3, <2>2, <2>4 DEF MasterLine, Line
  <2> QED BY <1>2, <2>6, <2>7
<1>4. CASE l \in Pending(ps.master) /\ l # CASCADE
  <2>1. l \in Line
    BY <1>1, <1>4 DEF Pending, PicState
  <2>2. acknowledge(ps, l) = [ps EXCEPT !.master.isr = @ \cup {l}, !.master.irr = @ \ {l}]
    BY <1>4 DEF acknowledge
  <2>3. Source(ps, l) = l
    BY <1>4 DEF Source
  <2>4. /\ acknowledge(ps, l) \in Pics
        /\ acknowledge(ps, l).master.isr = ps.master.isr \cup {l}
        /\ acknowledge(ps, l).master.imr = ps.master.imr
        /\ acknowledge(ps, l).master.icw = ps.master.icw
        /\ acknowledge(ps, l).master.irr \subseteq ps.master.irr
    <3> DEFINE m == [ps.master EXCEPT !.isr = ps.master.isr \cup {l},
                                      !.irr = ps.master.irr \ {l}]
    <3>1. acknowledge(ps, l) = [master |-> m, slave |-> ps.slave]
      BY <2>2 DEF Pics
    <3>2. m \in PicState /\ m.isr = ps.master.isr \cup {l} /\ m.imr = ps.master.imr
          /\ m.icw = ps.master.icw /\ m.irr \subseteq ps.master.irr
      BY <1>1, <2>1 DEF PicState
    <3> HIDE DEF m
    <3> QED BY <1>1, <3>1, <3>2 DEF Pics
  <2>5. Source(ps, l) \in 0..15 /\ MasterLine(Source(ps, l)) = l
    BY <2>1, <2>3 DEF MasterLine, Line
  <2> QED BY <1>2, <2>4, <2>5
<1>5. l \in Pending(ps.master) => l # CASCADE
  BY DEF Pending
<1>6. l \in Pending(ps.master) \/ (l = CASCADE /\ Pending(ps.slave) # {})
  BY <1>2 DEF Offered
<1> QED BY <1>3, <1>4, <1>5, <1>6

\* What the EOI command does to the master: it dismisses the line of highest
\* priority in service.
LEMMA EOIEffect ==
  ASSUME NEW ps \in Pics, ps.master.icw = 0, ps.master.isr # {},
         NEW irq \in {TIMER, KEYBOARD}
  PROVE  /\ pic_EOI(ps, irq) \in Pics
         /\ pic_EOI(ps, irq).master.icw = 0
         /\ pic_EOI(ps, irq).master.irr = ps.master.irr
         /\ pic_EOI(ps, irq).master.isr = ps.master.isr \ {Highest(ps.master.isr)}
         /\ pic_EOI(ps, irq).master.imr = PIC_EOI
<1> DEFINE p == ps.master
           q == [p EXCEPT !.imr = PIC_EOI]
           r == [q EXCEPT !.isr = q.isr \ {Highest(q.isr)}]
<1>1. p \in PicState /\ ps.slave \in PicState
  BY DEF Pics
<1>2. irq >= 8
  BY DEF TIMER, KEYBOARD
<1>3. 4 \notin Bits(PIC_EOI)
  BY DEF Bits, Pow2, PIC_EOI, Line
<1>4. data_write(p, PIC_EOI) = q
  BY DEF data_write
<1>5. outb(ps, PIC1_DATA, PIC_EOI) = [master |-> q, slave |-> ps.slave]
  <2>1. outb(ps, PIC1_DATA, PIC_EOI) = [ps EXCEPT !.master = data_write(ps.master, PIC_EOI)]
    BY DEF outb, PIC1_COMMAND, PIC1_DATA, PIC2_COMMAND, PIC2_DATA
  <2> QED BY <1>1, <1>4, <2>1 DEF Pics
<1>6. q \in PicState /\ q.isr = p.isr /\ q.imr = PIC_EOI /\ q.icw = 0 /\ q.irr = p.irr
  BY <1>1 DEF PicState, PIC_EOI, Byte
<1> HIDE DEF q
<1>7. command_write(q, PIC_EOI) = r
  BY <1>3, <1>6 DEF command_write
<1>8. /\ r \in PicState /\ r.isr = p.isr \ {Highest(p.isr)}
      /\ r.imr = PIC_EOI /\ r.icw = 0 /\ r.irr = p.irr
  BY <1>6 DEF PicState
<1> HIDE DEF r
<1>9. outb([master |-> q, slave |-> ps.slave], PIC1_COMMAND, PIC_EOI)
        = [master |-> r, slave |-> ps.slave]
  BY <1>7 DEF outb, PIC1_COMMAND, PIC1_DATA, PIC2_COMMAND, PIC2_DATA
<1>10. pic_EOI(ps, irq) = [master |-> r, slave |-> ps.slave]
  BY <1>2, <1>5, <1>9 DEF pic_EOI
<1> QED BY <1>1, <1>8, <1>10 DEF Pics

\* The initialisation word the master waits for after n of remap's writes.
Awaits(n) == <<0, 2, 2, 3, 3, 4, 4, 0, 0, 0, 0>>[n + 1]

\* remap's next write.
Write == remap_writes(pic_master_irq, pic_slave_irq, masks[1], masks[2])[written + 1]

\* remap walks the master through its initialisation and leaves it operational.
LEMMA RemapStep ==
  ASSUME pics \in Pics, masks[1] \in Byte, masks[2] \in Byte, written \in 0..9,
         pics.master.icw = Awaits(written), pics.master.isr = {},
         CASCADE \notin pics.master.irr
  PROVE  /\ outb(pics, Write[1], Write[2]) \in Pics
         /\ outb(pics, Write[1], Write[2]).master.icw = Awaits(written + 1)
         /\ outb(pics, Write[1], Write[2]).master.isr = {}
         /\ CASCADE \notin outb(pics, Write[1], Write[2]).master.irr
<1> USE DEF Write, remap_writes, pic_master_irq, pic_slave_irq, ICW1, ICW4_8086,
            PIC1_COMMAND, PIC1_DATA, PIC2_COMMAND, PIC2_DATA
<1>1. /\ Write[1] \in {PIC1_COMMAND, PIC1_DATA, PIC2_COMMAND, PIC2_DATA}
      /\ Write[2] \in Byte
  <2>1. \A m \in 1..10 :
          /\ remap_writes(pic_master_irq, pic_slave_irq, masks[1], masks[2])[m][1]
               \in {PIC1_COMMAND, PIC1_DATA, PIC2_COMMAND, PIC2_DATA}
          /\ remap_writes(pic_master_irq, pic_slave_irq, masks[1], masks[2])[m][2] \in Byte
    BY DEF Byte
  <2>2. written + 1 \in 1..10
    OBVIOUS
  <2> QED BY <2>1, <2>2
<1>2. outb(pics, Write[1], Write[2]) \in Pics
  <2> HIDE DEF Write, remap_writes, PIC1_COMMAND, PIC1_DATA, PIC2_COMMAND, PIC2_DATA
  <2> QED BY <1>1, OutbType
<1>3. pics.master \in PicState /\ pics.slave \in PicState
  BY DEF Pics
<1>4. 4 \in Bits(17)
  BY DEF Bits, Pow2, Line
<1>5. \A b : data_write(pics.master, b).isr = {} /\ CASCADE \notin data_write(pics.master, b).irr
  BY <1>3 DEF data_write, PicState
<1>6. /\ command_write(pics.master, 17).isr = {} /\ command_write(pics.master, 17).icw = 2
      /\ CASCADE \notin command_write(pics.master, 17).irr
  BY <1>3, <1>4 DEF command_write, PicState
<1>7. CASE written = 0
  BY <1>2, <1>6, <1>7 DEF outb, Pics, Awaits
<1>8. CASE written \in {2, 4, 6, 8}
  <2>1. /\ Write[1] = 33
        /\ data_write(pics.master, Write[2]).icw = Awaits(written + 1)
    BY <1>3, <1>8 DEF data_write, PicState, Awaits
  <2> QED BY <1>2, <1>5, <2>1 DEF outb, Pics
<1>9. CASE written \in {1, 3, 5, 7, 9}
  <2>1. Write[1] \in {160, 161} /\ Awaits(written) = Awaits(written + 1)
    <3>1. CASE written = 1  BY <3>1 DEF Awaits
    <3>2. CASE written = 3  BY <3>2 DEF Awaits
    <3>3. CASE written = 5  BY <3>3 DEF Awaits
    <3>4. CASE written = 7  BY <3>4 DEF Awaits
    <3>5. CASE written = 9  BY <3>5 DEF Awaits
    <3> QED BY <1>9, <3>1, <3>2, <3>3, <3>4, <3>5
  <2>2. outb(pics, Write[1], Write[2]).master = pics.master
    BY <2>1 DEF outb, Pics
  <2>3. outb(pics, Write[1], Write[2]).master.icw = Awaits(written + 1)
    BY <2>1, <2>2, Zenon
  <2>4. /\ outb(pics, Write[1], Write[2]).master.isr = {}
        /\ CASCADE \notin outb(pics, Write[1], Write[2]).master.irr
    BY <2>2, Zenon
  <2> QED BY <1>2, <2>3, <2>4, Zenon
<1>10. written = 0 \/ written \in {2, 4, 6, 8} \/ written \in {1, 3, 5, 7, 9}
  <2> HIDE DEF Write, remap_writes
  <2> QED OBVIOUS
<1> QED BY <1>7, <1>8, <1>9, <1>10, Zenon

----------------------------------------------------------------------------
(* The stack of frames. *)

\* The frames interrupt each other in order of priority.
Nested(fr) ==
  \A i, j \in DOMAIN fr :
    i < j /\ fr[i].line # NoLine /\ fr[j].line # NoLine
      => MasterLine(fr[i].line) < MasterLine(fr[j].line)

\* A frame entered for a line of higher priority than all being served.
LEMMA Push ==
  ASSUME NEW fr \in Seq(FrameType), NEW f \in FrameType, Nested(fr),
         f.line # NoLine => \A k \in Serving(fr) : MasterLine(f.line) < k
  PROVE  /\ <<f>> \o fr \in Seq(FrameType)
         /\ Nested(<<f>> \o fr)
         /\ f.line # NoLine => Serving(<<f>> \o fr) = Serving(fr) \cup {MasterLine(f.line)}
         /\ f.line = NoLine => Serving(<<f>> \o fr) = Serving(fr)
<1> DEFINE g == <<f>> \o fr
<1>1. /\ g \in Seq(FrameType) /\ Len(g) = Len(fr) + 1
      /\ DOMAIN g = 1..(Len(fr) + 1) /\ DOMAIN fr = 1..Len(fr) /\ Len(fr) \in Nat
      /\ g[1] = f
      /\ \A i \in 1..Len(fr) : g[i + 1] = fr[i]
  OBVIOUS
<1> HIDE DEF g
<1>2. \A i \in DOMAIN g : i = 1 \/ (i - 1 \in DOMAIN fr /\ g[i] = fr[i - 1])
  BY <1>1
<1>3. \A x : x \in Serving(fr) <=>
             \E j \in DOMAIN fr : fr[j].line # NoLine /\ x = MasterLine(fr[j].line)
  BY DEF Serving
<1>4. \A x : x \in Serving(g) <=>
             \E j \in DOMAIN g : g[j].line # NoLine /\ x = MasterLine(g[j].line)
  BY DEF Serving
<1>5. \A x : x \in Serving(g) <=>
             x \in Serving(fr) \/ (f.line # NoLine /\ x = MasterLine(f.line))
  <2>1. ASSUME NEW x \in Serving(g)
        PROVE  x \in Serving(fr) \/ (f.line # NoLine /\ x = MasterLine(f.line))
    BY <1>1, <1>2, <1>3, <1>4
  <2>2. ASSUME NEW x \in Serving(fr) PROVE x \in Serving(g)
    <3>1. PICK j \in DOMAIN fr : fr[j].line # NoLine /\ x = MasterLine(fr[j].line)
      BY <1>3, <2>2
    <3>2. j + 1 \in DOMAIN g /\ g[j + 1] = fr[j]
      BY <1>1
    <3> QED BY <1>4, <3>1, <3>2
  <2>3. 1 \in DOMAIN g
    BY <1>1
  <2>4. f.line # NoLine => MasterLine(f.line) \in Serving(g)
    BY <1>1, <1>4, <2>3
  <2> QED BY <2>1, <2>2, <2>4
<1>6. Nested(g)
  <2> SUFFICES ASSUME NEW i \in DOMAIN g, NEW j \in DOMAIN g, i < j,
                      g[i].line # NoLine, g[j].line # NoLine
               PROVE  MasterLine(g[i].line) < MasterLine(g[j].line)
    BY DEF Nested
  <2>1. j - 1 \in DOMAIN fr /\ g[j] = fr[j - 1]
    BY <1>1, <1>2
  <2>2. CASE i = 1
    <3>1. MasterLine(g[j].line) \in Serving(fr)
      BY <1>3, <2>1
    <3> QED BY <1>1, <2>2, <3>1
  <2>3. CASE i # 1
    <3>1. i - 1 \in DOMAIN fr /\ g[i] = fr[i - 1] /\ i - 1 < j - 1
      BY <1>1, <1>2, <2>3
    <3> QED BY <2>1, <3>1 DEF Nested
  <2> QED BY <2>2, <2>3
<1>7. <<f>> \o fr = g
  BY DEF g
<1> QED BY <1>1, <1>5, <1>6, <1>7

\* The innermost frame serves the line of highest priority, and returning from
\* it leaves the others.
LEMMA Pop ==
  ASSUME NEW fr \in Seq(FrameType), fr # << >>, Nested(fr), Head(fr).line # NoLine
  PROVE  /\ Tail(fr) \in Seq(FrameType) /\ Nested(Tail(fr))
         /\ MasterLine(Head(fr).line) \in Serving(fr)
         /\ \A k \in Serving(fr) : k = MasterLine(Head(fr).line)
                                      \/ MasterLine(Head(fr).line) < k
         /\ Serving(Tail(fr)) = Serving(fr) \ {MasterLine(Head(fr).line)}
<1> DEFINE t == Tail(fr)
           h == MasterLine(fr[1].line)
<1>1. /\ t \in Seq(FrameType) /\ Len(fr) \in Nat /\ Len(fr) >= 1
      /\ DOMAIN fr = 1..Len(fr) /\ DOMAIN t = 1..(Len(fr) - 1)
      /\ \A i \in 1..(Len(fr) - 1) : t[i] = fr[i + 1]
      /\ Head(fr) = fr[1]
  OBVIOUS
<1>2. \A i \in 1..Len(fr) : fr[i].line \in 0..16
  <2>1. \A i \in 1..Len(fr) : fr[i] \in FrameType
    OBVIOUS
  <2> QED BY <2>1 DEF FrameType
<1>3. \A i \in 1..Len(fr) : MasterLine(fr[i].line) \in Int
  BY <1>2 DEF MasterLine, CASCADE
<1> HIDE DEF t
<1>4. \A x : x \in Serving(fr) <=>
             \E j \in DOMAIN fr : fr[j].line # NoLine /\ x = MasterLine(fr[j].line)
  BY DEF Serving
<1>5. \A x : x \in Serving(t) <=>
             \E j \in DOMAIN t : t[j].line # NoLine /\ x = MasterLine(t[j].line)
  BY DEF Serving
<1>6. 1 \in DOMAIN fr /\ h \in Serving(fr)
  BY <1>1, <1>4
<1>7. \A j \in DOMAIN fr : j > 1 /\ fr[j].line # NoLine => h < MasterLine(fr[j].line)
  BY <1>1, <1>6 DEF Nested
<1> HIDE DEF h
<1>8. \A k \in Serving(fr) : k = h \/ h < k
  <2> TAKE k \in Serving(fr)
  <2>1. PICK j \in DOMAIN fr : fr[j].line # NoLine /\ k = MasterLine(fr[j].line)
    BY <1>4
  <2>2. CASE j = 1
    BY <2>1, <2>2 DEF h
  <2>3. CASE j > 1
    BY <1>7, <2>1, <2>3
  <2> QED BY <1>1, <2>2, <2>3
<1>9. Nested(t)
  <2> SUFFICES ASSUME NEW i \in DOMAIN t, NEW j \in DOMAIN t, i < j,
                      t[i].line # NoLine, t[j].line # NoLine
               PROVE  MasterLine(t[i].line) < MasterLine(t[j].line)
    BY DEF Nested
  <2>1. /\ i + 1 \in DOMAIN fr /\ t[i] = fr[i + 1] /\ i + 1 < j + 1
        /\ j + 1 \in DOMAIN fr /\ t[j] = fr[j + 1]
    BY <1>1
  <2> QED BY <2>1 DEF Nested
<1>10. \A x : x \in Serving(t) <=> x \in Serving(fr) /\ x # h
  <2>1. ASSUME NEW x \in Serving(t) PROVE x \in Serving(fr) /\ x # h
    <3>1. PICK j \in DOMAIN t : t[j].line # NoLine /\ x = MasterLine(t[j].line)
      BY <1>5, <2>1
    <3>2. j + 1 \in DOMAIN fr /\ j + 1 > 1 /\ t[j] = fr[j + 1]
      BY <1>1
    <3>3. h < x /\ x \in Serving(fr)
      BY <1>4, <1>7, <3>1, <3>2
    <3>4. h \in Int
      BY <1>1, <1>3, <1>6 DEF h
    <3> QED BY <3>3, <3>4
  <2>2. ASSUME NEW x \in Serving(fr), x # h PROVE x \in Serving(t)
    <3>1. PICK j \in DOMAIN fr : fr[j].line # NoLine /\ x = MasterLine(fr[j].line)
      BY <1>4, <2>2
    <3>2. j # 1
      BY <2>2, <3>1 DEF h
    <3>3. j - 1 \in DOMAIN t /\ t[j - 1] = fr[j]
      BY <1>1, <3>2
    <3> QED BY <1>5, <3>1, <3>3
  <2> QED BY <2>1, <2>2
<1>11. MasterLine(Head(fr).line) = h
  BY <1>1 DEF h
<1>12. t = Tail(fr)
  BY DEF t
<1> QED BY <1>1, <1>6, <1>8, <1>9, <1>10, <1>11, <1>12

----------------------------------------------------------------------------
(* The invariant. *)

AfterRemap == {"unmask_timer", "unmask_keyboard", "timer_phase", "load_idt", "sti", "run"}

\* How far remap has taken the master.
Initialising ==
  /\ pc \in {"register", "save_masks"} => written = 0
  /\ pc = "remap" => written \in 0..9
  /\ pics.master.icw = IF pc \in AfterRemap THEN 0 ELSE Awaits(written)

\* The lines unmask has opened stay open.
Opened ==
  /\ pc = "unmask_keyboard" => 0 \notin Bits(pics.master.imr)
  /\ pc \in {"timer_phase", "load_idt", "sti", "run"} =>
       0 \notin Bits(pics.master.imr) /\ 1 \notin Bits(pics.master.imr)

\* Nothing is served before sti, no frame is pushed before the IDT is loaded, and
\* from there on every vector ends in a gate.
GatesReady ==
  /\ IF_ => pc = "run"
  /\ frames # << >> => pc \in {"sti", "run"}
  /\ \A i \in DOMAIN frames : frames[i].line # NoLine => pc = "run"
  /\ pc # "register" => IDT = [v \in Handled |-> routine(v)]
  /\ pc \in {"sti", "run"} => idtr
  /\ idtr => pc \in {"sti", "run"}

\* Only an interrupt of a device enters a handler that sends an EOI.
DeviceFrames ==
  \A i \in DOMAIN frames :
    frames[i].handler \in {"handle_timer", "handle_keyboard"} => frames[i].line # NoLine

IInv ==
  /\ TypeOK
  /\ CASCADE \notin pics.master.irr
  /\ Initialising
  /\ Opened
  /\ GatesReady
  /\ DeviceFrames
  /\ Nested(frames)
  /\ InService
  /\ NoTripleFault

LEMMA InitInv == Init => IInv
<1> SUFFICES ASSUME Init PROVE IInv
  OBVIOUS
<1> USE DEF Init
<1>1. TypeOK
  <2>1. pics \in [master : PicState, slave : PicState]
    BY DEF PicState, Byte
  <2>2. masks \in Byte \X Byte /\ reload \in Word /\ written \in 0..10 /\ ist \in 0..7
    BY DEF Byte, Word
  <2>3. /\ frames \in Seq(FrameType) /\ pressed \in Seq(Scancodes)
        /\ echoed \in Seq(Scancodes \cap 0..127)
    OBVIOUS
  <2>4. /\ IDT = << >> \/ IDT \in [Handled -> Gates]
        /\ idtr \in BOOLEAN /\ IF_ \in BOOLEAN /\ reset \in BOOLEAN
        /\ pc \in {"register", "save_masks", "remap", "unmask_timer", "unmask_keyboard",
                   "timer_phase", "load_idt", "sti", "run"}
        /\ kbd \in Scancodes \cup {Empty}
    OBVIOUS
  <2> QED BY <2>1, <2>2, <2>3, <2>4, Zenon DEF TypeOK
<1>2. CASCADE \notin pics.master.irr /\ Initialising /\ Opened /\ GatesReady
  BY DEF Initialising, Opened, GatesReady, AfterRemap, Awaits
<1>3. DeviceFrames /\ Nested(frames) /\ InService /\ NoTripleFault
  BY DEF DeviceFrames, Nested, InService, Serving, NoTripleFault
<1> QED BY <1>1, <1>2, <1>3 DEF IInv

\* What init_interrupts registers.
LEMMA GateTable ==
  /\ \A v \in Handled : routine(v) \in Gates
  /\ \A v \in Handled : routine(v).handler \in {"handle_timer", "handle_keyboard"}
                         <=> v \in {TIMER, KEYBOARD}
BY DEF Handled, routine, Gates, gate_descriptor_t, DIV_ERROR, DOUBLE_FAULT,
       GENERAL_PROTECTION_FAULT, PAGE_FAULT, TIMER, KEYBOARD

\* With the gates in place and no interrupt stack an entry pushes a frame.
LEMMA EnterPushes ==
  ASSUME IInv, idtr, ist = 0, NEW v \in Nat, NEW d \in 0..16, Enter(v, d)
  PROVE  \E f \in FrameType :
           /\ f.line = d
           /\ frames' = <<f>> \o frames
           /\ f.handler \in {"handle_timer", "handle_keyboard"} => v \in {TIMER, KEYBOARD}
           /\ IF_' \in BOOLEAN /\ reset' = reset
<1> DEFINE w == IF v \in DOMAIN IDT THEN v ELSE DOUBLE_FAULT
           f == [handler |-> IDT[w].handler, line |-> d, flags |-> IF_]
<1>1. IDT = [u \in Handled |-> routine(u)] /\ IF_ \in BOOLEAN
  <2>1. GatesReady /\ IF_ \in BOOLEAN
    BY DEF IInv, TypeOK
  <2>2. pc \in {"sti", "run"}
    BY <2>1, Zenon DEF GatesReady
  <2>3. IDT = [u \in Handled |-> routine(u)]
    BY <2>1, <2>2 DEF GatesReady
  <2> QED BY <2>1, <2>3
<1>2. DOMAIN IDT = Handled /\ w \in Handled /\ IDT[w] = routine(w)
  BY <1>1 DEF Handled
<1>3. IDT[w] \in Gates
  BY <1>2, GateTable
<1>4. f.handler \in {"handle_timer", "handle_keyboard"} => w \in {TIMER, KEYBOARD}
  BY <1>2, GateTable
<1>5. w \in {TIMER, KEYBOARD} => w = v
  BY DEF DOUBLE_FAULT, TIMER, KEYBOARD
<1>6. frames' = <<f>> \o frames /\ IF_' = (IF_ /\ IDT[w].gate = "TRAP") /\ reset' = reset
  BY <1>1, <1>2 DEF Enter
<1>7. f \in FrameType
  BY <1>1, <1>3 DEF Gates, FrameType
<1>8. IF_' \in BOOLEAN
  BY <1>1, <1>6
<1> WITNESS f \in FrameType
<1> QED BY <1>4, <1>5, <1>6, <1>8

\* Removing the line of highest priority from what is served leaves what the
\* interrupted handlers serve.
LEMMA ReturnServes ==
  ASSUME IInv, ~reset, frames # << >>, Head(frames).line # NoLine
  PROVE  /\ pics.master.isr # {}
         /\ pics.master.isr \ {Highest(pics.master.isr)} = Serving(Tail(frames))
         /\ Tail(frames) \in Seq(FrameType) /\ Nested(Tail(frames))
         /\ \A i \in DOMAIN Tail(frames) :
              Tail(frames)[i].handler \in {"handle_timer", "handle_keyboard"} =>
                Tail(frames)[i].line # NoLine
<1> DEFINE h == MasterLine(Head(frames).line)
           S == pics.master.isr
<1>1. frames \in Seq(FrameType) /\ Nested(frames) /\ S = Serving(frames) /\ S \in SUBSET Line
  BY DEF IInv, TypeOK, InService, PicState
<1>2. /\ h \in S /\ Serving(Tail(frames)) = S \ {h}
      /\ \A k \in S : k = h \/ h < k
      /\ Tail(frames) \in Seq(FrameType) /\ Nested(Tail(frames))
  BY <1>1, Pop
<1>3. Highest(S) = h
  <2> HIDE DEF h, S
  <2>1. Highest(S) \in S /\ Highest(S) <= h
    BY <1>1, <1>2, HighestExists
  <2> QED BY <1>1, <1>2, <2>1 DEF Line
<1>4. \A i \in DOMAIN Tail(frames) : i + 1 \in DOMAIN frames /\ Tail(frames)[i] = frames[i + 1]
  BY <1>1
<1> QED BY <1>2, <1>3, <1>4 DEF IInv, DeviceFrames

\* The kernel thread's steps leave the frames alone.
LEMMA FramesKept ==
  ASSUME IInv, UNCHANGED <<frames, reset>>, pics'.master.isr = pics.master.isr,
         ~reset \/ UNCHANGED <<ist, idtr>>
  PROVE  DeviceFrames' /\ Nested(frames)' /\ InService' /\ NoTripleFault'
<1>1. DeviceFrames /\ Nested(frames) /\ InService /\ NoTripleFault
  BY DEF IInv
<1> QED BY <1>1 DEF DeviceFrames, Nested, InService, Serving, NoTripleFault

LEMMA register_Inv == ASSUME IInv, register PROVE IInv'
<1> USE DEF register, KernelRuns
<1>1. TypeOK /\ CASCADE \notin pics.master.irr /\ Initialising /\ GatesReady
  BY DEF IInv
<1>2. IDT' \in [Handled -> Gates]
  BY GateTable
<1>3. TypeOK'
  BY <1>1, <1>2, InterruptsAssumption DEF TypeOK
<1>4. (CASCADE \notin pics.master.irr)' /\ Initialising' /\ Opened' /\ GatesReady'
  BY <1>1 DEF Initialising, Opened, GatesReady, AfterRemap
<1>5. DeviceFrames' /\ Nested(frames)' /\ InService' /\ NoTripleFault'
  BY FramesKept
<1> QED BY <1>3, <1>4, <1>5 DEF IInv

LEMMA save_masks_Inv == ASSUME IInv, save_masks PROVE IInv'
<1> USE DEF save_masks
<1>1. TypeOK /\ CASCADE \notin pics.master.irr /\ Initialising /\ GatesReady
  BY DEF IInv
<1>2. masks' \in Byte \X Byte
  BY <1>1 DEF TypeOK, PicState, inb
<1>3. TypeOK'
  BY <1>1, <1>2 DEF TypeOK
<1>4. (CASCADE \notin pics.master.irr)' /\ Initialising' /\ Opened' /\ GatesReady'
  BY <1>1 DEF Initialising, Opened, GatesReady, AfterRemap
<1>5. DeviceFrames' /\ Nested(frames)' /\ InService' /\ NoTripleFault'
  BY FramesKept
<1> QED BY <1>3, <1>4, <1>5 DEF IInv

LEMMA remap_Inv == ASSUME IInv, remap PROVE IInv'
<1> USE DEF remap, KernelRuns
<1>1. TypeOK /\ CASCADE \notin pics.master.irr /\ Initialising /\ GatesReady /\ InService
  BY DEF IInv
<1>2. pics.master.isr = {}
  BY <1>1 DEF InService, Serving
<1>3. /\ pics \in Pics /\ masks[1] \in Byte /\ masks[2] \in Byte
      /\ written \in 0..9 /\ pics.master.icw = Awaits(written)
  BY <1>1 DEF TypeOK, Pics, Initialising, AfterRemap
<1>4. pics' = outb(pics, Write[1], Write[2])
  BY DEF Write, RemapProgram
<1>5. CASCADE \notin pics.master.irr
  BY <1>1
<1>6. /\ pics' \in Pics /\ pics'.master.icw = Awaits(written + 1)
      /\ pics'.master.isr = {} /\ CASCADE \notin pics'.master.irr
  <2> HIDE DEF remap, KernelRuns
  <2> QED BY <1>2, <1>3, <1>4, <1>5, RemapStep, Zenon
<1>7. Len(RemapProgram) = 10
  BY DEF RemapProgram, remap_writes
<1>8. /\ written' = written + 1 /\ written' \in 0..10
      /\ pc' = IF written = 9 THEN "unmask_timer" ELSE "remap"
  <2>1. written + 1 = 10 <=> written = 9
    BY <1>3
  <2>2. written' = written + 1 /\ written' \in 0..10
    BY <1>3
  <2> QED BY <1>7, <2>1, <2>2, Zenon
<1>9. TypeOK'
  BY <1>1, <1>6, <1>8 DEF TypeOK, Pics
<1>10. Initialising'
  <2>1. CASE written = 9
    BY <1>6, <1>8, <2>1 DEF Initialising, AfterRemap, Awaits
  <2>2. CASE written # 9
    BY <1>3, <1>6, <1>8, <2>2 DEF Initialising, AfterRemap
  <2> QED BY <2>1, <2>2
<1>11. Opened' /\ GatesReady'
  BY <1>1, <1>8 DEF Opened, GatesReady
<1>12. DeviceFrames' /\ Nested(frames)' /\ InService' /\ NoTripleFault'
  BY <1>2, <1>6, FramesKept
<1> QED BY <1>6, <1>9, <1>10, <1>11, <1>12 DEF IInv

\* What unmask does to the controllers, for the two lines the kernel opens.
LEMMA UnmaskEffect ==
  ASSUME NEW ps \in Pics, ps.master.icw = 0, NEW l \in {0, 1}
  PROVE  /\ unmask(ps, l) \in Pics
         /\ unmask(ps, l).master = [ps.master EXCEPT !.imr = ClearBit(ps.master.imr, l)]
<1>1. DataPort(l) = PIC1_DATA /\ inb(ps, PIC1_DATA) = ps.master.imr /\ l % 8 = l
  BY DEF DataPort, inb
<1>2. ps.master.imr \in Byte
  BY DEF Pics, PicState
<1>3. ClearBit(ps.master.imr, l) \in Byte
  BY <1>2, ClearBits
<1>4. unmask(ps, l) = outb(ps, PIC1_DATA, ClearBit(ps.master.imr, l))
  BY <1>1 DEF unmask
<1>5. unmask(ps, l) = [ps EXCEPT !.master = data_write(ps.master, ClearBit(ps.master.imr, l))]
  BY <1>4 DEF outb, PIC1_COMMAND, PIC1_DATA, PIC2_COMMAND, PIC2_DATA
<1>6. data_write(ps.master, ClearBit(ps.master.imr, l))
        = [ps.master EXCEPT !.imr = ClearBit(ps.master.imr, l)]
  BY DEF data_write
<1>7. unmask(ps, l) \in Pics
  BY <1>3, <1>4, OutbType
<1> QED BY <1>5, <1>6, <1>7 DEF Pics

LEMMA unmask_timer_Inv == ASSUME IInv, unmask_timer PROVE IInv'
<1> USE DEF unmask_timer
<1>1. /\ TypeOK /\ CASCADE \notin pics.master.irr /\ Initialising /\ GatesReady
      /\ pics \in Pics /\ pics.master \in PicState
  BY DEF IInv, TypeOK, Pics
<1>2. pics.master.icw = 0
  BY <1>1 DEF Initialising, AfterRemap
<1>3. TIMER - pic_master_irq = 0
  BY DEF TIMER, pic_master_irq
<1>4. /\ pics' \in Pics
      /\ pics'.master = [pics.master EXCEPT !.imr = ClearBit(pics.master.imr, 0)]
  BY <1>1, <1>2, <1>3, UnmaskEffect
<1>5. /\ pics'.master.isr = pics.master.isr /\ pics'.master.icw = 0
      /\ pics'.master.irr = pics.master.irr
      /\ pics'.master.imr = ClearBit(pics.master.imr, 0)
  BY <1>1, <1>2, <1>4 DEF PicState
<1>6. TypeOK'
  BY <1>1, <1>4 DEF TypeOK, Pics
<1>7. 0 \notin Bits(pics'.master.imr)
  BY <1>1, <1>5, ClearBits DEF PicState
<1>8. (CASCADE \notin pics.master.irr)' /\ Initialising' /\ Opened' /\ GatesReady'
  BY <1>1, <1>5, <1>7 DEF Initialising, Opened, GatesReady, AfterRemap
<1>9. DeviceFrames' /\ Nested(frames)' /\ InService' /\ NoTripleFault'
  BY <1>5, FramesKept
<1> QED BY <1>6, <1>8, <1>9 DEF IInv

LEMMA unmask_keyboard_Inv == ASSUME IInv, unmask_keyboard PROVE IInv'
<1> USE DEF unmask_keyboard
<1>1. /\ TypeOK /\ CASCADE \notin pics.master.irr /\ Initialising /\ GatesReady
      /\ pics \in Pics /\ pics.master \in PicState
  BY DEF IInv, TypeOK, Pics
<1>2. pics.master.icw = 0 /\ 0 \notin Bits(pics.master.imr)
  BY <1>1 DEF IInv, Initialising, Opened, AfterRemap
<1>3. KEYBOARD - pic_master_irq = 1
  BY DEF KEYBOARD, pic_master_irq
<1>4. /\ pics' \in Pics
      /\ pics'.master = [pics.master EXCEPT !.imr = ClearBit(pics.master.imr, 1)]
  BY <1>1, <1>2, <1>3, UnmaskEffect
<1>5. /\ pics'.master.isr = pics.master.isr /\ pics'.master.icw = 0
      /\ pics'.master.irr = pics.master.irr
      /\ pics'.master.imr = ClearBit(pics.master.imr, 1)
  BY <1>1, <1>2, <1>4 DEF PicState
<1>6. TypeOK'
  BY <1>1, <1>4 DEF TypeOK, Pics
<1>7. 0 \notin Bits(pics'.master.imr) /\ 1 \notin Bits(pics'.master.imr)
  BY <1>1, <1>2, <1>5, ClearBits DEF PicState
<1>8. (CASCADE \notin pics.master.irr)' /\ Initialising' /\ Opened' /\ GatesReady'
  BY <1>1, <1>5, <1>7 DEF Initialising, Opened, GatesReady, AfterRemap
<1>9. DeviceFrames' /\ Nested(frames)' /\ InService' /\ NoTripleFault'
  BY <1>5, FramesKept
<1> QED BY <1>6, <1>8, <1>9 DEF IInv

LEMMA timer_phase_Inv == ASSUME IInv, timer_phase(Hz) PROVE IInv'
<1> USE DEF timer_phase, KernelRuns
<1> DEFINE divisor == PIT_FREQUENCY \div Hz
<1>1. TypeOK /\ CASCADE \notin pics.master.irr /\ Initialising /\ Opened /\ GatesReady
  BY DEF IInv
<1>2. divisor \in Nat
  BY InterruptsAssumption DEF PIT_FREQUENCY
<1>3. reload' = (divisor % 256) + 256 * ((divisor \div 256) % 256)
  OBVIOUS
<1> HIDE DEF divisor
<1>4. reload' \in Word
  <2>1. divisor % 256 \in 0..255 /\ (divisor \div 256) % 256 \in 0..255
    BY <1>2
  <2>2. \A x, y \in 0..255 : x + 256 * y \in Word
    <3> HIDE DEF timer_phase
    <3> TAKE x, y \in 0..255
    <3>1. x + 256 * y \in Int /\ 0 <= x + 256 * y /\ x + 256 * y <= 65535
      OBVIOUS
    <3> QED BY <3>1 DEF Word
  <2> HIDE DEF timer_phase
  <2> DEFINE x == divisor % 256
             y == (divisor \div 256) % 256
  <2>3. x \in 0..255 /\ y \in 0..255 /\ reload' = x + 256 * y
    BY <1>3, <2>1
  <2> HIDE DEF x, y
  <2> QED BY <2>2, <2>3
<1>5. TypeOK'
  BY <1>1, <1>4 DEF TypeOK
<1>6. (CASCADE \notin pics.master.irr)' /\ Initialising' /\ Opened' /\ GatesReady'
  BY <1>1 DEF Initialising, Opened, GatesReady, AfterRemap
<1>7. DeviceFrames' /\ Nested(frames)' /\ InService' /\ NoTripleFault'
  BY FramesKept
<1> QED BY <1>5, <1>6, <1>7 DEF IInv

LEMMA load_idt_Inv == ASSUME IInv, load_idt PROVE IInv'
<1> USE DEF load_idt, KernelRuns
<1>1. TypeOK /\ CASCADE \notin pics.master.irr /\ Initialising /\ Opened /\ GatesReady
  BY DEF IInv
<1>2. TypeOK'
  BY <1>1 DEF TypeOK
<1>3. (CASCADE \notin pics.master.irr)' /\ Initialising' /\ Opened' /\ GatesReady'
  BY <1>1 DEF Initialising, Opened, GatesReady, AfterRemap
<1>4. DeviceFrames' /\ Nested(frames)' /\ InService' /\ NoTripleFault'
  BY FramesKept
<1> QED BY <1>2, <1>3, <1>4 DEF IInv

LEMMA sti_Inv == ASSUME IInv, sti PROVE IInv'
<1> USE DEF sti, KernelRuns
<1>1. TypeOK /\ CASCADE \notin pics.master.irr /\ Initialising /\ Opened /\ GatesReady
  BY DEF IInv
<1>2. TypeOK'
  BY <1>1 DEF TypeOK
<1>3. (CASCADE \notin pics.master.irr)' /\ Initialising' /\ Opened' /\ GatesReady'
  BY <1>1 DEF Initialising, Opened, GatesReady, AfterRemap
<1>4. DeviceFrames' /\ Nested(frames)' /\ InService' /\ NoTripleFault'
  BY FramesKept
<1> QED BY <1>2, <1>3, <1>4 DEF IInv

\* A frame pushed for device line d, of higher priority than all being served.
LEMMA PushInv ==
  ASSUME IInv, ~reset, UNCHANGED reset, NEW f \in FrameType, frames' = <<f>> \o frames,
         f.handler \in {"handle_timer", "handle_keyboard"} => f.line # NoLine,
         f.line # NoLine =>
           /\ \A k \in pics.master.isr : MasterLine(f.line) < k
           /\ pics'.master.isr = pics.master.isr \cup {MasterLine(f.line)},
         f.line = NoLine => pics'.master.isr = pics.master.isr
  PROVE  /\ frames' \in Seq(FrameType)
         /\ DeviceFrames' /\ Nested(frames)' /\ InService' /\ NoTripleFault'
<1>1. /\ frames \in Seq(FrameType) /\ DeviceFrames /\ Nested(frames)
      /\ pics.master.isr = Serving(frames)
  BY DEF IInv, TypeOK, InService
<1>2. /\ frames' \in Seq(FrameType) /\ Nested(frames')
      /\ f.line # NoLine => Serving(frames') = Serving(frames) \cup {MasterLine(f.line)}
      /\ f.line = NoLine => Serving(frames') = Serving(frames)
  BY <1>1, Push
<1>3. Nested(frames)' /\ InService' /\ NoTripleFault'
  BY <1>1, <1>2 DEF Nested, InService, Serving, NoTripleFault
<1>4. DeviceFrames'
  <2>1. /\ DOMAIN frames' = 1..(Len(frames) + 1) /\ DOMAIN frames = 1..Len(frames)
        /\ Len(frames) \in Nat /\ frames'[1] = f
        /\ \A i \in 1..Len(frames) : frames'[i + 1] = frames[i]
    BY <1>1
  <2>2. \A i \in DOMAIN frames' :
          i = 1 \/ (i - 1 \in DOMAIN frames /\ frames'[i] = frames[i - 1])
    BY <2>1
  <2> QED BY <1>1, <2>1, <2>2 DEF DeviceFrames
<1> QED BY <1>2, <1>3, <1>4

\* An entry without an IDT, or through a gate that names an interrupt stack,
\* resets the CPU.
LEMMA EnterResets ==
  ASSUME IInv, ist # 0 \/ ~idtr, UNCHANGED <<ist, idtr>>, NEW v, NEW d, Enter(v, d)
  PROVE  /\ reset' = TRUE /\ UNCHANGED <<frames, IF_>>
         /\ DeviceFrames' /\ Nested(frames)' /\ InService' /\ NoTripleFault'
<1>1. reset' = TRUE /\ UNCHANGED <<frames, IF_>>
  BY DEF Enter
<1>2. DeviceFrames /\ Nested(frames)
  BY DEF IInv
<1>3. NoTripleFault'
  BY Zenon DEF NoTripleFault
<1> QED BY <1>1, <1>2, <1>3 DEF DeviceFrames, Nested, InService

LEMMA Deliver_Inv == ASSUME IInv, NEW l \in Line, Deliver(l) PROVE IInv'
<1> USE DEF Deliver
<1> DEFINE d == Source(pics, l)
           v == vector(pics, l)
<1>1. /\ TypeOK /\ CASCADE \notin pics.master.irr /\ Initialising /\ Opened /\ GatesReady
      /\ pics \in Pics
  BY DEF IInv, TypeOK, Pics
<1>2. pc = "run" /\ pc' = "run" /\ idtr
  <2>1. pc = "run" /\ pc' = "run"
    BY <1>1 DEF GatesReady
  <2>2. idtr
    BY <1>1, <2>1, Zenon DEF GatesReady
  <2> QED BY <2>1, <2>2
<1>3. /\ pics' \in Pics
      /\ pics'.master.isr = pics.master.isr \cup {l}
      /\ pics'.master.imr = pics.master.imr /\ pics'.master.icw = pics.master.icw
      /\ pics'.master.irr \subseteq pics.master.irr
      /\ d \in 0..15 /\ MasterLine(d) = l /\ \A k \in pics.master.isr : l < k
  BY <1>1, AcknowledgeType
<1>4. v \in Nat
  <2>1. /\ pics.master.base \in Nat /\ pics.slave.base \in Nat /\ l \in Nat
        /\ Pending(pics.slave) \in SUBSET Line
    BY <1>1 DEF Pics, PicState, Byte, Line, Pending
  <2>2. CASE l = CASCADE
    <3>1. Pending(pics.slave) # {}
      BY <1>1, <2>2 DEF Raised, Offered, Pending
    <3>2. Highest(Pending(pics.slave)) \in Nat
      BY <2>1, <3>1, HighestExists DEF Line
    <3> QED BY <2>1, <2>2, <3>2 DEF vector
  <2>3. CASE l # CASCADE
    BY <2>1, <2>3 DEF vector
  <2> QED BY <2>2, <2>3
<1>5. Enter(v, d)
  OBVIOUS
<1> HIDE DEF d, v
<1>6. ~reset /\ UNCHANGED <<ist, idtr>>
  OBVIOUS
<1>7. /\ frames' \in Seq(FrameType) /\ IF_' \in BOOLEAN /\ reset' \in BOOLEAN
      /\ DeviceFrames' /\ Nested(frames)' /\ InService' /\ NoTripleFault'
  <2>1. CASE ist = 0
    <3> HIDE DEF Deliver
    <3>1. d \in 0..16
      BY <1>3
    <3>2. PICK f \in FrameType :
            /\ f.line = d /\ frames' = <<f>> \o frames
            /\ IF_' \in BOOLEAN /\ reset' = reset
      BY <1>2, <1>4, <1>5, <2>1, <3>1, EnterPushes, Zenon
    <3>3. f.line # NoLine
      BY <1>3, <3>2 DEF NoLine
    <3>4. /\ frames' \in Seq(FrameType)
          /\ DeviceFrames' /\ Nested(frames)' /\ InService' /\ NoTripleFault'
      BY <1>3, <1>6, <3>2, <3>3, PushInv
    <3>5. reset' \in BOOLEAN
      BY <1>1, <3>2 DEF TypeOK
    <3> QED BY <3>2, <3>4, <3>5, Zenon
  <2>2. CASE ist # 0
    <3> HIDE DEF Deliver
    <3>1. /\ reset' = TRUE /\ UNCHANGED <<frames, IF_>>
          /\ DeviceFrames' /\ Nested(frames)' /\ InService' /\ NoTripleFault'
      BY <1>5, <1>6, <2>2, EnterResets, Zenon
    <3>2. frames' \in Seq(FrameType) /\ IF_' \in BOOLEAN /\ reset' \in BOOLEAN
      BY <1>1, <3>1 DEF TypeOK
    <3> QED BY <3>1, <3>2, Zenon
  <2> QED BY <2>1, <2>2
<1>8. DeviceFrames' /\ Nested(frames)' /\ InService' /\ NoTripleFault'
  BY <1>7
<1>9. TypeOK'
  BY <1>1, <1>3, <1>7 DEF TypeOK, Pics
<1>10. (CASCADE \notin pics.master.irr)' /\ Initialising' /\ Opened' /\ GatesReady'
  BY <1>1, <1>2, <1>3 DEF Initialising, Opened, GatesReady, AfterRemap
<1> QED BY <1>8, <1>9, <1>10 DEF IInv

LEMMA Fault_Inv == ASSUME IInv, NEW v \in Faults, Fault(v) PROVE IInv'
<1> USE DEF Fault
<1>1. /\ TypeOK /\ CASCADE \notin pics.master.irr /\ Initialising /\ Opened /\ GatesReady
  BY DEF IInv
<1>2. Enter(v, NoLine) /\ UNCHANGED <<pics, pc, IDT, ist, idtr, written>> /\ ~reset
  OBVIOUS
<1>3. v \in Nat /\ v \notin {TIMER, KEYBOARD} /\ NoLine \in 0..16
  BY InterruptsAssumption DEF TIMER, KEYBOARD, NoLine
<1>4. /\ frames' \in Seq(FrameType) /\ IF_' \in BOOLEAN /\ reset' \in BOOLEAN
      /\ DeviceFrames' /\ Nested(frames)' /\ InService' /\ NoTripleFault'
      /\ GatesReady'
  <2>1. CASE idtr /\ ist = 0
    <3> HIDE DEF Fault
    <3>1. PICK f \in FrameType :
            /\ f.line = NoLine /\ frames' = <<f>> \o frames
            /\ f.handler \notin {"handle_timer", "handle_keyboard"}
            /\ IF_' \in BOOLEAN /\ reset' = reset
      BY <1>2, <1>3, <2>1, EnterPushes
    <3>2. /\ frames' \in Seq(FrameType)
          /\ DeviceFrames' /\ Nested(frames)' /\ InService' /\ NoTripleFault'
      BY <1>2, <3>1, PushInv
    <3>3. reset' \in BOOLEAN
      BY <1>1, <3>1 DEF TypeOK
    <3>4. pc \in {"sti", "run"} /\ (IF_ => pc = "run")
      BY <1>1, <2>1, Zenon DEF GatesReady
    <3>5. IF_' => IF_
      BY <1>2, <2>1, Zenon DEF Enter
    <3>6. ASSUME NEW i \in DOMAIN frames', frames'[i].line # NoLine PROVE pc = "run"
      <4>1. frames \in Seq(FrameType)
        BY <1>1 DEF TypeOK
      <4>2. i = 1 \/ (i - 1 \in DOMAIN frames /\ frames'[i] = frames[i - 1])
        BY <3>1, <3>6, <4>1
      <4>3. frames'[1] = f
        BY <3>1, <4>1
      <4> QED BY <1>1, <3>1, <3>6, <4>2, <4>3 DEF GatesReady
    <3>7. GatesReady'
      <4>1. (IF_ => pc = "run")'
        BY <1>2, <3>4, <3>5, Zenon
      <4>2. (pc \in {"sti", "run"} => idtr)' /\ (idtr => pc \in {"sti", "run"})'
        BY <1>1, <1>2, Zenon DEF GatesReady
      <4>3. (pc # "register" => IDT = [u \in Handled |-> routine(u)])'
        BY <1>1, <1>2 DEF GatesReady
      <4>4. (\A i \in DOMAIN frames : frames[i].line # NoLine => pc = "run")'
        BY <1>2, <3>6
      <4>5. (frames # << >> => pc \in {"sti", "run"})'
        BY <1>2, <3>4
      <4> QED BY <4>1, <4>2, <4>3, <4>4, <4>5, Zenon DEF GatesReady
    <3> QED BY <3>1, <3>2, <3>3, <3>7, Zenon
  <2>2. CASE ~ (idtr /\ ist = 0)
    <3> HIDE DEF Fault
    <3>1. ist # 0 \/ ~idtr
      BY <2>2
    <3>2. /\ reset' = TRUE /\ UNCHANGED <<frames, IF_>>
          /\ DeviceFrames' /\ Nested(frames)' /\ InService' /\ NoTripleFault'
      BY <1>2, <3>1, EnterResets, Zenon
    <3>3. frames' \in Seq(FrameType) /\ IF_' \in BOOLEAN /\ reset' \in BOOLEAN
      BY <1>1, <3>2 DEF TypeOK
    <3>4. GatesReady'
      BY <1>1, <1>2, <3>2 DEF GatesReady
    <3> QED BY <3>2, <3>3, <3>4, Zenon
  <2> QED BY <2>1, <2>2
<1>5. TypeOK'
  BY <1>1, <1>4 DEF TypeOK
<1>6. (CASCADE \notin pics.master.irr)' /\ Initialising' /\ Opened'
  BY <1>1, <1>2 DEF Initialising, Opened, AfterRemap
<1> QED BY <1>4, <1>5, <1>6 DEF IInv

\* A handler's EOI and return.
LEMMA ReturnInv ==
  ASSUME IInv, ~reset, UNCHANGED reset, frames # << >>,
         Head(frames).handler \in {"handle_timer", "handle_keyboard"}, Return,
         NEW irq \in {TIMER, KEYBOARD}, pics' = pic_EOI(pics, irq),
         UNCHANGED <<IDT, ist, idtr, pc, written>>
  PROVE  /\ frames' \in Seq(FrameType) /\ IF_' \in BOOLEAN /\ pics' \in Pics
         /\ CASCADE \notin pics'.master.irr
         /\ Initialising' /\ Opened' /\ GatesReady'
         /\ DeviceFrames' /\ Nested(frames)' /\ InService' /\ NoTripleFault'
<1>1. /\ CASCADE \notin pics.master.irr /\ Initialising /\ GatesReady /\ DeviceFrames
      /\ pics \in Pics /\ frames \in Seq(FrameType)
  BY DEF IInv, TypeOK, Pics
<1>2. Head(frames) = frames[1] /\ 1 \in DOMAIN frames /\ Head(frames) \in FrameType
  BY <1>1
<1>3. Head(frames).line # NoLine /\ Head(frames).flags \in BOOLEAN
  BY <1>1, <1>2 DEF DeviceFrames, FrameType
<1>4. pc = "run" /\ pics.master.icw = 0
  BY <1>1, <1>2, <1>3 DEF GatesReady, Initialising, AfterRemap
<1>5. /\ pics.master.isr # {}
      /\ pics.master.isr \ {Highest(pics.master.isr)} = Serving(Tail(frames))
      /\ Tail(frames) \in Seq(FrameType) /\ Nested(Tail(frames))
      /\ \A i \in DOMAIN Tail(frames) :
           Tail(frames)[i].handler \in {"handle_timer", "handle_keyboard"} =>
             Tail(frames)[i].line # NoLine
  BY <1>3, ReturnServes
<1>6. /\ pics' \in Pics /\ pics'.master.icw = 0 /\ pics'.master.irr = pics.master.irr
      /\ pics'.master.isr = Serving(Tail(frames)) /\ pics'.master.imr = PIC_EOI
  BY <1>1, <1>4, <1>5, EOIEffect
<1>7. frames' = Tail(frames) /\ IF_' \in BOOLEAN
  BY <1>3 DEF Return
<1>8. 0 \notin Bits(PIC_EOI) /\ 1 \notin Bits(PIC_EOI)
  BY DEF Bits, Pow2, PIC_EOI, Line
<1>9. Initialising' /\ Opened' /\ GatesReady'
  BY <1>1, <1>4, <1>6, <1>8 DEF Initialising, Opened, GatesReady, AfterRemap
<1>10. DeviceFrames' /\ Nested(frames)' /\ InService' /\ NoTripleFault'
  BY <1>5, <1>6, <1>7 DEF DeviceFrames, Nested, InService, Serving, NoTripleFault
<1> QED BY <1>1, <1>5, <1>6, <1>7, <1>9, <1>10

LEMMA handle_timer_Inv == ASSUME IInv, handle_timer PROVE IInv'
<1> USE DEF handle_timer, Running
<1>1. TypeOK
  BY DEF IInv
<1>2. /\ frames' \in Seq(FrameType) /\ IF_' \in BOOLEAN /\ pics' \in Pics
      /\ CASCADE \notin pics'.master.irr
      /\ Initialising' /\ Opened' /\ GatesReady'
      /\ DeviceFrames' /\ Nested(frames)' /\ InService' /\ NoTripleFault'
  BY ReturnInv
<1>3. TypeOK'
  BY <1>1, <1>2 DEF TypeOK, Pics
<1> QED BY <1>2, <1>3 DEF IInv

LEMMA handle_keyboard_Inv == ASSUME IInv, handle_keyboard PROVE IInv'
<1> USE DEF handle_keyboard, Running
<1>1. TypeOK
  BY DEF IInv
<1>2. /\ frames' \in Seq(FrameType) /\ IF_' \in BOOLEAN /\ pics' \in Pics
      /\ CASCADE \notin pics'.master.irr
      /\ Initialising' /\ Opened' /\ GatesReady'
      /\ DeviceFrames' /\ Nested(frames)' /\ InService' /\ NoTripleFault'
  BY ReturnInv
<1>3. echoed' \in Seq(Scancodes \cap 0..127)
  <2>1. PICK s \in (IF kbd = Empty THEN Scancodes ELSE {kbd}) :
          echoed' = IF is_make(s) THEN Append(echoed, s) ELSE echoed
    OBVIOUS
  <2>2. s \in Scancodes /\ echoed \in Seq(Scancodes \cap 0..127)
    BY <1>1 DEF TypeOK
  <2>3. is_make(s) => s \in Scancodes \cap 0..127
    BY <2>2, InterruptsAssumption DEF is_make, Byte
  <2> QED BY <2>1, <2>2, <2>3
<1>4. TypeOK'
  BY <1>1, <1>2, <1>3 DEF TypeOK, Pics
<1> QED BY <1>2, <1>4 DEF IInv

\* An edge on a device line other than the cascade.
LEMMA LatchInv ==
  ASSUME IInv, NEW d \in (0..15) \ {CASCADE}, pics' = latch(pics, d),
         UNCHANGED <<IDT, ist, idtr, IF_, pc, written, frames, reset>>
  PROVE  /\ pics' \in Pics /\ CASCADE \notin pics'.master.irr
         /\ Initialising' /\ Opened' /\ GatesReady'
         /\ DeviceFrames' /\ Nested(frames)' /\ InService' /\ NoTripleFault'
<1>1. /\ CASCADE \notin pics.master.irr /\ Initialising /\ Opened /\ GatesReady
      /\ pics \in Pics
  BY DEF IInv, TypeOK, Pics
<1>2. /\ pics' \in Pics /\ pics'.master.isr = pics.master.isr
      /\ pics'.master.imr = pics.master.imr /\ pics'.master.icw = pics.master.icw
  BY <1>1, LatchType
<1>3. CASCADE \notin pics'.master.irr
  BY <1>1 DEF latch, Pics, PicState
<1>4. Initialising' /\ Opened' /\ GatesReady'
  BY <1>1, <1>2 DEF Initialising, Opened, GatesReady, AfterRemap
<1> QED BY <1>2, <1>3, <1>4, FramesKept

LEMMA Raise_Inv == ASSUME IInv, NEW d \in DeviceLines, Raise(d) PROVE IInv'
<1> USE DEF Raise
<1>1. TypeOK /\ d \in (0..15) \ {CASCADE}
  BY InterruptsAssumption DEF IInv
<1>2. /\ pics' \in Pics /\ CASCADE \notin pics'.master.irr
      /\ Initialising' /\ Opened' /\ GatesReady'
      /\ DeviceFrames' /\ Nested(frames)' /\ InService' /\ NoTripleFault'
  BY <1>1, LatchInv
<1>3. TypeOK'
  BY <1>1, <1>2 DEF TypeOK, Pics
<1> QED BY <1>2, <1>3 DEF IInv

LEMMA KeyPress_Inv == ASSUME IInv, NEW s \in Scancodes, KeyPress(s) PROVE IInv'
<1> USE DEF KeyPress
<1>1. TypeOK /\ 1 \in (0..15) \ {CASCADE}
  BY DEF IInv, CASCADE
<1>2. /\ pics' \in Pics /\ CASCADE \notin pics'.master.irr
      /\ Initialising' /\ Opened' /\ GatesReady'
      /\ DeviceFrames' /\ Nested(frames)' /\ InService' /\ NoTripleFault'
  BY <1>1, LatchInv
<1>3. pressed' \in Seq(Scancodes) /\ kbd' \in Scancodes \cup {Empty}
  BY <1>1 DEF TypeOK
<1>4. TypeOK'
  BY <1>1, <1>2, <1>3 DEF TypeOK, Pics
<1> QED BY <1>2, <1>4 DEF IInv

----------------------------------------------------------------------------
(* The theorems. *)

\* Every step of the interrupt system preserves the invariant.
THEOREM Invariance == Spec => []IInv
<1>1. ASSUME IInv, [Next]_vars PROVE IInv'
  <2>1. CASE Next /\ ~Off
    BY <1>1, <2>1, register_Inv, save_masks_Inv, remap_Inv, unmask_timer_Inv,
       unmask_keyboard_Inv, timer_phase_Inv, load_idt_Inv, sti_Inv, Deliver_Inv,
       Fault_Inv, handle_timer_Inv, handle_keyboard_Inv, Raise_Inv, KeyPress_Inv
       DEF Next, Kernel
  <2>2. CASE UNCHANGED vars
    <3>1. /\ TypeOK /\ CASCADE \notin pics.master.irr /\ Initialising /\ Opened
          /\ GatesReady
      BY <1>1 DEF IInv
    <3>2. TypeOK'
      BY <2>2, <3>1 DEF TypeOK, vars
    <3>3. CASCADE \notin pics'.master.irr /\ Initialising' /\ Opened' /\ GatesReady'
      BY <2>2, <3>1 DEF Initialising, Opened, GatesReady, vars
    <3>4. DeviceFrames' /\ Nested(frames)' /\ InService' /\ NoTripleFault'
      BY <1>1, <2>2, FramesKept DEF vars
    <3> QED BY <3>2, <3>3, <3>4 DEF IInv
  <2> QED BY <1>1, <2>1, <2>2 DEF Off
<1> QED BY <1>1, InitInv, PTL DEF Spec

\* The state of the CPU, the controllers and the devices keeps its type.
THEOREM TypeCorrect == Spec => []TypeOK
<1>1. IInv => TypeOK
  BY DEF IInv
<1> QED BY <1>1, Invariance, PTL

\* Once interrupts are set up, no step masks the timer's or the keyboard's line,
\* although pic_EOI writes the mask register at every interrupt.
THEOREM LinesStayOpen == Spec => []ServedLinesOpen
<1>1. IInv => ServedLinesOpen
  BY DEF IInv, Opened, ServedLinesOpen
<1> QED BY <1>1, Invariance, PTL

\* A handler's non-specific EOI dismisses that handler's own line: what the master
\* has in service is what the frames on the stack are serving, however the
\* interrupts nest.
THEOREM ServiceMatchesStack == Spec => []InService
<1>1. IInv => InService
  BY DEF IInv
<1> QED BY <1>1, Invariance, PTL

\* Once the IDT is loaded, no nesting of interrupts and exceptions ends in a triple
\* fault, as long as the gates' unset ist bits are zero.
THEOREM OnlyGarbageResets == Spec => []NoTripleFault
<1>1. IInv => NoTripleFault
  BY DEF IInv
<1> QED BY <1>1, Invariance, PTL

----------------------------------------------------------------------------
(* What reaches the handlers.  Which vectors the CPU can be handed depends *)
(* on what remap's ten port writes leave in both controllers; whether the  *)
(* keyboard handler reads a scancode that is there depends on where the    *)
(* edge of the key is.                                                     *)

(* The second inductive invariant. *)

\* The initialisation word the slave waits for after n of remap's writes.
SlaveAwaits(n) == <<0, 0, 2, 2, 3, 3, 4, 4, 0, 0, 0>>[n + 1]

\* What init_interrupts has made of the controllers' vectors and masks.
Masks ==
  /\ pc \in {"register", "save_masks"} => pics.master.imr = 255 /\ pics.slave.imr = 255
  /\ pc = "remap" => masks = <<255, 255>>
  /\ pc = "remap" /\ written >= 3 => pics.master.base = pic_master_irq
  /\ pc = "remap" /\ written >= 9 => pics.master.imr = 255
  /\ pics.slave.icw = IF pc \in AfterRemap THEN 0 ELSE SlaveAwaits(written)
  /\ pc \in AfterRemap => pics.master.base = pic_master_irq /\ pics.slave.imr = 255
  /\ pc = "unmask_timer" => pics.master.imr = 255
  /\ pc = "unmask_keyboard" => pics.master.imr = 254
  /\ pc \in {"timer_phase", "load_idt", "sti"} => pics.master.imr = 252
  /\ pc = "run" => pics.master.imr \in {252, PIC_EOI}

\* The two handlers that return are entered for their own lines.
FrameLines ==
  \A i \in DOMAIN frames :
    /\ frames[i].handler = "handle_timer" => frames[i].line = 0
    /\ frames[i].handler = "handle_keyboard" => frames[i].line = 1

\* Line 1 is latched or in service, never both, and only for a scancode that is
\* still in the keyboard's buffer.
KeyLine ==
  /\ 1 \in pics.master.irr \cup pics.master.isr => kbd # Empty
  /\ ~ (1 \in pics.master.irr /\ 1 \in pics.master.isr)

\* Nothing is echoed before interrupts are on.
Quiet == echoed # << >> => pc = "run"

DInv == Masks /\ FrameLines /\ KeyLine /\ Quiet /\ EchoInOrder /\ KeyPending

----------------------------------------------------------------------------
(* The controllers. *)

LEMMA MaskBits ==
  /\ Bits(255) = Line /\ Bits(252) = {2, 3, 4, 5, 6, 7} /\ Bits(PIC_EOI) = {5}
  /\ ClearBit(255, 0) = 254 /\ ClearBit(254, 1) = 252
<1>1. /\ Pow2(0) = 1 /\ Pow2(1) = 2 /\ Pow2(2) = 4 /\ Pow2(3) = 8
      /\ Pow2(4) = 16 /\ Pow2(5) = 32 /\ Pow2(6) = 64 /\ Pow2(7) = 128
  BY DEF Pow2
<1>2. Line = {0, 1, 2, 3, 4, 5, 6, 7}
  BY DEF Line
<1> HIDE DEF Line, Pow2
<1>3. Bits(255) = Line
  BY <1>1, <1>2 DEF Bits
<1>4. Bits(252) = {2, 3, 4, 5, 6, 7}
  BY <1>1, <1>2 DEF Bits
<1>5. Bits(PIC_EOI) = {5}
  BY <1>1, <1>2 DEF Bits, PIC_EOI
<1>6. 0 \in Bits(255) /\ 1 \in Bits(254)
  BY <1>1, <1>2 DEF Bits
<1>7. ClearBit(255, 0) = 254 /\ ClearBit(254, 1) = 252
  BY <1>1, <1>6 DEF ClearBit
<1> QED BY <1>3, <1>4, <1>5, <1>7

\* With the slave masked the CPU is only offered the master's own lines.
LEMMA MasterOnly ==
  ASSUME NEW ps \in Pics, ps.slave.imr = 255, CASCADE \notin ps.master.irr,
         NEW l \in Raised(ps)
  PROVE  /\ l \in Line /\ l # CASCADE /\ l \in ps.master.irr
         /\ l \notin Bits(ps.master.imr)
         /\ Source(ps, l) = l /\ vector(ps, l) = ps.master.base + l
         /\ acknowledge(ps, l).master.irr = ps.master.irr \ {l}
         /\ acknowledge(ps, l).master.isr = ps.master.isr \cup {l}
         /\ acknowledge(ps, l).master.imr = ps.master.imr
         /\ acknowledge(ps, l).master.base = ps.master.base
         /\ acknowledge(ps, l).slave = ps.slave
<1>1. ps.master \in PicState /\ ps.slave \in PicState
  BY DEF Pics
<1>2. Pending(ps.slave) = {}
  BY <1>1, MaskBits DEF Pending, PicState
<1>3. l \in Pending(ps.master)
  BY <1>2 DEF Raised, Offered
<1>4. l \in Line /\ l # CASCADE /\ l \in ps.master.irr /\ l \notin Bits(ps.master.imr)
  BY <1>1, <1>3 DEF Pending, PicState
<1>5. Source(ps, l) = l /\ vector(ps, l) = ps.master.base + l
  BY <1>4 DEF Source, vector
<1> DEFINE m == [ps.master EXCEPT !.isr = ps.master.isr \cup {l},
                                  !.irr = ps.master.irr \ {l}]
<1>6. acknowledge(ps, l) = [master |-> m, slave |-> ps.slave]
  <2>1. acknowledge(ps, l) = [ps EXCEPT !.master.isr = @ \cup {l}, !.master.irr = @ \ {l}]
    BY <1>4 DEF acknowledge
  <2> QED BY <1>1, <2>1 DEF Pics, PicState
<1>7. /\ m.isr = ps.master.isr \cup {l} /\ m.irr = ps.master.irr \ {l}
      /\ m.imr = ps.master.imr /\ m.base = ps.master.base
  BY <1>1 DEF PicState
<1> HIDE DEF m
<1> QED BY <1>4, <1>5, <1>6, <1>7

\* The EOI touches neither the vectors nor the slave.
LEMMA EOIKeeps ==
  ASSUME NEW ps \in Pics, ps.master.icw = 0, NEW irq \in {TIMER, KEYBOARD}
  PROVE  /\ pic_EOI(ps, irq).master.base = ps.master.base
         /\ pic_EOI(ps, irq).slave = ps.slave
<1> DEFINE q == [ps.master EXCEPT !.imr = PIC_EOI]
<1>1. ps.master \in PicState
  BY DEF Pics
<1>2. irq >= 8
  BY DEF TIMER, KEYBOARD
<1>3. data_write(ps.master, PIC_EOI) = q
  BY DEF data_write
<1>4. outb(ps, PIC1_DATA, PIC_EOI) = [master |-> q, slave |-> ps.slave]
  <2>1. outb(ps, PIC1_DATA, PIC_EOI) = [ps EXCEPT !.master = data_write(ps.master, PIC_EOI)]
    BY DEF outb, PIC1_COMMAND, PIC1_DATA, PIC2_COMMAND, PIC2_DATA
  <2> QED BY <1>3, <2>1 DEF Pics
<1>5. q \in PicState /\ q.base = ps.master.base
  BY <1>1 DEF PicState, PIC_EOI, Byte
<1> HIDE DEF q
<1>6. command_write(q, PIC_EOI).base = q.base
  <2>1. \/ command_write(q, PIC_EOI) = [q EXCEPT !.icw = 2, !.imr = 0, !.irr = {}, !.isr = {}]
        \/ command_write(q, PIC_EOI) = [q EXCEPT !.isr = q.isr \ {Highest(q.isr)}]
        \/ command_write(q, PIC_EOI) = q
    BY DEF command_write
  <2> QED BY <1>5, <2>1 DEF PicState
<1>7. outb([master |-> q, slave |-> ps.slave], PIC1_COMMAND, PIC_EOI)
        = [master |-> command_write(q, PIC_EOI), slave |-> ps.slave]
  BY DEF outb, PIC1_COMMAND, PIC1_DATA, PIC2_COMMAND, PIC2_DATA
<1>8. pic_EOI(ps, irq) = [master |-> command_write(q, PIC_EOI), slave |-> ps.slave]
  BY <1>2, <1>4, <1>7 DEF pic_EOI
<1> QED BY <1>5, <1>6, <1>8

\* An edge reaches no mask and no vector, and line 1 only from the keyboard.
LEMMA LatchKeeps ==
  ASSUME NEW ps \in Pics, NEW d \in 0..15
  PROVE  /\ latch(ps, d).master.base = ps.master.base
         /\ latch(ps, d).master.imr = ps.master.imr
         /\ latch(ps, d).master.isr = ps.master.isr
         /\ latch(ps, d).slave.imr = ps.slave.imr
         /\ latch(ps, d).slave.icw = ps.slave.icw
         /\ d = 1 => 1 \in latch(ps, d).master.irr
         /\ d # 1 => (1 \in latch(ps, d).master.irr <=> 1 \in ps.master.irr)
<1>1. CASE d < 8
  <2>1. latch(ps, d) = [ps EXCEPT !.master.irr = @ \cup {d}]
    BY <1>1 DEF latch
  <2> QED BY <2>1 DEF Pics, PicState
<1>2. CASE ~ (d < 8)
  <2>1. latch(ps, d) = [ps EXCEPT !.slave.irr = @ \cup {d - 8}]
    BY <1>2 DEF latch
  <2> QED BY <1>2, <2>1 DEF Pics, PicState
<1> QED BY <1>1, <1>2

\* unmask reaches the master alone for the lines the kernel opens.
LEMMA UnmaskKeeps ==
  ASSUME NEW ps \in Pics, NEW l \in {0, 1}
  PROVE  unmask(ps, l).slave = ps.slave
<1>1. unmask(ps, l) = outb(ps, PIC1_DATA, ClearBit(inb(ps, PIC1_DATA), l % 8))
  BY DEF unmask, DataPort
<1> QED BY <1>1 DEF outb, Pics, PIC1_COMMAND, PIC1_DATA, PIC2_COMMAND, PIC2_DATA

\* A data write in each state of a controller.
LEMMA DataWriteEffect ==
  ASSUME NEW p \in PicState, NEW b \in Byte
  PROVE  /\ data_write(p, b).irr = p.irr
         /\ p.icw = 2 => /\ data_write(p, b).icw = 3 /\ data_write(p, b).base = b
                         /\ data_write(p, b).imr = p.imr
         /\ p.icw = 3 => /\ data_write(p, b).icw = 4 /\ data_write(p, b).base = p.base
                         /\ data_write(p, b).imr = p.imr
         /\ p.icw = 4 => /\ data_write(p, b).icw = 0 /\ data_write(p, b).base = p.base
                         /\ data_write(p, b).imr = p.imr
         /\ p.icw = 0 => /\ data_write(p, b).icw = 0 /\ data_write(p, b).base = p.base
                         /\ data_write(p, b).imr = b
BY DEF data_write, PicState

\* What remap's next write does to the vectors, the masks and line 1.
LEMMA RemapEffect ==
  ASSUME pics \in Pics, masks = <<255, 255>>, written \in 0..9,
         pics.master.icw = Awaits(written), pics.slave.icw = SlaveAwaits(written),
         written >= 3 => pics.master.base = pic_master_irq,
         written >= 9 => pics.master.imr = 255,
         NEW next, next = outb(pics, Write[1], Write[2])
  PROVE  /\ next.slave.icw = SlaveAwaits(written + 1)
         /\ written + 1 >= 3 => next.master.base = pic_master_irq
         /\ written + 1 >= 9 => next.master.imr = 255
         /\ written = 9 => next.slave.imr = 255
         /\ 1 \in next.master.irr => 1 \in pics.master.irr
<1> USE DEF Write, remap_writes, pic_master_irq, pic_slave_irq, ICW1, ICW4_8086,
            PIC1_COMMAND, PIC1_DATA, PIC2_COMMAND, PIC2_DATA
<1>1. pics.master \in PicState /\ pics.slave \in PicState
  BY DEF Pics
<1>2. 4 \in Bits(17)
  BY DEF Bits, Pow2, Line
<1>3. /\ command_write(pics.master, 17).irr = {}
      /\ command_write(pics.slave, 17).icw = 2
  BY <1>1, <1>2 DEF command_write, PicState
<1>4. \A b : /\ outb(pics, 32, b) = [pics EXCEPT !.master = command_write(pics.master, b)]
             /\ outb(pics, 33, b) = [pics EXCEPT !.master = data_write(pics.master, b)]
             /\ outb(pics, 160, b) = [pics EXCEPT !.slave = command_write(pics.slave, b)]
             /\ outb(pics, 161, b) = [pics EXCEPT !.slave = data_write(pics.slave, b)]
  BY DEF outb
<1>5. \A b : /\ outb(pics, 32, b).master = command_write(pics.master, b)
             /\ outb(pics, 32, b).slave = pics.slave
             /\ outb(pics, 33, b).master = data_write(pics.master, b)
             /\ outb(pics, 33, b).slave = pics.slave
             /\ outb(pics, 160, b).slave = command_write(pics.slave, b)
             /\ outb(pics, 160, b).master = pics.master
             /\ outb(pics, 161, b).slave = data_write(pics.slave, b)
             /\ outb(pics, 161, b).master = pics.master
  BY <1>4 DEF Pics
<1>6. {32, 40, 4, 2, 1, 255} \subseteq Byte
  BY DEF Byte
<1>7. CASE written = 0
  <2>1. Write[1] = 32 /\ Write[2] = 17
    BY <1>7
  <2>2. /\ pics.master.icw = 0 /\ pics.slave.icw = 0
        /\ SlaveAwaits(written + 1) = 0
    BY <1>7 DEF Awaits, SlaveAwaits
  <2> HIDE DEF Write
  <2> QED BY <1>1, <1>3, <1>5, <1>6, <1>7, <2>1, <2>2, DataWriteEffect
<1>8. CASE written = 1
  <2>1. Write[1] = 160 /\ Write[2] = 17
    BY <1>8
  <2>2. /\ pics.master.icw = 2 /\ pics.slave.icw = 0
        /\ SlaveAwaits(written + 1) = 2
    BY <1>8 DEF Awaits, SlaveAwaits
  <2> HIDE DEF Write
  <2> QED BY <1>1, <1>3, <1>5, <1>6, <1>8, <2>1, <2>2, DataWriteEffect
<1>9. CASE written = 2
  <2>1. Write[1] = 33 /\ Write[2] = 32
    BY <1>9
  <2>2. /\ pics.master.icw = 2 /\ pics.slave.icw = 2
        /\ SlaveAwaits(written + 1) = 2
    BY <1>9 DEF Awaits, SlaveAwaits
  <2> HIDE DEF Write
  <2> QED BY <1>1, <1>3, <1>5, <1>6, <1>9, <2>1, <2>2, DataWriteEffect
<1>10. CASE written = 3
  <2>1. Write[1] = 161 /\ Write[2] = 40
    BY <1>10
  <2>2. /\ pics.master.icw = 3 /\ pics.slave.icw = 2
        /\ SlaveAwaits(written + 1) = 3
    BY <1>10 DEF Awaits, SlaveAwaits
  <2> HIDE DEF Write
  <2> QED BY <1>1, <1>3, <1>5, <1>6, <1>10, <2>1, <2>2, DataWriteEffect
<1>11. CASE written = 4
  <2>1. Write[1] = 33 /\ Write[2] = 4
    BY <1>11
  <2>2. /\ pics.master.icw = 3 /\ pics.slave.icw = 3
        /\ SlaveAwaits(written + 1) = 3
    BY <1>11 DEF Awaits, SlaveAwaits
  <2> HIDE DEF Write
  <2> QED BY <1>1, <1>3, <1>5, <1>6, <1>11, <2>1, <2>2, DataWriteEffect
<1>12. CASE written = 5
  <2>1. Write[1] = 161 /\ Write[2] = 2
    BY <1>12
  <2>2. /\ pics.master.icw = 4 /\ pics.slave.icw = 3
        /\ SlaveAwaits(written + 1) = 4
    BY <1>12 DEF Awaits, SlaveAwaits
  <2> HIDE DEF Write
  <2> QED BY <1>1, <1>3, <1>5, <1>6, <1>12, <2>1, <2>2, DataWriteEffect
<1>13. CASE written = 6
  <2>1. Write[1] = 33 /\ Write[2] = 1
    BY <1>13
  <2>2. /\ pics.master.icw = 4 /\ pics.slave.icw = 4
        /\ SlaveAwaits(written + 1) = 4
    BY <1>13 DEF Awaits, SlaveAwaits
  <2> HIDE DEF Write
  <2> QED BY <1>1, <1>3, <1>5, <1>6, <1>13, <2>1, <2>2, DataWriteEffect
<1>14. CASE written = 7
  <2>1. Write[1] = 161 /\ Write[2] = 1
    BY <1>14
  <2>2. /\ pics.master.icw = 0 /\ pics.slave.icw = 4
        /\ SlaveAwaits(written + 1) = 0
    BY <1>14 DEF Awaits, SlaveAwaits
  <2> HIDE DEF Write
  <2> QED BY <1>1, <1>3, <1>5, <1>6, <1>14, <2>1, <2>2, DataWriteEffect
<1>15. CASE written = 8
  <2>1. Write[1] = 33 /\ Write[2] = 255
    BY <1>15
  <2>2. /\ pics.master.icw = 0 /\ pics.slave.icw = 0
        /\ SlaveAwaits(written + 1) = 0
    BY <1>15 DEF Awaits, SlaveAwaits
  <2> HIDE DEF Write
  <2> QED BY <1>1, <1>3, <1>5, <1>6, <1>15, <2>1, <2>2, DataWriteEffect
<1>16. CASE written = 9
  <2>1. Write[1] = 161 /\ Write[2] = 255
    BY <1>16
  <2>2. /\ pics.master.icw = 0 /\ pics.slave.icw = 0
        /\ SlaveAwaits(written + 1) = 0
    BY <1>16 DEF Awaits, SlaveAwaits
  <2> HIDE DEF Write
  <2> QED BY <1>1, <1>3, <1>5, <1>6, <1>16, <2>1, <2>2, DataWriteEffect
<1> HIDE DEF Write
<1> QED BY <1>7, <1>8, <1>9, <1>10, <1>11, <1>12, <1>13, <1>14, <1>15, <1>16

----------------------------------------------------------------------------
(* Every action preserves the invariant. *)

LEMMA InitDelivery == Init => DInv
<1> SUFFICES ASSUME Init PROVE DInv
  OBVIOUS
<1> USE DEF Init
<1>1. Masks
  BY DEF Masks, AfterRemap, SlaveAwaits
<1>2. FrameLines /\ KeyLine /\ Quiet /\ KeyPending
  BY DEF FrameLines, KeyLine, Quiet, KeyPending
<1>3. EchoInOrder
  BY DEF EchoInOrder
<1> QED BY <1>1, <1>2, <1>3 DEF DInv

\* A step that leaves the keyboard, the frames and line 1 as they are.
LEMMA KeysKept ==
  ASSUME DInv, UNCHANGED <<frames, kbd, pressed, echoed>>,
         echoed # << >> => UNCHANGED pc,
         1 \in pics'.master.irr <=> 1 \in pics.master.irr,
         1 \in pics'.master.isr <=> 1 \in pics.master.isr
  PROVE  FrameLines' /\ KeyLine' /\ Quiet' /\ EchoInOrder' /\ KeyPending'
<1>1. FrameLines /\ KeyLine /\ Quiet /\ EchoInOrder /\ KeyPending
  BY DEF DInv
<1> QED BY <1>1 DEF FrameLines, KeyLine, Quiet, EchoInOrder, KeyPending

LEMMA register_Delivery == ASSUME IInv, DInv, register PROVE DInv'
<1> USE DEF register
<1>1. Masks /\ Quiet /\ Initialising
  BY DEF IInv, DInv
<1>2. Masks'
  BY <1>1 DEF Masks, AfterRemap
<1>3. FrameLines' /\ KeyLine' /\ Quiet' /\ EchoInOrder' /\ KeyPending'
  BY <1>1, KeysKept DEF Quiet
<1> QED BY <1>2, <1>3 DEF DInv

LEMMA save_masks_Delivery == ASSUME IInv, DInv, save_masks PROVE DInv'
<1> USE DEF save_masks
<1>1. Masks /\ Quiet /\ Initialising
  BY DEF IInv, DInv
<1>2. written = 0
  BY <1>1 DEF Initialising
<1>3. masks' = <<255, 255>>
  BY <1>1 DEF Masks, inb, PIC1_DATA, PIC2_DATA
<1>4. Masks'
  BY <1>1, <1>2, <1>3 DEF Masks, AfterRemap
<1>5. FrameLines' /\ KeyLine' /\ Quiet' /\ EchoInOrder' /\ KeyPending'
  BY <1>1, KeysKept DEF Quiet
<1> QED BY <1>4, <1>5 DEF DInv

\* remap may lose the edge of a key, but nothing has been echoed by then.
LEMMA remap_Delivery == ASSUME IInv, DInv, remap PROVE DInv'
<1> USE DEF remap, KernelRuns
<1>1. /\ Masks /\ FrameLines /\ KeyLine /\ Quiet /\ EchoInOrder /\ TypeOK /\ Initialising
      /\ CASCADE \notin pics.master.irr
  BY DEF IInv, DInv
<1>2. pics.master.isr = {}
  BY DEF IInv, InService, Serving
<1>3. /\ pics \in Pics /\ masks = <<255, 255>> /\ masks[1] \in Byte /\ masks[2] \in Byte
      /\ written \in 0..9
      /\ pics.master.icw = Awaits(written) /\ pics.slave.icw = SlaveAwaits(written)
      /\ written >= 3 => pics.master.base = pic_master_irq
      /\ written >= 9 => pics.master.imr = 255
  BY <1>1 DEF TypeOK, Pics, Initialising, AfterRemap, Masks
<1>4. pics' = outb(pics, Write[1], Write[2])
  BY DEF Write, RemapProgram
<1>5. /\ pics'.slave.icw = SlaveAwaits(written + 1)
      /\ written + 1 >= 3 => pics'.master.base = pic_master_irq
      /\ written + 1 >= 9 => pics'.master.imr = 255
      /\ written = 9 => pics'.slave.imr = 255
      /\ 1 \in pics'.master.irr => 1 \in pics.master.irr
  <2> HIDE DEF remap, KernelRuns
  <2> QED BY <1>3, <1>4, RemapEffect
<1>6. pics'.master.isr = {}
  <2> HIDE DEF remap, KernelRuns
  <2> QED BY <1>1, <1>2, <1>3, <1>4, RemapStep
<1>7. Len(RemapProgram) = 10
  BY DEF RemapProgram, remap_writes
<1>8. /\ written' = written + 1
      /\ pc' = IF written = 9 THEN "unmask_timer" ELSE "remap"
  <2>1. written + 1 = 10 <=> written = 9
    BY <1>3
  <2> QED BY <1>7, <2>1, Zenon
<1>9. Masks'
  <2>1. CASE written = 9
    BY <1>5, <1>8, <2>1 DEF Masks, AfterRemap, SlaveAwaits
  <2>2. CASE written # 9
    BY <1>3, <1>5, <1>8, <2>2 DEF Masks, AfterRemap
  <2> QED BY <2>1, <2>2
<1>10. echoed = << >>
  BY <1>1 DEF Quiet
<1>11. FrameLines' /\ KeyLine' /\ Quiet' /\ EchoInOrder' /\ KeyPending'
  BY <1>1, <1>5, <1>6, <1>10 DEF FrameLines, KeyLine, Quiet, EchoInOrder, KeyPending
<1> QED BY <1>9, <1>11 DEF DInv

LEMMA unmask_timer_Delivery == ASSUME IInv, DInv, unmask_timer PROVE DInv'
<1> USE DEF unmask_timer
<1>1. /\ Masks /\ Quiet /\ pics \in Pics /\ pics.master \in PicState /\ pics.master.icw = 0
  BY DEF IInv, DInv, TypeOK, Pics, Initialising, AfterRemap
<1>2. TIMER - pic_master_irq = 0
  BY DEF TIMER, pic_master_irq
<1>3. /\ pics'.master = [pics.master EXCEPT !.imr = ClearBit(pics.master.imr, 0)]
      /\ pics'.slave = pics.slave
  BY <1>1, <1>2, UnmaskEffect, UnmaskKeeps
<1>4. /\ pics'.master.isr = pics.master.isr /\ pics'.master.irr = pics.master.irr
      /\ pics'.master.base = pics.master.base
      /\ pics'.master.imr = ClearBit(pics.master.imr, 0)
  BY <1>1, <1>3 DEF PicState
<1>5. pics.master.imr = 255
  BY <1>1 DEF Masks
<1>6. Masks'
  BY <1>1, <1>3, <1>4, <1>5, MaskBits DEF Masks, AfterRemap
<1>7. FrameLines' /\ KeyLine' /\ Quiet' /\ EchoInOrder' /\ KeyPending'
  BY <1>1, <1>4, KeysKept DEF Quiet
<1> QED BY <1>6, <1>7 DEF DInv

LEMMA unmask_keyboard_Delivery == ASSUME IInv, DInv, unmask_keyboard PROVE DInv'
<1> USE DEF unmask_keyboard
<1>1. /\ Masks /\ Quiet /\ pics \in Pics /\ pics.master \in PicState /\ pics.master.icw = 0
  BY DEF IInv, DInv, TypeOK, Pics, Initialising, AfterRemap
<1>2. KEYBOARD - pic_master_irq = 1
  BY DEF KEYBOARD, pic_master_irq
<1>3. /\ pics'.master = [pics.master EXCEPT !.imr = ClearBit(pics.master.imr, 1)]
      /\ pics'.slave = pics.slave
  BY <1>1, <1>2, UnmaskEffect, UnmaskKeeps
<1>4. /\ pics'.master.isr = pics.master.isr /\ pics'.master.irr = pics.master.irr
      /\ pics'.master.base = pics.master.base
      /\ pics'.master.imr = ClearBit(pics.master.imr, 1)
  BY <1>1, <1>3 DEF PicState
<1>5. pics.master.imr = 254
  BY <1>1 DEF Masks
<1>6. Masks'
  BY <1>1, <1>3, <1>4, <1>5, MaskBits DEF Masks, AfterRemap
<1>7. FrameLines' /\ KeyLine' /\ Quiet' /\ EchoInOrder' /\ KeyPending'
  BY <1>1, <1>4, KeysKept DEF Quiet
<1> QED BY <1>6, <1>7 DEF DInv

LEMMA timer_phase_Delivery == ASSUME IInv, DInv, timer_phase(Hz) PROVE DInv'
<1> USE DEF timer_phase
<1>1. Masks /\ Quiet
  BY DEF DInv
<1>2. Masks'
  BY <1>1 DEF Masks, AfterRemap
<1>3. FrameLines' /\ KeyLine' /\ Quiet' /\ EchoInOrder' /\ KeyPending'
  BY <1>1, KeysKept DEF Quiet
<1> QED BY <1>2, <1>3 DEF DInv

LEMMA load_idt_Delivery == ASSUME IInv, DInv, load_idt PROVE DInv'
<1> USE DEF load_idt
<1>1. Masks /\ Quiet
  BY DEF DInv
<1>2. Masks'
  BY <1>1 DEF Masks, AfterRemap
<1>3. FrameLines' /\ KeyLine' /\ Quiet' /\ EchoInOrder' /\ KeyPending'
  BY <1>1, KeysKept DEF Quiet
<1> QED BY <1>2, <1>3 DEF DInv

LEMMA sti_Delivery == ASSUME IInv, DInv, sti PROVE DInv'
<1> USE DEF sti
<1>1. Masks /\ Quiet
  BY DEF DInv
<1>2. Masks'
  BY <1>1 DEF Masks, AfterRemap
<1>3. FrameLines' /\ KeyLine' /\ Quiet' /\ EchoInOrder' /\ KeyPending'
  BY <1>1, KeysKept DEF Quiet
<1> QED BY <1>2, <1>3 DEF DInv

\* The frame an entry pushes runs a handler that returns only for that handler's
\* own vector.
LEMMA EnterOwn ==
  ASSUME IInv, idtr, ist = 0, NEW v, NEW d, Enter(v, d), UNCHANGED <<ist, IDT>>
  PROVE  \E f :
           /\ f.line = d /\ frames' = <<f>> \o frames
           /\ f.handler = "handle_timer" => v = TIMER
           /\ f.handler = "handle_keyboard" => v = KEYBOARD
<1> DEFINE w == IF v \in DOMAIN IDT THEN v ELSE DOUBLE_FAULT
           f == [handler |-> IDT[w].handler, line |-> d, flags |-> IF_]
<1>1. GatesReady
  BY DEF IInv
<1>2. pc \in {"sti", "run"}
  BY <1>1, Zenon DEF GatesReady
<1>3. IDT = [u \in Handled |-> routine(u)]
  BY <1>1, <1>2 DEF GatesReady
<1>4. DOMAIN IDT = Handled /\ w \in Handled /\ IDT[w] = routine(w)
  BY <1>3 DEF Handled
<1>5. /\ routine(w).handler = "handle_timer" => w = TIMER
      /\ routine(w).handler = "handle_keyboard" => w = KEYBOARD
  <2> HIDE DEF w
  <2> QED BY <1>4 DEF Handled, routine, gate_descriptor_t, DIV_ERROR, DOUBLE_FAULT,
             GENERAL_PROTECTION_FAULT, PAGE_FAULT, TIMER, KEYBOARD
<1>6. w \in {TIMER, KEYBOARD} => w = v
  BY DEF DOUBLE_FAULT, TIMER, KEYBOARD
<1>7. frames' = <<f>> \o frames
  BY <1>4 DEF Enter
<1>8. f.handler = routine(w).handler /\ f.line = d
  BY <1>4
<1> HIDE DEF f, w
<1> WITNESS f
<1> QED BY <1>5, <1>6, <1>7, <1>8

\* Pushing a frame for its own line.
LEMMA PushLines ==
  ASSUME IInv, FrameLines, NEW f, frames' = <<f>> \o frames,
         f.handler = "handle_timer" => f.line = 0,
         f.handler = "handle_keyboard" => f.line = 1
  PROVE  FrameLines'
<1>1. frames \in Seq(FrameType)
  BY DEF IInv, TypeOK
<1>2. /\ DOMAIN frames' = 1..(Len(frames) + 1) /\ DOMAIN frames = 1..Len(frames)
      /\ Len(frames) \in Nat /\ frames'[1] = f
      /\ \A i \in 1..Len(frames) : frames'[i + 1] = frames[i]
  BY <1>1
<1>3. \A i \in DOMAIN frames' :
        i = 1 \/ (i - 1 \in DOMAIN frames /\ frames'[i] = frames[i - 1])
  BY <1>2
<1> QED BY <1>2, <1>3 DEF FrameLines

LEMMA Deliver_Delivery == ASSUME IInv, DInv, NEW l \in Line, Deliver(l) PROVE DInv'
<1> USE DEF Deliver
<1>1. /\ Masks /\ FrameLines /\ KeyLine /\ Quiet /\ EchoInOrder /\ KeyPending
      /\ pics \in Pics /\ CASCADE \notin pics.master.irr /\ GatesReady
  BY DEF IInv, DInv, TypeOK, Pics
<1>2. pc = "run" /\ pc' = "run" /\ idtr
  <2>1. pc = "run" /\ pc' = "run"
    BY <1>1 DEF GatesReady
  <2>2. idtr
    BY <1>1, <2>1, Zenon DEF GatesReady
  <2> QED BY <2>1, <2>2
<1>3. pics.slave.imr = 255 /\ pics.master.base = 32
  BY <1>1, <1>2 DEF Masks, AfterRemap, pic_master_irq
<1>4. /\ l \in pics.master.irr
      /\ Source(pics, l) = l /\ vector(pics, l) = pics.master.base + l
      /\ pics'.master.irr = pics.master.irr \ {l}
      /\ pics'.master.isr = pics.master.isr \cup {l}
      /\ pics'.master.imr = pics.master.imr
      /\ pics'.master.base = pics.master.base
      /\ pics'.slave = pics.slave
  BY <1>1, <1>3, MasterOnly
<1>5. Masks'
  BY <1>1, <1>2, <1>4 DEF Masks
<1>6. KeyLine' /\ Quiet' /\ EchoInOrder' /\ KeyPending'
  BY <1>1, <1>2, <1>4 DEF KeyLine, Quiet, EchoInOrder, KeyPending
<1>7. Enter(32 + l, l)
  BY <1>3, <1>4
<1>8. FrameLines'
  <2>1. CASE ist = 0
    <3> HIDE DEF Deliver
    <3>1. UNCHANGED <<ist, IDT>>
      BY DEF Deliver
    <3>2. PICK f :
            /\ f.line = l /\ frames' = <<f>> \o frames
            /\ f.handler = "handle_timer" => 32 + l = TIMER
            /\ f.handler = "handle_keyboard" => 32 + l = KEYBOARD
      BY <1>2, <1>7, <2>1, <3>1, EnterOwn, Zenon
    <3>3. (32 + l = TIMER => l = 0) /\ (32 + l = KEYBOARD => l = 1)
      BY DEF Line, TIMER, KEYBOARD
    <3> QED BY <1>1, <3>2, <3>3, PushLines, Zenon
  <2>2. CASE ist # 0
    BY <1>1, <1>7, <2>2, EnterResets DEF FrameLines
  <2> QED BY <2>1, <2>2
<1> QED BY <1>5, <1>6, <1>8 DEF DInv

LEMMA Fault_Delivery == ASSUME IInv, DInv, NEW v \in Faults, Fault(v) PROVE DInv'
<1> USE DEF Fault
<1>1. Masks /\ FrameLines /\ KeyLine /\ Quiet /\ EchoInOrder /\ KeyPending
  BY DEF DInv
<1>2. Enter(v, NoLine) /\ UNCHANGED <<ist, idtr, IDT, pics, pc, masks, written>>
  OBVIOUS
<1>3. v # TIMER /\ v # KEYBOARD
  BY InterruptsAssumption DEF TIMER, KEYBOARD
<1>4. Masks' /\ KeyLine' /\ Quiet' /\ EchoInOrder' /\ KeyPending'
  BY <1>1, <1>2 DEF Masks, KeyLine, Quiet, EchoInOrder, KeyPending
<1>5. FrameLines'
  <2> HIDE DEF Fault
  <2>1. CASE idtr /\ ist = 0
    <3>1. PICK f :
            /\ f.line = NoLine /\ frames' = <<f>> \o frames
            /\ f.handler = "handle_timer" => v = TIMER
            /\ f.handler = "handle_keyboard" => v = KEYBOARD
      BY <1>2, <2>1, EnterOwn
    <3> QED BY <1>1, <1>3, <3>1, PushLines
  <2>2. CASE ~ (idtr /\ ist = 0)
    <3>1. ist # 0 \/ ~idtr
      BY <2>2
    <3>2. UNCHANGED frames
      BY <1>2, <3>1, EnterResets, Zenon
    <3> QED BY <1>1, <3>2 DEF FrameLines
  <2> QED BY <2>1, <2>2
<1> QED BY <1>4, <1>5 DEF DInv

\* A return takes the innermost handler's own line out of service.
LEMMA ReturnOwn ==
  ASSUME IInv, DInv, ~reset, frames # << >>, NEW l \in {0, 1},
         Head(frames).handler = IF l = 0 THEN "handle_timer" ELSE "handle_keyboard",
         Return, NEW irq \in {TIMER, KEYBOARD}, pics' = pic_EOI(pics, irq),
         UNCHANGED <<pc, written, masks>>
  PROVE  /\ pc = "run" /\ l \in pics.master.isr
         /\ pics'.master.irr = pics.master.irr
         /\ pics'.master.isr = pics.master.isr \ {l}
         /\ Masks' /\ FrameLines'
<1>1. /\ Masks /\ FrameLines /\ pics \in Pics /\ GatesReady /\ Initialising /\ DeviceFrames
      /\ frames \in Seq(FrameType) /\ Nested(frames) /\ pics.master.isr = Serving(frames)
  BY DEF IInv, DInv, TypeOK, Pics, InService
<1>2. Head(frames) = frames[1] /\ 1 \in DOMAIN frames
  BY <1>1
<1>3. Head(frames).line = l
  BY <1>1, <1>2 DEF FrameLines
<1>4. Head(frames).line # NoLine /\ MasterLine(Head(frames).line) = l
  BY <1>3 DEF NoLine, MasterLine
<1>5. pc = "run" /\ pics.master.icw = 0
  BY <1>1, <1>2, <1>4 DEF GatesReady, Initialising, AfterRemap
<1>6. l \in pics.master.isr /\ Serving(Tail(frames)) = pics.master.isr \ {l}
  BY <1>1, <1>4, Pop
<1>7. /\ pics.master.isr # {}
      /\ pics.master.isr \ {Highest(pics.master.isr)} = Serving(Tail(frames))
  BY <1>4, ReturnServes
<1>8. /\ pics'.master.irr = pics.master.irr
      /\ pics'.master.isr = pics.master.isr \ {l}
      /\ pics'.master.imr = PIC_EOI
  BY <1>1, <1>5, <1>6, <1>7, EOIEffect
<1>9. pics'.master.base = pics.master.base /\ pics'.slave = pics.slave
  BY <1>1, <1>5, EOIKeeps
<1>10. Masks'
  BY <1>1, <1>5, <1>8, <1>9 DEF Masks
<1>11. FrameLines'
  <2>1. frames' = Tail(frames)
    BY DEF Return
  <2>2. \A i \in DOMAIN Tail(frames) :
          i + 1 \in DOMAIN frames /\ Tail(frames)[i] = frames[i + 1]
    BY <1>1
  <2> QED BY <1>1, <2>1, <2>2 DEF FrameLines
<1> QED BY <1>5, <1>6, <1>8, <1>10, <1>11

LEMMA handle_timer_Delivery == ASSUME IInv, DInv, handle_timer PROVE DInv'
<1> USE DEF handle_timer, Running
<1>1. KeyLine /\ Quiet /\ EchoInOrder /\ KeyPending
  BY DEF DInv
<1> DEFINE l == 0
<1>2. /\ pc = "run"
      /\ pics'.master.irr = pics.master.irr
      /\ pics'.master.isr = pics.master.isr \ {l}
      /\ Masks' /\ FrameLines'
  <2>1. l \in {0, 1} /\ Head(frames).handler = IF l = 0 THEN "handle_timer" ELSE "handle_keyboard"
    OBVIOUS
  <2> HIDE DEF l
  <2> QED BY <2>1, ReturnOwn
<1>3. KeyLine' /\ Quiet' /\ EchoInOrder' /\ KeyPending'
  BY <1>1, <1>2 DEF KeyLine, Quiet, EchoInOrder, KeyPending
<1> QED BY <1>2, <1>3 DEF DInv

LEMMA handle_keyboard_Delivery == ASSUME IInv, DInv, handle_keyboard PROVE DInv'
<1> USE DEF handle_keyboard, Running
<1>1. KeyLine /\ Quiet /\ EchoInOrder /\ KeyPending /\ TypeOK
  BY DEF DInv, IInv
<1> DEFINE l == 1
<1>2. /\ pc = "run" /\ l \in pics.master.isr
      /\ pics'.master.irr = pics.master.irr
      /\ pics'.master.isr = pics.master.isr \ {l}
      /\ Masks' /\ FrameLines'
  <2>1. l \in {0, 1} /\ Head(frames).handler = IF l = 0 THEN "handle_timer" ELSE "handle_keyboard"
    OBVIOUS
  <2> HIDE DEF l
  <2> QED BY <2>1, ReturnOwn
<1>3. kbd # Empty /\ 1 \notin pics.master.irr
  BY <1>1, <1>2 DEF KeyLine
<1>4. echoed' = IF is_make(kbd) THEN Append(echoed, kbd) ELSE echoed
  BY <1>3
<1>5. KeyLine' /\ Quiet' /\ KeyPending'
  BY <1>2, <1>3 DEF KeyLine, Quiet, KeyPending
<1>6. EchoInOrder'
  <2>1. kbd' = Empty /\ pressed' = pressed
    OBVIOUS
  <2>2. kbd \in Scancodes /\ echoed \in Seq(Scancodes) /\ echoed' \in Seq(Scancodes)
    <3>1. echoed \in Seq(Scancodes \cap 0..127)
      BY <1>1 DEF TypeOK
    <3>2. echoed \in Seq(Scancodes)
      BY <3>1
    <3> QED BY <1>1, <1>3, <1>4, <3>2 DEF TypeOK
  <2>3. pressed' = echoed'
    <3>1. CASE kbd < 128
      BY <1>1, <1>3, <1>4, <2>1, <2>2, <3>1 DEF EchoInOrder, is_make
    <3>2. CASE ~ (kbd < 128)
      BY <1>1, <1>3, <1>4, <2>1, <2>2, <3>2 DEF EchoInOrder, is_make
    <3> QED BY <3>1, <3>2
  <2> QED BY <2>1, <2>2, <2>3 DEF EchoInOrder
<1> QED BY <1>2, <1>5, <1>6 DEF DInv

LEMMA Raise_Delivery == ASSUME IInv, DInv, NEW d \in DeviceLines, Raise(d) PROVE DInv'
<1> USE DEF Raise
<1>1. /\ Masks /\ pics \in Pics
  BY DEF IInv, DInv, TypeOK, Pics
<1>2. d \in 0..15 /\ d # 1
  BY InterruptsAssumption
<1>3. /\ pics'.master.base = pics.master.base /\ pics'.master.imr = pics.master.imr
      /\ pics'.master.isr = pics.master.isr
      /\ pics'.slave.imr = pics.slave.imr /\ pics'.slave.icw = pics.slave.icw
      /\ 1 \in pics'.master.irr <=> 1 \in pics.master.irr
  BY <1>1, <1>2, LatchKeeps
<1>4. Masks'
  BY <1>1, <1>3 DEF Masks
<1>5. FrameLines' /\ KeyLine' /\ Quiet' /\ EchoInOrder' /\ KeyPending'
  BY <1>3, KeysKept
<1> QED BY <1>4, <1>5 DEF DInv

LEMMA KeyPress_Delivery == ASSUME IInv, DInv, NEW s \in Scancodes, KeyPress(s) PROVE DInv'
<1> USE DEF KeyPress
<1>1. /\ Masks /\ FrameLines /\ KeyLine /\ Quiet /\ EchoInOrder
      /\ pics \in Pics /\ echoed \in Seq(Scancodes \cap 0..127)
  BY DEF IInv, DInv, TypeOK, Pics
<1>2. kbd = Empty /\ kbd' = s /\ s # Empty
  BY InterruptsAssumption DEF Empty, Byte
<1> DEFINE d == 1
<1>3. d \in 0..15 /\ d = 1 /\ pics' = latch(pics, d)
  OBVIOUS
<1> HIDE DEF d
<1>4. /\ pics'.master.base = pics.master.base /\ pics'.master.imr = pics.master.imr
      /\ pics'.master.isr = pics.master.isr
      /\ pics'.slave.imr = pics.slave.imr /\ pics'.slave.icw = pics.slave.icw
      /\ 1 \in pics'.master.irr
  BY <1>1, <1>3, LatchKeeps
<1>5. Masks'
  BY <1>1, <1>4 DEF Masks
<1>6. FrameLines' /\ KeyLine' /\ Quiet' /\ KeyPending'
  BY <1>1, <1>2, <1>4 DEF FrameLines, KeyLine, Quiet, KeyPending
<1>7. EchoInOrder'
  <2>1. pressed = echoed
    BY <1>1, <1>2 DEF EchoInOrder
  <2>2. echoed' = echoed /\ pressed' = IF s < 128 THEN Append(pressed, s) ELSE pressed
    OBVIOUS
  <2> QED BY <1>1, <1>2, <2>1, <2>2 DEF EchoInOrder
<1> QED BY <1>5, <1>6, <1>7 DEF DInv

----------------------------------------------------------------------------
(* The theorems. *)

\* Every step of the interrupt system preserves what is known of the masks, the
\* vectors, the frames' lines and the keyboard's edge.
THEOREM DeliveryInvariance == Spec => [](IInv /\ DInv)
<1>1. ASSUME IInv, DInv, [Next]_vars PROVE DInv'
  <2>1. CASE Next /\ ~Off
    BY <1>1, <2>1, register_Delivery, save_masks_Delivery, remap_Delivery,
       unmask_timer_Delivery, unmask_keyboard_Delivery, timer_phase_Delivery,
       load_idt_Delivery, sti_Delivery, Deliver_Delivery, Fault_Delivery,
       handle_timer_Delivery, handle_keyboard_Delivery, Raise_Delivery,
       KeyPress_Delivery
       DEF Next, Kernel
  <2>2. CASE UNCHANGED vars
    <3> USE <2>2 DEF vars
    <3>1. Masks
      BY <1>1 DEF DInv
    <3>2. Masks'
      BY <3>1 DEF Masks
    <3>3. FrameLines' /\ KeyLine' /\ Quiet' /\ EchoInOrder' /\ KeyPending'
      BY <1>1, KeysKept
    <3> QED BY <3>2, <3>3 DEF DInv
  <2> QED BY <1>1, <2>1, <2>2 DEF Off
<1> QED BY <1>1, Invariance, InitDelivery, PTL DEF Spec

\* With interrupts on, every request the controllers raise has its gate, whatever
\* edges were latched before and while remap reprogrammed them, except on the lines
\* that pic_EOI's stray write to the mask register has opened.
THEOREM VectorsHaveGates == Spec => []NoStrayVector
<1>1. ASSUME IInv, DInv PROVE NoStrayVector
  <2> SUFFICES ASSUME IF_, NEW l \in Raised(pics)
               PROVE  /\ idtr
                      /\ vector(pics, l) \in DOMAIN IDT
                           \/ (l \in OpenedByEOI /\ pics.master.imr = PIC_EOI)
    BY DEF NoStrayVector
  <2>1. pics \in Pics /\ GatesReady /\ Masks /\ CASCADE \notin pics.master.irr
    BY <1>1 DEF IInv, DInv, TypeOK, Pics
  <2>2. pc = "run"
    BY <2>1 DEF GatesReady
  <2>3. idtr
    BY <2>1, <2>2, Zenon DEF GatesReady
  <2>4. DOMAIN IDT = Handled
    BY <2>1, <2>2 DEF GatesReady
  <2>5. /\ pics.slave.imr = 255 /\ pics.master.base = 32
        /\ pics.master.imr \in {252, PIC_EOI}
    BY <2>1, <2>2 DEF Masks, AfterRemap, pic_master_irq
  <2>6. /\ l \in Line /\ l # CASCADE /\ l \notin Bits(pics.master.imr)
        /\ vector(pics, l) = 32 + l
    BY <2>1, <2>5, MasterOnly
  <2>7. CASE l \in {0, 1}
    BY <2>3, <2>4, <2>6, <2>7 DEF Handled, TIMER, KEYBOARD
  <2>8. CASE l \notin {0, 1}
    <3>1. pics.master.imr # 252
      BY <2>6, <2>8, MaskBits DEF Line
    <3> QED BY <2>3, <2>5, <2>6, <2>8, <3>1 DEF OpenedByEOI
  <2> QED BY <2>7, <2>8
<1> QED BY <1>1, DeliveryInvariance, PTL

\* However ticks, keys, faults and the kernel's set-up interleave, the keyboard
\* handler echoes each make code exactly once and in the order of the keys, and
\* never reads the port without a scancode in it.
THEOREM KeysEchoInOrder == Spec => []EchoInOrder
<1>1. DInv => EchoInOrder
  BY DEF DInv
<1> QED BY <1>1, DeliveryInvariance, PTL

\* Once a key has been echoed, a scancode in the keyboard's buffer has its edge
\* latched or in service: no EOI and no later interrupt loses it.
THEOREM KeysAnnounced == Spec => []KeyPending
<1>1. DInv => KeyPending
  BY DEF DInv
<1> QED BY <1>1, DeliveryInvariance, PTL
=============================================================================
