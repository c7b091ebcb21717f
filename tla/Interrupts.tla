----------------------------- MODULE Interrupts -----------------------------
(***************************************************************************)
(* Interrupt delivery: the IDT and its set-up (kernel/interrupts/          *)
(* interrupts.cpp), the handlers (irq_handlers/handlers.cpp), the two      *)
(* interrupt controllers (module Pic), the CPU's interrupt flag and frame  *)
(* stack, the programmable timer and the keyboard controller.              *)
(*                                                                         *)
(* The kernel thread runs init_interrupts one port write at a time, with   *)
(* interrupts off, while devices latch edges; from sti on, any raised line *)
(* may be delivered between two of its steps.  A handler's body is one     *)
(* step: its gate either turns interrupts off or its handler never returns.*)
(***************************************************************************)
EXTENDS Pic, Sequences

CONSTANTS
  DeviceLines,   \* the device lines (of 0..15) that raise requests by themselves
  Scancodes,     \* the scancodes the keyboard sends
  Faults,        \* the CPU exceptions kernel code may cause
  Garbage,       \* what the gates' ist bits, which no constructor sets, may hold
  Hz,            \* timer_phase's argument
  MaxKeys,       \* bound: make codes the keyboard sends
  MaxFrames      \* bound: frames on the stack when an exception adds one

ASSUME InterruptsAssumption ==
  /\ DeviceLines \subseteq (0..15) \ {1, CASCADE}
  /\ Scancodes \subseteq Byte
  /\ Faults \subseteq 0..31
  /\ Garbage \subseteq 0..7
  /\ Hz \in Nat \ {0}
  /\ MaxKeys \in Nat /\ MaxFrames \in Nat

VARIABLES
  IDT,       \* the gates registered so far, by vector
  ist,       \* the interrupt stack the gates name
  idtr,      \* the IDT has been loaded
  IF_,       \* the interrupt flag of the CPU
  pics,      \* the controllers, [master, slave]
  masks,     \* <<a1, a2>>, the masks remap saved
  reload,    \* the timer's reload value
  pc,        \* the kernel thread's place in init_interrupts
  written,   \* how many of remap's port writes are done
  frames,    \* interrupt frames on the stack, innermost first
  kbd,       \* the keyboard controller's output buffer
  pressed,   \* history: the make codes sent by the keyboard
  echoed,    \* history: the scancodes whose character went to screen.putc
  reset      \* the CPU triple-faulted

vars == <<IDT, ist, idtr, IF_, pics, masks, reload, pc, written, frames, kbd,
          pressed, echoed, reset>>

\* enum irq_num
DIV_ERROR == 0
DOUBLE_FAULT == 8
GENERAL_PROTECTION_FAULT == 13
PAGE_FAULT == 14
TIMER == 32
KEYBOARD == 33

pic_master_irq == 32    \* 0x20
pic_slave_irq  == 40    \* 0x28

PIT_FREQUENCY == 1193180
Word == {n \in Nat : n < 65536}   \* what the timer's reload register holds

Empty  == 256           \* no scancode in the keyboard's buffer
NoLine == 16            \* the frame of an exception

----------------------------------------------------------------------------
(* The interrupt descriptor table. *)

gate_descriptor_t(handler, gate_type) == [handler |-> handler, gate |-> gate_type]

\* A table without a gate for double faults.
Bug_Handled == {DIV_ERROR, TIMER, KEYBOARD, GENERAL_PROTECTION_FAULT, PAGE_FAULT}

Handled == {DIV_ERROR, TIMER, KEYBOARD, DOUBLE_FAULT,
            GENERAL_PROTECTION_FAULT, PAGE_FAULT}

\* Exceptions through interrupt gates: a panic would leave interrupts off.
Bug_routine(v) ==
  CASE v = DIV_ERROR    -> gate_descriptor_t("handle_divide_by_zero", "INTERRUPT")
    [] v = TIMER        -> gate_descriptor_t("handle_timer", "INTERRUPT")
    [] v = KEYBOARD     -> gate_descriptor_t("handle_keyboard", "INTERRUPT")
    [] v = DOUBLE_FAULT -> gate_descriptor_t("handle_double_fault", "INTERRUPT")
    [] v = GENERAL_PROTECTION_FAULT ->
                           gate_descriptor_t("handle_gen_prot_fault", "INTERRUPT")
    [] v = PAGE_FAULT   -> gate_descriptor_t("handle_page_fault", "INTERRUPT")

\* The gate init_interrupts registers for each vector it handles.
routine(v) ==
  CASE v = DIV_ERROR    -> gate_descriptor_t("handle_divide_by_zero", "TRAP")
    [] v = TIMER        -> gate_descriptor_t("handle_timer", "INTERRUPT")
    [] v = KEYBOARD     -> gate_descriptor_t("handle_keyboard", "INTERRUPT")
    [] v = DOUBLE_FAULT -> gate_descriptor_t("handle_double_fault", "TRAP")
    [] v = GENERAL_PROTECTION_FAULT ->
                           gate_descriptor_t("handle_gen_prot_fault", "TRAP")
    [] v = PAGE_FAULT   -> gate_descriptor_t("handle_page_fault", "TRAP")

Gates == [handler : {"handle_divide_by_zero", "handle_timer", "handle_keyboard",
                     "handle_double_fault", "handle_gen_prot_fault",
                     "handle_page_fault"},
          gate : {"INTERRUPT", "TRAP"}]

----------------------------------------------------------------------------
(* The kernel thread: init_interrupts, entered from kernel_main. *)

\* The state boot.s leaves: every line of both controllers masked, interrupts
\* off, and the controllers at the vectors the firmware gave them.
Init ==
  /\ IDT = << >> /\ ist = 0 /\ idtr = FALSE /\ IF_ = FALSE
  /\ pics = [master |-> [imr |-> 255, irr |-> {}, isr |-> {}, icw |-> 0, base |-> 8],
             slave |-> [imr |-> 255, irr |-> {}, isr |-> {}, icw |-> 0, base |-> 112]]
  /\ masks = <<0, 0>>
  /\ reload = 0
  /\ pc = "register" /\ written = 0
  /\ frames = << >>
  /\ kbd = Empty /\ pressed = << >> /\ echoed = << >>
  /\ reset = FALSE

KernelRuns == frames = << >> /\ ~reset

\* register_routine and register_routine_error, once for each handler.  Each gate
\* is built in the same place of the stack, whose bits under ist stay as they were.
register ==
  /\ KernelRuns /\ pc = "register"
  /\ IDT' = [v \in Handled |-> routine(v)]
  /\ ist' \in Garbage
  /\ pc' = "save_masks"
  /\ UNCHANGED <<idtr, IF_, pics, masks, reload, written, frames, kbd, pressed,
                 echoed, reset>>

save_masks ==
  /\ KernelRuns /\ pc = "save_masks"
  /\ masks' = <<inb(pics, PIC1_DATA), inb(pics, PIC2_DATA)>>
  /\ pc' = "remap"
  /\ UNCHANGED <<IDT, ist, idtr, IF_, pics, reload, written, frames, kbd, pressed,
                 echoed, reset>>

RemapProgram == remap_writes(pic_master_irq, pic_slave_irq, masks[1], masks[2])

\* The next port write of pic::remap; the io_wait between two is not modelled.
remap ==
  /\ KernelRuns /\ pc = "remap"
  /\ LET w == RemapProgram[written + 1] IN pics' = outb(pics, w[1], w[2])
  /\ written' = written + 1
  /\ pc' = IF written + 1 = Len(RemapProgram) THEN "unmask_timer" ELSE "remap"
  /\ UNCHANGED <<IDT, ist, idtr, IF_, masks, reload, frames, kbd, pressed, echoed,
                 reset>>

unmask_timer ==
  /\ KernelRuns /\ pc = "unmask_timer"
  /\ pics' = unmask(pics, TIMER - pic_master_irq)
  /\ pc' = "unmask_keyboard"
  /\ UNCHANGED <<IDT, ist, idtr, IF_, masks, reload, written, frames, kbd, pressed,
                 echoed, reset>>

unmask_keyboard ==
  /\ KernelRuns /\ pc = "unmask_keyboard"
  /\ pics' = unmask(pics, KEYBOARD - pic_master_irq)
  /\ pc' = "timer_phase"
  /\ UNCHANGED <<IDT, ist, idtr, IF_, masks, reload, written, frames, kbd, pressed,
                 echoed, reset>>

\* The divisor goes to the timer as two bytes; outb keeps eight bits of each.
timer_phase(hz) ==
  LET divisor == PIT_FREQUENCY \div hz IN
  /\ KernelRuns /\ pc = "timer_phase"
  /\ reload' = (divisor % 256) + 256 * ((divisor \div 256) % 256)
  /\ pc' = "load_idt"
  /\ UNCHANGED <<IDT, ist, idtr, IF_, pics, masks, written, frames, kbd, pressed,
                 echoed, reset>>

load_idt ==
  /\ KernelRuns /\ pc = "load_idt"
  /\ idtr' = TRUE
  /\ pc' = "sti"
  /\ UNCHANGED <<IDT, ist, IF_, pics, masks, reload, written, frames, kbd, pressed,
                 echoed, reset>>

sti ==
  /\ KernelRuns /\ pc = "sti"
  /\ IF_' = TRUE
  /\ pc' = "run"
  /\ UNCHANGED <<IDT, ist, idtr, pics, masks, reload, written, frames, kbd, pressed,
                 echoed, reset>>

----------------------------------------------------------------------------
(* The CPU. *)

\* The CPU enters the gate of vector v for the request of device line d.  A
\* vector without a gate raises segment-not-present, which has no gate either
\* and becomes a double fault; without that gate too the CPU resets.  There is
\* no task state segment: a gate that names an interrupt stack faults as well,
\* and so does the double fault's.
Enter(v, d) ==
  LET w == IF v \in DOMAIN IDT THEN v ELSE DOUBLE_FAULT IN
  IF idtr /\ w \in DOMAIN IDT /\ ist = 0
  THEN /\ frames' = <<[handler |-> IDT[w].handler, line |-> d, flags |-> IF_]>> \o frames
       /\ IF_' = (IF_ /\ IDT[w].gate = "TRAP")
       /\ reset' = reset
  ELSE /\ reset' = TRUE
       /\ UNCHANGED <<frames, IF_>>

\* The CPU accepts the request of master line l.
Deliver(l) ==
  /\ IF_ /\ ~reset
  /\ l \in Raised(pics)
  /\ pics' = acknowledge(pics, l)
  /\ Enter(vector(pics, l), Source(pics, l))
  /\ UNCHANGED <<IDT, ist, idtr, masks, reload, pc, written, kbd, pressed, echoed>>

\* The handlers that end in kernel_panic.
Panicking == {"handle_divide_by_zero", "handle_double_fault", "handle_gen_prot_fault",
              "handle_page_fault"}

\* Kernel code causes exception v, in the thread, set-up included, or in a
\* handler that prints and panics.  The bodies of the timer's and the keyboard's
\* handler access ports, the table of 128 keys and the mapped video memory, and
\* cause none.
Fault(v) ==
  /\ ~reset
  /\ frames # << >> => Head(frames).handler \in Panicking
  /\ Len(frames) < MaxFrames
  /\ Enter(v, NoLine)
  /\ UNCHANGED <<IDT, ist, idtr, pics, masks, reload, pc, written, kbd, pressed, echoed>>

Running(handler) == frames # << >> /\ Head(frames).handler = handler /\ ~reset

\* iretq
Return == frames' = Tail(frames) /\ IF_' = Head(frames).flags

----------------------------------------------------------------------------
(* The handlers.  The four that end in kernel_panic never leave its loop and *)
(* so have no action: their frame stays on the stack.                        *)

\* An EOI sent to the slave alone.
Bug_pic_EOI(p, irq) ==
  IF irq >= 8 THEN outb(p, PIC2_COMMAND, PIC_EOI) ELSE outb(p, PIC1_COMMAND, PIC_EOI)

\* irq is compared with 8 and, above it, the EOI byte also goes to port 0x21.
pic_EOI(p, irq) ==
  outb(IF irq >= 8 THEN outb(p, PIC1_DATA, PIC_EOI) ELSE p, PIC1_COMMAND, PIC_EOI)

handle_timer ==
  /\ Running("handle_timer")
  /\ pics' = pic_EOI(pics, TIMER)
  /\ Return
  /\ UNCHANGED <<IDT, ist, idtr, masks, reload, pc, written, kbd, pressed, echoed, reset>>

Bug_is_make(scancode) == scancode <= 128
is_make(scancode) == scancode < 128

\* A handler that reads the port again for the key to echo.
Bug_read_twice ==
  /\ Running("handle_keyboard")
  /\ \E scancode \in (IF kbd = Empty THEN Scancodes ELSE {kbd}),
        again \in {s \in Scancodes : is_make(s)} :
       echoed' = IF is_make(scancode) THEN Append(echoed, again) ELSE echoed
  /\ kbd' = Empty
  /\ pics' = pic_EOI(pics, KEYBOARD)
  /\ Return
  /\ UNCHANGED <<IDT, ist, idtr, masks, reload, pc, written, pressed, reset>>

\* A handler that acknowledges a break code without reading it.
Bug_handle_keyboard ==
  /\ Running("handle_keyboard")
  /\ echoed' = IF kbd < 128 THEN Append(echoed, kbd) ELSE echoed
  /\ kbd' = IF kbd < 128 THEN Empty ELSE kbd
  /\ pics' = pic_EOI(pics, KEYBOARD)
  /\ Return
  /\ UNCHANGED <<IDT, ist, idtr, masks, reload, pc, written, pressed, reset>>

\* Reads the scancode (an empty buffer gives any), echoes a make code's
\* character and acknowledges the interrupt.
handle_keyboard ==
  /\ Running("handle_keyboard")
  /\ \E scancode \in (IF kbd = Empty THEN Scancodes ELSE {kbd}) :
       echoed' = IF is_make(scancode) THEN Append(echoed, scancode) ELSE echoed
  /\ kbd' = Empty
  /\ pics' = pic_EOI(pics, KEYBOARD)
  /\ Return
  /\ UNCHANGED <<IDT, ist, idtr, masks, reload, pc, written, pressed, reset>>

----------------------------------------------------------------------------
(* The devices. *)

Raise(d) ==
  /\ ~reset
  /\ pics' = latch(pics, d)
  /\ UNCHANGED <<IDT, ist, idtr, IF_, masks, reload, pc, written, frames, kbd, pressed,
                 echoed, reset>>

\* The keyboard sends a scancode and raises line 1 when its buffer is free.
KeyPress(scancode) ==
  /\ ~reset /\ kbd = Empty
  /\ scancode < 128 => Len(pressed) < MaxKeys
  /\ kbd' = scancode
  /\ pressed' = IF scancode < 128 THEN Append(pressed, scancode) ELSE pressed
  /\ pics' = latch(pics, 1)
  /\ UNCHANGED <<IDT, ist, idtr, IF_, masks, reload, pc, written, frames, echoed, reset>>

----------------------------------------------------------------------------
Kernel ==
  \/ register \/ save_masks \/ remap \/ unmask_timer \/ unmask_keyboard
  \/ timer_phase(Hz) \/ load_idt \/ sti

Off == reset /\ UNCHANGED vars

Next ==
  \/ Kernel
  \/ \E l \in Line : Deliver(l)
  \/ \E v \in Faults : Fault(v)
  \/ handle_timer \/ handle_keyboard
  \/ \E d \in DeviceLines : Raise(d)
  \/ \E s \in Scancodes : KeyPress(s)
  \/ Off

Spec == Init /\ [][Next]_vars

\* The CPU executes the kernel thread and the handlers, and takes a raised
\* interrupt; nothing obliges a device to send anything or the kernel to fault.
\* Line 1 can be raised and outranked by line 0 again and again, hence SF.
Fairness ==
  /\ WF_vars(Kernel) /\ WF_vars(handle_timer) /\ WF_vars(handle_keyboard)
  /\ WF_vars(Deliver(0)) /\ SF_vars(Deliver(1))

FairSpec == Spec /\ Fairness

----------------------------------------------------------------------------
(* Properties. *)

FrameType == [handler : {"handle_divide_by_zero", "handle_timer", "handle_keyboard",
                         "handle_double_fault", "handle_gen_prot_fault",
                         "handle_page_fault"},
              line : 0..16, flags : BOOLEAN]

\* The type invariant of the interrupt system.  What has been echoed was looked
\* up in kbd_US, which has 128 entries.
TypeOK ==
  /\ IDT = << >> \/ IDT \in [Handled -> Gates]
  /\ ist \in 0..7 /\ idtr \in BOOLEAN /\ IF_ \in BOOLEAN /\ reset \in BOOLEAN
  /\ pics \in [master : PicState, slave : PicState]
  /\ masks \in Byte \X Byte
  /\ reload \in Word
  /\ pc \in {"register", "save_masks", "remap", "unmask_timer", "unmask_keyboard",
             "timer_phase", "load_idt", "sti", "run"}
  /\ written \in 0..10
  /\ frames \in Seq(FrameType)
  /\ kbd \in Scancodes \cup {Empty}
  /\ pressed \in Seq(Scancodes) /\ echoed \in Seq(Scancodes \cap 0..127)

\* The timer and the keyboard, once unmasked, are never masked again: pic_EOI's
\* write to port 0x21 reaches the mask register, but with a byte whose bits 0
\* and 1 are clear.
ServedLinesOpen == pc = "run" => Bits(pics.master.imr) \cap {0, 1} = {}

\* The master lines that pic_EOI's byte opens besides the timer, the keyboard
\* and the cascade.
OpenedByEOI == Line \ (Bits(PIC_EOI) \cup {0, 1, CASCADE})

\* With interrupts on, the request the controller raises has a gate, whatever was
\* latched before and during remap: the only ones that end in the double fault
\* of a missing gate come on the lines that a handler's EOI has opened.
NoStrayVector ==
  IF_ => \A l \in Raised(pics) :
           /\ idtr
           /\ vector(pics, l) \in DOMAIN IDT
                \/ (l \in OpenedByEOI /\ pics.master.imr = PIC_EOI)

MasterLine(d) == IF d < 8 THEN d ELSE CASCADE

\* The master lines whose interrupts the frames fr are serving.
Serving(fr) ==
  {MasterLine(fr[i].line) : i \in {j \in DOMAIN fr : fr[j].line # NoLine}}

\* What the master believes in service is what the CPU is serving: every
\* acknowledged line has its frame on the stack until its own EOI, so that the
\* non-specific EOI of a handler dismisses that handler's line and no other.
InService == ~reset => pics.master.isr = Serving(frames)

\* Once the IDT is loaded, no nesting of interrupts and exceptions, also of those
\* that a panicking handler causes, and no vector without a gate brings the
\* machine down past the double fault's gate: only the ist that the gates'
\* constructor leaves unset does, or an exception before load_idt.
NoTripleFault == reset => ist # 0 \/ ~idtr

\* The keyboard handler echoes every make code once and in order, never a break
\* code, and never reads a scancode that is not there.
EchoInOrder ==
  pressed = echoed \o (IF kbd # Empty /\ kbd < 128 THEN <<kbd>> ELSE << >>)

\* A scancode never lies in the keyboard's buffer unannounced once the handler
\* has echoed a key: its edge is latched or in service, so the handler will come
\* for it.  Before the first echo it can: remap's ICW1 clears the edge of a key
\* that was pressed early, its scancode stays, and the keyboard is dead.
KeyPending ==
  (kbd # Empty /\ echoed # << >>) => 1 \in pics.master.irr \cup pics.master.isr

\* Assumption on the timer: again and again there is a moment with no tick
\* waiting or being handled.
TimerLeavesRoom == []<>(0 \notin pics.master.irr \cup pics.master.isr)

\* A tick or a key latched after remap is served, even while the kernel sits in
\* kernel_panic: exceptions come through trap gates, which leave interrupts on.
InterruptsServed ==
  TimerLeavesRoom =>
    \A l \in {0, 1} :
      (pc = "run" /\ l \in pics.master.irr) ~> (l \notin pics.master.irr \/ reset)

\* The kernel opens the timer's and the keyboard's line and no other: boot.s
\* masks everything ("Out 0xFF to 0xA1 and 0x21 to disable all IRQs") and
\* init_interrupts unmasks these two.
OnlyRequestedLinesOpen ==
  pc = "run" => Line \ Bits(pics.master.imr) = {0, 1}

\* The timer counts down the divisor timer_phase calculated ("Calculate our
\* divisor", "Set high byte of divisor").
TimerProgrammed == idtr => reload = PIT_FREQUENCY \div Hz
============================================================================
