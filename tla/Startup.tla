------------------------------- MODULE Startup -------------------------------
(***************************************************************************)
(* From the boot loader's jump to the final halt: boot.s, gdt.cpp and the  *)
(* order of the calls in kernel_main (kernel.cpp), composed with the walk  *)
(* over the boot information (module Multiboot) and with the serial port   *)
(* (module Serial), which goes on sending by itself.                       *)
(*                                                                         *)
(* Memory is either "low", where the loader put everything, or "high", the *)
(* same memory above KERNEL_VIRTUAL_BASE.  What a step needs to be mapped, *)
(* and where the descriptors lie that a segment load reads, is the subject *)
(* of MachineAlive.  init_interrupts and the screen calls are single steps *)
(* here; modules Interrupts and Console have them in detail.               *)
(***************************************************************************)
EXTENDS Multiboot, Serial

CONSTANT
  MaxExceptions  \* bound: exceptions of a behaviour

ASSUME StartupAssumption == MaxExceptions \in Nat

VARIABLES
  at,        \* the kernel thread's place
  paging,    \* cr0's paging bit
  tables,    \* the entries present in PML4 and PDPT, by the half they serve
  GDT,       \* the descriptors of gdt::GDT, by selector index
  gdtr,      \* [table, half]: the table in force and where its address lies
  interruptible, \* the IDT is loaded and the interrupt flag set
  handler,   \* what an exception's handler is doing
  said,      \* how many bytes of its message the thread or the handler has put
  exceptions \* how many exceptions there have been

machineVars == <<paging, tables, GDT, gdtr, interruptible>>
threadVars == <<at, handler, said, exceptions>>
vars == <<machineVars, threadVars, walkVars, serialVars>>

\* The text after paging_init and the text of print_frame, a few bytes of each.
SystemUp == <<1, 2>>
Frame == <<3, 4>>

----------------------------------------------------------------------------
(* Descriptors: an access byte and the flags above the limit. *)

\* The bit of n that weighs w.
BitOf(n, w) == (n \div w) % 2

gdt_entry_access_t(accessed, read_write, conforming, exec, desc_type, dpl) ==
  accessed + 2 * read_write + 4 * conforming + 8 * exec + 16 * desc_type + 32 * dpl + 128

\* The reserved bit is never set by the constructor; base and limit do not count
\* in long mode.
gdt_entry_t(long_mode, db, granularity, access) ==
  [access |-> access, flags |-> 2 * long_mode + 4 * db + 8 * granularity]

NullDescriptor == [access |-> 0, flags |-> 0]

\* boot_GDT: 0x00af9a000000ffff and 0x00af92000000ffff.
boot_GDT == [i \in 0..2 |-> IF i = 0 THEN NullDescriptor
                            ELSE [access |-> IF i = 1 THEN 154 ELSE 146, flags |-> 10]]

\* gdt::GDT as it starts, and after init_kernel_code_segment, init_kernel_data_segment,
\* init_user_code_segment and init_user_data_segment; TASK_STATE_SEGMENT stays null.
EmptyGDT == [i \in 0..5 |-> NullDescriptor]
KernelGDT ==
  [EmptyGDT EXCEPT
     ![1] = gdt_entry_t(1, 0, 1, gdt_entry_access_t(0, 1, 0, 1, 1, 0)),
     ![2] = gdt_entry_t(1, 0, 1, gdt_entry_access_t(0, 1, 0, 0, 1, 0)),
     ![3] = gdt_entry_t(1, 0, 1, gdt_entry_access_t(0, 1, 0, 1, 1, 3)),
     ![4] = gdt_entry_t(1, 0, 1, gdt_entry_access_t(0, 1, 0, 0, 1, 3))]

CODE_SEG == 8
DATA_SEG == 16

\* What the CPU demands of a descriptor: present, of the kernel's privilege, and
\* 64-bit code or writable data.
Present(d)  == BitOf(d.access, 128) = 1 /\ BitOf(d.access, 16) = 1 /\ (d.access \div 32) % 4 = 0
IsCode64(d) == Present(d) /\ BitOf(d.access, 8) = 1 /\ BitOf(d.flags, 2) = 1 /\ BitOf(d.flags, 4) = 0
IsData(d)   == Present(d) /\ BitOf(d.access, 8) = 0 /\ BitOf(d.access, 2) = 1

----------------------------------------------------------------------------
(* Paging. *)

\* A 1 GB page is reached through an entry of each table; before paging, low
\* memory is reached directly.
Reaches(half) ==
  IF paging THEN half \in tables.PML4 /\ half \in tables.PDPT ELSE half = "low"

\* The table in force can be read, and its descriptors are what the selectors
\* CODE_SEG and DATA_SEG are used for.
SelectorsValid ==
  /\ Reaches(gdtr.half)
  /\ {CODE_SEG \div 8, DATA_SEG \div 8} \subseteq DOMAIN gdtr.table
  /\ IsCode64(gdtr.table[CODE_SEG \div 8]) /\ IsData(gdtr.table[DATA_SEG \div 8])

----------------------------------------------------------------------------
StartupInit ==
  /\ at = "_start" /\ paging = FALSE
  /\ tables = [PML4 |-> {}, PDPT |-> {}]
  /\ GDT = EmptyGDT
  /\ gdtr = [table |-> << >>, half |-> "none"]
  /\ interruptible = FALSE
  /\ handler = "none" /\ said = 0 /\ exceptions = 0

Init == StartupInit /\ WalkInit /\ SerialInit

\* The thread goes from one place to the next.
Go(from, to) ==
  at = from /\ handler = "none" /\ at' = to /\ UNCHANGED <<handler, exceptions>>

\* ... and nothing else here changes.
Pass(from, to) == Go(from, to) /\ UNCHANGED <<machineVars, said, walkVars, serialVars>>

\* Both halves are mapped onto the first gigabyte.
_start ==
  /\ Go("_start", "long_mode")
  /\ tables' = [PML4 |-> {"low", "high"}, PDPT |-> {"low", "high"}]
  /\ UNCHANGED <<paging, GDT, gdtr, interruptible, said, walkVars, serialVars>>

long_mode ==
  /\ Go("long_mode", "boot_gdt")
  /\ paging' = TRUE
  /\ UNCHANGED <<tables, GDT, gdtr, interruptible, said, walkVars, serialVars>>

\* lgdt; the loads of the segment registers and the far jump are at boot_segments.
load_boot_gdt ==
  /\ Go("boot_gdt", "boot_segments")
  /\ gdtr' = [table |-> boot_GDT, half |-> "low"]
  /\ UNCHANGED <<paging, tables, GDT, interruptible, said, walkVars, serialVars>>

boot_segments == Pass("boot_segments", "_start_in_higher_half")

\* The two entries of the low half go; boot_GDT, still in force, goes with them.
unmap_low ==
  /\ Go("_start_in_higher_half", "_init")
  /\ tables' = [PML4 |-> tables.PML4 \ {"low"}, PDPT |-> tables.PDPT \ {"low"}]
  /\ UNCHANGED <<paging, GDT, gdtr, interruptible, said, walkVars, serialVars>>

\* The constructors of the global objects: here, DEBUG_PORT's.
_init ==
  /\ Go("_init", IF constructed + 1 = Len(constructor_accesses) THEN "init_gdt" ELSE "_init")
  /\ construct
  /\ UNCHANGED <<machineVars, said, walkVars>>

\* A table that is filled and never loaded.
Bug_init_gdt ==
  /\ Go("init_gdt", "_reload_segments")
  /\ GDT' = KernelGDT
  /\ UNCHANGED <<paging, tables, gdtr, interruptible, said, walkVars, serialVars>>

\* init_gdt fills the table and loads it by its high address.
init_gdt ==
  /\ Go("init_gdt", "_reload_segments")
  /\ GDT' = KernelGDT
  /\ gdtr' = [table |-> GDT', half |-> "high"]
  /\ UNCHANGED <<paging, tables, interruptible, said, walkVars, serialVars>>

\* iretq and the loads of the data segment registers.
_reload_segments == Pass("_reload_segments", "init_interrupts")

init_interrupts ==
  /\ Go("init_interrupts", "boot_info")
  /\ interruptible' = TRUE
  /\ UNCHANGED <<paging, tables, GDT, gdtr, said, walkVars, serialVars>>

boot_info ==
  /\ \/ Go("boot_info", "boot_info") /\ next_tag
     \/ Go("boot_info", "screen") /\ AtEnd /\ UNCHANGED walkVars
  /\ UNCHANGED <<machineVars, said, serialVars>>

\* screen.clear .. writestr.
screen == Pass("screen", "valid")

\* A kernel that prints the port's state and goes on.
Bug_valid == Pass("valid", "paging_init")

\* kernel_main returns if the port is not valid.
valid == Pass("valid", IF is_valid THEN "paging_init" ELSE "finalize")

paging_init == Pass("paging_init", "log")

\* The next byte of the log.
log_byte ==
  /\ Go("log", IF said + 1 = Len(SystemUp) THEN "finalize" ELSE "log")
  /\ putc(SystemUp[said + 1])
  /\ said' = said + 1
  /\ UNCHANGED <<machineVars, walkVars>>

\* __cxa_finalize, then the halt loop.
finalize == Pass("finalize", "hlt_loop")

----------------------------------------------------------------------------
(* Exceptions. *)

\* Once handlers are installed, an exception may come at any place: a request on
\* a line without a gate is enough (module Interrupts).  The gates leave interrupts
\* on, so a handler that prints or panics may meet one as well; as no handler
\* returns, the newest one is the only one that goes on.
Exception ==
  /\ interruptible /\ exceptions < MaxExceptions
  /\ handler' = "print_frame" /\ said' = 0 /\ exceptions' = exceptions + 1
  /\ UNCHANGED <<at, machineVars, walkVars, serialVars>>

\* The handler prints its frame to the port, valid or not, and then panics.
print_frame ==
  /\ handler = "print_frame"
  /\ putc(Frame[said + 1])
  /\ said' = said + 1
  /\ handler' = IF said + 1 = Len(Frame) THEN "kernel_panic" ELSE "print_frame"
  /\ UNCHANGED <<at, exceptions, machineVars, walkVars>>

\* putc reads a line status without bit 5.
Poll ==
  /\ handler = "print_frame" \/ (handler = "none" /\ at = "log")
  /\ ~ready
  /\ UNCHANGED vars

Idle == (handler = "kernel_panic" \/ at = "hlt_loop") /\ UNCHANGED vars

----------------------------------------------------------------------------
Thread ==
  \/ _start \/ long_mode \/ load_boot_gdt \/ boot_segments \/ unmap_low
  \/ _init \/ init_gdt \/ _reload_segments \/ init_interrupts
  \/ boot_info \/ screen \/ valid \/ paging_init \/ log_byte \/ finalize

Uart == Transmit /\ UNCHANGED <<machineVars, threadVars, walkVars>>

Next == Thread \/ Exception \/ print_frame \/ Poll \/ Idle \/ Uart

\* The CPU executes the thread or, after an exception, the handler; a working
\* port finishes every byte.  Nothing obliges an exception to come.
Spec == Init /\ [][Next]_vars /\ WF_vars(Thread) /\ WF_vars(print_frame) /\ WF_vars(Uart)

----------------------------------------------------------------------------
(* Properties. *)

Places == {"_start", "long_mode", "boot_gdt", "boot_segments", "_start_in_higher_half",
           "_init", "init_gdt", "_reload_segments", "init_interrupts", "boot_info",
           "screen", "valid", "paging_init", "log", "finalize", "hlt_loop"}

Bytes == 0..255

\* The type invariant of the start-up.
TypeOK ==
  /\ at \in Places /\ paging \in BOOLEAN /\ interruptible \in BOOLEAN
  /\ tables \in [PML4 : SUBSET {"low", "high"}, PDPT : SUBSET {"low", "high"}]
  /\ GDT \in [0..5 -> [access : Bytes, flags : 0..15]]
  /\ gdtr.half \in {"none", "low", "high"}
  /\ handler \in {"none", "print_frame", "kernel_panic"} /\ said \in 0..2
  /\ exceptions \in 0..MaxExceptions
  /\ port \in Ports /\ constructed \in 0..11 /\ is_valid \in BOOLEAN
  /\ uart \in [lcr : Bytes, mcr : Bytes, dll : Bytes, dlm : Bytes,
               thr : Bytes \cup {None}, rbr : Bytes]
  /\ log \in Seq(Bytes) /\ wire \in Seq(Bytes)
  /\ curr_tag \in Nat /\ meminfo \in 0..MaxTags /\ elf_sections \in 0..MaxTags

\* Where the code of a place, its stack and its data lie.
Half(place) ==
  IF place \in {"_start", "long_mode", "boot_gdt", "boot_segments"} THEN "low" ELSE "high"

\* The machine never meets a page or a descriptor that is not there while it has
\* no handler for it: the code of each place is mapped when the thread gets
\* there, and whenever segments are loaded or an interrupt can come, the table
\* in force lies in mapped memory and its descriptors are the right ones.
\* Between unmap_low and init_gdt that table does not exist any more.
MachineAlive ==
  /\ Reaches(Half(at))
  /\ (at \in {"boot_segments", "_reload_segments"} \/ interruptible) => SelectorsValid

\* With a port found valid, what the wire carries is what putc was given, byte
\* for byte and in order, across exceptions in the middle of a message: the
\* test byte does not leak onto it, no byte is overrun, none goes into the
\* divisor or back into the receiver.
WireIsLog ==
  (Constructed /\ is_valid) =>
     log = wire \o (IF uart.thr = None THEN << >> ELSE <<uart.thr>>)

\* An exception's handler gets from its polled printing to kernel_panic, with a
\* working port as well as with none, if exceptions do not come for ever: one that
\* cuts into the printing starts over and gets there instead.  Only a port that is
\* there and never becomes ready keeps the kernel from panicking.
PanicReached ==
  (handler = "print_frame") ~> (handler = "kernel_panic" \/ port = "stuck")

\* The kernel reaches its halt loop unless an exception comes, whatever tags the
\* loader passes and whatever is behind the port: only a port that has passed
\* the loopback test is polled by the thread.
StartupEnds == <>(at = "hlt_loop" \/ handler # "none")
=============================================================================
