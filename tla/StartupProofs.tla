---------------------------- MODULE StartupProofs ----------------------------
(***************************************************************************)
(* Proofs about Startup, for every list of tags and every port: what the   *)
(* machine has mapped and loaded at each place, what the UART holds after  *)
(* each access of the constructor, and where the walk over the tags is.    *)
(***************************************************************************)
EXTENDS Startup, WellFoundedInduction, SequenceTheorems, TLAPS

----------------------------------------------------------------------------
(* MachineAlive. *)

Both == {"low", "high"}

\* Places after init_interrupts, where an interrupt may come.
Late == {"boot_info", "screen", "valid", "paging_init", "log", "finalize", "hlt_loop"}

\* Places by the descriptor table in force.
Unloaded == {"_start", "long_mode", "boot_gdt"}
OnBootTable == {"boot_segments", "_start_in_higher_half", "_init", "init_gdt"}

\* What each place implies of the tables, the paging bit and the table register.
Placed ==
  /\ at \in Places
  /\ paging = (at \notin {"_start", "long_mode"})
  /\ at \in (Unloaded \cup {"boot_segments", "_start_in_higher_half"}) \ {"_start"} =>
       tables = [PML4 |-> Both, PDPT |-> Both]
  /\ at \notin Unloaded \cup {"boot_segments", "_start_in_higher_half"} =>
       tables = [PML4 |-> Both \ {"low"}, PDPT |-> Both \ {"low"}]
  /\ at \in OnBootTable => gdtr = [table |-> boot_GDT, half |-> "low"]
  /\ at \notin Unloaded \cup OnBootTable => gdtr = [table |-> KernelGDT, half |-> "high"]
  /\ interruptible => at \in Late

\* The descriptors boot.s and init_gdt put behind the selectors are what the
\* CPU demands.
LEMMA TablesRight ==
  /\ IsCode64(boot_GDT[1]) /\ IsData(boot_GDT[2])
  /\ IsCode64(KernelGDT[1]) /\ IsData(KernelGDT[2])
<1>1. /\ boot_GDT[1] = [access |-> 154, flags |-> 10]
      /\ boot_GDT[2] = [access |-> 146, flags |-> 10]
  BY DEF boot_GDT
<1>2. /\ KernelGDT[1] = [access |-> 154, flags |-> 10]
      /\ KernelGDT[2] = [access |-> 146, flags |-> 10]
  BY DEF KernelGDT, EmptyGDT, gdt_entry_t, gdt_entry_access_t
<1> QED BY <1>1, <1>2 DEF IsCode64, IsData, Present, BitOf

LEMMA InitPlaced == Init => Placed
BY DEF Init, StartupInit, Placed, Places, Unloaded, OnBootTable

LEMMA NextPlaced == Placed /\ [Next]_vars => Placed'
<1> SUFFICES ASSUME Placed, [Next]_vars PROVE Placed'
  OBVIOUS
<1> USE DEF Placed, Places, Unloaded, OnBootTable, Late, Both
<1>1. CASE _start
  BY <1>1 DEF _start, Go
<1>2. CASE long_mode
  BY <1>2 DEF long_mode, Go
<1>3. CASE load_boot_gdt
  BY <1>3 DEF load_boot_gdt, Go
<1>4. CASE unmap_low
  BY <1>4 DEF unmap_low, Go
<1>5. CASE _init
  BY <1>5 DEF _init, Go, machineVars
<1>6. CASE init_gdt
  BY <1>6 DEF init_gdt, Go
<1>7. CASE init_interrupts
  BY <1>7 DEF init_interrupts, Go
<1>8. CASE boot_info
  BY <1>8 DEF boot_info, Go, machineVars
<1>9. CASE boot_segments \/ _reload_segments \/ screen \/ valid \/ paging_init \/ finalize
  BY <1>9 DEF boot_segments, _reload_segments, screen, valid, paging_init, finalize,
              Pass, Go, machineVars
<1>10. CASE log_byte
  BY <1>10 DEF log_byte, Go, machineVars
<1>11. CASE Exception \/ print_frame
  BY <1>11 DEF Exception, print_frame, machineVars
<1>12. CASE Poll \/ Idle \/ Uart \/ UNCHANGED vars
  BY <1>12 DEF Poll, Idle, Uart, vars, machineVars, threadVars
<1> QED BY <1>1, <1>2, <1>3, <1>4, <1>5, <1>6, <1>7, <1>8, <1>9, <1>10, <1>11, <1>12
        DEF Next, Thread

LEMMA PlacedAlive == Placed => MachineAlive
<1> SUFFICES ASSUME Placed PROVE MachineAlive
  OBVIOUS
<1>1. Reaches(Half(at))
  <2>1. CASE at \in {"_start", "long_mode"}
    BY <2>1 DEF Placed, Reaches, Half
  <2>2. CASE at \in {"boot_gdt", "boot_segments"}
    <3>1. paging /\ tables = [PML4 |-> Both, PDPT |-> Both]
      BY <2>2 DEF Placed, Unloaded
    <3> QED BY <2>2, <3>1 DEF Reaches, Half, Both
  <2>3. CASE at = "_start_in_higher_half"
    <3>1. paging /\ tables = [PML4 |-> Both, PDPT |-> Both]
      BY <2>3 DEF Placed, Unloaded
    <3> QED BY <2>3, <3>1 DEF Reaches, Half, Both
  <2>4. CASE at \notin Unloaded \cup {"boot_segments", "_start_in_higher_half"}
    <3>1. paging /\ tables = [PML4 |-> Both \ {"low"}, PDPT |-> Both \ {"low"}]
      BY <2>4 DEF Placed, Unloaded
    <3> QED BY <2>4, <3>1 DEF Reaches, Half, Both, Unloaded
  <2> QED BY <2>1, <2>2, <2>3, <2>4 DEF Unloaded
<1>2. CODE_SEG \div 8 = 1 /\ DATA_SEG \div 8 = 2
  BY DEF CODE_SEG, DATA_SEG
<1>3. ASSUME at = "boot_segments" PROVE SelectorsValid
  <2>1. gdtr.table = boot_GDT /\ Reaches(gdtr.half)
    BY <1>3 DEF Placed, Unloaded, OnBootTable, Both, Reaches
  <2>2. {1, 2} \subseteq DOMAIN boot_GDT
    <3>1. DOMAIN boot_GDT = 0..2
      BY DEF boot_GDT
    <3> QED BY <3>1
  <2> QED BY <1>2, <2>1, <2>2, TablesRight DEF SelectorsValid
<1>4. ASSUME at = "_reload_segments" \/ interruptible PROVE SelectorsValid
  <2>1. gdtr.table = KernelGDT /\ Reaches(gdtr.half)
    <3>1. at \in Late \cup {"_reload_segments"}
      BY <1>4 DEF Placed
    <3>2. at \notin Unloaded \cup OnBootTable \cup {"boot_segments", "_start_in_higher_half"}
      BY <3>1 DEF Late, Unloaded, OnBootTable
    <3>3. /\ paging /\ gdtr = [table |-> KernelGDT, half |-> "high"]
          /\ tables = [PML4 |-> Both \ {"low"}, PDPT |-> Both \ {"low"}]
      BY <3>2 DEF Placed, Unloaded
    <3> QED BY <3>3 DEF Reaches, Both
  <2>2. {1, 2} \subseteq DOMAIN KernelGDT
    BY DEF KernelGDT, EmptyGDT
  <2> QED BY <1>2, <2>1, <2>2, TablesRight DEF SelectorsValid
<1> QED BY <1>1, <1>3, <1>4 DEF MachineAlive

\* boot.s, init_gdt and kernel_main never let the CPU meet an unmapped page, or a
\* descriptor that is missing or wrong, before or after interrupts are on.
THEOREM NeverLost == Spec => []MachineAlive
<1> QED BY InitPlaced, NextPlaced, PlacedAlive, PTL DEF Spec

----------------------------------------------------------------------------
(* WireIsLog. *)

UartType ==
  [lcr : Bytes, mcr : Bytes, dll : Bytes, dlm : Bytes, thr : Bytes \cup {None}, rbr : Bytes]

SerialType ==
  /\ port \in Ports /\ port \in {"working", "absent", "stuck"}
  /\ constructed \in 0..11
  /\ uart \in UartType
  /\ is_valid \in BOOLEAN
  /\ log \in Seq(Bytes) /\ wire \in Seq(Bytes)

\* What the line control and modem registers hold after n accesses.
Programmed(u, n) ==
  /\ n < 2 => u.lcr = 0
  /\ n \in 2..4 => u.lcr = 128
  /\ n > 4 => u.lcr = 3
  /\ n < 7 => u.mcr = 0
  /\ n = 7 => u.mcr = 11
  /\ n \in 8..10 => u.mcr = 30
  /\ n = 11 => u.mcr = 15

\* Where the test byte can be after n accesses: sent once, and received only
\* when it has left the holding register.
TestByte(u, n) ==
  /\ n < 9 => u.thr = None /\ u.rbr = 0
  /\ n = 9 /\ u.rbr # 0 => u.thr = None /\ port = "working"

\* What the test has found.
Tested ==
  /\ constructed < 10 => ~is_valid
  /\ constructed < 11 => log = << >> /\ wire = << >>
  /\ is_valid => port = "working"
  /\ constructed = 10 /\ is_valid => uart.thr = None

Configured ==
  /\ SerialType
  /\ port # "absent" => Programmed(uart, constructed)
  /\ TestByte(uart, constructed)
  /\ Tested

Held(u) == IF u.thr = None THEN << >> ELSE <<u.thr>>

\* Once the port has passed its test, nothing is lost and nothing added.
Carried == constructed = 11 /\ is_valid => log = wire \o Held(uart)

LEMMA Accesses ==
  /\ Len(constructor_accesses) = 11
  /\ constructor_accesses[1] = <<1, 0>> /\ constructor_accesses[2] = <<3, 128>>
  /\ constructor_accesses[3] = <<0, 3>> /\ constructor_accesses[4] = <<1, 0>>
  /\ constructor_accesses[5] = <<3, 3>> /\ constructor_accesses[6] = <<2, 199>>
  /\ constructor_accesses[7] = <<4, 11>> /\ constructor_accesses[8] = <<4, 30>>
  /\ constructor_accesses[9] = <<0, 174>> /\ constructor_accesses[10] = <<0, None>>
  /\ constructor_accesses[11] = <<4, 15>>
BY DEF constructor_accesses, data_reg_lo, irq, fifo_reg, line_control_reg, modem_reg

\* What a write to a register leaves in those the invariant speaks of.
LEMMA Outb ==
  ASSUME NEW u \in UartType, NEW r \in 0..4, NEW v \in Bytes
  PROVE  /\ outb(u, r, v) \in UartType
         /\ port = "absent" => outb(u, r, v) = u
         /\ port # "absent" =>
              /\ r = 3 => outb(u, r, v).lcr = v
              /\ r # 3 => outb(u, r, v).lcr = u.lcr
              /\ r = 4 => outb(u, r, v).mcr = v
              /\ r # 4 => outb(u, r, v).mcr = u.mcr
              /\ r = 0 /\ u.lcr < 128 => outb(u, r, v).thr = v
              /\ r \in {1, 3, 4} \/ (r = 0 /\ u.lcr >= 128) => outb(u, r, v).thr = u.thr
              /\ r = 2 => outb(u, r, v).thr = None /\ outb(u, r, v).rbr = 0
              /\ r # 2 => outb(u, r, v).rbr = u.rbr
<1> USE DEF data_reg_lo, irq, fifo_reg, line_control_reg, modem_reg, None, UartType, Bytes
<1>0. CASE port = "absent"
  BY <1>0 DEF outb
<1>1. CASE port # "absent" /\ r = 0 /\ u.lcr < 128
  <2>1. outb(u, r, v) = [u EXCEPT !.thr = v]
    BY <1>1 DEF outb, DLAB
  <2> QED BY <1>1, <2>1
<1>2. CASE port # "absent" /\ r = 0 /\ ~(u.lcr < 128)
  <2>1. outb(u, r, v) = [u EXCEPT !.dll = v]
    BY <1>2 DEF outb, DLAB
  <2> QED BY <1>2, <2>1
<1>3. CASE port # "absent" /\ r = 1 /\ u.lcr < 128
  <2>1. outb(u, r, v) = u
    BY <1>3 DEF outb, DLAB
  <2> QED BY <1>3, <2>1
<1>4. CASE port # "absent" /\ r = 1 /\ ~(u.lcr < 128)
  <2>1. outb(u, r, v) = [u EXCEPT !.dlm = v]
    BY <1>4 DEF outb, DLAB
  <2> QED BY <1>4, <2>1
<1>5. CASE port # "absent" /\ r = 2
  <2>1. outb(u, r, v) = [u EXCEPT !.thr = None, !.rbr = 0]
    BY <1>5 DEF outb, DLAB
  <2>2. outb(u, r, v) = [[u EXCEPT !.thr = None] EXCEPT !.rbr = 0]
    BY <2>1
  <2> DEFINE w == [u EXCEPT !.thr = None]
  <2>3. w \in UartType
    OBVIOUS
  <2>4. w.lcr = u.lcr /\ w.mcr = u.mcr /\ w.thr = None
    OBVIOUS
  <2>5. outb(u, r, v) = [w EXCEPT !.rbr = 0]
    BY <2>2
  <2> HIDE DEF w
  <2>6. outb(u, r, v) \in UartType
    BY <2>3, <2>5
  <2> QED BY <1>5, <2>3, <2>4, <2>5, <2>6
<1>6. CASE port # "absent" /\ r = 3
  <2>1. outb(u, r, v) = [u EXCEPT !.lcr = v]
    BY <1>6 DEF outb, DLAB
  <2> QED BY <1>6, <2>1
<1>7. CASE port # "absent" /\ r = 4
  <2>1. outb(u, r, v) = [u EXCEPT !.mcr = v]
    BY <1>7 DEF outb, DLAB
  <2> QED BY <1>7, <2>1
<1> QED BY <1>0, <1>1, <1>2, <1>3, <1>4, <1>5, <1>6, <1>7

\* A write of the constructor that leaves the registers as they should be and
\* does not touch what the test has found.
LEMMA WriteKeeps ==
  ASSUME Configured, NEW r \in 0..4, NEW v \in Bytes,
         constructed \in 0..10, constructed' = constructed + 1,
         uart' = outb(uart, r, v), UNCHANGED <<port, is_valid, log, wire>>,
         constructed # 9,
         port # "absent" => Programmed(uart', constructed + 1),
         TestByte(uart', constructed + 1),
         constructed = 10 => r = 4
  PROVE  Configured' /\ Carried'
<1>1. SerialType'
  <2>1. SerialType
    BY DEF Configured
  <2>2. uart' \in UartType
    BY <2>1, Outb DEF SerialType
  <2>3. constructed' \in 0..11
    OBVIOUS
  <2>4. /\ port' \in Ports /\ port' \in {"working", "absent", "stuck"}
        /\ is_valid' \in BOOLEAN
        /\ log' \in Seq(Bytes) /\ wire' \in Seq(Bytes)
    BY <2>1 DEF SerialType
  <2> QED BY <2>2, <2>3, <2>4 DEF SerialType
<1>2. Programmed(uart, constructed)' <=> Programmed(uart', constructed + 1)
  BY DEF Programmed
<1>3. TestByte(uart, constructed)' <=> TestByte(uart', constructed + 1)
  BY DEF TestByte
<1>4. ASSUME constructed = 10, is_valid PROVE uart'.thr = None
  <2>1. uart \in UartType /\ port = "working" /\ uart.thr = None /\ r = 4
    BY <1>4 DEF Configured, SerialType, Tested
  <2>2. 4 \in 0..4 /\ port # "absent"
    BY <2>1
  <2>3. outb(uart, 4, v).thr = uart.thr
    BY <2>1, <2>2, Outb
  <2> QED BY <2>1, <2>3
<1>5. Tested'
  BY <1>4 DEF Configured, Tested
<1>6. Configured'
  BY <1>1, <1>2, <1>3, <1>5 DEF Configured
<1>7. ASSUME constructed' = 11, is_valid' PROVE log' = wire' \o Held(uart')
  <2>1. log' = << >> /\ wire' = << >> /\ Held(uart') = << >>
    BY <1>4, <1>7 DEF Configured, Tested, Held
  <2> QED BY <2>1
<1> QED BY <1>6, <1>7 DEF Carried

LEMMA ConstructKeeps ==
  ASSUME Configured, construct
  PROVE  Configured' /\ Carried' /\ constructed \in 0..10 /\ constructed' = constructed + 1
<1> USE DEF Bytes
<1> DEFINE a == constructor_accesses[constructed + 1]
           r == a[1]
           v == a[2]
<1>1. constructed \in 0..10 /\ constructed' = constructed + 1
  BY Accesses DEF construct, Constructed, Configured, SerialType
<1>2. UNCHANGED <<port, log, wire>> /\ uart \in UartType
  BY DEF construct, Configured, SerialType
<1>3. v # None => uart' = outb(uart, r, v) /\ is_valid' = is_valid
  BY DEF construct
<1>4. v = None => is_valid' = (inb(uart) = 174) /\ uart' = uart
  BY DEF construct, loopback_test
<1>5. /\ constructed = 0 => r = 1 /\ v = 0
      /\ constructed = 1 => r = 3 /\ v = 128
      /\ constructed = 2 => r = 0 /\ v = 3
      /\ constructed = 3 => r = 1 /\ v = 0
      /\ constructed = 4 => r = 3 /\ v = 3
      /\ constructed = 5 => r = 2 /\ v = 199
      /\ constructed = 6 => r = 4 /\ v = 11
      /\ constructed = 7 => r = 4 /\ v = 30
      /\ constructed = 8 => r = 0 /\ v = 174
      /\ constructed = 9 => v = None
      /\ constructed = 10 => r = 4 /\ v = 15
  BY Accesses
<1> HIDE DEF a, r, v
<1>6. CASE constructed # 9
  <2>1. r \in 0..4 /\ v \in Bytes /\ v # None
    BY <1>1, <1>5, <1>6 DEF None
  <2>2. uart' = outb(uart, r, v) /\ is_valid' = is_valid
    BY <1>3, <2>1
  <2>3. port = "absent" => uart' = uart
    BY <1>2, <2>1, <2>2, Outb
  <2>4. ASSUME port # "absent"
        PROVE  /\ r = 3 => uart'.lcr = v
               /\ r # 3 => uart'.lcr = uart.lcr
               /\ r = 4 => uart'.mcr = v
               /\ r # 4 => uart'.mcr = uart.mcr
               /\ r \in {1, 3, 4} \/ (r = 0 /\ uart.lcr >= 128) => uart'.thr = uart.thr
               /\ r = 2 => uart'.thr = None /\ uart'.rbr = 0
               /\ r # 2 => uart'.rbr = uart.rbr
    <3> HIDE DEF Bytes
    <3> QED BY <1>2, <2>1, <2>2, <2>4, Outb
  <2>5. port # "absent" => Programmed(uart', constructed + 1)
    BY <1>1, <1>5, <1>6, <2>4 DEF Configured, Programmed
  <2>6. TestByte(uart', constructed + 1)
    <3>1. CASE port = "absent"
      BY <1>1, <1>6, <2>3, <3>1 DEF Configured, TestByte
    <3>2. CASE port # "absent"
      BY <1>1, <1>5, <1>6, <2>4, <3>2 DEF Configured, Programmed, TestByte
    <3> QED BY <3>1, <3>2
  <2> QED BY <1>1, <1>2, <1>5, <1>6, <2>1, <2>2, <2>5, <2>6, WriteKeeps
<1>7. CASE constructed = 9
  <2>1. is_valid' = (inb(uart) = 174) /\ uart' = uart
    BY <1>4, <1>5, <1>7
  <2>2. SerialType' /\ uart \in UartType
    BY <1>1, <1>2, <1>7, <2>1 DEF Configured, SerialType
  <2>3. port # "absent" => Programmed(uart, constructed)'
    BY <1>1, <1>2, <1>7, <2>1 DEF Configured, Programmed
  <2>4. TestByte(uart, constructed)' /\ constructed' = 10
    BY <1>1, <1>2, <1>7, <2>1 DEF TestByte
  <2>5. ASSUME is_valid' PROVE port = "working" /\ uart.thr = None
    <3>1. inb(uart) = 174
      BY <2>1, <2>5
    <3>2. port # "absent" /\ uart.lcr = 3
      BY <1>7, <3>1 DEF inb, Configured, SerialType, Programmed
    <3>3. uart.rbr = 174
      BY <3>1, <3>2 DEF inb, DLAB
    <3> QED BY <1>7, <3>3 DEF Configured, TestByte
  <2>6. Tested'
    BY <1>1, <1>2, <1>7, <2>1, <2>4, <2>5 DEF Configured, Tested
  <2> QED BY <1>1, <1>2, <2>2, <2>3, <2>4, <2>6 DEF Configured, Carried
<1> QED BY <1>1, <1>6, <1>7

LEMMA TransmitKeeps ==
  ASSUME Configured, Carried, Transmit
  PROVE  Configured' /\ Carried' /\ UNCHANGED constructed
<1> USE DEF Bytes
<1>1. /\ port = "working" /\ uart.thr # None /\ uart \in UartType
      /\ constructed \in 0..11 /\ UNCHANGED <<port, constructed, is_valid, log>>
  BY DEF Transmit, Configured, SerialType
<1>2. constructed >= 9
  BY <1>1 DEF Configured, TestByte
<1>3. /\ uart' \in UartType /\ uart'.thr = None
      /\ uart'.lcr = uart.lcr /\ uart'.mcr = uart.mcr
  <2>1. PICK x \in Bytes : uart' = [uart EXCEPT !.thr = None, !.rbr = x]
    BY <1>1 DEF Transmit, UartType
  <2> DEFINE w == [uart EXCEPT !.thr = None]
  <2>2. w \in UartType /\ w.thr = None /\ w.lcr = uart.lcr /\ w.mcr = uart.mcr
    BY <1>1 DEF UartType, None
  <2>3. uart' = [w EXCEPT !.rbr = x]
    BY <1>1, <2>1 DEF UartType
  <2> HIDE DEF w
  <2> QED BY <2>2, <2>3 DEF UartType
<1>4. Programmed(uart, constructed)' /\ TestByte(uart, constructed)'
  BY <1>1, <1>2, <1>3 DEF Configured, Programmed, TestByte
<1>5. CASE constructed < 11
  <2>1. Loopback(uart)
    BY <1>1, <1>2, <1>5 DEF Configured, Programmed, Loopback
  <2>2. wire' = wire
    BY <2>1 DEF Transmit
  <2>3. SerialType' /\ Tested'
    BY <1>1, <1>3, <2>2 DEF Configured, SerialType, Tested
  <2> QED BY <1>1, <1>4, <1>5, <2>3 DEF Configured, Carried
<1>6. CASE constructed = 11
  <2>1. ~Loopback(uart)
    BY <1>1, <1>6 DEF Configured, Programmed, Loopback
  <2>2. wire' = Append(wire, uart.thr) /\ wire \in Seq(Bytes) /\ uart.thr \in Bytes
    BY <1>1, <2>1 DEF Transmit, Configured, SerialType, UartType
  <2>3. SerialType' /\ Tested'
    BY <1>1, <1>3, <1>6, <2>2 DEF Configured, SerialType, Tested
  <2>4. ASSUME is_valid PROVE log' = wire' \o Held(uart')
    <3>1. log = wire \o <<uart.thr>>
      BY <1>1, <1>6, <2>4 DEF Carried, Held
    <3>2. Held(uart') = << >>
      BY <1>3 DEF Held
    <3>3. wire' \o << >> = wire'
      BY <2>2
    <3>4. wire \o <<uart.thr>> = Append(wire, uart.thr)
      BY <2>2
    <3> QED BY <1>1, <2>2, <3>1, <3>2, <3>3, <3>4
  <2> QED BY <1>1, <1>4, <2>3, <2>4 DEF Configured, Carried
<1> QED BY <1>1, <1>5, <1>6

LEMMA PutcKeeps ==
  ASSUME Configured, Carried, constructed = 11, NEW c \in Bytes, putc(c)
  PROVE  Configured' /\ Carried' /\ UNCHANGED constructed
<1> USE DEF Bytes
<1>1. /\ UNCHANGED <<port, constructed, is_valid, wire>> /\ uart \in UartType
      /\ log' = Append(log, c) /\ uart' = outb(uart, 0, c)
      /\ port = "absent" \/ (port = "working" /\ uart.thr = None)
  BY DEF putc, ready, data_reg_lo, Configured, SerialType
<1>2. log \in Seq(Bytes) /\ wire \in Seq(Bytes)
  BY DEF Configured, SerialType
<1> DEFINE r == 0
<1>3. r \in 0..4 /\ r = 0 /\ uart \in UartType /\ uart' = outb(uart, r, c)
  BY <1>1
<1> HIDE DEF r
<1>4. /\ uart' \in UartType /\ (port = "absent" => uart' = uart)
      /\ port # "absent" => uart'.lcr = uart.lcr /\ uart'.mcr = uart.mcr
                            /\ (uart.lcr < 128 => uart'.thr = c)
  <2>1. uart' \in UartType /\ (port = "absent" => uart' = uart)
    BY <1>3, Outb
  <2>2. ASSUME port # "absent"
        PROVE  /\ r # 3 => uart'.lcr = uart.lcr
               /\ r # 4 => uart'.mcr = uart.mcr
               /\ r = 0 /\ uart.lcr < 128 => uart'.thr = c
    BY <1>3, <2>2, Outb
  <2> QED BY <1>3, <2>1, <2>2
<1>5. /\ port # "absent" => Programmed(uart, constructed)'
      /\ TestByte(uart, constructed)'
  BY <1>1, <1>4 DEF Configured, Programmed, TestByte
<1>6. SerialType' /\ Tested'
  BY <1>1, <1>2, <1>4 DEF Configured, SerialType, Tested
<1>7. ASSUME is_valid PROVE log' = wire' \o Held(uart')
  <2>1. port = "working" /\ uart.thr = None
    BY <1>1, <1>7 DEF Configured, Tested
  <2>2. uart'.thr = c
    BY <1>4, <2>1 DEF Configured, Programmed
  <2>3. log = wire \o << >>
    BY <1>7, <2>1 DEF Carried, Held
  <2>4. wire \o << >> = wire /\ wire \o <<c>> = Append(wire, c)
    BY <1>2
  <2>5. Held(uart') = <<c>>
    BY <2>2 DEF Held, None
  <2> QED BY <1>1, <2>3, <2>4, <2>5
<1> QED BY <1>1, <1>5, <1>6, <1>7 DEF Configured, Carried

----------------------------------------------------------------------------
\* When the thread and the handlers come to use the port, and with which byte.
Using ==
  /\ at \in {"_start", "long_mode", "boot_gdt", "boot_segments", "_start_in_higher_half"} =>
       constructed = 0
  /\ at = "_init" => constructed < 11
  /\ at \in Late \cup {"init_gdt", "_reload_segments", "init_interrupts"} => constructed = 11
  /\ handler \in {"none", "print_frame", "kernel_panic"}
  /\ handler # "none" => at \in Late
  /\ said \in Nat
  /\ handler = "none" /\ at \notin {"log", "finalize", "hlt_loop"} => said = 0
  /\ handler = "none" /\ at = "log" => said < 2
  /\ handler = "print_frame" => said < 2

WInv == Placed /\ Configured /\ Carried /\ Using

LEMMA InitWired == Init => WInv
<1> SUFFICES ASSUME Init PROVE WInv
  OBVIOUS
<1> USE DEF Bytes
<1>1. Placed
  BY InitPlaced
<1>2. /\ port \in Ports /\ port \in {"working", "absent", "stuck"} /\ constructed = 0 /\ is_valid = FALSE
      /\ log = << >> /\ wire = << >>
      /\ uart = [lcr |-> 0, mcr |-> 0, dll |-> 1, dlm |-> 0, thr |-> None, rbr |-> 0]
  BY SerialAssumption DEF Init, SerialInit
<1>3. uart \in UartType
  BY <1>2 DEF UartType, None
<1>4. SerialType
  <2>1. log \in Seq(Bytes) /\ wire \in Seq(Bytes)
    BY <1>2
  <2>2. is_valid \in BOOLEAN
    BY <1>2
  <2>3. constructed \in 0..11
    BY <1>2
  <2> QED BY <1>2, <1>3, <2>1, <2>2, <2>3 DEF SerialType
<1>5. Programmed(uart, constructed) /\ TestByte(uart, constructed) /\ Tested
  BY <1>2 DEF Programmed, TestByte, Tested
<1>6. Carried /\ Using
  BY <1>2 DEF Init, StartupInit, Carried, Using, Late
<1> QED BY <1>1, <1>4, <1>5, <1>6 DEF WInv, Configured

\* A step that leaves the port alone.
LEMMA SameSerial ==
  ASSUME Configured, Carried, UNCHANGED serialVars
  PROVE  Configured' /\ Carried'
BY DEF serialVars, Configured, SerialType, Programmed, TestByte, Tested, Carried, Held

LEMMA NextWired == WInv /\ [Next]_vars => WInv'
<1> SUFFICES ASSUME WInv, [Next]_vars PROVE WInv'
  OBVIOUS
<1>1. Placed'
  BY NextPlaced DEF WInv
<1> USE DEF WInv, Bytes
<1>2. CASE _init
  <2>1. Configured' /\ Carried' /\ constructed \in 0..10 /\ constructed' = constructed + 1
    BY <1>2, ConstructKeeps DEF _init
  <2>2. /\ at = "_init" /\ handler = "none" /\ handler' = handler /\ said' = said
        /\ at' = IF constructed + 1 = 11 THEN "init_gdt" ELSE "_init"
    BY <1>2, Accesses DEF _init, Go
  <2>3. Using'
    BY <2>1, <2>2 DEF Using, Late
  <2> QED BY <1>1, <2>1, <2>3
<1>3. CASE log_byte
  <2>1. /\ at = "log" /\ handler = "none" /\ handler' = handler /\ said' = said + 1
        /\ at' \in {"log", "finalize"} /\ (at' = "log" => said + 1 # 2)
        /\ putc(SystemUp[said + 1])
    BY <1>3 DEF log_byte, Go, SystemUp
  <2>2. said \in 0..1 /\ constructed = 11
    BY <2>1 DEF Using, Late
  <2> DEFINE c == SystemUp[said + 1]
  <2>3. c \in Bytes
    BY <2>2 DEF SystemUp
  <2> HIDE DEF c
  <2>4. putc(c)
    BY <2>1 DEF c
  <2>5. Configured' /\ Carried' /\ UNCHANGED constructed
    BY <2>2, <2>3, <2>4, PutcKeeps
  <2>6. Using'
    BY <2>1, <2>2, <2>5 DEF Using, Late
  <2> QED BY <1>1, <2>5, <2>6
<1>4. CASE print_frame
  <2>1. /\ handler = "print_frame" /\ at' = at /\ said' = said + 1
        /\ handler' \in {"print_frame", "kernel_panic"}
        /\ (handler' = "print_frame" => said + 1 # 2)
        /\ putc(Frame[said + 1])
    BY <1>4 DEF print_frame, Frame
  <2>2. said \in 0..1 /\ constructed = 11
    BY <2>1 DEF Using, Late
  <2> DEFINE c == Frame[said + 1]
  <2>3. c \in Bytes
    BY <2>2 DEF Frame
  <2> HIDE DEF c
  <2>4. putc(c)
    BY <2>1 DEF c
  <2>5. Configured' /\ Carried' /\ UNCHANGED constructed
    BY <2>2, <2>3, <2>4, PutcKeeps
  <2>6. Using'
    BY <2>1, <2>2, <2>5 DEF Using, Late
  <2> QED BY <1>1, <2>5, <2>6
<1>5. CASE Uart
  <2>1. Configured' /\ Carried' /\ UNCHANGED constructed
    BY <1>5, TransmitKeeps DEF Uart
  <2>2. Using'
    BY <1>5, <2>1 DEF Uart, threadVars, Using, Late
  <2> QED BY <1>1, <2>1, <2>2
<1>6. CASE Exception
  <2>1. /\ interruptible /\ handler' = "print_frame" /\ said' = 0 /\ at' = at
        /\ UNCHANGED serialVars
    BY <1>6 DEF Exception
  <2>2. at \in Late
    BY <2>1 DEF Placed
  <2>3. Using'
    BY <2>1, <2>2 DEF Using, serialVars
  <2> QED BY <1>1, <2>1, <2>3, SameSerial
<1>7. CASE \/ _start \/ long_mode \/ load_boot_gdt \/ boot_segments \/ unmap_low
           \/ init_gdt \/ _reload_segments \/ init_interrupts \/ boot_info
           \/ screen \/ valid \/ paging_init \/ finalize
  <2>1. UNCHANGED serialVars /\ handler = "none" /\ handler' = handler /\ said' = said
    BY <1>7 DEF _start, long_mode, load_boot_gdt, boot_segments, unmap_low, init_gdt,
                _reload_segments, init_interrupts, boot_info, screen, valid,
                paging_init, finalize, Pass, Go
  <2>2. \/ at \in {"_start", "long_mode", "boot_gdt", "boot_segments"} /\
           at' \in {"long_mode", "boot_gdt", "boot_segments", "_start_in_higher_half"}
        \/ at = "_start_in_higher_half" /\ at' = "_init"
        \/ at \in {"init_gdt", "_reload_segments", "init_interrupts"} /\
           at' \in {"_reload_segments", "init_interrupts", "boot_info"}
        \/ at \in {"boot_info", "screen", "valid", "paging_init"} /\
           at' \in {"boot_info", "screen", "valid", "paging_init", "log", "finalize"}
        \/ at = "finalize" /\ at' = "hlt_loop"
    BY <1>7 DEF _start, long_mode, load_boot_gdt, boot_segments, unmap_low, init_gdt,
                _reload_segments, init_interrupts, boot_info, screen, valid,
                paging_init, finalize, Pass, Go
  <2>3. Using'
    BY <2>1, <2>2 DEF Using, Late, serialVars
  <2> QED BY <1>1, <2>1, <2>3, SameSerial
<1>8. CASE Poll \/ Idle \/ UNCHANGED vars
  <2>1. UNCHANGED <<serialVars, threadVars>>
    BY <1>8 DEF Poll, Idle, vars
  <2>2. Using'
    BY <2>1 DEF serialVars, threadVars, Using, Late
  <2> QED BY <1>1, <2>1, <2>2, SameSerial
<1> QED BY <1>2, <1>3, <1>4, <1>5, <1>6, <1>7, <1>8 DEF Next, Thread

\* Over a port that passed SerialPort's loopback test the kernel's messages arrive
\* byte for byte, in order, whenever the UART sends them and wherever an exception
\* cuts in: the constructor's accesses leave neither the divisor addressed nor
\* loopback mode on, and its test byte has left the holding register.
THEOREM WireFaithful == Spec => []WireIsLog
<1>1. WInv => WireIsLog
  BY Accesses DEF WInv, Carried, Held, WireIsLog, Constructed
<1> QED BY <1>1, InitWired, NextWired, PTL DEF Spec

----------------------------------------------------------------------------
(* OnATag, ReportsLast: the walk over the tags.                            *)

\* Induction on the natural numbers, for a set.
LEMMA SetInduction ==
  ASSUME NEW S, 0 \in S, \A n \in Nat : n \in S => n + 1 \in S
  PROVE  \A n \in Nat : n \in S
<1> DEFINE T == Nat \ S
           R == OpToRel(<, Nat)
<1> SUFFICES ASSUME T # {} PROVE FALSE
  OBVIOUS
<1>1. IsWellFoundedOn(R, Nat)
  BY NatLessThanWellFounded, Zenon
<1>2. T \subseteq Nat
  OBVIOUS
<1>3. \A a, b \in Nat : a < b => <<a, b>> \in R
  BY DEF OpToRel
<1> HIDE DEF T, R
<1>4. PICK x \in T : \A y \in T : ~ (<<y, x>> \in R)
  BY <1>1, <1>2, WFMin
<1>5. x \in Nat /\ x # 0
  BY <1>2 DEF T
<1>6. x - 1 \in Nat /\ x - 1 < x /\ (x - 1) + 1 = x
  BY <1>5
<1>7. x - 1 \notin T
  BY <1>3, <1>4, <1>5, <1>6
<1> QED BY <1>5, <1>6, <1>7 DEF T

\* g adds up u's values, as Offset adds up the tags' sizes, as far as n.
Adds(g, u, n) ==
  g = [k \in 0..n |-> IF k <= 1 THEN 0 ELSE g[k - 1] + u[k - 1]]

LEMMA AddsSame ==
  ASSUME NEW u, NEW m \in Nat, NEW n \in Nat, m <= n,
         NEW g, Adds(g, u, m), NEW h, Adds(h, u, n)
  PROVE  g[m] = h[m]
<1> DEFINE S == {k \in Nat : k <= m => g[k] = h[k]}
<1>1. 0 \in S
  BY DEF Adds
<1>2. ASSUME NEW k \in Nat, k \in S PROVE k + 1 \in S
  <2>1. CASE k + 1 <= m
    <3>1. g[k] = h[k]
      BY <1>2, <2>1
    <3>2. /\ g[k + 1] = IF k + 1 <= 1 THEN 0 ELSE g[(k + 1) - 1] + u[(k + 1) - 1]
          /\ h[k + 1] = IF k + 1 <= 1 THEN 0 ELSE h[(k + 1) - 1] + u[(k + 1) - 1]
      BY <2>1 DEF Adds
    <3>3. (k + 1) - 1 = k
      OBVIOUS
    <3> QED BY <3>1, <3>2, <3>3
  <2> QED BY <2>1
<1> HIDE DEF S
<1>3. \A k \in Nat : k \in S
  BY <1>1, <1>2, SetInduction
<1> QED BY <1>3 DEF S

LEMMA AddsExist ==
  ASSUME NEW u
  PROVE  \A n \in Nat : \E g : Adds(g, u, n)
<1> DEFINE S == {n \in Nat : \E g : Adds(g, u, n)}
<1>1. 0 \in S
  <2>1. Adds([k \in 0..0 |-> 0], u, 0)
    BY DEF Adds
  <2> QED BY <2>1
<1>2. ASSUME NEW n \in Nat, n \in S PROVE n + 1 \in S
  <2>1. PICK g : Adds(g, u, n)
    BY <1>2
  <2> DEFINE h == [k \in 0..(n + 1) |-> IF k <= n THEN g[k]
                                       ELSE IF k <= 1 THEN 0 ELSE g[k - 1] + u[k - 1]]
  <2>2. \A k \in 0..n : h[k] = g[k]
    OBVIOUS
  <2>3. \A k \in 0..n : g[k] = IF k <= 1 THEN 0 ELSE g[k - 1] + u[k - 1]
    BY <2>1 DEF Adds
  <2>4. ASSUME NEW k \in 0..(n + 1)
        PROVE  h[k] = IF k <= 1 THEN 0 ELSE h[k - 1] + u[k - 1]
    <3>1. CASE k <= n
      <4>1. k \in 0..n /\ (~(k <= 1) => k - 1 \in 0..n)
        BY <3>1
      <4> HIDE DEF h
      <4> QED BY <2>2, <2>3, <4>1
    <3>2. CASE k = n + 1
      <4>1. h[k] = IF k <= 1 THEN 0 ELSE g[k - 1] + u[k - 1]
        BY <3>2
      <4>2. ~(k <= 1) => k - 1 \in 0..n
        BY <3>2
      <4> HIDE DEF h
      <4> QED BY <2>2, <4>1, <4>2
    <3> QED BY <3>1, <3>2
  <2>5. DOMAIN h = 0..(n + 1) /\ h = [k \in 0..(n + 1) |-> h[k]]
    OBVIOUS
  <2> HIDE DEF h
  <2>6. Adds(h, u, n + 1)
    BY <2>4, <2>5 DEF Adds
  <2> QED BY <2>6
<1> HIDE DEF S
<1>3. \A n \in Nat : n \in S
  BY <1>1, <1>2, SetInduction
<1> QED BY <1>3 DEF S

\* The definition of Offset defines a function: it is what it says it is.
LEMMA SumExists ==
  ASSUME NEW u
  PROVE  \E f : f = [k \in Nat |-> IF k <= 1 THEN 0 ELSE f[k - 1] + u[k - 1]]
<1> DEFINE G(n) == CHOOSE g : Adds(g, u, n)
           f == [k \in Nat |-> G(k)[k]]
<1>1. ASSUME NEW n \in Nat PROVE Adds(G(n), u, n)
  BY AddsExist, Zenon
<1>2. ASSUME NEW k \in Nat PROVE f[k] = IF k <= 1 THEN 0 ELSE f[k - 1] + u[k - 1]
  <2>1. Adds(G(k), u, k)
    BY <1>1
  <2>2. f[k] = G(k)[k]
    OBVIOUS
  <2>3. ~(k <= 1) => k - 1 \in Nat /\ k - 1 <= k /\ f[k - 1] = G(k - 1)[k - 1]
    OBVIOUS
  <2> HIDE DEF G, f
  <2>4. G(k)[k] = IF k <= 1 THEN 0 ELSE G(k)[k - 1] + u[k - 1]
    BY <2>1 DEF Adds
  <2>5. CASE k <= 1
    BY <2>2, <2>4, <2>5
  <2>6. CASE ~(k <= 1)
    <3>1. Adds(G(k - 1), u, k - 1)
      BY <1>1, <2>3, <2>6
    <3>2. G(k - 1)[k - 1] = G(k)[k - 1]
      BY <2>1, <2>3, <2>6, <3>1, AddsSame
    <3> QED BY <2>2, <2>3, <2>4, <2>6, <3>2
  <2> QED BY <2>5, <2>6
<1>3. f = [k \in Nat |-> f[k]]
  OBVIOUS
<1> HIDE DEF f
<1>4. f = [k \in Nat |-> IF k <= 1 THEN 0 ELSE f[k - 1] + u[k - 1]]
  BY <1>2, <1>3
<1> QED BY <1>4

LEMMA OffsetDef ==
  \A k \in Nat : Offset[k] = IF k <= 1 THEN 0 ELSE Offset[k - 1] + Units(tags[k - 1].size)
<1> DEFINE u == [j \in Nat |-> Units(tags[j].size)]
           D(f) == [k \in Nat |-> IF k <= 1 THEN 0 ELSE f[k - 1] + Units(tags[k - 1].size)]
<1>1. PICK f : f = [k \in Nat |-> IF k <= 1 THEN 0 ELSE f[k - 1] + u[k - 1]]
  <2> HIDE DEF u
  <2> QED BY SumExists
<1>2. ASSUME NEW k \in Nat
      PROVE  (IF k <= 1 THEN 0 ELSE f[k - 1] + u[k - 1]) =
             (IF k <= 1 THEN 0 ELSE f[k - 1] + Units(tags[k - 1].size))
  <2>1. CASE k <= 1
    BY <2>1
  <2>2. CASE ~(k <= 1)
    <3>1. k - 1 \in Nat
      BY <2>2
    <3>2. u[k - 1] = Units(tags[k - 1].size)
      BY <3>1
    <3> QED BY <3>2
  <2> QED BY <2>1, <2>2
<1>3. f = D(f)
  BY <1>1, <1>2
<1>4. Offset = CHOOSE g : g = D(g)
  BY DEF Offset
<1>5. Offset = D(Offset)
  <2> HIDE DEF D
  <2> QED BY <1>3, <1>4
<1> QED BY <1>5

----------------------------------------------------------------------------
Kinds == {CMDLINE, BASIC_MEMINFO, ELF_SECTIONS}

\* What the loader leaves: an end tag behind all others, each at least a header.
TagsOK ==
  /\ Len(tags) \in 1..(MaxTags + 1) /\ DOMAIN tags = 1..Len(tags)
  /\ \A k \in DOMAIN tags : tags[k].size \in Nat /\ tags[k].size >= 8
  /\ \A k \in DOMAIN tags : tags[k].type = END <=> k = Len(tags)

LEMMA LoadersOK == tags \in Loaders => TagsOK
<1> SUFFICES ASSUME tags \in Loaders PROVE TagsOK
  OBVIOUS
<1> DEFINE Rec == [type : Kinds, size : Sizes]
           e == [type |-> END, size |-> 8]
<1>0. PICK n \in 0..MaxTags : \E t \in [1..n -> Rec] : tags = t \o <<e>>
  BY DEF Loaders, Kinds
<1>1. PICK t \in [1..n -> Rec] : tags = t \o <<e>>
  BY <1>0
<1>2. n \in Nat /\ t \in Seq(Rec) /\ Len(t) = n
  <2>1. n \in Nat
    BY MultibootAssumption
  <2> HIDE DEF Rec
  <2>2. t \in Seq(Rec)
    BY <2>1
  <2> QED BY <2>1, <2>2
<1>3. e.type = END /\ e.size = 8
  OBVIOUS
<1>4. ASSUME NEW r \in Rec PROVE r.size \in Nat /\ r.size >= 8 /\ r.type # END
  <2>1. r.size \in Sizes /\ r.type \in Kinds
    OBVIOUS
  <2>2. r.size \in Nat /\ r.size >= 8
    BY <2>1, MultibootAssumption
  <2> QED BY <2>1, <2>2 DEF Kinds, CMDLINE, BASIC_MEMINFO, ELF_SECTIONS, END
<1> HIDE DEF Rec, e
<1> DEFINE X == Rec \cup {e}
<1>5. t \in Seq(X) /\ <<e>> \in Seq(X) /\ Len(<<e>>) = 1 /\ <<e>>[1] = e
  BY <1>2, SeqMonotonic
<1> HIDE DEF X
<1>6. /\ Len(tags) = n + 1 /\ DOMAIN tags = 1..(n + 1)
      /\ \A k \in 1..n : tags[k] = t[k]
      /\ tags[n + 1] = e
  <2>1. /\ t \o <<e>> \in Seq(X) /\ Len(t \o <<e>>) = n + 1
        /\ \A k \in 1..(n + 1) : (t \o <<e>>)[k] = IF k <= n THEN t[k] ELSE <<e>>[k - n]
    BY <1>2, <1>5
  <2> QED BY <1>1, <1>2, <1>5, <2>1
<1>7. \A k \in 1..n : t[k] \in Rec
  BY <1>1
<1>8. ASSUME NEW k \in 1..(n + 1)
      PROVE  tags[k].size \in Nat /\ tags[k].size >= 8 /\ (tags[k].type = END <=> k = n + 1)
  <2>1. CASE k \in 1..n
    BY <1>2, <1>4, <1>6, <1>7, <2>1
  <2>2. CASE k = n + 1
    BY <1>3, <1>6, <2>2
  <2> QED BY <1>2, <2>1, <2>2
<1> QED BY <1>1, <1>2, <1>6, <1>8, MultibootAssumption DEF TagsOK

\* The pointer's stride is the tag's length in units, and not zero.
LEMMA StrideUnits ==
  ASSUME NEW s \in Nat, s >= 8
  PROVE  Units(s) \in Nat /\ Units(s) >= 1 /\ Stride(s) = Units(s)
BY DEF Units, Stride, round_up_8

\* Offsets are where the tags before end, and grow.
LEMMA OffsetNext ==
  ASSUME TagsOK, NEW k \in DOMAIN tags, k + 1 \in DOMAIN tags
  PROVE  Offset[k + 1] = Offset[k] + Units(tags[k].size)
<1>1. k \in Nat /\ k >= 1 /\ (k + 1) - 1 = k /\ ~(k + 1 <= 1) /\ k + 1 \in Nat
  BY DEF TagsOK
<1> QED BY <1>1, OffsetDef

LEMMA OffsetNat ==
  ASSUME TagsOK
  PROVE  \A k \in DOMAIN tags : Offset[k] \in Nat
<1> DEFINE S == {k \in Nat : k \in DOMAIN tags => Offset[k] \in Nat}
<1>1. 0 \in S
  BY DEF TagsOK
<1>2. ASSUME NEW k \in Nat, k \in S PROVE k + 1 \in S
  <2> SUFFICES ASSUME k + 1 \in DOMAIN tags PROVE Offset[k + 1] \in Nat
    OBVIOUS
  <2>1. CASE k = 0
    <3>1. Offset[1] = 0
      BY OffsetDef
    <3> QED BY <2>1, <3>1
  <2>2. CASE k # 0
    <3>1. k \in DOMAIN tags
      BY <2>2 DEF TagsOK
    <3>2. Offset[k + 1] = Offset[k] + Units(tags[k].size) /\ Offset[k] \in Nat
      BY <1>2, <3>1, OffsetNext
    <3>3. Units(tags[k].size) \in Nat
      BY <3>1, StrideUnits DEF TagsOK
    <3> QED BY <3>2, <3>3
  <2> QED BY <2>1, <2>2
<1> HIDE DEF S
<1>3. \A k \in Nat : k \in S
  BY <1>1, <1>2, SetInduction
<1>4. \A k \in DOMAIN tags : k \in Nat
  BY DEF TagsOK
<1> QED BY <1>3, <1>4 DEF S

LEMMA OffsetsGrow ==
  ASSUME TagsOK, NEW j \in DOMAIN tags, NEW k \in DOMAIN tags, j < k
  PROVE  Offset[j] < Offset[k]
<1> DEFINE S == {i \in Nat : i \in DOMAIN tags /\ j < i => Offset[j] < Offset[i]}
<1>1. 0 \in S
  BY DEF TagsOK
<1>2. ASSUME NEW i \in Nat, i \in S PROVE i + 1 \in S
  <2> SUFFICES ASSUME i + 1 \in DOMAIN tags, j < i + 1 PROVE Offset[j] < Offset[i + 1]
    OBVIOUS
  <2>1. i \in DOMAIN tags /\ j <= i /\ j \in Nat
    BY DEF TagsOK
  <2>2. Offset[i + 1] = Offset[i] + Units(tags[i].size)
    BY <2>1, OffsetNext
  <2>3. Units(tags[i].size) \in Nat /\ Units(tags[i].size) >= 1
    BY <2>1, StrideUnits DEF TagsOK
  <2>4. Offset[i] \in Nat /\ Offset[j] \in Nat
    BY <2>1, OffsetNat
  <2>5. j = i \/ Offset[j] < Offset[i]
    BY <1>2, <2>1
  <2> QED BY <2>2, <2>3, <2>4, <2>5
<1> HIDE DEF S
<1>3. \A i \in Nat : i \in S
  BY <1>1, <1>2, SetInduction
<1>4. k \in Nat
  BY DEF TagsOK
<1> QED BY <1>3, <1>4 DEF S

\* No two tags start at one offset: TagAt gives back the tag an offset is of.
LEMMA TagThere ==
  ASSUME TagsOK, NEW k \in DOMAIN tags
  PROVE  TagAt(Offset[k]) = k
<1> DEFINE At(i) == i \in DOMAIN tags /\ Offset[i] = Offset[k]
<1>1. TagAt(Offset[k]) = CHOOSE i \in DOMAIN tags : Offset[i] = Offset[k]
  BY DEF TagAt
<1>2. ASSUME NEW i \in DOMAIN tags, Offset[i] = Offset[k] PROVE i = k
  <2>1. i \in Nat /\ k \in Nat /\ Offset[k] \in Nat
    BY OffsetNat DEF TagsOK
  <2>2. i < k => Offset[i] < Offset[k]
    BY OffsetsGrow
  <2>3. k < i => Offset[k] < Offset[i]
    BY OffsetsGrow
  <2> QED BY <1>2, <2>1, <2>2, <2>3
<1> QED BY <1>1, <1>2

----------------------------------------------------------------------------
\* Of the tags of type t up to number k, the walk reports those behind the first.
Seen(t, k) == {j \in DOMAIN tags : 1 < j /\ j <= k /\ tags[j].type = t}

\* The walk stands on tag k and has reported the last of each type up to there.
WalkedTo(k) ==
  /\ k \in DOMAIN tags /\ curr_tag = Offset[k]
  /\ IsLast(meminfo, Seen(BASIC_MEMINFO, k))
  /\ IsLast(elf_sections, Seen(ELF_SECTIONS, k))

Walked == TagsOK /\ \E k \in DOMAIN tags : WalkedTo(k)

LEMMA InitWalked == Init => Walked
<1> SUFFICES ASSUME Init PROVE Walked
  OBVIOUS
<1>1. TagsOK /\ curr_tag = 0 /\ meminfo = 0 /\ elf_sections = 0
  BY LoadersOK DEF Init, WalkInit
<1>2. 1 \in DOMAIN tags /\ \A k \in DOMAIN tags : k \in Int
  BY <1>1 DEF TagsOK
<1>3. Offset[1] = 0
  BY OffsetDef
<1>4. ASSUME NEW t PROVE Seen(t, 1) = {}
  BY <1>2 DEF Seen
<1>5. WalkedTo(1)
  BY <1>1, <1>2, <1>3, <1>4 DEF WalkedTo, IsLast
<1> QED BY <1>1, <1>2, <1>5 DEF Walked

\* The tag the walk comes to is the last of its type.
LEMMA LastMoves ==
  ASSUME TagsOK, NEW k \in DOMAIN tags, k + 1 \in DOMAIN tags, NEW t, NEW m,
         IsLast(m, Seen(t, k))
  PROVE  IsLast(IF tags[k + 1].type = t THEN k + 1 ELSE m, Seen(t, k + 1))
<1>1. k \in Nat /\ 1 <= k /\ \A j \in DOMAIN tags : j \in Nat
  BY DEF TagsOK
<1>2. CASE tags[k + 1].type = t
  <2>1. k + 1 \in Seen(t, k + 1)
    BY <1>1, <1>2 DEF Seen
  <2>2. \A j \in Seen(t, k + 1) : j <= k + 1
    BY DEF Seen
  <2> QED BY <1>2, <2>1, <2>2 DEF IsLast
<1>3. CASE tags[k + 1].type # t
  <2>1. ASSUME NEW j \in DOMAIN tags, tags[j].type = t PROVE j <= k + 1 <=> j <= k
    <3>1. j # k + 1
      BY <1>3, <2>1
    <3> QED BY <1>1, <3>1
  <2>2. Seen(t, k + 1) = Seen(t, k)
    BY <2>1 DEF Seen
  <2> QED BY <1>3, <2>2
<1> QED BY <1>2, <1>3

\* Where the walk stands, its end test asks about the tag it stands on.
LEMMA StandsOn ==
  ASSUME TagsOK, NEW k, WalkedTo(k)
  PROVE  TagAt(curr_tag) = k /\ k # 0 /\ (AtEnd <=> k = Len(tags))
<1>1. TagAt(curr_tag) = k /\ k \in DOMAIN tags
  BY TagThere DEF WalkedTo
<1>2. k # 0 /\ (tags[k].type = END <=> k = Len(tags))
  BY <1>1 DEF TagsOK
<1> QED BY <1>1, <1>2 DEF AtEnd

LEMMA WalkSteps ==
  ASSUME Walked, next_tag
  PROVE  Walked'
<1>1. TagsOK
  BY DEF Walked
<1>2. PICK k \in DOMAIN tags : WalkedTo(k)
  BY DEF Walked
<1>3. TagAt(curr_tag) = k /\ k # 0 /\ (AtEnd <=> k = Len(tags))
  BY <1>1, <1>2, StandsOn
<1> DEFINE next == curr_tag + Stride(tags[k].size)
           n == TagAt(next)
<1>4. /\ ~AtEnd /\ curr_tag' = next /\ tags' = tags
      /\ meminfo' = IF n # 0 /\ tags[n].type = BASIC_MEMINFO THEN n ELSE meminfo
      /\ elf_sections' = IF n # 0 /\ tags[n].type = ELF_SECTIONS THEN n ELSE elf_sections
  BY <1>3, Zenon DEF next_tag
<1>5. k \in Nat /\ k + 1 \in DOMAIN tags /\ k + 1 # 0
  BY <1>1, <1>3, <1>4 DEF TagsOK
<1>6. next = Offset[k + 1]
  <2>1. Stride(tags[k].size) = Units(tags[k].size)
    BY <1>1, StrideUnits DEF TagsOK
  <2> QED BY <1>1, <1>2, <1>5, <2>1, OffsetNext DEF WalkedTo
<1> HIDE DEF next
<1>7. n = k + 1
  BY <1>1, <1>5, <1>6, TagThere
<1> HIDE DEF n
<1>8. /\ meminfo' = IF tags[k + 1].type = BASIC_MEMINFO THEN k + 1 ELSE meminfo
      /\ elf_sections' = IF tags[k + 1].type = ELF_SECTIONS THEN k + 1 ELSE elf_sections
  BY <1>4, <1>5, <1>7
<1>9. /\ IsLast(meminfo', Seen(BASIC_MEMINFO, k + 1))
      /\ IsLast(elf_sections', Seen(ELF_SECTIONS, k + 1))
  BY <1>1, <1>2, <1>5, <1>8, LastMoves DEF WalkedTo
<1>10. Offset' = Offset
  BY <1>4 DEF Offset
<1>11. /\ curr_tag' = Offset'[k + 1] /\ k + 1 \in DOMAIN tags'
       /\ IsLast(meminfo', Seen(BASIC_MEMINFO, k + 1)')
       /\ IsLast(elf_sections', Seen(ELF_SECTIONS, k + 1)')
  BY <1>4, <1>5, <1>6, <1>9, <1>10 DEF Seen
<1>12. TagsOK'
  BY <1>1, <1>4 DEF TagsOK
<1>13. WalkedTo(k + 1)'
  BY <1>11 DEF WalkedTo, IsLast
<1> QED BY <1>11, <1>12, <1>13 DEF Walked

LEMMA WalkStands == Walked /\ UNCHANGED walkVars => Walked'
BY DEF Walked, walkVars, TagsOK, WalkedTo, Offset, IsLast, Seen

LEMMA NextWalked == Walked /\ [Next]_vars => Walked'
<1> SUFFICES ASSUME Walked, [Next]_vars PROVE Walked'
  OBVIOUS
<1>1. CASE boot_info
  <2>1. next_tag \/ UNCHANGED walkVars
    BY <1>1 DEF boot_info
  <2> QED BY <2>1, WalkSteps, WalkStands
<1>2. CASE ~boot_info
  <2>1. UNCHANGED walkVars
    BY <1>2 DEF Next, Thread, _start, long_mode, load_boot_gdt, boot_segments, unmap_low,
                _init, init_gdt, _reload_segments, init_interrupts, screen, valid,
                paging_init, log_byte, finalize, Pass, Exception, print_frame, Poll,
                Idle, Uart, vars
  <2> QED BY <2>1, WalkStands
<1> QED BY <1>1, <1>2

\* boot_info's walk never leaves the tags: rounding each size up to eight bytes
\* takes it from the start of one tag to the start of the next, whatever the sizes
\* and however many there are.
THEOREM WalkOnTags == Spec => []OnATag
<1>1. Walked => OnATag
  BY StandsOn DEF Walked, OnATag
<1> QED BY <1>1, InitWalked, NextWalked, PTL DEF Spec

\* When boot_info's loop ends the kernel has the last of all tags of each type it
\* knows, and none if there is none, unless the only tag of the type is the first.
THEOREM LastTagsReported == Spec => []ReportsLast
<1>1. ASSUME Walked, AtEnd
      PROVE  /\ TagsOf(BASIC_MEMINFO) # {1} => IsLast(meminfo, TagsOf(BASIC_MEMINFO))
             /\ TagsOf(ELF_SECTIONS) # {1} => IsLast(elf_sections, TagsOf(ELF_SECTIONS))
  <2>1. TagsOK
    BY <1>1 DEF Walked
  <2>2. PICK k \in DOMAIN tags : WalkedTo(k)
    BY <1>1 DEF Walked
  <2>3. k = Len(tags)
    BY <1>1, <2>1, <2>2, StandsOn
  <2>4. ASSUME NEW t, NEW m, IsLast(m, Seen(t, k)), TagsOf(t) # {1}
        PROVE  IsLast(m, TagsOf(t))
    <3>1. \A j \in DOMAIN tags : j \in Nat /\ j <= k /\ (j # 1 => 1 < j)
      BY <2>1, <2>3 DEF TagsOK
    <3>2. Seen(t, k) = TagsOf(t) \ {1}
      BY <3>1 DEF Seen, TagsOf
    <3>3. CASE TagsOf(t) = {}
      BY <2>4, <3>2, <3>3 DEF IsLast
    <3>4. CASE TagsOf(t) # {}
      <4>1. TagsOf(t) \ {1} # {}
        BY <2>4, <3>4
      <4>2. m \in TagsOf(t) \ {1} /\ \A j \in TagsOf(t) \ {1} : j <= m
        BY <2>4, <3>2, <4>1 DEF IsLast
      <4>3. m \in Nat /\ 1 < m
        BY <3>1, <4>2 DEF TagsOf
      <4>4. \A j \in TagsOf(t) : j <= m
        BY <4>2, <4>3
      <4> QED BY <3>4, <4>2, <4>4 DEF IsLast
    <3> QED BY <3>3, <3>4
  <2> QED BY <2>2, <2>4 DEF WalkedTo
<1>2. Walked => ReportsLast
  BY <1>1 DEF ReportsLast
<1> QED BY <1>2, InitWalked, NextWalked, PTL DEF Spec

----------------------------------------------------------------------------
(* TypeOK. *)

Halves == [PML4 : SUBSET Both, PDPT : SUBSET Both]

\* What the other invariants leave open.
Kept ==
  /\ tables \in Halves /\ GDT \in {EmptyGDT, KernelGDT}
  /\ gdtr.half \in {"none", "low", "high"} /\ interruptible \in BOOLEAN
  /\ said \in 0..2 /\ exceptions \in 0..MaxExceptions

LEMMA InitKept == Init => Kept
<1> SUFFICES ASSUME Init PROVE Kept
  OBVIOUS
<1>1. /\ tables = [PML4 |-> {}, PDPT |-> {}] /\ GDT = EmptyGDT
      /\ gdtr = [table |-> << >>, half |-> "none"] /\ interruptible = FALSE /\ said = 0
      /\ exceptions = 0
  BY DEF Init, StartupInit
<1>2. tables \in Halves
  BY <1>1 DEF Halves
<1>3. gdtr.half = "none" /\ said \in 0..2 /\ exceptions \in 0..MaxExceptions
  BY <1>1, StartupAssumption
<1>4. interruptible \in BOOLEAN
  BY <1>1, Zenon
<1> QED BY <1>1, <1>2, <1>3, <1>4 DEF Kept

LEMMA NextKept == WInv /\ Kept /\ [Next]_vars => Kept'
<1> SUFFICES ASSUME WInv, Kept, [Next]_vars PROVE Kept'
  OBVIOUS
<1>1. CASE _start
  <2>1. tables' \in Halves
    BY <1>1 DEF _start, Halves, Both
  <2> QED BY <1>1, <2>1 DEF _start, Go, Kept
<1>2. CASE long_mode
  BY <1>2 DEF long_mode, Go, Kept
<1>3. CASE load_boot_gdt
  BY <1>3 DEF load_boot_gdt, Go, Kept
<1>4. CASE unmap_low
  <2>1. tables' \in Halves
    BY <1>4 DEF unmap_low, Kept, Halves, Both
  <2> QED BY <1>4, <2>1 DEF unmap_low, Go, Kept
<1>5. CASE init_gdt
  BY <1>5 DEF init_gdt, Go, Kept
<1>6. CASE init_interrupts
  BY <1>6 DEF init_interrupts, Go, Kept
<1>7. CASE log_byte
  <2>1. said \in Nat /\ said < 2 /\ said' = said + 1 /\ UNCHANGED <<machineVars, exceptions>>
    BY <1>7 DEF log_byte, Go, WInv, Using
  <2> QED BY <2>1 DEF Kept, machineVars
<1>8. CASE print_frame
  <2>1. said \in Nat /\ said < 2 /\ said' = said + 1 /\ UNCHANGED <<machineVars, exceptions>>
    BY <1>8 DEF print_frame, WInv, Using
  <2> QED BY <2>1 DEF Kept, machineVars
<1>9. CASE Exception
  <2>1. exceptions' \in 0..MaxExceptions
    BY <1>9, StartupAssumption DEF Exception, Kept
  <2> QED BY <1>9, <2>1 DEF Exception, Kept, machineVars
<1>10. CASE \/ boot_segments \/ _init \/ _reload_segments \/ boot_info \/ screen
            \/ valid \/ paging_init \/ finalize
  <2>1. UNCHANGED <<machineVars, said, exceptions>>
    BY <1>10 DEF boot_segments, _init, _reload_segments, boot_info, screen, valid,
                 paging_init, finalize, Pass, Go
  <2> QED BY <2>1 DEF Kept, machineVars
<1>11. CASE Poll \/ Idle \/ Uart \/ UNCHANGED vars
  BY <1>11 DEF Poll, Idle, Uart, vars, machineVars, threadVars, Kept
<1> QED BY <1>1, <1>2, <1>3, <1>4, <1>5, <1>6, <1>7, <1>8, <1>9, <1>10, <1>11
        DEF Next, Thread

LEMMA Descriptors ==
  ASSUME NEW g \in {EmptyGDT, KernelGDT}
  PROVE  g \in [0..5 -> [access : Bytes, flags : 0..15]]
<1>1. EmptyGDT \in [0..5 -> [access : Bytes, flags : 0..15]]
  BY DEF EmptyGDT, NullDescriptor, Bytes
<1>2. /\ gdt_entry_t(1, 0, 1, gdt_entry_access_t(0, 1, 0, 1, 1, 0)) = [access |-> 154, flags |-> 10]
      /\ gdt_entry_t(1, 0, 1, gdt_entry_access_t(0, 1, 0, 0, 1, 0)) = [access |-> 146, flags |-> 10]
      /\ gdt_entry_t(1, 0, 1, gdt_entry_access_t(0, 1, 0, 1, 1, 3)) = [access |-> 250, flags |-> 10]
      /\ gdt_entry_t(1, 0, 1, gdt_entry_access_t(0, 1, 0, 0, 1, 3)) = [access |-> 242, flags |-> 10]
  BY DEF gdt_entry_t, gdt_entry_access_t
<1>3. KernelGDT = [EmptyGDT EXCEPT ![1] = [access |-> 154, flags |-> 10],
                                   ![2] = [access |-> 146, flags |-> 10],
                                   ![3] = [access |-> 250, flags |-> 10],
                                   ![4] = [access |-> 242, flags |-> 10]]
  BY <1>2 DEF KernelGDT
<1>4. \A a \in Bytes : [access |-> a, flags |-> 10] \in [access : Bytes, flags : 0..15]
  OBVIOUS
<1>5. 154 \in Bytes /\ 146 \in Bytes /\ 250 \in Bytes /\ 242 \in Bytes
  BY DEF Bytes
<1> DEFINE D == [access : Bytes, flags : 0..15]
           E(a) == [access |-> a, flags |-> 10]
<1>6. E(154) \in D /\ E(146) \in D /\ E(250) \in D /\ E(242) \in D
  BY <1>4, <1>5
<1>7. /\ KernelGDT = [EmptyGDT EXCEPT ![1] = E(154), ![2] = E(146), ![3] = E(250), ![4] = E(242)]
      /\ EmptyGDT \in [0..5 -> D]
  BY <1>1, <1>3
<1> HIDE DEF D, E
<1>8. KernelGDT \in [0..5 -> D]
  BY <1>6, <1>7
<1> QED BY <1>1, <1>8 DEF D

\* What the walk reports is a tag before the end tag, or none.
LEMMA WalkTyped ==
  ASSUME Walked
  PROVE  curr_tag \in Nat /\ meminfo \in 0..MaxTags /\ elf_sections \in 0..MaxTags
<1>1. TagsOK
  BY DEF Walked
<1>2. PICK k \in DOMAIN tags : WalkedTo(k)
  BY DEF Walked
<1>3. ASSUME NEW t, t # END, NEW m, IsLast(m, Seen(t, k)) PROVE m \in 0..MaxTags
  <2>1. CASE Seen(t, k) = {}
    BY <1>3, <2>1, MultibootAssumption DEF IsLast
  <2>2. CASE Seen(t, k) # {}
    <3>1. m \in DOMAIN tags /\ tags[m].type # END
      BY <1>3, <2>2 DEF IsLast, Seen
    <3> QED BY <1>1, <3>1, MultibootAssumption DEF TagsOK
  <2> QED BY <2>1, <2>2
<1>4. BASIC_MEMINFO # END /\ ELF_SECTIONS # END
  BY DEF BASIC_MEMINFO, ELF_SECTIONS, END
<1>5. curr_tag \in Nat
  BY <1>1, <1>2, OffsetNat DEF WalkedTo
<1> QED BY <1>2, <1>3, <1>4, <1>5 DEF WalkedTo

\* The state of the start-up, the port and the walk keeps its types: among them,
\* that a handler and the thread never say more than their message, and that the
\* reported tags are tags before the end.
THEOREM StartupTyped == Spec => []TypeOK
<1>1. ASSUME WInv, Kept, Walked PROVE TypeOK
  <2>1. /\ at \in Places /\ paging \in BOOLEAN
    BY <1>1 DEF WInv, Placed
  <2>2. /\ interruptible \in BOOLEAN /\ said \in 0..2 /\ gdtr.half \in {"none", "low", "high"}
        /\ tables \in [PML4 : SUBSET {"low", "high"}, PDPT : SUBSET {"low", "high"}]
    BY <1>1 DEF Kept, Halves, Both
  <2>3. GDT \in [0..5 -> [access : Bytes, flags : 0..15]]
    BY <1>1, Descriptors DEF Kept
  <2>4. handler \in {"none", "print_frame", "kernel_panic"} /\ exceptions \in 0..MaxExceptions
    BY <1>1 DEF WInv, Using, Kept
  <2>5. /\ port \in Ports /\ constructed \in 0..11 /\ is_valid \in BOOLEAN
        /\ uart \in [lcr : Bytes, mcr : Bytes, dll : Bytes, dlm : Bytes,
                     thr : Bytes \cup {None}, rbr : Bytes]
        /\ log \in Seq(Bytes) /\ wire \in Seq(Bytes)
    BY <1>1 DEF WInv, Configured, SerialType, UartType
  <2>6. curr_tag \in Nat /\ meminfo \in 0..MaxTags /\ elf_sections \in 0..MaxTags
    BY <1>1, WalkTyped
  <2> QED BY <2>1, <2>2, <2>3, <2>4, <2>5, <2>6, Zenon DEF TypeOK
<1> QED BY <1>1, InitWired, InitKept, InitWalked, NextWired, NextKept, NextWalked, PTL DEF Spec
=============================================================================
