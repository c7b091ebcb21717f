------------------------------- MODULE Serial -------------------------------
(***************************************************************************)
(* The debug serial port: SerialPort's constructor with its loopback test, *)
(* and putc (kernel/utils/serial.cpp), on the UART behind port 0x3f8.      *)
(*                                                                         *)
(* The UART works in parallel with the kernel: a byte written to it leaves *)
(* the holding register some time later, to the wire or, in loopback mode, *)
(* to its own receiver.  The constructor does not wait for that.           *)
(***************************************************************************)
EXTENDS Integers, Sequences

CONSTANT Ports     \* what may be behind the port number

ASSUME SerialAssumption == Ports \subseteq {"working", "absent", "stuck"}

VARIABLES
  port,      \* what is there; a stuck one never finishes a byte
  uart,      \* its registers
  constructed,   \* how many of the constructor's port accesses are done
  is_valid,
  log,       \* history: the bytes putc has written to the data register
  wire       \* history: the bytes the UART has sent

serialVars == <<port, uart, constructed, is_valid, log, wire>>

None == 256        \* no byte in the holding register

\* Offsets of the registers from portnum.
data_reg_lo == 0
irq == 1               \* data_reg_hi while the divisor is addressed
fifo_reg == 2
line_control_reg == 3
modem_reg == 4

DLAB(u) == u.lcr >= 128
Loopback(u) == (u.mcr \div 16) % 2 = 1

SerialInit ==
  /\ port \in Ports
  /\ uart = [lcr |-> 0, mcr |-> 0, dll |-> 1, dlm |-> 0, thr |-> None, rbr |-> 0]
  /\ constructed = 0 /\ is_valid = FALSE
  /\ log = << >> /\ wire = << >>

\* A write to a register.  Bit 7 of line control turns the data registers into
\* the baud divisor; bits 1 and 2 of the FIFO register empty both buffers; the
\* interrupts of the port are not used.
outb(u, reg, v) ==
  IF port = "absent" THEN u
  ELSE CASE reg = data_reg_lo /\ DLAB(u)  -> [u EXCEPT !.dll = v]
         [] reg = data_reg_lo /\ ~DLAB(u) -> [u EXCEPT !.thr = v]
         [] reg = irq /\ DLAB(u)          -> [u EXCEPT !.dlm = v]
         [] reg = irq /\ ~DLAB(u)         -> u
         [] reg = fifo_reg                -> [u EXCEPT !.thr = None, !.rbr = 0]
         [] reg = line_control_reg        -> [u EXCEPT !.lcr = v]
         [] reg = modem_reg               -> [u EXCEPT !.mcr = v]

\* A read of the data register; where no port is, the bus reads as ones.
inb(u) == IF port = "absent" THEN 255 ELSE IF DLAB(u) THEN u.dll ELSE u.rbr

\* The UART finishes a byte.
Transmit ==
  /\ port = "working" /\ uart.thr # None
  /\ uart' = [uart EXCEPT !.thr = None, !.rbr = IF Loopback(uart) THEN uart.thr ELSE @]
  /\ wire' = IF Loopback(uart) THEN wire ELSE Append(wire, uart.thr)
  /\ UNCHANGED <<port, constructed, is_valid, log>>

----------------------------------------------------------------------------
\* Accesses without the one that gives the data register its meaning back.
Bug_constructor_accesses ==
  << <<irq, 0>>, <<line_control_reg, 128>>, <<data_reg_lo, 3>>, <<irq, 0>>,
     <<fifo_reg, 199>>, <<modem_reg, 11>>, <<modem_reg, 30>>, <<data_reg_lo, 174>>,
     <<data_reg_lo, None>>, <<modem_reg, 15>> >>

\* The port accesses of SerialPort's constructor, in order; None is the read that
\* expects the test byte back.
constructor_accesses ==
  << <<irq, 0>>, <<line_control_reg, 128>>, <<data_reg_lo, 3>>, <<irq, 0>>,
     <<line_control_reg, 3>>, <<fifo_reg, 199>>, <<modem_reg, 11>>,
     <<modem_reg, 30>>, <<data_reg_lo, 174>>, <<data_reg_lo, None>>, <<modem_reg, 15>> >>

loopback_test(byte) == byte = 174

Constructed == constructed = Len(constructor_accesses)

construct ==
  LET a == constructor_accesses[constructed + 1] IN
  /\ ~Constructed
  /\ constructed' = constructed + 1
  /\ IF a[2] = None
     THEN is_valid' = loopback_test(inb(uart)) /\ UNCHANGED uart
     ELSE uart' = outb(uart, a[1], a[2]) /\ UNCHANGED is_valid
  /\ UNCHANGED <<port, log, wire>>

\* A status compared as a whole: only bit 5 may be one.
Bug_ready == port = "working" /\ uart.thr = None

\* The line status has bit 5, transmitter empty.
ready == port = "absent" \/ (port = "working" /\ uart.thr = None)

\* putc polls until the port is ready and writes.  One step: in between, the
\* UART can only become emptier and no handler that prints returns.
putc(c) ==
  /\ ready
  /\ uart' = outb(uart, data_reg_lo, c)
  /\ log' = Append(log, c)
  /\ UNCHANGED <<port, constructed, is_valid, wire>>
=============================================================================
