------------------------------- MODULE Serial -------------------------------
(***************************************************************************)
(* The kernel's 16550 UART driver (serial.cpp, namespace serial) and the  *)
(* UARTs it drives.                                                        *)
(*                                                                         *)
(* Each port is the register file the driver touches: LCR (whose bit 7,   *)
(* DLAB, banks offsets 0 and 1 over the divisor latch), IER, DLL, DLM,    *)
(* MCR, the receive FIFO and the transmit holding register.  FCR is       *)
(* write-only; its effect, clearing the FIFOs, is modelled.  serial.h is  *)
(* not in the repository: the offsets and register values are those of    *)
(* the 16550 (data +0, IER +1, FCR +2, LCR +3, MCR +4, LSR +5).           *)
(* init_port enables the transmit FIFO; in FIFO mode THRE is set only    *)
(* when it is empty, and write waits for THRE before each byte, so the    *)
(* FIFO never holds more than one byte: a one-byte holding register.     *)
(*                                                                         *)
(* The callers of init_port, write and set_kernel_uart_port are outside   *)
(* the repository.  A kernel thread makes these calls in any order, one   *)
(* at a time, except that a port is initialised before it is first        *)
(* written; write(port, str) is one step per character.  init_port is     *)
(* one step: nothing else writes the registers, and a byte received or    *)
(* sent in between leaves the same state as one before or after it.      *)
(*                                                                         *)
(* The hardware receives bytes from the line into the FIFO, dropping a    *)
(* byte that arrives when the FIFO is full (overrun), and shifts the      *)
(* holding register out onto the line.                                     *)
(***************************************************************************)
EXTENDS Naturals, Sequences, SequencesExt

CONSTANTS
  Ports,          \* the port bases: SERIAL_PORT_BASE_COM1, ...
  Com1,           \* SERIAL_PORT_BASE_COM1, g_kernel_uart_port's initial value
  Divisors,       \* baud rate divisors init_port is called with
  LineBytes,      \* the bytes that arrive on a line or are written
  LineInput,      \* port -> the bytes that may arrive on its line
  Messages,       \* the strings passed to write(port, str), without the NUL
  FifoDepth,      \* the receive FIFO's capacity
  LineBudget,     \* port -> bound on the bytes its FIFO takes
  MaxCalls,       \* bound on init_port and write calls
  FirmwareUart    \* a UART as the firmware leaves it

DataReg == 0
IerReg == 1
FcrReg == 2
LcrReg == 3
McrReg == 4

LcrEnableDlab == 128   \* SERIAL_LCR_ENABLE_DLAB
Lcr8N1 == 3            \* SERIAL_LCR_8_BITS_NO_PARITY_ONE_STOP
FcrInit == 199         \* ENABLE_FIFO | CLEAR_RECEIVE | CLEAR_TRANSMIT | TRIGGER_14
McrRtsDsr == 3         \* SERIAL_MCR_RTS_DSR

VARIABLES
  uart,        \* port -> its registers, receive FIFO and holding register
  kernelPort,  \* serial::g_kernel_uart_port
  writing,     \* the write(port, str) in progress: port and the rest of str
  calls,       \* init_port and write calls made
  wire,        \* port -> the bytes the UART has shifted out
  written,     \* port -> the bytes write(port, chr) was called with
  delivered    \* port -> bytes the FIFO took, less those an FCR write cleared

serialVars == <<uart, kernelPort, writing, calls, wire, written, delivered>>

NoWrite == [port |-> Com1, rest |-> <<>>]

Dlab(u) == (u.lcr \div 128) % 2 = 1

(***************************************************************************)
(* outb(port + off, v): offsets 0 and 1 reach the divisor latch while     *)
(* DLAB is set, else the holding register (a byte still held is          *)
(* overwritten) and IER.  FCR bits 1 and 2 clear the two FIFOs.           *)
(***************************************************************************)
OutB(u, off, v) ==
  CASE off = DataReg /\ Dlab(u) -> [u EXCEPT !.dll = v]
    [] off = DataReg            -> [u EXCEPT !.thr = <<v>>]
    [] off = IerReg /\ Dlab(u)  -> [u EXCEPT !.dlm = v]
    [] off = IerReg             -> [u EXCEPT !.ier = v]
    [] off = FcrReg -> [u EXCEPT !.rx  = IF (v \div 2) % 2 = 1 THEN <<>> ELSE @,
                                 !.thr = IF (v \div 4) % 2 = 1 THEN <<>> ELSE @]
    [] off = LcrReg             -> [u EXCEPT !.lcr = v]
    [] off = McrReg             -> [u EXCEPT !.mcr = v]

(* A slip: the divisor is written before DLAB is turned on. *)
SetBaudRateLateDlab(u, d) ==
  LET u1 == OutB(u, DataReg, d % 256)
      u2 == OutB(u1, IerReg, (d \div 256) % 256)
      u3 == OutB(u2, LcrReg, LcrEnableDlab)
  IN  OutB(u3, LcrReg, Lcr8N1)

(* set_baud_rate: DLAB on, divisor low and high byte, DLAB off. *)
SetBaudRate(u, d) ==
  LET u1 == OutB(u, LcrReg, LcrEnableDlab)
      u2 == OutB(u1, DataReg, d % 256)
      u3 == OutB(u2, IerReg, (d \div 256) % 256)
  IN  OutB(u3, LcrReg, Lcr8N1)

(* init_port: interrupts off, baud rate, 8N1, FIFOs on and cleared, RTS/DSR. *)
InitPortRegs(u, d) ==
  LET u1 == OutB(u, IerReg, 0)
      u2 == SetBaudRate(u1, d)
      u3 == OutB(u2, LcrReg, Lcr8N1)
      u4 == OutB(u3, FcrReg, FcrInit)
  IN  OutB(u4, McrReg, McrRtsDsr)

(* A slip: the transmit test masks LSR with the Data Ready bit. *)
TransmitEmptyWrongBit(u) == u.rx # <<>>

(* is_transmit_queue_empty and is_data_available: LSR's THRE and DR bits. *)
TransmitEmpty(u) == u.thr = <<>>
DataAvailable(u) == u.rx # <<>>

InitPort(p, d) ==
  /\ writing = NoWrite
  /\ written[p] = <<>>
  /\ calls < MaxCalls
  /\ uart' = [uart EXCEPT ![p] = InitPortRegs(@, d)]
  \* the FIFO bytes the FCR write threw away are no longer delivered
  /\ delivered' = [delivered EXCEPT ![p] = @ - (Len(uart[p].rx) - Len(uart'[p].rx))]
  /\ calls' = calls + 1
  /\ UNCHANGED <<kernelPort, writing, wire, written>>

(* write(port, str) is called. *)
WriteString(p, m) ==
  /\ writing = NoWrite
  /\ calls < MaxCalls
  /\ writing' = [port |-> p, rest |-> m]
  /\ calls' = calls + 1
  /\ UNCHANGED <<uart, kernelPort, wire, written, delivered>>

(* A slip: write(port, chr) does not wait for THRE. *)
WriteCharNoWait ==
  /\ writing.rest # <<>>
  /\ uart' = [uart EXCEPT ![writing.port] = OutB(@, DataReg, Head(writing.rest))]
  /\ written' = [written EXCEPT ![writing.port] = Append(@, Head(writing.rest))]
  /\ writing' = IF Tail(writing.rest) = <<>> THEN NoWrite
                ELSE [writing EXCEPT !.rest = Tail(@)]
  /\ UNCHANGED <<kernelPort, calls, wire, delivered>>

(* One iteration of its loop: write(port, chr) waits for THRE, then outb. *)
WriteChar ==
  /\ writing.rest # <<>>
  /\ TransmitEmpty(uart[writing.port])
  /\ uart' = [uart EXCEPT ![writing.port] = OutB(@, DataReg, Head(writing.rest))]
  /\ written' = [written EXCEPT ![writing.port] = Append(@, Head(writing.rest))]
  /\ writing' = IF Tail(writing.rest) = <<>> THEN NoWrite
                ELSE [writing EXCEPT !.rest = Tail(@)]
  /\ UNCHANGED <<kernelPort, calls, wire, delivered>>

SetKernelUartPort(p) ==
  /\ writing = NoWrite
  /\ calls < MaxCalls
  /\ kernelPort' = p
  /\ calls' = calls + 1
  /\ UNCHANGED <<uart, writing, wire, written, delivered>>

(* serial::read(p): wait for DR, then inb of the data port. *)
ReadChar(p, b) ==
  /\ DataAvailable(uart[p])
  /\ b = Head(uart[p].rx)
  /\ uart' = [uart EXCEPT ![p].rx = Tail(@)]

(***************************************************************************)
(* The line delivers a byte: into the FIFO, or, when the FIFO is full,    *)
(* lost to an overrun, which leaves every modelled variable as it was.   *)
(***************************************************************************)
LineReceive(p, b) ==
  /\ delivered[p] < LineBudget[p]
  /\ IF Len(uart[p].rx) < FifoDepth
       THEN /\ uart' = [uart EXCEPT ![p].rx = Append(@, b)]
            /\ delivered' = [delivered EXCEPT ![p] = @ + 1]
       ELSE UNCHANGED <<uart, delivered>>
  /\ UNCHANGED <<kernelPort, writing, calls, wire, written>>

(* The transmitter shifts the holding register out onto the line. *)
Transmit(p) ==
  /\ uart[p].thr # <<>>
  /\ wire' = [wire EXCEPT ![p] = Append(@, Head(uart[p].thr))]
  /\ uart' = [uart EXCEPT ![p].thr = <<>>]
  /\ UNCHANGED <<kernelPort, writing, calls, written, delivered>>

SerialInit ==
  /\ uart = [p \in Ports |-> FirmwareUart]
  /\ kernelPort = Com1
  /\ writing = NoWrite
  /\ calls = 0
  /\ wire = [p \in Ports |-> <<>>]
  /\ written = [p \in Ports |-> <<>>]
  /\ delivered = [p \in Ports |-> 0]

(* The UARTs. *)
Hardware ==
  \/ \E p \in Ports : \E b \in LineInput[p] : LineReceive(p, b)
  \/ \E p \in Ports : Transmit(p)

-----------------------------------------------------------------------------

Bytes == 0..255 \cup LineBytes

SerialTypeOK ==
  /\ uart \in [Ports -> [lcr : 0..255, ier : Bytes, dll : Bytes, dlm : Bytes,
                         mcr : 0..255, rx : Seq(LineBytes), thr : Seq(LineBytes)]]
  /\ \A p \in Ports : Len(uart[p].rx) <= FifoDepth /\ Len(uart[p].thr) <= 1
  /\ kernelPort \in Ports
  /\ writing.port \in Ports /\ writing.rest \in Seq(LineBytes)
  /\ calls \in 0..MaxCalls
  /\ \A p \in Ports : {wire[p], written[p]} \subseteq Seq(LineBytes)
  /\ \A p \in Ports : delivered[p] \in 0..LineBudget[p]

(***************************************************************************)
(* What write(port, chr) was called with reaches the line, in order: the  *)
(* bytes shifted out, then the one still held, are exactly the bytes      *)
(* written.  It rests on the wait for THRE before each outb and on        *)
(* set_baud_rate clearing DLAB, so that the data port is the holding     *)
(* register and not the divisor latch.                                    *)
(***************************************************************************)
TransmitInOrder == \A p \in Ports : wire[p] \o uart[p].thr = written[p]

(***************************************************************************)
(* Every port is either as the firmware left it or as init_port leaves   *)
(* it: 8N1 with DLAB clear, interrupts off, RTS/DSR, and a divisor        *)
(* init_port was given, whatever was written to the data port since.     *)
(* The divisor's two bytes go through offsets 0 and 1 only while DLAB is  *)
(* set, and IER through offset 1 only while it is clear.                  *)
(***************************************************************************)
PortConfigured ==
  \A p \in Ports :
    LET u == uart[p]
        regs(x) == <<x.lcr, x.ier, x.dll, x.dlm, x.mcr>>
    IN  \/ regs(u) = regs(FirmwareUart)
        \/ /\ u.lcr = Lcr8N1 /\ u.ier = 0 /\ u.mcr = McrRtsDsr
           /\ u.dll \in 0..255 /\ u.dlm \in 0..255
           /\ u.dll + 256 * u.dlm \in Divisors

=============================================================================
