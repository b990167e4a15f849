---------------------------- MODULE ShellSerial ----------------------------
(***************************************************************************)
(* The userland shell on the kernel's serial port.  shell_loop takes each *)
(* byte from serial::read(serial::g_kernel_uart_port), which waits for    *)
(* Data Ready and reads the port's receive FIFO.  Meanwhile a kernel      *)
(* thread makes its own serial calls, and the UARTs receive and transmit. *)
(*                                                                         *)
(* The kernel initialises and writes its ports, and sets                 *)
(* g_kernel_uart_port, before it starts the shell (StartShell), and its   *)
(* output has left the UARTs by then.  Its writes use the holding         *)
(* register and the shell's reads the receive FIFO, so writes made later  *)
(* would only interleave with the shell, not interact with it.  The      *)
(* lines deliver bytes throughout.  Once shutdown or reboot has run,     *)
(* nothing moves.                                                         *)
(***************************************************************************)
EXTENDS Serial

CONSTANTS MaxCommandLength, Chars, Nl, Cr, Bs, Del, Nul, MaxKeys,
          HelpCmd, EchoPrefix, ShutdownCmd, RebootCmd, CpuinfoCmd, ClearCmd

VARIABLES commandBuffer, commandLength, commands, keys, power,
          started  \* the kernel has started the shell task

Sh == INSTANCE ShellLine

shellVars == <<commandBuffer, commandLength, commands, keys, power>>
vars == <<serialVars, shellVars, started>>

Init == SerialInit /\ Sh!Init /\ started = FALSE

(* The kernel thread's serial calls, before it starts the shell. *)
Kernel ==
  /\ ~started
  /\ \/ \E p \in Ports, d \in Divisors : InitPort(p, d)
     \/ \E p \in Ports, m \in Messages : WriteString(p, m)
     \/ WriteChar
     \/ \E p \in Ports : SetKernelUartPort(p)
  /\ UNCHANGED <<shellVars, started>>

StartShell ==
  /\ ~started
  /\ writing = NoWrite
  /\ \A p \in Ports : TransmitEmpty(uart[p])
  /\ started' = TRUE
  /\ UNCHANGED <<serialVars, shellVars>>

(* A slip: the shell reads COM1 rather than g_kernel_uart_port. *)
ShellStepCom1 ==
  /\ started
  /\ \E b \in LineBytes :
       /\ ReadChar(Com1, b)
       /\ \/ Sh!EnterKey(b)
          \/ Sh!EraseKey(b)
          \/ Sh!StoreKey(b)
  /\ UNCHANGED <<kernelPort, writing, calls, wire, written, delivered, started>>

(* One iteration of shell_loop: serial::read, then the line editor. *)
ShellStep ==
  /\ started
  /\ \E b \in LineBytes :
       /\ ReadChar(kernelPort, b)
       /\ \/ Sh!EnterKey(b)
          \/ Sh!EraseKey(b)
          \/ Sh!StoreKey(b)
  /\ UNCHANGED <<kernelPort, writing, calls, wire, written, delivered, started>>

Line ==
  /\ power = "on"
  /\ Hardware
  /\ UNCHANGED <<shellVars, started>>

(* The shell waits for a byte that will not come, or the machine is off. *)
Quiet ==
  /\ started
  /\ \/ power # "on"
     \/ delivered[kernelPort] = LineBudget[kernelPort] /\ ~DataAvailable(uart[kernelPort])
  /\ UNCHANGED vars

Next == Kernel \/ StartShell \/ ShellStep \/ Line \/ Quiet

(***************************************************************************)
(* The shell task is preempted but always rescheduled, and it reads once  *)
(* Data Ready stays set; the kernel thread finishes a write it started;   *)
(* the UART always shifts out a held byte.  Nothing forces the kernel to  *)
(* call, the line to deliver, or the shell to be started.                 *)
(***************************************************************************)
Spec ==
  /\ Init /\ [][Next]_vars
  /\ WF_vars(ShellStep)
  /\ WF_vars(Kernel /\ WriteChar)
  /\ WF_vars(Line /\ \E p \in Ports : Transmit(p))

-----------------------------------------------------------------------------

TypeOK == SerialTypeOK /\ Sh!TypeOK /\ started \in BOOLEAN

CommandWithinLine == Sh!CommandWithinLine

(***************************************************************************)
(* A write(port, str) the kernel started ends: each character's wait for *)
(* THRE ends once the UART has shifted out the one before.                *)
(***************************************************************************)
WritesComplete == [](writing # NoWrite => <>(writing = NoWrite))

(***************************************************************************)
(* Input on the kernel's port does not stay unread once the shell runs:  *)
(* the shell keeps calling serial::read on g_kernel_uart_port and takes  *)
(* each byte, until the machine is switched off.                          *)
(***************************************************************************)
InputConsumed ==
  [](started /\ DataAvailable(uart[kernelPort])
       => <>(power # "on" \/ ~DataAvailable(uart[kernelPort])))

=============================================================================
