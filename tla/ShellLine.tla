------------------------------ MODULE ShellLine ------------------------------
(***************************************************************************)
(* The userland shell's line editor (shell_loop, shell.cpp): a fixed      *)
(* command_buffer of MAX_COMMAND_LENGTH bytes and command_length, fed one  *)
(* byte at a time from the serial port.  Enter hands the buffer, as a C   *)
(* string, to process_command; backspace and DEL drop the last byte.      *)
(*                                                                         *)
(* Bytes are abstracted to a few classes: ordinary characters, the two    *)
(* line ends, the two erase keys and the NUL byte.  The command words     *)
(* process_command compares against are constants spelled over the       *)
(* ordinary characters.  It only prints, except that shutdown and reboot  *)
(* end the shell's run; the ACPI calls behind them are outside the        *)
(* repository and are taken to succeed.                                   *)
(***************************************************************************)
EXTENDS Naturals, Sequences, SequencesExt

CONSTANTS
  MaxCommandLength, \* MAX_COMMAND_LENGTH
  Chars,            \* ordinary printable bytes
  Nl, Cr,           \* '\n', '\r'
  Bs, Del,          \* '\b', 127
  Nul,              \* the byte 0
  MaxKeys,          \* bound on bytes read in a behaviour
  HelpCmd, EchoPrefix, ShutdownCmd, RebootCmd, CpuinfoCmd, ClearCmd
                    \* "help", "echo ", "shutdown", "reboot", "cpuinfo", "clear"

Bytes == Chars \cup {Nl, Cr, Bs, Del, Nul}

VARIABLES
  commandBuffer,  \* command_buffer: index -> byte
  commandLength,  \* command_length
  commands,       \* history: the commands process_command received
  keys,           \* number of bytes read so far
  power           \* "on", or "off"/"reset" once shutdown/reboot ran

vars == <<commandBuffer, commandLength, commands, keys, power>>

Indices == 0..(MaxCommandLength - 1)

(* The C string at the start of the buffer: the bytes before the first NUL. *)
RECURSIVE CString(_, _)
CString(buf, i) ==
  IF i > MaxCommandLength - 1 \/ buf[i] = Nul THEN <<>>
  ELSE <<buf[i]>> \o CString(buf, i + 1)

(***************************************************************************)
(* process_command(command): the first branch whose test matches.  Only   *)
(* shutdown and reboot change the machine: power is off, or reset.        *)
(***************************************************************************)
CommandBranch(cmd) ==
  CASE cmd = HelpCmd               -> "help"
    [] IsPrefix(EchoPrefix, cmd)   -> "echo"
    [] cmd = ShutdownCmd           -> "shutdown"
    [] cmd = RebootCmd             -> "reboot"
    [] cmd = CpuinfoCmd            -> "cpuinfo"
    [] cmd = ClearCmd              -> "clear"
    [] OTHER                       -> "unknown"

ProcessCommand(cmd) ==
  power' = CASE CommandBranch(cmd) = "shutdown" -> "off"
             [] CommandBranch(cmd) = "reboot"   -> "reset"
             [] OTHER                           -> "on"

Init ==
  /\ commandBuffer = [i \in Indices |-> Nul]
  /\ commandLength = 0
  /\ commands = <<>>
  /\ keys = 0
  /\ power = "on"

(* serial::read: one more byte of the behaviour's input. *)
ReadOne ==
  /\ power = "on"
  /\ keys < MaxKeys
  /\ keys' = keys + 1

(* A slip: Enter processes the buffer without writing the terminator. *)
EnterKeyNoTerminator(b) ==
  /\ b \in {Nl, Cr}
  /\ ReadOne
  /\ IF commandLength > 0
       THEN /\ commands' = Append(commands,
                 [cmd  |-> CString(commandBuffer, 0),
                  len  |-> commandLength])
            /\ ProcessCommand(CString(commandBuffer, 0))
            /\ commandLength' = 0
       ELSE UNCHANGED <<commands, commandLength, power>>
  /\ UNCHANGED commandBuffer

(* Enter: terminate and process a non-empty line, reset, print a prompt. *)
EnterKey(b) ==
  /\ b \in {Nl, Cr}
  /\ ReadOne
  /\ IF commandLength > 0
       THEN LET terminated == [commandBuffer EXCEPT ![commandLength] = Nul]
            IN  /\ commandBuffer' = terminated
                /\ commands' = Append(commands,
                     [cmd  |-> CString(terminated, 0),
                      len  |-> commandLength])
                /\ ProcessCommand(CString(terminated, 0))
                /\ commandLength' = 0
       ELSE UNCHANGED <<commandBuffer, commands, commandLength, power>>

(* Backspace or DEL with a non-empty line: drop the last byte. *)
EraseKey(b) ==
  /\ b \in {Bs, Del}
  /\ commandLength > 0
  /\ ReadOne
  /\ commandLength' = commandLength - 1
  /\ UNCHANGED <<commandBuffer, commands, power>>

(* A slip: the length check admits MAX_COMMAND_LENGTH bytes. *)
StoreKeyFull(b) ==
  /\ b \notin {Nl, Cr}
  /\ ~(b \in {Bs, Del} /\ commandLength > 0)
  /\ ReadOne
  /\ IF commandLength <= MaxCommandLength - 1
       THEN /\ commandBuffer' = [commandBuffer EXCEPT ![commandLength] = b]
            /\ commandLength' = commandLength + 1
       ELSE UNCHANGED <<commandBuffer, commandLength>>
  /\ UNCHANGED <<commands, power>>

(***************************************************************************)
(* Every other byte, including an erase key on an empty line, is stored   *)
(* if command_length < MAX_COMMAND_LENGTH - 1, else dropped.              *)
(***************************************************************************)
StoreKey(b) ==
  /\ b \notin {Nl, Cr}
  /\ ~(b \in {Bs, Del} /\ commandLength > 0)
  /\ ReadOne
  /\ IF commandLength < MaxCommandLength - 1
       THEN /\ commandBuffer' = [commandBuffer EXCEPT ![commandLength] = b]
            /\ commandLength' = commandLength + 1
       ELSE UNCHANGED <<commandBuffer, commandLength>>
  /\ UNCHANGED <<commands, power>>

(* The shell has read all the bytes of the behaviour. *)
Idle ==
  /\ power = "on"
  /\ keys = MaxKeys
  /\ UNCHANGED vars

(* The machine was shut down or rebooted: this run of the shell is over. *)
PoweredDown ==
  /\ power # "on"
  /\ UNCHANGED vars

(* One iteration of the while (true) loop: a byte read, then one branch. *)
Next ==
  \/ \E b \in Bytes : EnterKey(b)
  \/ \E b \in Bytes : EraseKey(b)
  \/ \E b \in Bytes : StoreKey(b)
  \/ Idle
  \/ PoweredDown

Spec == Init /\ [][Next]_vars

-----------------------------------------------------------------------------

TypeOK ==
  /\ commandBuffer \in [Indices -> Bytes]
  /\ commandLength \in 0..(MaxCommandLength - 1)
  /\ commands \in Seq([cmd : Seq(Bytes), len : Indices])
  /\ keys \in 0..MaxKeys
  /\ power \in {"on", "off", "reset"}

(***************************************************************************)
(* The buffer is never cleared, so after a long command a shorter one sits *)
(* in front of the old one's tail.  process_command still receives no     *)
(* byte beyond the command_length bytes of the current line.              *)
(***************************************************************************)
CommandWithinLine ==
  \A i \in 1..Len(commands) : Len(commands[i].cmd) <= commands[i].len

=============================================================================
