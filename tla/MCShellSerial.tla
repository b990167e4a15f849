---------------------------- MODULE MCShellSerial ----------------------------
EXTENDS ShellSerial

CONSTANTS a, b, nl, cr, bs, del, nul, com1, com2

MCChars == {a, b}

\* The command words, spelled over the two ordinary characters.
MCHelp == <<a>>
MCEchoPrefix == <<b, a>>
MCShutdown == <<a, b>>
MCReboot == <<b>>
MCCpuinfo == <<a, a>>
MCClear == <<b, b>>

MCLineBytes == MCChars \cup {nl, cr, bs, del, nul}

\* A banner of two characters: the second waits for the first to go out.
\* The user types on COM1; COM2's line carries one kind of byte.
MCLineInput == [p \in {com1, com2} |-> IF p = com1 THEN MCLineBytes ELSE {a}]

\* COM1 may carry as many bytes as the shell reads; COM2 two.
MCLineBudget == [p \in {com1, com2} |-> IF p = com1 THEN 7 ELSE 2]

MCMessages == {<<a, nl>>}

\* 115200 baud as the firmware leaves it; init_port is given divisor 384
\* (300 baud), whose high byte is not zero.
MCFirmwareUart == [lcr |-> 3, ier |-> 0, dll |-> 1, dlm |-> 0, mcr |-> 3,
                   rx |-> <<>>, thr |-> <<>>]
MCDivisors == {384}
(***************************************************************************)
(* Once the shell runs, the kernel makes no more calls and the holding    *)
(* registers stay empty, so the registers, the output and the call count *)
(* are frozen and no action reads them; the invariants about them held in *)
(* the state before StartShell.  States that differ only there are one    *)
(* state to TLC.                                                           *)
(***************************************************************************)
MCView ==
  IF started
    THEN <<kernelPort, [p \in Ports |-> uart[p].rx], delivered, shellVars>>
    ELSE <<started, vars>>
====
