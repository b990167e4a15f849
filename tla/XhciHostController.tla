------------------------- MODULE XhciHostController -------------------------
(***************************************************************************)
(* Controller bring-up of XhciDriver::init (xhci.cpp): _resetHostController,*)
(* _configureOperationalRegisters, _configureRuntimeRegisters,             *)
(* _startHostController, then the port resets and the device setup, whose  *)
(* only effect on these registers is the _clearIrqFlags of _sendCommand.   *)
(*                                                                         *)
(* Registers are sets of the bits that are 1.  USBSTS.HSE, EINT and PCD    *)
(* and IMAN.IP are write-1-to-clear; a write clears exactly the RW1C bits  *)
(* it writes as 1.  Each poll iteration is one millisecond (msleep(1)).    *)
(*                                                                         *)
(* The controller is a concurrent actor.  It may be faulty in one of the   *)
(* ways in Faults: it never halts, never leaves reset, or raises a Host    *)
(* System Error once running (which halts it for good).                    *)
(***************************************************************************)
EXTENDS Naturals

CONSTANTS
  HaltTimeout,     \* _resetHostController: 20
  ResetTimeout,    \* _resetHostController: 100
  Faults,          \* subset of {"NoHalt", "NoReset", "HostSystemError"}
  MaxPortChanges,  \* connects and disconnects during bring-up
  NumPorts,        \* m_maxPorts
  SupportedProtocols, \* Supported Protocol capabilities: [offset, count, major]
  PortResetTimeout,   \* XhciDriver::_resetPort: 100
  HcdPortResetTimeout, \* XhciHcd::resetPort: 60
  ScratchpadCounts     \* values HCSPARAMS2 Max Scratchpad Buffers may have

ASSUME HaltTimeout >= 1 /\ ResetTimeout >= 1
ASSUME Faults \subseteq {"NoHalt", "NoReset", "HostSystemError"}
ASSUME ScratchpadCounts \subseteq 0..1023
ASSUME NumPorts \in 1..255 /\ PortResetTimeout >= 1 /\ HcdPortResetTimeout >= 1

Ports == 0..(NumPorts - 1)

(***************************************************************************)
(* _parseExtendedCapabilityRegisters: each Supported Protocol capability   *)
(* of major revision 3 adds its ports, made zero-based in uint8_t          *)
(* arithmetic, to m_usb3Ports.  The loop runs port from firstPort while    *)
(* port <= lastPort, so a range ending at 255 never ends (uint8_t port     *)
(* wraps); the capabilities checked here exclude that case.               *)
(***************************************************************************)
FirstPort(cap) == (cap.offset - 1) % 256
LastPort(cap) == (FirstPort(cap) + cap.count - 1) % 256

ASSUME \A cap \in SupportedProtocols : cap.major = 3 => LastPort(cap) # 255

Usb3Ports ==
  UNION {FirstPort(cap)..LastPort(cap) :
           cap \in {c \in SupportedProtocols : c.major = 3}}

(***************************************************************************)
(* PORTSC bits: PP is RW; CCS is read-only; PR and WPR are write-1-to-set  *)
(* and start a reset; CSC, PRC and WRC are write-1-to-clear; PED is       *)
(* cleared, never set, by writing 1.                                       *)
(***************************************************************************)
PortBits == {"PP", "CCS", "PED", "PR", "WPR", "CSC", "PRC", "WRC"}
PortRW1C == {"PED", "CSC", "PRC", "WRC"}

(* A port's hardware: sound, never powering up, or never finishing a reset. *)
PortFaults == {"None", "NoPower", "Stuck"}

(* _isUSB3Port: the reset bit and the reset-change bit of a port. *)
ResetBit(p) == IF p \in Usb3Ports THEN "WPR" ELSE "PR"
ResetChange(p) == IF p \in Usb3Ports THEN "WRC" ELSE "PRC"

(* The steps of _resetPort, one per register access or sleep. *)
PortPhases == {"PortRead", "PortPowerCheck", "PortClearCsc", "PortSetReset",
               "PortPoll", "PortCheckEnabled"}

OpRegs == {"DNCTRL", "CONFIG", "DCBAAP", "CRCR"}
StsRW1C == {"HSE", "EINT", "PCD"}

VARIABLES
  phase,        \* where init() is
  timeout,      \* the poll budget of the current wait loop
  usbcmd,       \* USBCMD: subset of {RS, HCRST, INTE, HSEE}
  usbsts,       \* USBSTS: subset of {HCH, CNR} \cup StsRW1C
  iman,         \* IMAN of interrupter 0: subset of {IP, IE}
  opNonZero,    \* operational registers that do not read zero
  fault,        \* how this controller misbehaves, or "None"
  portChanges,  \* connects and disconnects so far
  portsc,       \* port -> PORTSC
  portFault,    \* port -> how its hardware misbehaves
  port,         \* the loop index i of init()'s port loop
  copy,         \* _resetPort's local XhciPortscRegister portsc
  reported,     \* ports _resetPort returned true for
  driver,       \* whose init() runs: XhciDriver's or the legacy XhciHcd's
  setupPort,    \* the port number XhciHcd::init hands to _setupDevice
  maxScratchpad, \* m_maxScratchpadBuffers, from HCSPARAMS2
  spIndex,      \* the uint8_t loop index i of _setupDcbaa
  spFilled      \* scratchpad array entries written

tailVars == <<portsc, portFault, port, copy, reported, driver, setupPort>>
dcbaaVars == <<maxScratchpad, spIndex, spFilled>>
vars == <<phase, timeout, usbcmd, usbsts, iman, opNonZero, fault, portChanges,
          tailVars, dcbaaVars>>

(***************************************************************************)
(* What a read-modify-write "reg |= ~bit" leaves in a register whose      *)
(* writable bits are all RW1C (USBSTS, IMAN.IP) plus the RW bits in rw:   *)
(* every bit but `bit` is written as 1, and `bit` as what was read.  RW1C *)
(* bits written 1 clear, RW bits written 1 set.                            *)
(***************************************************************************)
OrNotWrite(reg, bit, rw1c, rw) ==
  LET written == ((rw1c \cup rw) \ {bit}) \cup (reg \cap {bit})
  IN  (reg \ (written \cap rw1c)) \cup (written \cap rw)

(***************************************************************************)
(* The controller as firmware left it: halted or running, operational     *)
(* registers programmed or not.                                            *)
(***************************************************************************)
Init ==
  /\ phase = "ResetStop"
  /\ timeout = 0
  /\ \E running \in BOOLEAN :
       /\ usbcmd = IF running THEN {"RS"} ELSE {}
       /\ usbsts = IF running THEN {} ELSE {"HCH"}
  /\ iman = {}
  /\ opNonZero \in {{}, OpRegs}
  /\ fault \in Faults \cup {"None"}
  /\ portChanges = 0
  /\ portsc = [p \in Ports |-> {}]
  /\ portFault = [p \in Ports |-> "None"]
  /\ port = 0
  /\ copy = {}
  /\ reported = {}
  /\ driver = "XhciDriver"
  /\ setupPort = 0
  /\ maxScratchpad = 0
  /\ spIndex = 0
  /\ spFilled = {}

(***************************************************************************)
(* The ports as init()'s port loop finds them (nothing before the loop    *)
(* reads or writes PORTSC): each unpowered, powered and empty, powered    *)
(* with a device just detected, or already enabled; and how each port's  *)
(* hardware behaves.  A port that cannot power up is unpowered.           *)
(***************************************************************************)
PortsAfterReset ==
  /\ portsc' \in [Ports -> {{}, {"PP"}, {"PP", "CCS", "CSC"}, {"PP", "CCS", "PED"}}]
  /\ portFault' \in {f \in [Ports -> PortFaults] :
                      \A p \in Ports : f[p] = "NoPower" => portsc'[p] = {}}

(* _resetHostController: clear Run/Stop, start the 20 ms halt wait. *)
ResetStop ==
  /\ phase = "ResetStop"
  /\ usbcmd' = usbcmd \ {"RS"}
  /\ timeout' = HaltTimeout
  /\ phase' = "WaitHalt"
  /\ UNCHANGED <<usbsts, iman, opNonZero, fault, portChanges, tailVars, dcbaaVars>>

(***************************************************************************)
(* Slips in the halt wait, each replacing the definition after it in a     *)
(* mutant run: "timeout-- == 0" for "--timeout == 0"; the loop without a   *)
(* budget, as _startHostController's.                                      *)
(***************************************************************************)
WaitHaltPollPostDecrement ==
  /\ phase = "WaitHalt"
  /\ "HCH" \notin usbsts
  /\ timeout' = timeout - 1
  /\ phase' = IF timeout = 0 THEN "Failed" ELSE "WaitHalt"
  /\ UNCHANGED <<usbcmd, usbsts, iman, opNonZero, fault, portChanges, tailVars, dcbaaVars>>

WaitHaltPollNoBudget ==
  /\ phase = "WaitHalt"
  /\ "HCH" \notin usbsts
  /\ UNCHANGED vars

(* HCH read as 1: set HCRST and start the 100 ms reset wait. *)
HaltedSetReset ==
  /\ phase = "WaitHalt"
  /\ "HCH" \in usbsts
  /\ usbcmd' = usbcmd \cup {"HCRST"}
  /\ timeout' = ResetTimeout
  /\ phase' = "WaitReset"
  /\ UNCHANGED <<usbsts, iman, opNonZero, fault, portChanges, tailVars, dcbaaVars>>

(* HCH read as 0: "if (--timeout == 0) return false", else msleep(1). *)
WaitHaltPoll ==
  /\ phase = "WaitHalt"
  /\ "HCH" \notin usbsts
  /\ timeout' = timeout - 1
  /\ phase' = IF timeout - 1 = 0 THEN "Failed" ELSE "WaitHalt"
  /\ UNCHANGED <<usbcmd, usbsts, iman, opNonZero, fault, portChanges, tailVars, dcbaaVars>>

(* A slip for a mutant run: the loop that reads CNR and HCRST exits when  *)
(* either has cleared ("&&" for "||").                                    *)
ResetDoneEither ==
  /\ phase = "WaitReset"
  /\ ~("HCRST" \in usbcmd /\ "CNR" \in usbsts)
  /\ phase' = "CheckDefaults"
  /\ UNCHANGED <<timeout, usbcmd, usbsts, iman, opNonZero, fault, portChanges, tailVars, dcbaaVars>>

(* Both HCRST and CNR read as 0: leave the loop. *)
ResetDone ==
  /\ phase = "WaitReset"
  /\ ~("HCRST" \in usbcmd \/ "CNR" \in usbsts)
  /\ phase' = "CheckDefaults"
  /\ UNCHANGED <<timeout, usbcmd, usbsts, iman, opNonZero, fault, portChanges, tailVars, dcbaaVars>>

(* HCRST or CNR still 1: "if (--timeout == 0) return false", else msleep(1). *)
WaitResetPoll ==
  /\ phase = "WaitReset"
  /\ "HCRST" \in usbcmd \/ "CNR" \in usbsts
  /\ timeout' = timeout - 1
  /\ phase' = IF timeout - 1 = 0 THEN "Failed" ELSE "WaitReset"
  /\ UNCHANGED <<usbcmd, usbsts, iman, opNonZero, fault, portChanges, tailVars, dcbaaVars>>

(* msleep(50), then USBCMD, DNCTRL, CRCR, DCBAAP and CONFIG must read 0. *)
CheckDefaults ==
  /\ phase = "CheckDefaults"
  /\ phase' = IF usbcmd = {} /\ opNonZero = {} THEN "ConfigureOp" ELSE "Failed"
  /\ UNCHANGED <<timeout, usbcmd, usbsts, iman, opNonZero, fault, portChanges, tailVars, dcbaaVars>>

(* _setupDcbaa's end and the rest: DCBAAP, then the command ring and CRCR. *)
PublishDcbaa ==
  /\ opNonZero' = OpRegs
  /\ phase' = "ConfigureRuntime"

(***************************************************************************)
(* _configureOperationalRegisters: DNCTRL and CONFIG written; _setupDcbaa  *)
(* allocates the zeroed DCBAA and, with scratchpad buffers, the array and *)
(* the loop "for (uint8_t i = 0; i < m_maxScratchpadBuffers; i++)".       *)
(***************************************************************************)
ConfigureOperational ==
  /\ phase = "ConfigureOp"
  /\ \E n \in ScratchpadCounts :
       /\ maxScratchpad' = n
       /\ IF n > 0
            THEN /\ opNonZero' = {"DNCTRL", "CONFIG"}
                 /\ phase' = "Scratchpad"
            ELSE PublishDcbaa
  /\ spIndex' = 0
  /\ UNCHANGED <<timeout, usbcmd, usbsts, iman, fault, portChanges, tailVars,
                 spFilled>>

(* One iteration: a page allocated, its address in scratchpadArray[i], i++. *)
ScratchpadAlloc ==
  /\ phase = "Scratchpad"
  /\ spIndex < maxScratchpad
  /\ spFilled' = spFilled \cup {spIndex}
  /\ spIndex' = (spIndex + 1) % 256
  /\ UNCHANGED <<phase, timeout, usbcmd, usbsts, iman, opNonZero, fault,
                 portChanges, tailVars, maxScratchpad>>

(* A slip for a mutant run: the loop stops one entry short. *)
ScratchpadDoneEarly ==
  /\ phase = "Scratchpad"
  /\ spIndex + 1 >= maxScratchpad
  /\ PublishDcbaa
  /\ UNCHANGED <<timeout, usbcmd, usbsts, iman, fault, portChanges, tailVars,
                 dcbaaVars>>

(* The loop ends: DCBAA[0] = the array's address, and DCBAAP is written. *)
ScratchpadDone ==
  /\ phase = "Scratchpad"
  /\ spIndex >= maxScratchpad
  /\ PublishDcbaa
  /\ UNCHANGED <<timeout, usbcmd, usbsts, iman, fault, portChanges, tailVars,
                 dcbaaVars>>

(***************************************************************************)
(* _clearIrqFlags(0): "iman |= ~IP" (IE is RW) and "usbsts |= ~EINT".      *)
(***************************************************************************)
ClearIrqFlags ==
  /\ iman' = OrNotWrite(iman, "IP", {"IP"}, {"IE"})
  /\ usbsts' = OrNotWrite(usbsts, "EINT", StsRW1C, {})

(***************************************************************************)
(* XhciDriver::init and XhciHcd::init reach this point through the same   *)
(* reset handshake (XhciHcd's allocateDcbaa is not in the repository and  *)
(* is taken to be _setupDcbaa), so which of the two runs is chosen here.   *)
(* XhciDriver's _configureRuntimeRegisters programs the event ring and    *)
(* ends with _clearIrqFlags(0); XhciHcd::init only constructs the event   *)
(* ring and clears no flag.                                                *)
(***************************************************************************)
ConfigureRuntime ==
  /\ phase = "ConfigureRuntime"
  /\ \/ /\ driver' = "XhciDriver"
        /\ ClearIrqFlags
     \/ /\ driver' = "XhciHcd"
        /\ UNCHANGED <<usbsts, iman>>
  /\ phase' = "Start"
  /\ UNCHANGED <<timeout, usbcmd, opNonZero, fault, portChanges, portsc, portFault,
                 port, copy, reported, setupPort, dcbaaVars>>

(* _startHostController: set R/S, INTE and HSEE. *)
StartController ==
  /\ phase = "Start"
  /\ usbcmd' = usbcmd \cup {"RS", "INTE", "HSEE"}
  /\ phase' = "WaitRun"
  /\ UNCHANGED <<timeout, usbsts, iman, opNonZero, fault, portChanges, tailVars, dcbaaVars>>

(* "while (usbsts & HCH) msleep(16)": no budget. *)
WaitRunPoll ==
  /\ phase = "WaitRun"
  /\ "HCH" \in usbsts
  /\ UNCHANGED vars

(* HCH read as 0: the port loop starts at port 0. *)
Running ==
  /\ phase = "WaitRun"
  /\ "HCH" \notin usbsts
  /\ phase' = "PortRead"
  /\ PortsAfterReset
  /\ UNCHANGED <<timeout, usbcmd, usbsts, iman, opNonZero, fault, portChanges,
                 port, copy, reported, driver, setupPort, dcbaaVars>>

(***************************************************************************)
(* writePortscReg(image): the register image is written back as it is.    *)
(* RW1C bits in the image clear, PR or WPR start a reset (which disables  *)
(* the port), PP powers the port unless its hardware cannot.               *)
(***************************************************************************)
WritePortsc(p, image) ==
  LET cleared  == portsc[p] \ (image \cap PortRW1C)
      resets   == image \cap {"PR", "WPR"}
      powered  == IF "PP" \in image /\ portFault[p] # "NoPower"
                    THEN {"PP"} ELSE {}
      next     == (cleared \ {"PP"}) \cup powered \cup resets
  IN  portsc' = [portsc EXCEPT ![p] = IF resets = {} THEN next ELSE next \ {"PED"}]

(* The poll budget of the driver's port reset. *)
PortBudget ==
  IF driver = "XhciDriver" THEN PortResetTimeout ELSE HcdPortResetTimeout

(***************************************************************************)
(* The end of _resetPort(i): the loop goes on with i + 1; after the last  *)
(* port XhciDriver sets up a device and XhciHcd acknowledges events.       *)
(***************************************************************************)
NextPort(ok) ==
  /\ reported' = IF ok THEN reported \cup {port} ELSE reported
  /\ IF port + 1 < NumPorts
       THEN /\ port' = port + 1
            /\ phase' = "PortRead"
       ELSE /\ port' = port
            /\ phase' = IF driver = "XhciDriver" THEN "SetupDevice" ELSE "HcdAcknowledge"

(***************************************************************************)
(* Read PORTSC; an unpowered port gets PP = 1 written, then msleep(20).   *)
(***************************************************************************)
PortRead ==
  /\ phase = "PortRead"
  /\ copy' = portsc[port]
  /\ IF "PP" \in portsc[port]
       THEN /\ phase' = "PortClearCsc"
            /\ UNCHANGED portsc
       ELSE /\ WritePortsc(port, portsc[port] \cup {"PP"})
            /\ phase' = "PortPowerCheck"
  /\ UNCHANGED <<timeout, usbcmd, usbsts, iman, opNonZero, fault, portChanges,
                 portFault, port, reported, driver, setupPort, dcbaaVars>>

(* A slip for a mutant run: the re-read after msleep(20) is not checked. *)
PortPowerCheckSkipped ==
  /\ phase = "PortPowerCheck"
  /\ copy' = portsc[port]
  /\ phase' = "PortClearCsc"
  /\ UNCHANGED <<timeout, usbcmd, usbsts, iman, opNonZero, fault, portChanges,
                 portsc, portFault, port, reported, driver, setupPort, dcbaaVars>>

(* Re-read after the 20 ms: still unpowered is "Bad Reset", return false. *)
PortPowerCheck ==
  /\ phase = "PortPowerCheck"
  /\ copy' = portsc[port]
  /\ IF "PP" \in portsc[port]
       THEN /\ phase' = "PortClearCsc"
            /\ UNCHANGED <<port, reported>>
       ELSE NextPort(FALSE)
  /\ UNCHANGED <<timeout, usbcmd, usbsts, iman, opNonZero, fault, portChanges,
                 portsc, portFault, driver, setupPort, dcbaaVars>>

(* portsc.csc = 1, written back. *)
PortClearCsc ==
  /\ phase = "PortClearCsc"
  /\ copy' = copy \cup {"CSC"}
  /\ WritePortsc(port, copy \cup {"CSC"})
  /\ phase' = "PortSetReset"
  /\ UNCHANGED <<timeout, usbcmd, usbsts, iman, opNonZero, fault, portChanges,
                 portFault, port, reported, driver, setupPort, dcbaaVars>>

(* WPR (USB3) or PR (USB2) set and PED = 0, written back; timeout = 100. *)
PortSetReset ==
  /\ phase = "PortSetReset"
  /\ copy' = (copy \cup {ResetBit(port)}) \ {"PED"}
  /\ WritePortsc(port, (copy \cup {ResetBit(port)}) \ {"PED"})
  /\ timeout' = PortBudget
  /\ phase' = "PortPoll"
  /\ UNCHANGED <<usbcmd, usbsts, iman, opNonZero, fault, portChanges,
                 portFault, port, reported, driver, setupPort, dcbaaVars>>

(* A slip for a mutant run: the poll loop forgets "timeout--". *)
PortPollNoDecrement ==
  /\ phase = "PortPoll"
  /\ timeout > 0
  /\ ResetChange(port) \notin portsc[port]
  /\ copy' = portsc[port]
  /\ UNCHANGED <<phase, timeout, usbcmd, usbsts, iman, opNonZero, fault,
                 portChanges, portsc, portFault, port, reported, driver, setupPort, dcbaaVars>>

(* while (timeout): read; WRC (USB3) or PRC (USB2) set is a break. *)
PortResetChanged ==
  /\ phase = "PortPoll"
  /\ timeout > 0
  /\ ResetChange(port) \in portsc[port]
  /\ copy' = portsc[port]
  /\ phase' = "PortCheckEnabled"
  /\ UNCHANGED <<timeout, usbcmd, usbsts, iman, opNonZero, fault, portChanges,
                 portsc, portFault, port, reported, driver, setupPort, dcbaaVars>>

(* Not yet: timeout--, msleep(1). *)
PortPoll ==
  /\ phase = "PortPoll"
  /\ timeout > 0
  /\ ResetChange(port) \notin portsc[port]
  /\ copy' = portsc[port]
  /\ timeout' = timeout - 1
  /\ UNCHANGED <<phase, usbcmd, usbsts, iman, opNonZero, fault, portChanges,
                 portsc, portFault, port, reported, driver, setupPort, dcbaaVars>>

(* The budget ran out: return false. *)
PortResetTimedOut ==
  /\ phase = "PortPoll"
  /\ timeout = 0
  /\ NextPort(FALSE)
  /\ UNCHANGED <<timeout, usbcmd, usbsts, iman, opNonZero, fault, portChanges,
                 portsc, portFault, copy, driver, setupPort, dcbaaVars>>

(***************************************************************************)
(* msleep(3), read; PED set: portsc.csc = 1, written back, return true;   *)
(* otherwise return false.                                                 *)
(***************************************************************************)
PortCheckEnabled ==
  /\ phase = "PortCheckEnabled"
  /\ copy' = IF "PED" \in portsc[port] THEN portsc[port] \cup {"CSC"}
                                       ELSE portsc[port]
  /\ IF "PED" \in portsc[port]
       THEN WritePortsc(port, portsc[port] \cup {"CSC"})
       ELSE UNCHANGED portsc
  /\ NextPort("PED" \in portsc[port])
  /\ UNCHANGED <<timeout, usbcmd, usbsts, iman, opNonZero, fault, portChanges,
                 portFault, driver, setupPort, dcbaaVars>>

(***************************************************************************)
(* _setupDevice's first _sendCommand finds events pending (hasUnprocessed- *)
(* Events) and calls _clearIrqFlags(0); init() then returns.  With none   *)
(* pending the call is skipped.                                            *)
(***************************************************************************)
SetupDevice ==
  /\ phase = "SetupDevice"
  /\ \/ /\ "EINT" \in usbsts
        /\ ClearIrqFlags
     \/ /\ "EINT" \notin usbsts
        /\ UNCHANGED <<usbsts, iman>>
  /\ phase' = "Done"
  /\ UNCHANGED <<timeout, usbcmd, opNonZero, fault, portChanges, tailVars, dcbaaVars>>

(***************************************************************************)
(* XhciHcd::init after resetAllPorts: flushUnprocessedEvents drains the   *)
(* event ring, then clearIrqFlags(0); the scan for a connected port       *)
(* starts at port 0.                                                       *)
(***************************************************************************)
HcdAcknowledge ==
  /\ phase = "HcdAcknowledge"
  /\ ClearIrqFlags
  /\ port' = 0
  /\ phase' = "HcdScan"
  /\ UNCHANGED <<timeout, usbcmd, opNonZero, fault, portChanges, portsc,
                 portFault, copy, reported, driver, setupPort, dcbaaVars>>

(***************************************************************************)
(* Read PORTSC of the port; CCS set: _setupDevice(port + 1) and break;    *)
(* else the next port, and after the last one init() returns.             *)
(***************************************************************************)
HcdScanPort ==
  /\ phase = "HcdScan"
  /\ IF "CCS" \in portsc[port]
       THEN /\ setupPort' = port + 1
            /\ phase' = "HcdSetupDevice"
            /\ UNCHANGED port
       ELSE /\ IF port + 1 < NumPorts
                 THEN /\ port' = port + 1
                      /\ UNCHANGED phase
                 ELSE /\ phase' = "Done"
                      /\ UNCHANGED port
            /\ UNCHANGED setupPort
  /\ UNCHANGED <<timeout, usbcmd, usbsts, iman, opNonZero, fault, portChanges,
                 portsc, portFault, copy, reported, driver, dcbaaVars>>

(***************************************************************************)
(* XhciHcd::_setupDevice(setupPort): reads the speed from PORTSC of port  *)
(* setupPort, then _enableSlot and _addressDevice.  Each sendCommand that *)
(* finds events pending calls clearIrqFlags(0).                            *)
(***************************************************************************)
HcdSetupDevice ==
  /\ phase = "HcdSetupDevice"
  /\ \/ /\ "EINT" \in usbsts
        /\ ClearIrqFlags
     \/ /\ "EINT" \notin usbsts
        /\ UNCHANGED <<usbsts, iman>>
  /\ phase' = "Done"
  /\ UNCHANGED <<timeout, usbcmd, opNonZero, fault, portChanges, portsc,
                 portFault, port, copy, reported, driver, setupPort, dcbaaVars>>

(* init() has returned, after bring-up or after a failed reset. *)
Finished ==
  /\ phase \in {"Done", "Failed"}
  /\ UNCHANGED vars

(***************************************************************************)
(* The controller.  With R/S clear it halts; HCRST makes it reset its      *)
(* registers and report Controller Not Ready until it is ready; with R/S  *)
(* set it runs, unless a Host System Error has halted it.                  *)
(***************************************************************************)
HcHalt ==
  /\ fault # "NoHalt"
  /\ "RS" \notin usbcmd
  /\ "HCH" \notin usbsts
  /\ usbsts' = usbsts \cup {"HCH"}
  /\ UNCHANGED <<phase, timeout, usbcmd, iman, opNonZero, fault, portChanges, tailVars, dcbaaVars>>

HcResetComplete ==
  /\ fault # "NoReset"
  /\ "HCRST" \in usbcmd
  /\ usbcmd' = {}
  /\ usbsts' = {"HCH", "CNR"}
  /\ iman' = {}
  /\ opNonZero' = {}
  /\ UNCHANGED <<phase, timeout, fault, portChanges, tailVars, dcbaaVars>>

HcReady ==
  /\ "HCRST" \notin usbcmd
  /\ "CNR" \in usbsts
  /\ usbsts' = usbsts \ {"CNR"}
  /\ UNCHANGED <<phase, timeout, usbcmd, iman, opNonZero, fault, portChanges, tailVars, dcbaaVars>>

HcRun ==
  /\ "RS" \in usbcmd
  /\ "HCH" \in usbsts
  /\ "HSE" \notin usbsts
  /\ usbsts' = usbsts \ {"HCH"}
  /\ UNCHANGED <<phase, timeout, usbcmd, iman, opNonZero, fault, portChanges, tailVars, dcbaaVars>>

(* A Host System Error: HSE set and the controller halted. *)
HcSystemError ==
  /\ fault = "HostSystemError"
  /\ "RS" \in usbcmd
  /\ usbsts' = usbsts \cup {"HSE", "HCH"}
  /\ fault' = "None"
  /\ UNCHANGED <<phase, timeout, usbcmd, iman, opNonZero, portChanges, tailVars, dcbaaVars>>

(***************************************************************************)
(* A port change sets USBSTS.PCD; a running controller also posts a Port  *)
(* Status Change Event, with EINT and IMAN.IP.                            *)
(***************************************************************************)
PortEvent ==
  IF "RS" \in usbcmd /\ "HCH" \notin usbsts
    THEN /\ usbsts' = usbsts \cup {"PCD", "EINT"}
         /\ iman' = iman \cup {"IP"}
    ELSE /\ usbsts' = usbsts \cup {"PCD"}
         /\ UNCHANGED iman

(* A device is plugged into a powered port. *)
HcPortConnect(p) ==
  /\ portChanges < MaxPortChanges
  /\ "PP" \in portsc[p]
  /\ "CCS" \notin portsc[p]
  /\ portsc' = [portsc EXCEPT ![p] = @ \cup {"CCS", "CSC"}]
  /\ portChanges' = portChanges + 1
  /\ PortEvent
  /\ UNCHANGED <<phase, timeout, usbcmd, opNonZero, fault, portFault, port,
                 copy, reported, driver, setupPort, dcbaaVars>>

(* The device is unplugged: the port is no longer connected nor enabled. *)
HcPortDisconnect(p) ==
  /\ portChanges < MaxPortChanges
  /\ "CCS" \in portsc[p]
  /\ portsc' = [portsc EXCEPT ![p] = (@ \ {"CCS", "PED"}) \cup {"CSC"}]
  /\ portChanges' = portChanges + 1
  /\ PortEvent
  /\ UNCHANGED <<phase, timeout, usbcmd, opNonZero, fault, portFault, port,
                 copy, reported, driver, setupPort, dcbaaVars>>

(* A port finishes its reset: PRC or WRC, and enabled if a device is there. *)
HcPortResetDone(p) ==
  /\ portFault[p] # "Stuck"
  /\ portsc[p] \cap {"PR", "WPR"} # {}
  /\ portsc' = [portsc EXCEPT ![p] =
                  (@ \ {"PR", "WPR"}) \cup {ResetChange(p)}
                  \cup (IF "CCS" \in @ THEN {"PED"} ELSE {})]
  /\ PortEvent
  /\ UNCHANGED <<phase, timeout, usbcmd, opNonZero, fault, portChanges,
                 portFault, port, copy, reported, driver, setupPort, dcbaaVars>>

DriverStep ==
  \/ ResetStop \/ HaltedSetReset \/ WaitHaltPoll
  \/ ResetDone \/ WaitResetPoll \/ CheckDefaults
  \/ ConfigureOperational \/ ScratchpadAlloc \/ ScratchpadDone \/ ConfigureRuntime
  \/ StartController \/ WaitRunPoll \/ Running
  \/ PortRead \/ PortPowerCheck \/ PortClearCsc \/ PortSetReset
  \/ PortPoll \/ PortResetChanged \/ PortResetTimedOut \/ PortCheckEnabled
  \/ SetupDevice
  \/ HcdAcknowledge \/ HcdScanPort \/ HcdSetupDevice

Next ==
  \/ DriverStep
  \/ HcHalt \/ HcResetComplete \/ HcReady \/ HcRun
  \/ HcSystemError
  \/ \E p \in Ports : HcPortConnect(p) \/ HcPortDisconnect(p)
  \/ \E p \in Ports : HcPortResetDone(p)
  \/ Finished

(***************************************************************************)
(* init() runs on one kernel worker whose msleep() always returns, so the  *)
(* driver keeps stepping; a controller that is not faulty eventually       *)
(* halts, completes a reset, becomes ready and runs.                       *)
(***************************************************************************)
Fairness ==
  /\ WF_vars(DriverStep)
  /\ WF_vars(HcHalt) /\ WF_vars(HcResetComplete)
  /\ WF_vars(HcReady) /\ WF_vars(HcRun)
  /\ \A p \in Ports : WF_vars(HcPortResetDone(p))

Spec == Init /\ [][Next]_vars /\ Fairness

-----------------------------------------------------------------------------

TypeOK ==
  /\ phase \in {"ResetStop", "WaitHalt", "WaitReset", "CheckDefaults",
                "ConfigureOp", "Scratchpad", "ConfigureRuntime", "Start", "WaitRun",
                "SetupDevice", "HcdAcknowledge", "HcdScan", "HcdSetupDevice",
                "Done", "Failed"} \cup PortPhases
  /\ timeout \in 0..(ResetTimeout + PortResetTimeout + HcdPortResetTimeout)
  /\ usbcmd \subseteq {"RS", "HCRST", "INTE", "HSEE"}
  /\ usbsts \subseteq {"HCH", "CNR"} \cup StsRW1C
  /\ iman \subseteq {"IP", "IE"}
  /\ opNonZero \subseteq OpRegs
  /\ fault \in Faults \cup {"None"}
  /\ portChanges \in 0..MaxPortChanges
  /\ portsc \in [Ports -> SUBSET PortBits]
  /\ portFault \in [Ports -> PortFaults]
  /\ port \in Ports
  /\ copy \subseteq PortBits
  /\ reported \subseteq Ports
  /\ driver \in {"XhciDriver", "XhciHcd"}
  /\ setupPort \in 0..NumPorts
  /\ maxScratchpad \in ScratchpadCounts \cup {0}
  /\ spIndex \in 0..255
  /\ spFilled \subseteq 0..255

(* The phases that follow a completed reset. *)
PastReset == {"ConfigureOp", "Scratchpad", "ConfigureRuntime", "Start", "WaitRun",
              "SetupDevice", "HcdAcknowledge", "HcdScan", "HcdSetupDevice",
              "Done"} \cup PortPhases

(***************************************************************************)
(* The driver programs the controller only once the reset has finished:   *)
(* from the default check on, HCRST reads 0 and CNR reads 0.               *)
(***************************************************************************)
ConfiguredOnlyWhenReady ==
  phase \in PastReset => "HCRST" \notin usbcmd /\ "CNR" \notin usbsts

(***************************************************************************)
(* The two wait loops of _resetHostController have budgets: whatever the   *)
(* controller does, the reset ends, in success or failure.                 *)
(***************************************************************************)
ResetTerminates ==
  <>(phase \notin {"ResetStop", "WaitHalt", "WaitReset", "CheckDefaults"})

(***************************************************************************)
(* Design 5: every poll loop has a budget, so init() returns, with success *)
(* or failure, whatever the controller does.                               *)
(***************************************************************************)
InitTerminates == <>(phase \in {"Done", "Failed"})

(***************************************************************************)
(* Design 4.2: when DCBAAP is published, every one of the Max Scratchpad  *)
(* Buffers entries of the scratchpad array holds a buffer, and no other  *)
(* entry was written.                                                      *)
(***************************************************************************)
ScratchpadArrayFilled ==
  ("DCBAAP" \in opNonZero /\ phase \in PastReset \ {"ConfigureOp", "Scratchpad"})
    => spFilled = 0..(maxScratchpad - 1)

(***************************************************************************)
(* Design 4.7: a port that does not power up fails with "Bad Reset"; the *)
(* driver never writes PR or WPR to a port that is not powered.           *)
(***************************************************************************)
ResetOnlyPoweredPorts ==
  [][\A p \in Ports :
       ({"PR", "WPR"} \cap portsc[p] = {} /\ {"PR", "WPR"} \cap portsc'[p] # {})
         => "PP" \in portsc[p]]_vars

(***************************************************************************)
(* Port failures are contained: whatever the ports do (never power, never *)
(* finish a reset, unplug mid-reset), the port loop of init() ends and    *)
(* the driver goes on to device setup.                                     *)
(***************************************************************************)
PortResetsEnd == (phase \in PortPhases) ~> (phase \notin PortPhases)

(***************************************************************************)
(* Design 8, RW1C safety, for USBSTS: once the controller runs, a Host    *)
(* System Error or a Port Change Detect it reports stays set; the         *)
(* driver's writes to USBSTS are meant to clear EINT only.                 *)
(***************************************************************************)
UsbstsChangesKept ==
  (phase \in {"WaitRun", "SetupDevice", "HcdAcknowledge", "HcdScan",
             "HcdSetupDevice", "Done"} \cup PortPhases) =>
    (\A b \in {"HSE", "PCD"} : b \in usbsts => b \in usbsts')

(***************************************************************************)
(* Design 8, RW1C safety, for PORTSC: a port _resetPort reports reset     *)
(* stays enabled while its device stays connected and no new reset       *)
(* starts; the driver's last write is meant to clear CSC only.            *)
(***************************************************************************)
PortscEnabledKept ==
  \A p \in reported' :
    ("PED" \in portsc[p] /\ "CCS" \in portsc'[p] /\ {"PR", "WPR"} \cap portsc'[p] = {})
      => "PED" \in portsc'[p]

(***************************************************************************)
(* Design 8, RW1C safety: after any write to USBSTS, IMAN or PORTSC, the  *)
(* bits not meant to be cleared keep their value.                          *)
(***************************************************************************)
StatusChangesNotLost == [][UsbstsChangesKept /\ PortscEnabledKept]_vars

=============================================================================
