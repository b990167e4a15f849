------------------------------- MODULE PciMsix -------------------------------
(***************************************************************************)
(* setupMsixIrqRouting (pci.cpp) for one PCI function: the walk of the    *)
(* capability list for MSI-X (readMsixCapability), the table and PBA      *)
(* addresses from the BAR the capability names (getBarFromPciHeader), the *)
(* loop that programs every table entry into the one zeroed page mapped   *)
(* over the table, and enableMsix's read-modify-write of Message Control. *)
(*                                                                         *)
(* Configuration space is 256 bytes.  pciConfigRead8/16 and               *)
(* pciConfigWrite16 go through the dword at offset & 0xfc and select      *)
(* lanes of it; 32-bit and 64-bit values are kept as little-endian byte   *)
(* sequences, so no value leaves TLC's integer range.  pci.h is not in    *)
(* the repository: the PciMsiXCapability fields are placed as the PCI     *)
(* specification lays the capability out (Message Control in bytes 2-3:  *)
(* table size in bits 0-10, enable in bit 15; table and PBA BIR in bits   *)
(* 0-2 of dwords 1 and 2, the offsets in the rest).                       *)
(***************************************************************************)
EXTENDS Naturals, Sequences, PageConstants

CONSTANTS
  Devices,       \* [config, msixCapPtr]: a function's config bytes and the
                 \* msixCapPtr of the PciDeviceInfo the scan filled in
  MsixGarbage    \* values an uninitialized PciMsiXCapability may hold

CapIdMsix == 17      \* PCI_CAPABILITY_ID_MSI_X
CapabilitiesPtr == 52 \* offsetof(PciDeviceHeader, capabilitiesPtr)

VARIABLES
  device,       \* the function being set up (fixed)
  config,       \* its configuration space: offset -> byte
  msiPc,        \* where setupMsixIrqRouting is
  capPointer,   \* readMsixCapability's capPointer
  msixCap,      \* its local PciMsiXCapability (uninitialized until read)
  tableAddress, \* tableBar + tableOffset, 8 bytes
  pbaAddress,   \* tableBar + pendingBitArrayOffset, 8 bytes
  tableIndex    \* the loop index i

msiVars == <<device, config, msiPc, capPointer, msixCap, tableAddress,
             pbaAddress, tableIndex>>

-----------------------------------------------------------------------------
(* Configuration-space access. *)

(* The dword the address register selects: offset & 0xfc. *)
Dword(cfg, off) == [k \in 1..4 |-> cfg[(off - (off % 4)) + k - 1]]

(* pciConfigRead8: (data >> ((offset & 3) * 8)) & 0xff. *)
Read8(cfg, off) == Dword(cfg, off)[(off % 4) + 1]

(* pciConfigRead16: (data >> ((offset & 2) * 8)) & 0xffff. *)
Read16(cfg, off) ==
  LET lane == (off % 4) - (off % 2)
  IN  Dword(cfg, off)[lane + 1] + 256 * Dword(cfg, off)[lane + 2]

(***************************************************************************)
(* pciConfigWrite16: read the dword, clear the 16-bit lane (offset & 2),  *)
(* or the value in, write the dword back.  The other lane is written back *)
(* as read.                                                                *)
(***************************************************************************)
Write16(cfg, off, value) ==
  LET base == off - (off % 4)
      lane == (off % 4) - (off % 2)
      data == Dword(cfg, off)
      new  == [data EXCEPT ![lane + 1] = value % 256,
                           ![lane + 2] = value \div 256]
  IN  [o \in DOMAIN cfg |-> IF o \in base..(base + 3) THEN new[o - base + 1]
                           ELSE cfg[o]]

-----------------------------------------------------------------------------
(* Addresses as little-endian byte sequences. *)

Zero8 == <<0, 0, 0, 0, 0, 0, 0, 0>>

(* a + b over n-byte little-endian sequences, carry out dropped. *)
RECURSIVE AddBytes(_, _, _, _)
AddBytes(a, b, k, carry) ==
  IF k > Len(a) THEN <<>>
  ELSE LET s == a[k] + b[k] + carry
       IN  <<s % 256>> \o AddBytes(a, b, k + 1, s \div 256)

(***************************************************************************)
(* getBarFromPciHeader(header, barIndex): a memory BAR (bit 0 clear)      *)
(* gives its address with the low four bits masked; a 64-bit one (bits    *)
(* 1-2 = 2) takes its high half from the next BAR; an I/O BAR gives 0.   *)
(* bar[i] is the dword at 0x10 + 4i of the header copy.                   *)
(***************************************************************************)
GetBar(hdr, i) ==
  LET lo == Dword(hdr, 16 + 4 * i)
  IN  IF lo[1] % 2 # 0 THEN Zero8
      ELSE <<lo[1] - (lo[1] % 16), lo[2], lo[3], lo[4]>> \o
           (IF (lo[1] % 8) \div 2 = 2 THEN Dword(hdr, 16 + 4 * (i + 1))
            ELSE <<0, 0, 0, 0>>)

(***************************************************************************)
(* The capability readMsixCapability reads at ptr: Message Control, the   *)
(* table BIR and offset (dword 1) and the PBA BIR and offset (dword 2).   *)
(***************************************************************************)
CapImage(cfg, ptr) ==
  LET d1 == Dword(cfg, ptr + 4)
      d2 == Dword(cfg, ptr + 8)
  IN  [control     |-> Read16(cfg, ptr + 2),
       tableBir    |-> d1[1] % 8,
       tableOffset |-> <<d1[1] - (d1[1] % 8), d1[2], d1[3], d1[4], 0, 0, 0, 0>>,
       pbaBir      |-> d2[1] % 8,
       pbaOffset   |-> <<d2[1] - (d2[1] % 8), d2[2], d2[3], d2[4], 0, 0, 0, 0>>]

TableSize(cap) == cap.control % 2048

-----------------------------------------------------------------------------

MsiInit ==
  /\ device \in Devices
  /\ config = device.config
  /\ msiPc = "head"
  /\ capPointer = 0
  /\ msixCap \in MsixGarbage
  /\ tableAddress = Zero8
  /\ pbaAddress = Zero8
  /\ tableIndex = 0

(* capPointer = pciConfigRead8(..., capabilitiesPtr). *)
MsixReadHead ==
  /\ msiPc = "head"
  /\ capPointer' = Read8(config, CapabilitiesPtr)
  /\ msiPc' = "walk"
  /\ UNCHANGED <<device, config, msixCap, tableAddress, pbaAddress, tableIndex>>

(* A slip: the next pointer is read from capPointer, not capPointer + 1. *)
MsixWalkStepNextAtId ==
  /\ msiPc = "walk"
  /\ capPointer \notin {0, 255}
  /\ IF Read8(config, capPointer) = CapIdMsix
       THEN /\ msixCap' = CapImage(config, capPointer)
            /\ msiPc' = "map"
            /\ UNCHANGED capPointer
       ELSE /\ capPointer' = Read8(config, capPointer)
            /\ UNCHANGED <<msixCap, msiPc>>
  /\ UNCHANGED <<device, config, tableAddress, pbaAddress, tableIndex>>

(* A slip: the loop never advances past a capability that is not MSI-X. *)
MsixWalkStepStuck ==
  /\ msiPc = "walk"
  /\ capPointer \notin {0, 255}
  /\ IF Read8(config, capPointer) = CapIdMsix
       THEN /\ msixCap' = CapImage(config, capPointer)
            /\ msiPc' = "map"
            /\ UNCHANGED capPointer
       ELSE UNCHANGED <<capPointer, msixCap, msiPc>>
  /\ UNCHANGED <<device, config, tableAddress, pbaAddress, tableIndex>>

(***************************************************************************)
(* One iteration of while (capPointer != 0 && capPointer != 0xFF): an     *)
(* MSI-X capability is read and the loop breaks; otherwise capPointer is  *)
(* the next pointer, the byte after the capability id.                    *)
(***************************************************************************)
MsixWalkStep ==
  /\ msiPc = "walk"
  /\ capPointer \notin {0, 255}
  /\ IF Read8(config, capPointer) = CapIdMsix
       THEN /\ msixCap' = CapImage(config, capPointer)
            /\ msiPc' = "map"
            /\ UNCHANGED capPointer
       ELSE /\ capPointer' = Read8(config, (capPointer + 1) % 256)
            /\ UNCHANGED <<msixCap, msiPc>>
  /\ UNCHANGED <<device, config, tableAddress, pbaAddress, tableIndex>>

(***************************************************************************)
(* The list ends without an MSI-X capability: the local msixCap was never *)
(* written and is returned holding what it held uninitialized.            *)
(***************************************************************************)
MsixWalkExit ==
  /\ msiPc = "walk"
  /\ capPointer \in {0, 255}
  /\ msiPc' = "map"
  /\ UNCHANGED <<device, config, capPointer, msixCap, tableAddress, pbaAddress,
                 tableIndex>>

(***************************************************************************)
(* tableBar from the BAR the table BIR names, table and PBA addresses     *)
(* both from tableBar, and a zeroed page mapped over the table address.   *)
(***************************************************************************)
MsixMapTable ==
  /\ msiPc = "map"
  /\ LET tableBar == GetBar(device.config, msixCap.tableBir)
     IN  /\ tableAddress' = AddBytes(tableBar, msixCap.tableOffset, 1, 0)
         /\ pbaAddress' = AddBytes(tableBar, msixCap.pbaOffset, 1, 0)
  /\ tableIndex' = 0
  /\ msiPc' = "table"
  /\ UNCHANGED <<device, config, capPointer, msixCap>>

(***************************************************************************)
(* for (i = 0; i < tableSize + 1; i++): entry i, at byte 16i of the page, *)
(* gets the local APIC address, msi_data and an unmasked vector control.  *)
(***************************************************************************)
MsixWriteEntry ==
  /\ msiPc = "table"
  /\ tableIndex < TableSize(msixCap) + 1
  /\ tableIndex' = tableIndex + 1
  /\ UNCHANGED <<device, config, msiPc, capPointer, msixCap, tableAddress, pbaAddress>>

(* The loop is over: the PBA page is mapped and *pba set. *)
MsixMapPba ==
  /\ msiPc = "table"
  /\ tableIndex >= TableSize(msixCap) + 1
  /\ msiPc' = "enable"
  /\ UNCHANGED <<device, config, capPointer, msixCap, tableAddress, pbaAddress,
                 tableIndex>>

(* A slip: the enable bit is set by adding 0x8000 to Message Control. *)
EnableMsixAdd ==
  /\ msiPc = "enable"
  /\ config' = Write16(config, device.msixCapPtr + 2, msixCap.control + 32768)
  /\ msixCap' = [msixCap EXCEPT !.control = @ + 32768]
  /\ msiPc' = "done"
  /\ UNCHANGED <<device, capPointer, tableAddress, pbaAddress, tableIndex>>

(* A slip: Message Control is written at the capability's own offset. *)
EnableMsixAtCap ==
  /\ msiPc = "enable"
  /\ config' = Write16(config, device.msixCapPtr,
                       (msixCap.control % 32768) + 32768)
  /\ msixCap' = [msixCap EXCEPT !.control = (@ % 32768) + 32768]
  /\ msiPc' = "done"
  /\ UNCHANGED <<device, capPointer, tableAddress, pbaAddress, tableIndex>>

(***************************************************************************)
(* enableMsix: enableBit = 1 in the returned copy, and its Message Control *)
(* written at info.msixCapPtr + offsetof(messageControl).                  *)
(***************************************************************************)
EnableMsix ==
  /\ msiPc = "enable"
  /\ config' = Write16(config, device.msixCapPtr + 2,
                       (msixCap.control % 32768) + 32768)
  /\ msixCap' = [msixCap EXCEPT !.control = (@ % 32768) + 32768]
  /\ msiPc' = "done"
  /\ UNCHANGED <<device, capPointer, tableAddress, pbaAddress, tableIndex>>

MsiNext ==
  \/ MsixReadHead
  \/ MsixWalkStep
  \/ MsixWalkExit
  \/ MsixMapTable
  \/ MsixWriteEntry
  \/ MsixMapPba
  \/ EnableMsix

-----------------------------------------------------------------------------

CapRecords ==
  [control : 0..65535, tableBir : 0..7, tableOffset : Seq(0..255),
   pbaBir : 0..7, pbaOffset : Seq(0..255)]

MsiTypeOK ==
  /\ device \in Devices
  /\ config \in [0..255 -> 0..255]
  /\ msiPc \in {"head", "walk", "map", "table", "enable", "done"}
  /\ capPointer \in 0..255
  /\ msixCap \in CapRecords
  /\ tableAddress \in Seq(0..255) /\ pbaAddress \in Seq(0..255)
  /\ tableIndex \in 0..2049

(***************************************************************************)
(* The capability list as the PCI specification defines it: from the      *)
(* Capabilities Pointer, each capability's next pointer is its byte 1,    *)
(* and 0 (or 0xFF, an absent function's value) ends it.  FirstMsix is     *)
(* the first MSI-X capability on it, or 0 when there is none.  A list is  *)
(* at most 48 capabilities long (192 bytes of dwords past the header).   *)
(***************************************************************************)
RECURSIVE FirstCap(_, _, _)
FirstCap(cfg, ptr, fuel) ==
  IF fuel = 0 \/ ptr \in {0, 255} THEN 0
  ELSE IF cfg[ptr] = CapIdMsix THEN ptr
  ELSE FirstCap(cfg, cfg[(ptr + 1) % 256], fuel - 1)

FirstMsix == FirstCap(device.config, device.config[CapabilitiesPtr], 48)

(***************************************************************************)
(* readMsixCapability returns the first MSI-X capability of the list, with *)
(* its fields read through pciConfigRead16/32 at the right offsets: the   *)
(* byte-lane selection of the 8- and 16-bit reads and the next-pointer    *)
(* offset must all be right for the walk to land on it.                    *)
(***************************************************************************)
MsixCapabilityFound ==
  (msiPc \in {"map", "table", "enable"} /\ FirstMsix # 0) =>
    msixCap = CapImage(device.config, FirstMsix)

(***************************************************************************)
(* enableMsix changes exactly one bit of configuration space: the enable  *)
(* bit of the MSI-X Message Control.  pciConfigWrite16 writes the whole   *)
(* dword back, so the capability id, the next pointer and the table size  *)
(* must come back as they were read.                                       *)
(***************************************************************************)
EnableSetsOnlyEnableBit ==
  (msiPc = "done" /\ FirstMsix # 0) =>
    config = [device.config EXCEPT ![FirstMsix + 3] = (@ % 128) + 128]

=============================================================================
