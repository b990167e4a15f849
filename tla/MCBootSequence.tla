---------------------------- MODULE MCBootSequence ----------------------------
EXTENDS BootSequence

(***************************************************************************)
(* Paging, with 2-bit indexes: 256 virtual pages, the kernel's higher half *)
(* at page 128.  RAM is pages 0-19; the kernel image is loaded at page 1   *)
(* and is 2.5 pages long; the framebuffer is 1.5 pages at page 200, under *)
(* another top-level entry.  The memory map's two descriptors sum to 20   *)
(* pages.  AllocatePages hands out pages 4-19 in order; the tables take    *)
(* 15 of them.                                                             *)
(***************************************************************************)
MCTableFrames == [k \in 1..16 |-> (k + 3) * 4096]

MCMemoryMaps == {<<6, 14>>}

MCLoads ==
  {[kernelBase |-> 4096, kernelSize |-> 10240,
    gopBase |-> 200 * 4096, gopSize |-> 6144]}

(***************************************************************************)
(* MADT tables.  QemuMadt is the shape QEMU's q35 table has, with four    *)
(* local APICs (APIC ids 0, 1, 3 enabled, 2 disabled), an I/O APIC entry  *)
(* (12 bytes), an interrupt source override (10 bytes) and a local APIC   *)
(* NMI entry (6 bytes) between them; with MAX_SYSTEM_CPUS = 2 the limit    *)
(* is met before the last enabled one.  NoEnabledMadt has only a disabled *)
(* local APIC after entries of other lengths.                              *)
(***************************************************************************)
QemuMadt ==
  << <<0, 8, 0, 0, 1, 0, 0, 0>>,
     <<1, 12, 0, 0, 0, 0, 192, 254, 0, 0, 0, 0>>,
     <<0, 8, 1, 1, 1, 0, 0, 0>>,
     <<2, 10, 0, 0, 2, 0, 0, 0, 0, 0>>,
     <<0, 8, 2, 2, 0, 0, 0, 0>>,
     <<4, 6, 255, 5, 0, 1>>,
     <<0, 8, 3, 3, 1, 0, 0, 0>> >>

NoEnabledMadt ==
  << <<1, 12, 0, 0, 0, 0, 192, 254, 0, 0, 0, 0>>,
     <<4, 6, 255, 5, 0, 1>>,
     <<0, 8, 0, 7, 0, 0, 0, 0>> >>

MCMadtTables == {QemuMadt, NoEnabledMadt}

(* A configuration space: the listed bytes, zero elsewhere. *)
ConfigOf(bytes) ==
  [o \in 0..255 |-> IF \E p \in bytes : p[1] = o
                    THEN (CHOOSE p \in bytes : p[1] = o)[2] ELSE 0]

(***************************************************************************)
(* An xHCI function shaped like QEMU's: a 64-bit memory BAR 0 at           *)
(* 0xfebf0000; capabilities power management (0x40) -> MSI (0x50) ->      *)
(* MSI-X (0x70); MSI-X with table size field 255 (256 entries, exactly    *)
(* one page of 16-byte entries), table in BAR 0 at 0x3000, PBA in BAR 0   *)
(* at 0x3800.  Its header's status register has bits set.                 *)
(***************************************************************************)
XhciConfig ==
  ConfigOf({<<0, 54>>, <<1, 27>>, <<2, 13>>, <<3, 0>>,
            <<4, 6>>, <<6, 16>>, <<7, 0>>,
            <<16, 4>>, <<17, 0>>, <<18, 191>>, <<19, 254>>,
            <<52, 64>>,
            <<64, 1>>, <<65, 80>>, <<66, 3>>,
            <<80, 5>>, <<81, 112>>, <<82, 128>>,
            <<112, 17>>, <<113, 0>>, <<114, 255>>, <<115, 0>>,
            <<116, 0>>, <<117, 48>>,
            <<120, 0>>, <<121, 56>>})

(***************************************************************************)
(* A function with no MSI-X: a 32-bit memory BAR 0 and one power          *)
(* management capability whose next pointer is 0xFF.                      *)
(***************************************************************************)
PlainConfig ==
  ConfigOf({<<0, 134>>, <<1, 128>>, <<2, 14>>, <<3, 16>>,
            <<16, 0>>, <<17, 0>>, <<18, 192>>, <<19, 254>>,
            <<52, 64>>, <<64, 1>>, <<65, 255>>})

MCDevices ==
  {[config |-> XhciConfig, msixCapPtr |-> 112],
   [config |-> PlainConfig, msixCapPtr |-> 0]}

(***************************************************************************)
(* What the uninitialized local may hold: all zeros, or stack bytes with  *)
(* the enable bit and a small table size set and BIR 7.                   *)
(***************************************************************************)
MCMsixGarbage ==
  {[control |-> 0, tableBir |-> 0, tableOffset |-> Zero8,
    pbaBir |-> 0, pbaOffset |-> Zero8],
   [control |-> 32771, tableBir |-> 7, tableOffset |-> Zero8,
    pbaBir |-> 7, pbaOffset |-> Zero8]}

=============================================================================
