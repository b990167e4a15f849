---------------------------- MODULE BootSequence ----------------------------
(***************************************************************************)
(* The walks a boot makes over structures the firmware and the devices    *)
(* provide, in the order the code makes them: efi_main builds the page    *)
(* tables from the memory map and loads CR3 (Paging); the kernel's         *)
(* _kuser_entry reaches madt::init through acpiController.init (Madt);   *)
(* setupMsixIrqRouting programs one PCI function (PciMsix).  They share   *)
(* no state.  No code under src/ calls setupMsixIrqRouting yet, so its    *)
(* place after the MADT walk is not fixed by the code; it is put there so *)
(* that the behaviours of one run are the sum of the walks' and not their *)
(* product.                                                                *)
(***************************************************************************)
EXTENDS Paging, Madt, PciMsix

vars == <<pagingVars, madtVars, msiVars>>

Init == PagingInit /\ MadtInit /\ MsiInit

(* efi_main, from create_pml4 to the jump into the kernel. *)
Bootloader ==
  /\ PagingNext
  /\ UNCHANGED <<madtVars, msiVars>>

(* acpiController.init(rsdp), in _kuser_entry: the MADT walk. *)
AcpiInit ==
  /\ bootPc = "cr3"
  /\ MadtNext
  /\ UNCHANGED <<pagingVars, msiVars>>

(* setupMsixIrqRouting(info, &pba), once the MADT walk is over. *)
MsixSetup ==
  /\ madtPc = "done"
  /\ MsiNext
  /\ UNCHANGED <<pagingVars, madtVars>>

(* efi_main returned an error, or both walks have returned. *)
Halted ==
  /\ \/ bootPc = "error"
     \/ madtPc = "done" /\ msiPc = "done"
  /\ UNCHANGED vars

Next == Bootloader \/ AcpiInit \/ MsixSetup \/ Halted

(***************************************************************************)
(* Each stage is straight-line firmware or kernel code with no lock, wait *)
(* or yield in it: once it runs, its thread keeps taking its next step.   *)
(***************************************************************************)
Spec ==
  Init /\ [][Next]_vars
       /\ WF_vars(Bootloader) /\ WF_vars(AcpiInit) /\ WF_vars(MsixSetup)

-----------------------------------------------------------------------------

TypeOK == PagingTypeOK /\ MadtTypeOK /\ MsiTypeOK

(***************************************************************************)
(* A boot gets through: efi_main either reports the failed page table or  *)
(* reaches the kernel, and then the MADT walk and the capability walk and *)
(* table loop of setupMsixIrqRouting all end.                             *)
(***************************************************************************)
BootEnds == <>(bootPc = "error" \/ (madtPc = "done" /\ msiPc = "done"))

=============================================================================
