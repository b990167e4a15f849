-------------------------------- MODULE Madt --------------------------------
(***************************************************************************)
(* madt::init (madt.cpp): the walk over the entries of the ACPI MADT that *)
(* records the enabled local APICs in m_local_apics.                      *)
(*                                                                         *)
(* The table is bytes.  Offsets count from table->entries, so table_end   *)
(* is header.length less the 44-byte fixed part; here a table is given as *)
(* its entries, each a byte sequence, laid end to end.  An entry is       *)
(* <<type, length, ...>>; a local APIC entry (type 0) is <<0, 8,           *)
(* processor id, APIC id, flags...>> with bit 0 of flags "enabled".       *)
(* A local APIC is recorded as its APIC id.                               *)
(***************************************************************************)
EXTENDS Naturals, Sequences, SequencesExt

CONSTANTS
  MadtTables,     \* the tables the firmware may hand over: sequences of entries
  MaxSystemCpus   \* MAX_SYSTEM_CPUS

LapicType == 0    \* MADT_DESCRIPTOR_TYPE_LAPIC

VARIABLES
  madtEntries,  \* the table this boot walks (fixed by the firmware)
  entry,        \* the entry pointer, as an offset from table->entries
  localApics,   \* m_local_apics: APIC ids, in push order
  madtPc        \* "walk" while the while loop runs, then "done"

madtVars == <<madtEntries, entry, localApics, madtPc>>

(* The table's bytes, with the bytes after table_end read as zero. *)
TableBytes == FlattenSeq(madtEntries) \o [k \in 1..8 |-> 0]

TableEnd == Len(FlattenSeq(madtEntries))

(* The byte at offset o from table->entries. *)
ByteAt(o) == TableBytes[o + 1]

(* desc->flags & LAPIC_PROCESSOR_ENABLED_BIT for the entry at offset o. *)
LapicEnabled(o) == ByteAt(o + 4) % 2 = 1

MadtInit ==
  /\ madtEntries \in MadtTables
  /\ entry = 0
  /\ localApics = <<>>
  /\ madtPc = "walk"

(* A slip: the CPU limit is checked with <= instead of <. *)
MadtEntryCapLate ==
  /\ madtPc = "walk"
  /\ entry < TableEnd
  /\ localApics' =
       IF ByteAt(entry) = LapicType /\ Len(localApics) <= MaxSystemCpus
          /\ LapicEnabled(entry)
       THEN Append(localApics, ByteAt(entry + 3))
       ELSE localApics
  /\ entry' = entry + ByteAt(entry + 1)
  /\ UNCHANGED <<madtEntries, madtPc>>

(***************************************************************************)
(* One iteration of while (entry < table_end): a local APIC entry is      *)
(* pushed if fewer than MAX_SYSTEM_CPUS are tracked and it is enabled;    *)
(* every other type is skipped; then entry += entry_length.               *)
(***************************************************************************)
MadtEntry ==
  /\ madtPc = "walk"
  /\ entry < TableEnd
  /\ localApics' =
       IF ByteAt(entry) = LapicType /\ Len(localApics) < MaxSystemCpus
          /\ LapicEnabled(entry)
       THEN Append(localApics, ByteAt(entry + 3))
       ELSE localApics
  /\ entry' = entry + ByteAt(entry + 1)
  /\ UNCHANGED <<madtEntries, madtPc>>

(* The loop condition fails: madt::init returns. *)
MadtDone ==
  /\ madtPc = "walk"
  /\ entry >= TableEnd
  /\ madtPc' = "done"
  /\ UNCHANGED <<madtEntries, entry, localApics>>

MadtNext == MadtEntry \/ MadtDone

-----------------------------------------------------------------------------

MadtTypeOK ==
  /\ madtEntries \in MadtTables
  /\ entry \in Nat
  /\ localApics \in Seq(0..255)
  /\ madtPc \in {"walk", "done"}

(***************************************************************************)
(* What the walk should produce, read off the table entry by entry: the   *)
(* APIC ids of the enabled local APIC entries, the first MAX_SYSTEM_CPUS   *)
(* of them.                                                                *)
(***************************************************************************)
EnabledLapics ==
  LET isLapic(e) == e[1] = LapicType /\ e[5] % 2 = 1
      ids == [k \in 1..Len(SelectSeq(madtEntries, isLapic)) |->
                SelectSeq(madtEntries, isLapic)[k][4]]
  IN  SubSeq(ids, 1, IF Len(ids) < MaxSystemCpus THEN Len(ids) ELSE MaxSystemCpus)

(***************************************************************************)
(* When madt::init returns, m_local_apics holds exactly the enabled local *)
(* APICs of the table, in table order, up to MAX_SYSTEM_CPUS: the byte    *)
(* walk lands on every entry boundary, skips I/O APIC and other entries   *)
(* of any length, and stops pushing at the limit.                          *)
(***************************************************************************)
LocalApicsTracked == madtPc = "done" => localApics = EnabledLapics

=============================================================================
