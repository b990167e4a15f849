-------------------------------- MODULE Paging --------------------------------
(***************************************************************************)
(* The bootloader's page tables (bootloader.c create_pml4, paging.c       *)
(* MapPages, krequest_page, kmemset) and the steps of efi_main around     *)
(* them: the memory-map sum, the NULL check and the CR3 load.             *)
(*                                                                         *)
(* A page-table index has IndexBits bits (9 on x86-64) and there are four *)
(* levels, so the virtual address space is PageSize * 2^(4 * IndexBits)   *)
(* bytes; the sign-extension bits above it are dropped by the & 0x1ff of  *)
(* _kvaddr_to_page_offsets, so KERNEL_VIRTUAL_BASE is the address whose   *)
(* top index is the first of the upper half.  Page tables are kept as     *)
(* their entries (present, read_write, page_frame_number) by physical     *)
(* address; a failed krequest_page returns NULL, the page at address 0.   *)
(***************************************************************************)
EXTENDS Naturals, Sequences, SequencesExt, PageConstants

CONSTANTS
  IndexBits,        \* bits of one page-table index
  TableFrames,      \* the pages AllocatePages hands out, in the order it does
  MemoryMaps,       \* EFI memory maps: the NumberOfPages of each descriptor
  Loads,            \* [kernelBase, kernelSize, gopBase, gopSize]
  MaxAllocFailures, \* how many AllocatePages calls may fail in one boot
  NoMap             \* a translation that is not present

Entries == 2 ^ IndexBits
Idx == 0..(Entries - 1)
VPages == {k * PageSize : k \in 0..(Entries ^ 4 - 1)}
KernelVirtualBase == PageSize * Entries ^ 3 * (Entries \div 2)

Entry == [present : {0, 1}, rw : {0, 1}, pfn : Nat]
ZeroEntry == [present |-> 0, rw |-> 0, pfn |-> 0]
ZeroTable == [i \in Idx |-> ZeroEntry]
TableAddrs == {0} \cup Range(TableFrames)

VARIABLES
  memMap,        \* the memory map GetMemoryMap returned
  load,          \* where the ELF loader and GOP put the kernel and framebuffer
  mem,           \* page-table pages: physical address -> entries
  pml4,          \* create_pml4's pml4
  allocCount,    \* GlobalAllocatedPageCount
  allocFailures, \* AllocatePages calls that failed so far
  bootPc,        \* where efi_main is
  iter           \* the loop variable i of create_pml4's current loop

pagingVars == <<memMap, load, mem, pml4, allocCount, allocFailures, bootPc, iter>>

(* GetTotalSystemMemory: the pages of every descriptor, whatever its type. *)
TotalSystemMemory == FoldLeft(LAMBDA acc, n : acc + n * PageSize, 0, memMap)

(* A slip: the indexes are taken without first shifting out the offset. *)
PageOffsetsUnshifted(addr) ==
  [lvl \in 1..4 |-> (addr \div Entries ^ (4 - lvl)) % Entries]

(***************************************************************************)
(* _kvaddr_to_page_offsets: addr >>= 12, then four 9-bit fields; element  *)
(* 1 is pt_lvl_4, element 4 is pt_lvl_1.                                   *)
(***************************************************************************)
PageOffsets(addr) ==
  [lvl \in 1..4 |-> ((addr \div PageSize) \div Entries ^ (4 - lvl)) % Entries]

(* The offsets of every virtual page, computed once. *)
OffsetsOf == [v \in VPages |-> PageOffsets(v)]

(***************************************************************************)
(* krequest_page: the next page AllocatePages hands out, counted in        *)
(* GlobalAllocatedPageCount, or NULL when the call fails.                  *)
(***************************************************************************)
RequestPage(count, fail) == IF fail THEN 0 ELSE TableFrames[count + 1]

(* A slip: a new table is requested whether or not the entry is present. *)
DescendAlwaysAllocates(s, idx, fail) ==
  LET new    == RequestPage(s.count, fail)
      zeroed == [s.mem EXCEPT ![new] = ZeroTable]
  IN  [mem   |-> [zeroed EXCEPT ![s.table][idx] =
                    [present |-> 1, rw |-> 1, pfn |-> new \div PageSize]],
       table |-> new,
       count |-> IF fail THEN s.count ELSE s.count + 1,
       fails |-> IF fail THEN s.fails + 1 ELSE s.fails]

(***************************************************************************)
(* One level of MapPages: the entry at idx of the table at s.table; if it  *)
(* is not present a page is requested, kmemset to zero, and linked with   *)
(* present and read_write set.  s is [mem, table, count, fails].           *)
(***************************************************************************)
Descend(s, idx, fail) ==
  LET e == s.mem[s.table][idx]
  IN  IF e.present = 1 THEN [s EXCEPT !.table = e.pfn * PageSize]
      ELSE LET new    == RequestPage(s.count, fail)
               zeroed == [s.mem EXCEPT ![new] = ZeroTable]
           IN  [mem   |-> [zeroed EXCEPT ![s.table][idx] =
                             [present |-> 1, rw |-> 1, pfn |-> new \div PageSize]],
                table |-> new,
                count |-> IF fail THEN s.count ELSE s.count + 1,
                fails |-> IF fail THEN s.fails + 1 ELSE s.fails]

(***************************************************************************)
(* MapPages(vaddr, paddr, pml4): three levels of Descend, then the level-1 *)
(* entry set present, writable, to paddr >> 12.  fail[k] says whether the *)
(* k-th page request of the call, if one is made, fails.                  *)
(***************************************************************************)
MapPages(vaddr, paddr, fail) ==
  LET off == PageOffsets(vaddr)
      s0  == [mem |-> mem, table |-> pml4, count |-> allocCount, fails |-> allocFailures]
      s3  == Descend(Descend(Descend(s0, off[1], fail[1]), off[2], fail[2]), off[3], fail[3])
  IN  /\ s3.fails <= MaxAllocFailures
      /\ mem' = [s3.mem EXCEPT ![s3.table][off[4]] =
                   [present |-> 1, rw |-> 1, pfn |-> paddr \div PageSize]]
      /\ allocCount' = s3.count
      /\ allocFailures' = s3.fails

(* The failure patterns of one MapPages call that stay within the budget. *)
Fails == {f \in [1..3 -> BOOLEAN] :
            Cardinality({k \in 1..3 : f[k]}) <= MaxAllocFailures - allocFailures}

-----------------------------------------------------------------------------

(* efi_main up to create_pml4: the memory map is read and summed. *)
PagingInit ==
  /\ memMap \in MemoryMaps
  /\ load \in Loads
  /\ mem = [a \in TableAddrs |-> ZeroTable]
  /\ pml4 = 0
  /\ allocCount = 0
  /\ allocFailures = 0
  /\ bootPc = "pml4"
  /\ iter = 0

(* pml4 = krequest_page(); kmemset(pml4, 0, PAGE_SIZE). *)
CreatePml4 ==
  /\ bootPc = "pml4"
  /\ \E fail \in BOOLEAN :
       /\ fail => allocFailures < MaxAllocFailures
       /\ pml4' = RequestPage(allocCount, fail)
       /\ mem' = [mem EXCEPT ![RequestPage(allocCount, fail)] = ZeroTable]
       /\ allocCount' = IF fail THEN allocCount ELSE allocCount + 1
       /\ allocFailures' = IF fail THEN allocFailures + 1 ELSE allocFailures
  /\ bootPc' = "identity"
  /\ iter' = 0
  /\ UNCHANGED <<memMap, load>>

(* for (i = 0; i < TotalSystemMemory; i += PAGE_SIZE) MapPages(i, i, pml4). *)
IdentityMap ==
  /\ bootPc = "identity"
  /\ iter < TotalSystemMemory
  /\ \E fail \in Fails : MapPages(iter, iter, fail)
  /\ iter' = iter + PageSize
  /\ UNCHANGED <<memMap, load, pml4, bootPc>>

(* for (i = 0; i < KernelSize; i += PAGE_SIZE): higher half -> kernel base. *)
KernelMap ==
  /\ bootPc = "kernel"
  /\ iter < load.kernelSize
  /\ \E fail \in Fails :
       MapPages(iter + KernelVirtualBase, iter + load.kernelBase, fail)
  /\ iter' = iter + PageSize
  /\ UNCHANGED <<memMap, load, pml4, bootPc>>

(* for (i = GopBufferBase; i < GopBufferBase + GopBufferSize; ...): identity. *)
GopMap ==
  /\ bootPc = "gop"
  /\ iter < load.gopBase + load.gopSize
  /\ \E fail \in Fails : MapPages(iter, iter, fail)
  /\ iter' = iter + PageSize
  /\ UNCHANGED <<memMap, load, pml4, bootPc>>

(* A loop condition fails: on to the next loop, or create_pml4 returns. *)
LoopExit ==
  \/ /\ bootPc = "identity" /\ iter >= TotalSystemMemory
     /\ bootPc' = "kernel" /\ iter' = 0
  \/ /\ bootPc = "kernel" /\ iter >= load.kernelSize
     /\ bootPc' = "gop" /\ iter' = load.gopBase
  \/ /\ bootPc = "gop" /\ iter >= load.gopBase + load.gopSize
     /\ bootPc' = "check" /\ UNCHANGED iter

LoopExitStep ==
  /\ LoopExit
  /\ UNCHANGED <<memMap, load, mem, pml4, allocCount, allocFailures>>

(* if (pml4 == NULL) { Print(...); return -1; } *)
Pml4Null ==
  /\ bootPc = "check"
  /\ pml4 = 0
  /\ bootPc' = "error"
  /\ UNCHANGED <<memMap, load, mem, pml4, allocCount, allocFailures, iter>>

(* ExitBootServices, mov pml4 -> cr3, and the jump to the kernel entry. *)
LoadCr3 ==
  /\ bootPc = "check"
  /\ pml4 # 0
  /\ bootPc' = "cr3"
  /\ UNCHANGED <<memMap, load, mem, pml4, allocCount, allocFailures, iter>>

PagingNext ==
  \/ CreatePml4 \/ IdentityMap \/ KernelMap \/ GopMap \/ LoopExitStep
  \/ Pml4Null \/ LoadCr3

-----------------------------------------------------------------------------

PagingTypeOK ==
  /\ memMap \in MemoryMaps
  /\ load \in Loads
  /\ mem \in [TableAddrs -> [Idx -> Entry]]
  /\ pml4 \in TableAddrs
  /\ allocCount \in 0..Len(TableFrames)
  /\ allocFailures \in 0..MaxAllocFailures
  /\ bootPc \in {"pml4", "identity", "kernel", "gop", "check", "error", "cr3"}
  /\ iter \in Nat

(***************************************************************************)
(* The translation the tables give, walked as the MMU walks them: from     *)
(* the page at pml4 down the four levels; NoMap at the first entry that is *)
(* not present.                                                            *)
(***************************************************************************)
Translate(v) ==
  LET off == OffsetsOf[v]
      e4  == mem[pml4][off[1]]
      e3  == mem[e4.pfn * PageSize][off[2]]
      e2  == mem[e3.pfn * PageSize][off[3]]
      e1  == mem[e2.pfn * PageSize][off[4]]
  IN  IF e4.present = 0 \/ e3.present = 0 \/ e2.present = 0 \/ e1.present = 0
      THEN NoMap ELSE e1.pfn * PageSize

Translation == [v \in VPages |-> Translate(v)]

(***************************************************************************)
(* What create_pml4 is meant to build, read off its three loops: the GOP   *)
(* buffer and the first TotalSystemMemory bytes identity-mapped, and the   *)
(* kernel image at KERNEL_VIRTUAL_BASE; a later loop's mapping wins.       *)
(***************************************************************************)
Intended ==
  [v \in VPages |->
     IF load.gopBase <= v /\ v < load.gopBase + load.gopSize THEN v
     ELSE IF KernelVirtualBase <= v /\ v < KernelVirtualBase + load.kernelSize
          THEN v - KernelVirtualBase + load.kernelBase
     ELSE IF v < TotalSystemMemory THEN v
     ELSE NoMap]

(***************************************************************************)
(* The page tables implement AddressSpace: every MapPages call changes the *)
(* translation of at most one virtual page.  A table page that is zeroed   *)
(* while it is still linked in, or two levels that end up in one page,    *)
(* change others.                                                          *)
(***************************************************************************)
AS == INSTANCE AddressSpace
        WITH mapping <- Translation

MappingRefinement == AS!Spec

(***************************************************************************)
(* When efi_main loads CR3 and jumps to the kernel, the tables translate   *)
(* exactly what create_pml4's loops asked for: no page is missing, none is *)
(* mapped that was not asked for, and the last loop's mapping wins.       *)
(***************************************************************************)
PageTablesComplete == bootPc = "cr3" => Translation = Intended

=============================================================================
