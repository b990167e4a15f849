---------------------------- MODULE PageConstants ----------------------------
(* PAGE_SIZE, shared by the bootloader (paging.h) and the kernel. *)
CONSTANT PageSize
=============================================================================
