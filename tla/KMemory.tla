------------------------------- MODULE KMemory -------------------------------
(***************************************************************************)
(* The kernel's memory primitives (kmemory.cpp): memcpy, memmove, memcmp   *)
(* and memset.  Each runs byte loops until a pointer is 8-byte aligned,    *)
(* then 64-bit word loops, then a byte loop for the rest; memmove picks   *)
(* memcpy or a backward copy by comparing the pointers.  The control flow  *)
(* depends only on the addresses modulo 8, their distance and the size,   *)
(* so a small memory whose addresses are their own alignment covers every *)
(* case.  One call runs per behaviour, one loop iteration per step; a      *)
(* 64-bit access loads all 8 bytes before it stores any.                   *)
(***************************************************************************)
EXTENDS Integers

CONSTANTS
  MemSize,   \* bytes of memory, addresses 0..MemSize-1 (address 0 is 8-aligned)
  Ops        \* the primitives the calls exercise

Addr == 0..(MemSize - 1)

Word == 8

VARIABLES
  mem,       \* the memory
  pc,        \* the loop being executed
  d, s,      \* the code's d / s (or dst) pointers, also d64 / s64 (byte addresses)
  size,      \* the remaining size
  result,    \* memcmp's return value
  call       \* the call: [op, dest, src, size, mem0], fixed for the behaviour

vars == <<mem, pc, d, s, size, result, call>>

Aligned(a) == a % Word = 0

(* *dst = *src for one 8-byte word: every byte read before any is written. *)
CopyWord(m, dst, src) ==
  [i \in Addr |-> IF i \in dst..(dst + Word - 1) THEN m[src + i - dst] ELSE m[i]]

CopyByte(m, dst, src) == [m EXCEPT ![dst] = m[src]]

Sign(x) == IF x > 0 THEN 1 ELSE IF x < 0 THEN -1 ELSE 0

-----------------------------------------------------------------------------
(* Reference definitions of what each primitive computes. *)

MemmoveRef(m, dst, src, n) ==
  [i \in Addr |-> IF i \in dst..(dst + n - 1) THEN m[src + i - dst] ELSE m[i]]

MemsetRef(m, dst, n, v) ==
  [i \in Addr |-> IF i \in dst..(dst + n - 1) THEN v ELSE m[i]]

MemcmpRef(m, a, b, n) ==
  LET diff == {k \in 0..(n - 1) : m[a + k] # m[b + k]}
      k    == CHOOSE k \in diff : \A j \in diff : k <= j
  IN  IF diff = {} THEN 0 ELSE Sign(m[a + k] - m[b + k])

-----------------------------------------------------------------------------

(***************************************************************************)
(* Initial memories: for the copies and memset every byte holds its own   *)
(* address, so any byte copied from the wrong place or left unwritten     *)
(* shows; for memcmp all bytes are 0 except possibly one, so the first    *)
(* difference can sit at any offset of either buffer.  memset stores a    *)
(* value no byte holds.                                                    *)
(***************************************************************************)
Identity == [i \in Addr |-> i]

OneHot(p) == [i \in Addr |-> IF i = p THEN 1 ELSE 0]

Mems(op) == IF op = "memcmp" THEN {OneHot(p) : p \in Addr \cup {-1}} ELSE {Identity}

SetValue == MemSize

(* Calls whose buffers lie in memory; memcpy's must not overlap. *)
Args ==
  { c \in [op : Ops, dest : Addr, src : Addr, size : 0..MemSize] :
      /\ c.dest + c.size <= MemSize
      /\ c.src + c.size <= MemSize
      /\ c.op = "memcpy" => (c.dest + c.size <= c.src \/ c.src + c.size <= c.dest)
      /\ c.op = "memset" => c.src = 0 }

Init ==
  /\ \E c \in Args : \E m \in Mems(c.op) :
       call = [op |-> c.op, dest |-> c.dest, src |-> c.src, size |-> c.size, mem0 |-> m]
  /\ mem = call.mem0
  /\ d = call.dest
  /\ s = call.src
  /\ size = call.size
  /\ result = 0
  /\ pc = CASE call.op = "memcpy"  -> "cpyAlignD"
            [] call.op = "memmove" -> "mvCheck"
            [] call.op = "memcmp"  -> "cmpAlign"
            [] call.op = "memset"  -> "setAlign"

(* Advance both pointers by n and consume n bytes. *)
Advance(n) == d' = d + n /\ s' = s + n /\ size' = size - n

(* A loop ends: control passes to the next statement. *)
Goto(l) == pc' = l /\ UNCHANGED <<mem, d, s, size, result>>

(* memcmp returns x. *)
Return(x) == result' = x /\ pc' = "done" /\ UNCHANGED <<mem, d, s, size>>

-----------------------------------------------------------------------------
(* memcpy(dest, src, size) *)

(* A slip: the first loop runs until d is aligned, without checking size. *)
CpyAlignDUnchecked ==
  /\ pc = "cpyAlignD"
  /\ IF ~Aligned(d)
       THEN mem' = CopyByte(mem, d, s) /\ Advance(1) /\ UNCHANGED <<pc, result>>
       ELSE Goto("cpyAlignS")
  /\ UNCHANGED call

(* while (size && (d & 0x7)) { *d++ = *s++; --size; } *)
CpyAlignD ==
  /\ pc = "cpyAlignD"
  /\ IF size # 0 /\ ~Aligned(d)
       THEN mem' = CopyByte(mem, d, s) /\ Advance(1) /\ UNCHANGED <<pc, result>>
       ELSE Goto("cpyAlignS")
  /\ UNCHANGED call

(* while (size && (s & 0x7)) { *d++ = *s++; --size; } *)
CpyAlignS ==
  /\ pc = "cpyAlignS"
  /\ IF size # 0 /\ ~Aligned(s)
       THEN mem' = CopyByte(mem, d, s) /\ Advance(1) /\ UNCHANGED <<pc, result>>
       ELSE Goto("cpyWords")
  /\ UNCHANGED call

(* while (size >= 8) { *d64++ = *s64++; size -= 8; } *)
CpyWords ==
  /\ pc = "cpyWords"
  /\ IF size >= Word
       THEN mem' = CopyWord(mem, d, s) /\ Advance(Word) /\ UNCHANGED <<pc, result>>
       ELSE Goto("cpyTail")
  /\ UNCHANGED call

(* while (size--) { *d++ = *s++; } *)
CpyTail ==
  /\ pc = "cpyTail"
  /\ IF size # 0
       THEN mem' = CopyByte(mem, d, s) /\ Advance(1) /\ UNCHANGED <<pc, result>>
       ELSE Goto("done")
  /\ UNCHANGED call

-----------------------------------------------------------------------------
(* memmove(dest, src, size) *)

(* A slip: the overlap test is reversed, copying forward when d is after s. *)
MvCheckReversed ==
  /\ pc = "mvCheck"
  /\ Goto(IF d > s \/ d >= s + size THEN "cpyAlignD" ELSE "mvAlignEnd")
  /\ UNCHANGED call

(* if (d < s || d >= s + size) { memcpy(dest, src, size); return; } *)
MvCheck ==
  /\ pc = "mvCheck"
  /\ Goto(IF d < s \/ d >= s + size THEN "cpyAlignD" ELSE "mvAlignEnd")
  /\ UNCHANGED call

(* while (size && ((d + size - 1) & 0x7)) { size--; d[size] = s[size]; } *)
MvAlignEnd ==
  /\ pc = "mvAlignEnd"
  /\ IF size # 0 /\ ~Aligned(d + size - 1)
       THEN /\ mem' = CopyByte(mem, d + size - 1, s + size - 1)
            /\ size' = size - 1
            /\ UNCHANGED <<pc, d, s, result>>
       ELSE Goto("mvAlignSrcEnd")
  /\ UNCHANGED call

(***************************************************************************)
(* while (size && ((s + size - 1) & 0x7)) { size--; d[size] = s[size]; }  *)
(* then d64 = d + size, s64 = s + size.                                    *)
(***************************************************************************)
MvAlignSrcEnd ==
  /\ pc = "mvAlignSrcEnd"
  /\ IF size # 0 /\ ~Aligned(s + size - 1)
       THEN /\ mem' = CopyByte(mem, d + size - 1, s + size - 1)
            /\ size' = size - 1
            /\ UNCHANGED <<pc, d, s, result>>
       ELSE /\ d' = d + size
            /\ s' = s + size
            /\ pc' = "mvWords"
            /\ UNCHANGED <<mem, size, result>>
  /\ UNCHANGED call

(* A slip: the word is stored before the pointers step back. *)
MvWordsLateDecrement ==
  /\ pc = "mvWords"
  /\ IF size >= Word
       THEN /\ mem' = CopyWord(mem, d, s)
            /\ d' = d - Word
            /\ s' = s - Word
            /\ size' = size - Word
            /\ UNCHANGED <<pc, result>>
       ELSE Goto("mvTail")
  /\ UNCHANGED call

(* while (size >= 8) { d64--; s64--; size -= 8; *d64 = *s64; } *)
MvWords ==
  /\ pc = "mvWords"
  /\ IF size >= Word
       THEN /\ mem' = CopyWord(mem, d - Word, s - Word)
            /\ d' = d - Word
            /\ s' = s - Word
            /\ size' = size - Word
            /\ UNCHANGED <<pc, result>>
       ELSE Goto("mvTail")
  /\ UNCHANGED call

(* d = d64; s = s64; while (size--) { d--; s--; *d = *s; } *)
MvTail ==
  /\ pc = "mvTail"
  /\ IF size # 0
       THEN /\ mem' = CopyByte(mem, d - 1, s - 1)
            /\ d' = d - 1
            /\ s' = s - 1
            /\ size' = size - 1
            /\ UNCHANGED <<pc, result>>
       ELSE Goto("done")
  /\ UNCHANGED call

-----------------------------------------------------------------------------
(* memcmp(dest, src, size): d and s read, never written. *)

(* while (size && (d & 0x7)) { if ( *d != *s) return *d - *s; ++d; ++s; --size; } *)
CmpAlign ==
  /\ pc = "cmpAlign"
  /\ IF size # 0 /\ ~Aligned(d)
       THEN IF mem[d] # mem[s] THEN Return(mem[d] - mem[s])
            ELSE Advance(1) /\ UNCHANGED <<mem, pc, result>>
       ELSE Goto("cmpWords")
  /\ UNCHANGED call

(* The first offset in the word at d and s whose bytes differ. *)
FirstDiff ==
  CHOOSE i \in 0..(Word - 1) :
    /\ mem[d + i] # mem[s + i]
    /\ \A j \in 0..(i - 1) : mem[d + j] = mem[s + j]

WordsDiffer == \E i \in 0..(Word - 1) : mem[d + i] # mem[s + i]

(* A slip: a differing word returns the difference of its first bytes. *)
CmpWordsFirstByte ==
  /\ pc = "cmpWords"
  /\ IF size >= Word
       THEN IF WordsDiffer THEN Return(mem[d] - mem[s])
            ELSE Advance(Word) /\ UNCHANGED <<mem, pc, result>>
       ELSE Goto("cmpTail")
  /\ UNCHANGED call

(***************************************************************************)
(* while (size >= 8) { if ( *d64 != *s64) { for (i = 0; i < 8; ++i)        *)
(*   if (d[i] != s[i]) return d[i] - s[i]; } ++d64; ++s64; size -= 8; }   *)
(***************************************************************************)
CmpWords ==
  /\ pc = "cmpWords"
  /\ IF size >= Word
       THEN IF WordsDiffer THEN Return(mem[d + FirstDiff] - mem[s + FirstDiff])
            ELSE Advance(Word) /\ UNCHANGED <<mem, pc, result>>
       ELSE Goto("cmpTail")
  /\ UNCHANGED call

(* while (size--) { if ( *d != *s) return *d - *s; ++d; ++s; } return 0; *)
CmpTail ==
  /\ pc = "cmpTail"
  /\ IF size # 0
       THEN IF mem[d] # mem[s] THEN Return(mem[d] - mem[s])
            ELSE Advance(1) /\ UNCHANGED <<mem, pc, result>>
       ELSE Return(0)
  /\ UNCHANGED call

-----------------------------------------------------------------------------
(* memset(vaddr, val, size) with val = SetValue. *)

(***************************************************************************)
(* The 64-bit pattern as its 8 little-endian bytes: pattern = val, then   *)
(* `iterations` times pattern = (pattern << 8) | val.  A shift moves each *)
(* byte one place up and drops the top one; the or fills byte 0.          *)
(***************************************************************************)
RECURSIVE PatternAfter(_)
PatternAfter(iterations) ==
  IF iterations = 0 THEN [k \in 0..(Word - 1) |-> IF k = 0 THEN SetValue ELSE 0]
  ELSE LET p == PatternAfter(iterations - 1)
       IN  [k \in 0..(Word - 1) |-> IF k = 0 THEN SetValue ELSE p[k - 1]]

(* A slip: the pattern loop runs for (i = 1; i < 7; ++i). *)
PatternShort == PatternAfter(6)

(* for (int i = 1; i < 8; ++i) pattern = (pattern << 8) | val; *)
Pattern == PatternAfter(7)

(* while (size && (dst & 0x7)) { *dst = val; ++dst; --size; } *)
SetAlign ==
  /\ pc = "setAlign"
  /\ IF size # 0 /\ ~Aligned(d)
       THEN /\ mem' = [mem EXCEPT ![d] = SetValue]
            /\ d' = d + 1
            /\ size' = size - 1
            /\ UNCHANGED <<pc, s, result>>
       ELSE Goto("setWords")
  /\ UNCHANGED call

(* while (size >= 8) { *dst64 = pattern; ++dst64; size -= 8; } *)
SetWords ==
  /\ pc = "setWords"
  /\ IF size >= Word
       THEN /\ mem' = [i \in Addr |-> IF i \in d..(d + Word - 1) THEN Pattern[i - d] ELSE mem[i]]
            /\ d' = d + Word
            /\ size' = size - Word
            /\ UNCHANGED <<pc, s, result>>
       ELSE Goto("setTail")
  /\ UNCHANGED call

(* while (size) { *dst = val; ++dst; --size; } *)
SetTail ==
  /\ pc = "setTail"
  /\ IF size # 0
       THEN /\ mem' = [mem EXCEPT ![d] = SetValue]
            /\ d' = d + 1
            /\ size' = size - 1
            /\ UNCHANGED <<pc, s, result>>
       ELSE Goto("done")
  /\ UNCHANGED call

(* The call has returned. *)
Returned ==
  /\ pc = "done"
  /\ UNCHANGED vars

Next ==
  \/ CpyAlignD \/ CpyAlignS \/ CpyWords \/ CpyTail
  \/ MvCheck \/ MvAlignEnd \/ MvAlignSrcEnd \/ MvWords \/ MvTail
  \/ CmpAlign \/ CmpWords \/ CmpTail
  \/ SetAlign \/ SetWords \/ SetTail
  \/ Returned

Spec == Init /\ [][Next]_vars

-----------------------------------------------------------------------------

TypeOK ==
  /\ mem \in [Addr -> 0..MemSize]
  /\ pc \in {"cpyAlignD", "cpyAlignS", "cpyWords", "cpyTail", "mvCheck",
             "mvAlignEnd", "mvAlignSrcEnd", "mvWords", "mvTail", "cmpAlign",
             "cmpWords", "cmpTail", "setAlign", "setWords", "setTail", "done"}
  /\ d \in 0..MemSize
  /\ s \in 0..MemSize
  /\ size \in 0..MemSize
  /\ result \in -1..1
  /\ call.op \in Ops

(***************************************************************************)
(* memcpy of disjoint buffers, and memmove of any two buffers, leave the   *)
(* destination holding what the source held before the call and every     *)
(* other byte untouched, whatever the alignment of either pointer, their   *)
(* distance and the size.  memmove relies on memcpy's forward copy being   *)
(* safe when the destination is in front of an overlapping source.        *)
(***************************************************************************)
CopyMatchesReference ==
  (pc = "done" /\ call.op \in {"memcpy", "memmove"}) =>
    mem = MemmoveRef(call.mem0, call.dest, call.src, call.size)

(***************************************************************************)
(* memcmp returns a value with the sign of the first differing byte pair, *)
(* or 0, whatever the alignment: the word loop's byte search, the         *)
(* alignment loop and the tail must agree.                                 *)
(***************************************************************************)
CompareMatchesReference ==
  (pc = "done" /\ call.op = "memcmp") =>
    Sign(result) = MemcmpRef(call.mem0, call.dest, call.src, call.size)

(* memset sets exactly the size bytes from vaddr to val. *)
SetMatchesReference ==
  (pc = "done" /\ call.op = "memset") =>
    mem = MemsetRef(call.mem0, call.dest, call.size, SetValue)

====
