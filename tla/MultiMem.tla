------------------------------ MODULE MultiMem ------------------------------
(***************************************************************************)
(* oam_vsmem__getMultiMem: one allocation for several chunks.  A first     *)
(* pass over the arguments adds up their sizes, each rounded up to the     *)
(* alignment; the block is allocated; a second pass places the chunks in   *)
(* it, at sums it computes anew in a slightly different way.  Sizes and    *)
(* addresses are unsigned int: they wrap around at Word.                   *)
(*                                                                         *)
(* num is at least 1: for 0 the code does what it does for 1.              *)
(***************************************************************************)
EXTENDS Integers

CONSTANTS
  Word,    \* one more than the largest unsigned int, 2^32 in the code
  Sizes,   \* sizes a caller asks for
  MaxNum,  \* chunks a caller asks for, at most
  Bases    \* addresses the allocator may return

ASSUME MultiMemAssumption ==
  /\ Word \in Nat \ {0} /\ Word % 8 = 0 /\ Word > 8
  /\ Sizes \subseteq 0 .. Word - 1
  /\ MaxNum \in Nat \ {0}
  /\ Bases \subseteq {b \in 1 .. Word - 1 : b % 8 = 0}

NULL == 0
Garbage == -1  \* a caller's pointer before the call

VARIABLES
  num,        \* the number of chunks
  size,       \* their sizes; size[0] is firstSize
  chunk,      \* *p0 of each chunk but the first, which is at the result
  pass,       \* where the call is
  i,          \* the loop variable
  totalsize,  \* the running sum
  block,      \* the block allocated: its address and its size
  offset      \* history: the sums of the first pass, had they not wrapped

vars == <<num, size, chunk, pass, i, totalsize, block, offset>>

Align8(n) == n - (n % 8)
Up(n) == Align8(n + 7)

(* The sum of two words. *)
Plus(a, b) == IF a + b < Word THEN a + b ELSE a + b - Word

(* (len + 7) & 0xFFFFFFF8 *)
RoundUp(len) == Align8(Plus(len, 7))

TypeOK ==
  /\ num \in 1 .. MaxNum
  /\ size \in [0 .. num - 1 -> Sizes]
  /\ chunk \in [1 .. num - 1 -> {Garbage} \union 0 .. Word - 1]
  /\ pass \in {"sum", "place", "done", "failed"}
  /\ i \in 1 .. num
  /\ totalsize \in 0 .. Word - 1
  /\ block \in [at : {NULL} \union Bases, size : 0 .. Word - 1]
  /\ offset \in [1 .. num -> Nat]

(* Faulty: the first size is not rounded up. *)
Init_FirstSize ==
  /\ num \in 1 .. MaxNum
  /\ size \in [0 .. num - 1 -> Sizes]
  /\ chunk = [k \in 1 .. num - 1 |-> Garbage]
  /\ pass = "sum"
  /\ i = 1
  /\ totalsize = size[0]
  /\ block = [at |-> NULL, size |-> 0]
  /\ offset = [k \in 1 .. num |-> Up(size[0])]

Init ==
  /\ num \in 1 .. MaxNum
  /\ size \in [0 .. num - 1 -> Sizes]
  /\ chunk = [k \in 1 .. num - 1 |-> Garbage]
  /\ pass = "sum"
  /\ i = 1
  /\ totalsize = RoundUp(size[0])
  /\ block = [at |-> NULL, size |-> 0]
  /\ offset = [k \in 1 .. num |-> Up(size[0])]

(* Faulty: the caller's pointer is not reset. *)
Sum_NoReset ==
  /\ pass = "sum" /\ i < num
  /\ totalsize' = Plus(totalsize, RoundUp(size[i]))
  /\ offset' = [offset EXCEPT ![i + 1] = offset[i] + Up(size[i])]
  /\ i' = i + 1
  /\ UNCHANGED <<num, size, chunk, pass, block>>

Sum ==
  /\ pass = "sum" /\ i < num
  /\ chunk' = [chunk EXCEPT ![i] = NULL]
  /\ totalsize' = Plus(totalsize, RoundUp(size[i]))
  /\ offset' = [offset EXCEPT ![i + 1] = offset[i] + Up(size[i])]
  /\ i' = i + 1
  /\ UNCHANGED <<num, size, pass, block>>

(* getMem: an aligned block, whose end is an address too. *)
Allocate ==
  /\ pass = "sum" /\ i = num
  /\ \E at \in Bases :
       /\ at + totalsize < Word
       /\ block' = [at |-> at, size |-> totalsize]
  /\ pass' = "place"
  /\ i' = 1
  /\ totalsize' = size[0]
  /\ UNCHANGED <<num, size, chunk, offset>>

AllocateFails ==
  /\ pass = "sum" /\ i = num
  /\ pass' = "failed"
  /\ UNCHANGED <<num, size, chunk, i, totalsize, block, offset>>

(* Faulty: the size is assigned to the sum, not added. *)
Place_Assigned ==
  /\ pass = "place" /\ i < num
  /\ chunk' = [chunk EXCEPT ![i] = RoundUp(Plus(block.at, totalsize))]
  /\ totalsize' = RoundUp(size[i])
  /\ i' = i + 1
  /\ UNCHANGED <<num, size, pass, block, offset>>

Place ==
  /\ pass = "place" /\ i < num
  /\ chunk' = [chunk EXCEPT ![i] = RoundUp(Plus(block.at, totalsize))]
  /\ totalsize' = Plus(totalsize, RoundUp(size[i]))
  /\ i' = i + 1
  /\ UNCHANGED <<num, size, pass, block, offset>>

Return ==
  /\ pass = "place" /\ i = num
  /\ pass' = "done"
  /\ UNCHANGED <<num, size, chunk, i, totalsize, block, offset>>

Returned == pass \in {"done", "failed"} /\ UNCHANGED vars

Next ==
  \/ Sum
  \/ Allocate
  \/ AllocateFails
  \/ Place
  \/ Return
  \/ Returned

Spec == Init /\ [][Next]_vars

---------------------------------------------------------------------------
(* The total fits a word: nothing the caller asked for has wrapped around. *)
NoWrap == offset[num] < Word

Inside(k) ==
  /\ block.at + size[0] <= chunk[k]
  /\ chunk[k] + size[k] <= block.at + block.size
  /\ chunk[k] % 8 = 0

(* The two passes agree: every chunk the second one places is aligned and   *)
(* lies in the block the first one has asked for, behind the first chunk.   *)
ChunksInside ==
  pass = "done" /\ NoWrap => \A k \in 1 .. num - 1 : Inside(k)

(* No two chunks share a byte. *)
ChunksDisjoint ==
  pass = "done" /\ NoWrap =>
    \A j, k \in 1 .. num - 1 : j < k => chunk[j] + size[j] <= chunk[k]

(* A caller that gets NULL finds NULL in every one of its pointers. *)
NullOnFailure ==
  pass = "failed" => \A k \in 1 .. num - 1 : chunk[k] = NULL
=============================================================================
