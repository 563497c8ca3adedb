---------------------------- MODULE MemoryProofs ----------------------------
(***************************************************************************)
(* The library's memory management, for all values of the constants.       *)
(*                                                                         *)
(* oam_vsmem__getMultiMem, for every number of chunks, every size and every *)
(* width of a word.  The invariant follows the two loops: the sums of the  *)
(* first one, kept in offset, say where the second one places each chunk.  *)
(*                                                                         *)
(* The programs that allocate in rounds and the caller of the allocation   *)
(* functions, for every command line, size and capacity.  The invariant    *)
(* says at each stage which blocks are allocated, and, where that decides   *)
(* whether a round goes through, how many bytes they are.                  *)
(***************************************************************************)
EXTENDS MultiMem, HeapPrograms, FiniteSetTheorems, TLAPS

(* What the assumption on the constants says, one fact at a time. *)
LEMMA ConstantFacts ==
  /\ Word \in Nat /\ Word > 8
  /\ MaxNum \in Nat /\ MaxNum > 0
  /\ \A s \in Sizes : s \in 0 .. Word - 1 /\ s \in Nat
  /\ \A b \in Bases : b \in 1 .. Word - 1 /\ b \in Nat /\ b % 8 = 0
  <1>1. Word \in Nat /\ Word > 8 /\ MaxNum \in Nat /\ MaxNum > 0
    BY MultiMemAssumption DEF MultiMemAssumption
  <1>2. ASSUME NEW s \in Sizes PROVE s \in 0 .. Word - 1 /\ s \in Nat
    <2>1. s \in 0 .. Word - 1
      BY MultiMemAssumption, Zenon DEF MultiMemAssumption
    <2> QED BY <2>1, <1>1
  <1>3. ASSUME NEW b \in Bases
        PROVE  b \in 1 .. Word - 1 /\ b \in Nat /\ b % 8 = 0
    <2>1. b \in 1 .. Word - 1 /\ b % 8 = 0
      BY MultiMemAssumption, Zenon DEF MultiMemAssumption
    <2> QED BY <2>1, <1>1
  <1> QED BY <1>1, <1>2, <1>3

(* Up rounds up to the next multiple of 8. *)
LEMMA UpFacts ==
  ASSUME NEW n \in Nat
  PROVE  /\ Up(n) \in Nat
         /\ n <= Up(n)
         /\ Up(n) <= n + 7
         /\ Up(n) % 8 = 0
  BY DEF Up, Align8

(* Rounding commutes with adding an aligned address. *)
LEMMA UpShift ==
  ASSUME NEW a \in Nat, a % 8 = 0, NEW n \in Nat
  PROVE  Up(a + n) = a + Up(n)
  BY DEF Up, Align8

(* Sums of aligned numbers are aligned. *)
LEMMA AlignedSum ==
  ASSUME NEW a \in Nat, a % 8 = 0, NEW b \in Nat, b % 8 = 0
  PROVE  (a + b) % 8 = 0
  OBVIOUS

(* Where nothing wraps, the code's rounding is the exact one. *)
LEMMA RoundUpExact ==
  ASSUME NEW n \in 0 .. Word - 1, Up(n) < Word
  PROVE  RoundUp(n) = Up(n)
  BY MultiMemAssumption DEF RoundUp, Up, Align8, Plus

(* Rounding stays within a word. *)
LEMMA RoundUpType ==
  ASSUME NEW n \in 0 .. Word - 1
  PROVE  RoundUp(n) \in 0 .. Word - 1
  BY MultiMemAssumption DEF RoundUp, Up, Align8, Plus

(* Addition stays within a word. *)
LEMMA PlusType ==
  ASSUME NEW a \in 0 .. Word - 1, NEW b \in 0 .. Word - 1
  PROVE  Plus(a, b) \in 0 .. Word - 1
  BY MultiMemAssumption DEF Plus

---------------------------------------------------------------------------
(* The sums of the first n steps of the first loop. *)
Sums(n) ==
  /\ offset[1] = Up(size[0])
  /\ \A k \in 1 .. n - 1 : offset[k + 1] = offset[k] + Up(size[k])
  /\ \A k \in 1 .. n : offset[k] % 8 = 0
  /\ \A j, k \in 1 .. n : j <= k => offset[j] <= offset[k]

FirstLoop ==
  pass = "sum" =>
    /\ Sums(i)
    /\ offset[i] < Word => totalsize = offset[i]
    /\ \A k \in 1 .. i - 1 : chunk[k] = NULL

SecondLoop ==
  pass \in {"place", "done"} /\ NoWrap =>
    /\ block.at \in Bases
    /\ block.size = offset[num]
    /\ block.at + block.size < Word
    /\ totalsize = offset[i] - Up(size[0]) + size[0]
    /\ \A k \in 1 .. i - 1 : chunk[k] = block.at + offset[k]

IInv ==
  /\ TypeOK
  /\ FirstLoop
  /\ pass # "sum" => Sums(num)
  /\ SecondLoop
  /\ NullOnFailure
  /\ pass = "done" => i = num

---------------------------------------------------------------------------
(* The types of the variables, one fact at a time. *)
LEMMA TypeFacts ==
  ASSUME TypeOK
  PROVE  /\ num \in Nat /\ num >= 1
         /\ i \in Nat /\ i >= 1 /\ i <= num
         /\ \A k \in 0 .. num - 1 : size[k] \in 0 .. Word - 1 /\ size[k] \in Nat
         /\ size[0] \in 0 .. Word - 1 /\ size[0] \in Nat
         /\ \A k \in 1 .. num : offset[k] \in Nat
  <1>1. num \in Nat /\ num >= 1 /\ i \in Nat /\ i >= 1 /\ i <= num
    BY ConstantFacts DEF TypeOK
  <1>2. \A k \in 0 .. num - 1 : size[k] \in Sizes
    BY DEF TypeOK
  <1>3. \A k \in 0 .. num - 1 : size[k] \in 0 .. Word - 1 /\ size[k] \in Nat
    BY <1>2, ConstantFacts
  <1>4. 0 \in 0 .. num - 1
    BY <1>1
  <1>5. \A k \in 1 .. num : offset[k] \in Nat
    BY DEF TypeOK
  <1> QED BY <1>1, <1>3, <1>4, <1>5

(* The call starts well typed. *)
LEMMA InitType == Init => TypeOK
  <1> SUFFICES ASSUME Init PROVE TypeOK
    OBVIOUS
  <1>1. num \in Nat /\ num >= 1 /\ size \in [0 .. num - 1 -> Sizes]
    BY ConstantFacts DEF Init
  <1>2. size[0] \in 0 .. Word - 1 /\ size[0] \in Nat
    BY <1>1, ConstantFacts
  <1>3. RoundUp(size[0]) \in 0 .. Word - 1 /\ Up(size[0]) \in Nat
    BY <1>2, RoundUpType, UpFacts
  <1> QED BY <1>1, <1>3, ConstantFacts DEF Init, TypeOK, NULL, Garbage

(* The call starts with the first size, rounded up, as its sum. *)
LEMMA InitInv == Init => IInv
  <1> SUFFICES ASSUME Init PROVE IInv
    OBVIOUS
  <1>1. TypeOK
    BY InitType
  <1>2. num >= 1 /\ num \in Nat /\ size[0] \in 0 .. Word - 1 /\ size[0] \in Nat
    BY <1>1, TypeFacts
  <1>3. offset[1] = Up(size[0])
    BY <1>2 DEF Init
  <1>4. Up(size[0]) % 8 = 0 /\ Up(size[0]) \in Nat
    BY <1>2, UpFacts
  <1>5. Sums(1)
    BY <1>3, <1>4 DEF Sums
  <1>6. Up(size[0]) < Word => RoundUp(size[0]) = Up(size[0])
    BY <1>2, RoundUpExact
  <1>7. FirstLoop
    BY <1>3, <1>5, <1>6 DEF Init, FirstLoop
  <1> QED BY <1>1, <1>7 DEF Init, IInv, SecondLoop, NullOnFailure

---------------------------------------------------------------------------
(* The steps keep the types ...                                            *)
LEMMA NextType == TypeOK /\ [Next]_vars => TypeOK'
  <1> SUFFICES ASSUME TypeOK, [Next]_vars PROVE TypeOK'
    OBVIOUS
  <1> USE TypeFacts, ConstantFacts
  <1>1. CASE Sum
    <2>1. i + 1 \in 1 .. num /\ i \in 1 .. num - 1
      BY <1>1 DEF Sum
    <2>2. size[i] \in 0 .. Word - 1 /\ size[i] \in Nat /\ offset[i] \in Nat
      BY <2>1
    <2>3. RoundUp(size[i]) \in 0 .. Word - 1 /\ Up(size[i]) \in Nat
      BY <2>2, RoundUpType, UpFacts
    <2>4. totalsize' \in 0 .. Word - 1
      BY <1>1, <2>3, PlusType DEF Sum, TypeOK
    <2>5. offset[i] + Up(size[i]) \in Nat
      BY <2>2, <2>3
    <2>6. offset' \in [1 .. num -> Nat]
      BY <1>1, <2>5 DEF Sum, TypeOK
    <2>7. chunk' \in [1 .. num - 1 -> {Garbage} \union 0 .. Word - 1]
      BY <1>1, <2>1 DEF Sum, TypeOK, NULL
    <2> QED BY <1>1, <2>1, <2>4, <2>6, <2>7 DEF Sum, TypeOK
  <1>2. CASE Allocate
    BY <1>2 DEF Allocate, TypeOK
  <1>3. CASE AllocateFails
    BY <1>3 DEF AllocateFails, TypeOK
  <1>4. CASE Place
    <2>1. i + 1 \in 1 .. num /\ i \in 1 .. num - 1
      BY <1>4 DEF Place
    <2>2. size[i] \in 0 .. Word - 1 /\ block.at \in 0 .. Word - 1
      BY <2>1 DEF TypeOK, NULL
    <2>3. RoundUp(size[i]) \in 0 .. Word - 1
      BY <2>2, RoundUpType
    <2>4. totalsize' \in 0 .. Word - 1
      BY <1>4, <2>3, PlusType DEF Place, TypeOK
    <2>5. RoundUp(Plus(block.at, totalsize)) \in 0 .. Word - 1
      BY <2>2, PlusType, RoundUpType DEF TypeOK
    <2>6. chunk' \in [1 .. num - 1 -> {Garbage} \union 0 .. Word - 1]
      BY <1>4, <2>1, <2>5 DEF Place, TypeOK
    <2> QED BY <1>4, <2>1, <2>4, <2>6 DEF Place, TypeOK
  <1>5. CASE Return
    BY <1>5 DEF Return, TypeOK
  <1>6. CASE UNCHANGED vars
    BY <1>6 DEF vars, TypeOK
  <1> QED BY <1>1, <1>2, <1>3, <1>4, <1>5, <1>6 DEF Next, Returned

(* ... the first loop keeps its sums: what is added is a multiple of 8 ...  *)
LEMMA SumKeeps ==
  ASSUME IInv, Sum
  PROVE  Sums(i)' /\ FirstLoop'
  <1> USE TypeFacts, ConstantFacts
  <1>1. TypeOK /\ Sums(i) /\ i < num /\ pass = "sum"
    BY DEF IInv, FirstLoop, Sum
  <1>2. i \in Nat /\ i \in 1 .. num - 1 /\ i + 1 \in 1 .. num /\ num' = num /\ size' = size
    BY <1>1 DEF Sum
  <1>3. size[i] \in 0 .. Word - 1 /\ size[i] \in Nat /\ offset[i] \in Nat
    BY <1>1, <1>2
  <1>4. Up(size[i]) \in Nat /\ Up(size[i]) % 8 = 0
    BY <1>3, UpFacts
  <1>5. i' = i + 1 /\ offset'[i + 1] = offset[i] + Up(size[i])
    BY <1>1, <1>2 DEF Sum, TypeOK
  <1>6. \A k \in 1 .. i : offset'[k] = offset[k] /\ offset[k] \in Nat
    BY <1>1, <1>2 DEF Sum, TypeOK
  <1>7. (offset[i] + Up(size[i])) % 8 = 0
    <2>1. offset[i] % 8 = 0
      BY <1>1, <1>2 DEF Sums
    <2> QED BY <2>1, <1>3, <1>4, AlignedSum
  <1>8. Sums(i)'
    <2>1. offset'[1] = Up(size'[0])
      BY <1>1, <1>2, <1>6 DEF Sums
    <2>2. ASSUME NEW k \in 1 .. i' - 1
          PROVE  offset'[k + 1] = offset'[k] + Up(size'[k])
      <3>1. CASE k = i
        BY <3>1, <1>2, <1>5, <1>6
      <3>2. CASE k # i
        <4>1. k \in 1 .. i - 1 /\ k + 1 \in 1 .. i
          BY <3>2, <1>2, <1>5
        <4> QED BY <4>1, <1>1, <1>2, <1>6 DEF Sums
      <3> QED BY <3>1, <3>2
    <2>3. ASSUME NEW k \in 1 .. i'
          PROVE  offset'[k] % 8 = 0
      <3>1. CASE k = i + 1
        BY <3>1, <1>5, <1>7
      <3>2. CASE k # i + 1
        BY <3>2, <1>1, <1>2, <1>5, <1>6 DEF Sums
      <3> QED BY <3>1, <3>2
    <2>4. ASSUME NEW j \in 1 .. i', NEW k \in 1 .. i', j <= k
          PROVE  offset'[j] <= offset'[k]
      <3>1. CASE k # i + 1
        BY <3>1, <2>4, <1>1, <1>2, <1>5, <1>6 DEF Sums
      <3>2. CASE k = i + 1 /\ j = i + 1
        BY <3>2, <1>3, <1>4, <1>5
      <3>3. CASE k = i + 1 /\ j # i + 1
        <4>1. j \in 1 .. i /\ i \in 1 .. i
          BY <3>3, <1>2, <1>5
        <4>2. offset[j] <= offset[i] /\ offset[j] \in Nat
          BY <4>1, <1>1, <1>6 DEF Sums
        <4> QED BY <4>1, <4>2, <3>3, <1>3, <1>4, <1>5, <1>6
      <3> QED BY <3>1, <3>2, <3>3
    <2> QED BY <2>1, <2>2, <2>3, <2>4 DEF Sums
  <1>9. offset'[i'] < Word => totalsize' = offset'[i']
    <2> SUFFICES ASSUME offset[i] + Up(size[i]) < Word
                 PROVE  totalsize' = offset[i] + Up(size[i])
      BY <1>5
    <2>1. offset[i] < Word /\ Up(size[i]) < Word
      BY <1>3, <1>4
    <2>2. totalsize = offset[i]
      BY <2>1, <1>1 DEF IInv, FirstLoop
    <2>3. RoundUp(size[i]) = Up(size[i])
      BY <2>1, <1>3, RoundUpExact
    <2> QED BY <2>2, <2>3 DEF Sum, Plus
  <1>10. \A k \in 1 .. i' - 1 : chunk'[k] = NULL
    BY <1>1, <1>2, <1>5 DEF IInv, FirstLoop, Sum, TypeOK
  <1> QED BY <1>8, <1>9, <1>10 DEF FirstLoop

(* ... and the second loop places the chunks where the sums say.           *)
LEMMA AllocateKeeps ==
  ASSUME IInv, Allocate
  PROVE  SecondLoop'
  <1> USE TypeFacts, ConstantFacts
  <1>1. TypeOK /\ Sums(num) /\ i = num /\ pass = "sum" /\ num >= 1 /\ num \in Nat
    BY DEF IInv, FirstLoop, Allocate
  <1>2. offset' = offset /\ num' = num /\ size' = size /\ i' = 1 /\ totalsize' = size[0]
    BY DEF Allocate
  <1>3. SUFFICES ASSUME offset[num] < Word
                 PROVE  /\ block'.at \in Bases
                        /\ block'.size = offset[num]
                        /\ block'.at + block'.size < Word
                        /\ totalsize' = offset[1] - Up(size[0]) + size[0]
    BY <1>2 DEF SecondLoop, NoWrap
  <1>4. totalsize = offset[num]
    BY <1>1, <1>3 DEF IInv, FirstLoop
  <1>5. offset[1] = Up(size[0])
    BY <1>1 DEF Sums
  <1>6. offset[1] \in Nat /\ size[0] \in Nat
    BY <1>1
  <1>7. totalsize' = offset[1] - Up(size[0]) + size[0]
    BY <1>2, <1>5, <1>6
  <1>8. PICK at \in Bases : /\ at + totalsize < Word
                            /\ block' = [at |-> at, size |-> totalsize]
    BY DEF Allocate
  <1> QED BY <1>4, <1>7, <1>8

(* The second loop places chunk i where the first one has seen it. *)
LEMMA PlaceKeeps ==
  ASSUME IInv, Place
  PROVE  SecondLoop'
  <1> USE TypeFacts, ConstantFacts
  <1>1. TypeOK /\ Sums(num) /\ i < num /\ pass = "place"
    BY DEF IInv, Place
  <1>2. /\ i \in Nat /\ i \in 1 .. num - 1 /\ i \in 1 .. num /\ i + 1 \in 1 .. num
        /\ num \in 1 .. num /\ num \in Nat
    BY <1>1
  <1>3. /\ offset' = offset /\ num' = num /\ size' = size /\ i' = i + 1
        /\ block' = block /\ pass' = pass
    BY DEF Place
  <1>4. SUFFICES ASSUME offset[num] < Word
                 PROVE  /\ totalsize' = offset[i + 1] - Up(size[0]) + size[0]
                        /\ \A k \in 1 .. i : chunk'[k] = block.at + offset[k]
                        /\ block.at \in Bases
                        /\ block.size = offset[num]
                        /\ block.at + block.size < Word
    <2>1. i' - 1 = i
      BY <1>2, <1>3
    <2> QED BY <1>3, <2>1 DEF SecondLoop, NoWrap
  <1>5. /\ block.at \in Bases
        /\ block.size = offset[num]
        /\ block.at + block.size < Word
        /\ totalsize = offset[i] - Up(size[0]) + size[0]
        /\ \A k \in 1 .. i - 1 : chunk[k] = block.at + offset[k]
    BY <1>1, <1>4 DEF IInv, SecondLoop, NoWrap
  <1>6. /\ size[i] \in 0 .. Word - 1 /\ size[i] \in Nat
        /\ size[0] \in 0 .. Word - 1 /\ size[0] \in Nat
        /\ offset[1] \in Nat /\ offset[i] \in Nat /\ offset[i + 1] \in Nat
        /\ offset[num] \in Nat /\ block.at \in Nat /\ block.at % 8 = 0
    BY <1>1, <1>2, <1>5
  <1>7. Up(size[0]) \in Nat /\ size[0] <= Up(size[0]) /\ Up(size[i]) \in Nat
    BY <1>6, UpFacts
  <1>8. /\ offset[1] = Up(size[0])
        /\ offset[i + 1] = offset[i] + Up(size[i])
        /\ offset[1] <= offset[i] /\ offset[i + 1] <= offset[num]
        /\ offset[i] % 8 = 0 /\ offset[1] % 8 = 0
    BY <1>1, <1>2 DEF Sums
  <1>9. totalsize' = offset[i + 1] - Up(size[0]) + size[0]
    <2>1. RoundUp(size[i]) = Up(size[i])
      BY <1>4, <1>6, <1>7, <1>8, RoundUpExact
    <2>2. totalsize' = Plus(totalsize, Up(size[i]))
      BY <2>1 DEF Place
    <2> QED BY <2>2, <1>4, <1>5, <1>6, <1>7, <1>8 DEF Plus
  <1>10. RoundUp(Plus(block.at, totalsize)) = block.at + offset[i]
    <2> DEFINE base == block.at + (offset[i] - offset[1])
    <2>1. base \in Nat /\ base % 8 = 0
      <3>1. (offset[i] - offset[1]) % 8 = 0 /\ offset[i] - offset[1] \in Nat
        BY <1>6, <1>8
      <3> QED BY <3>1, <1>6, AlignedSum
    <2>2. block.at + totalsize = base + size[0]
      BY <1>5, <1>6, <1>7, <1>8
    <2>3. Up(base + size[0]) = base + Up(size[0])
      BY <2>1, <1>6, UpShift
    <2>4. base + Up(size[0]) = block.at + offset[i]
      BY <1>6, <1>7, <1>8
    <2>5. block.at + offset[i] < Word
      BY <1>5, <1>6, <1>7, <1>8
    <2>6. base + size[0] \in 0 .. Word - 1
      BY <2>1, <2>4, <2>5, <1>6, <1>7
    <2>7. Plus(block.at, totalsize) = base + size[0]
      BY <2>2, <2>6 DEF Plus
    <2>8. RoundUp(base + size[0]) = Up(base + size[0])
      BY <2>3, <2>4, <2>5, <2>6, RoundUpExact
    <2> QED BY <2>3, <2>4, <2>7, <2>8
  <1>11. ASSUME NEW k \in 1 .. i PROVE chunk'[k] = block.at + offset[k]
    <2>1. CASE k = i
      BY <2>1, <1>1, <1>2, <1>10 DEF Place, TypeOK
    <2>2. CASE k # i
      BY <2>2, <1>1, <1>2, <1>5 DEF Place, TypeOK
    <2> QED BY <2>1, <2>2
  <1> QED BY <1>5, <1>9, <1>11

(* Every step keeps the invariant. *)
LEMMA NextInv == IInv /\ [Next]_vars => IInv'
  <1> SUFFICES ASSUME IInv, [Next]_vars PROVE IInv'
    OBVIOUS
  <1>1. TypeOK /\ TypeOK'
    BY NextType DEF IInv
  <1>2. CASE Sum
    BY <1>1, <1>2, SumKeeps DEF Sum, IInv, SecondLoop, NullOnFailure
  <1>3. CASE Allocate
    <2>1. SecondLoop'
      BY <1>3, AllocateKeeps
    <2>2. Sums(num)'
      BY <1>3 DEF Allocate, IInv, FirstLoop, Sums
    <2> QED BY <1>1, <1>3, <2>1, <2>2 DEF Allocate, IInv, FirstLoop, NullOnFailure
  <1>4. CASE AllocateFails
    <2>1. Sums(num)'
      BY <1>4 DEF AllocateFails, IInv, FirstLoop, Sums
    <2> QED BY <1>1, <1>4, <2>1
            DEF AllocateFails, IInv, FirstLoop, SecondLoop, NullOnFailure
  <1>5. CASE Place
    <2>1. SecondLoop'
      BY <1>5, PlaceKeeps
    <2>2. Sums(num)'
      BY <1>5 DEF Place, IInv, Sums
    <2> QED BY <1>1, <1>5, <2>1, <2>2 DEF Place, IInv, FirstLoop, NullOnFailure
  <1>6. CASE Return
    <2>1. Sums(num)'
      BY <1>6 DEF Return, IInv, Sums
    <2> QED BY <1>1, <1>6, <2>1
            DEF Return, IInv, FirstLoop, SecondLoop, NoWrap, NullOnFailure
  <1>7. CASE UNCHANGED vars
    <2>1. Sums(i)' = Sums(i) /\ Sums(num)' = Sums(num)
      BY <1>7 DEF vars, Sums
    <2> QED BY <1>1, <1>7, <2>1
            DEF vars, IInv, FirstLoop, SecondLoop, NoWrap, NullOnFailure
  <1> QED BY <1>2, <1>3, <1>4, <1>5, <1>6, <1>7 DEF Next, Returned

(* The inductive invariant: the types, and what each pass has done so far. *)
THEOREM Invariance == Spec => []IInv
  <1> QED BY InitInv, NextInv, PTL DEF Spec

---------------------------------------------------------------------------
(* Sums, addresses and sizes stay within a word, and every pointer is the   *)
(* caller's, NULL or an address.                                            *)
THEOREM TypeCorrect == Spec => []TypeOK
  <1>1. IInv => TypeOK
    BY DEF IInv
  <1> QED BY <1>1, Invariance, PTL

(* What the invariant says of a placed chunk. *)
LEMMA Placed ==
  ASSUME IInv, pass = "done", NoWrap, NEW k \in 1 .. num - 1
  PROVE  /\ chunk[k] = block.at + offset[k]
         /\ offset[k] + size[k] <= offset[k + 1]
         /\ k \in 1 .. num /\ k + 1 \in 1 .. num
         /\ offset[k] \in Nat /\ offset[k + 1] \in Nat /\ size[k] \in Nat
         /\ block.at \in Nat /\ block.at % 8 = 0 /\ block.size = offset[num]
         /\ Sums(num)
  <1>1. TypeOK /\ i = num /\ Sums(num) /\ num \in Nat
    BY TypeFacts DEF IInv
  <1>2. k \in Nat /\ k \in 1 .. num /\ k + 1 \in 1 .. num /\ k \in 0 .. num - 1
    BY <1>1
  <1>3. /\ chunk[k] = block.at + offset[k]
        /\ block.size = offset[num] /\ block.at \in Bases
    BY <1>1 DEF IInv, SecondLoop
  <1>4. offset[k] \in Nat /\ offset[k + 1] \in Nat /\ size[k] \in Nat
    BY <1>1, <1>2, TypeFacts
  <1>5. offset[k + 1] = offset[k] + Up(size[k])
    BY <1>1 DEF Sums
  <1>6. Up(size[k]) \in Nat /\ size[k] <= Up(size[k])
    BY <1>4, UpFacts
  <1> QED BY <1>1, <1>2, <1>3, <1>4, <1>5, <1>6, ConstantFacts

(* Whatever the sizes, as long as their sum fits a word, each chunk lies in *)
(* the block behind the first chunk and is aligned.                         *)
THEOREM Insideness == Spec => []ChunksInside
  <1>1. IInv => ChunksInside
    <2> SUFFICES ASSUME IInv, pass = "done", NoWrap, NEW k \in 1 .. num - 1
                 PROVE  Inside(k)
      BY DEF ChunksInside
    <2>1. /\ chunk[k] = block.at + offset[k]
          /\ offset[k] + size[k] <= offset[k + 1]
          /\ k \in 1 .. num /\ k + 1 \in 1 .. num
          /\ offset[k] \in Nat /\ offset[k + 1] \in Nat /\ size[k] \in Nat
          /\ block.at \in Nat /\ block.at % 8 = 0 /\ block.size = offset[num]
          /\ Sums(num)
      BY Placed
    <2>2. /\ num \in Nat /\ num >= 1 /\ num \in 1 .. num /\ 1 \in 1 .. num
          /\ offset[1] \in Nat /\ offset[num] \in Nat
          /\ size[0] \in Nat
      BY TypeFacts DEF IInv
    <2>3. /\ offset[1] = Up(size[0])
          /\ offset[1] <= offset[k]
          /\ offset[k + 1] <= offset[num]
          /\ offset[k] % 8 = 0
      BY <2>1, <2>2 DEF Sums
    <2>4. size[0] <= Up(size[0]) /\ Up(size[0]) \in Nat
      BY <2>2, UpFacts
    <2>5. chunk[k] % 8 = 0
      BY <2>1, <2>3, AlignedSum
    <2> QED BY <2>1, <2>2, <2>3, <2>4, <2>5 DEF Inside
  <1> QED BY <1>1, Invariance, PTL

(* Under the same condition no two chunks overlap. *)
THEOREM Disjointness == Spec => []ChunksDisjoint
  <1>1. IInv => ChunksDisjoint
    <2> SUFFICES ASSUME IInv, pass = "done", NoWrap,
                        NEW j \in 1 .. num - 1, NEW k \in 1 .. num - 1, j < k
                 PROVE  chunk[j] + size[j] <= chunk[k]
      BY DEF ChunksDisjoint
    <2>1. /\ chunk[j] = block.at + offset[j]
          /\ offset[j] + size[j] <= offset[j + 1]
          /\ j + 1 \in 1 .. num
          /\ offset[j] \in Nat /\ offset[j + 1] \in Nat /\ size[j] \in Nat
          /\ block.at \in Nat /\ Sums(num)
      BY Placed
    <2>2. chunk[k] = block.at + offset[k] /\ offset[k] \in Nat /\ k \in 1 .. num
      BY Placed
    <2>3. j + 1 <= k
      BY TypeFacts DEF IInv
    <2>4. offset[j + 1] <= offset[k]
      BY <2>1, <2>2, <2>3 DEF Sums
    <2> QED BY <2>1, <2>2, <2>4
  <1> QED BY <1>1, Invariance, PTL

(* A call that returns NULL has reset every pointer, wrapped sums or not.   *)
THEOREM FailureResets == Spec => []NullOnFailure
  <1>1. IInv => NullOnFailure
    BY DEF IInv
  <1> QED BY <1>1, Invariance, PTL

---------------------------------------------------------------------------
(* Blocks and their bytes. *)

(* A finite set of blocks has finitely many bytes, of each as many as it    *)
(* says; a block with another name, number, pool or size is another block.  *)
BytesOf(b) == {b} \X (1 .. b.bytes)
Sized(blocks) == IsFiniteSet(blocks) /\ \A b \in blocks : b.bytes \in Nat

LEMMA BytesOfFinite ==
  ASSUME NEW b, b.bytes \in Nat
  PROVE  IsFiniteSet(BytesOf(b)) /\ Cardinality(BytesOf(b)) = b.bytes
<1>1. IsFiniteSet({b}) /\ Cardinality({b}) = 1
  BY FS_Singleton
<1>2. IsFiniteSet(1 .. b.bytes) /\ Cardinality(1 .. b.bytes) = b.bytes
  BY FS_Interval
<1>3. IsFiniteSet({b} \X (1 .. b.bytes)) /\ Cardinality({b} \X (1 .. b.bytes)) = 1 * b.bytes
  BY <1>1, <1>2, FS_Product
<1> QED
  BY <1>3 DEF BytesOf

LEMMA BytesFinite ==
  ASSUME NEW S, Sized(S)
  PROVE  IsFiniteSet(UNION {BytesOf(b) : b \in S}) /\ Bytes(S) \in Nat
<1> DEFINE T == {BytesOf(b) : b \in S}
           f == [b \in S |-> BytesOf(b)]
<1>1. f \in Surjection(S, T)
  BY DEF Surjection
<1>2. IsFiniteSet(T)
  BY <1>1, FS_Surjection DEF Sized
<1>3. \A t \in T : IsFiniteSet(t)
  BY BytesOfFinite DEF Sized
<1>4. IsFiniteSet(UNION T)
  BY <1>2, <1>3, FS_UNION
<1>5. Cardinality(UNION T) \in Nat
  BY <1>4, FS_CardinalityType
<1>6. UNION T = UNION {{b} \X (1 .. b.bytes) : b \in S}
  BY DEF BytesOf
<1> QED
  BY <1>4, <1>5, <1>6 DEF Bytes

LEMMA BytesEmpty == Bytes({}) = 0
<1>1. UNION {{b} \X (1 .. b.bytes) : b \in {}} = {}
  OBVIOUS
<1> QED
  BY <1>1, FS_EmptySet DEF Bytes

LEMMA BytesSubset ==
  ASSUME NEW S, Sized(S), NEW T \in SUBSET S
  PROVE  Sized(T) /\ Bytes(T) \in Nat /\ Bytes(T) <= Bytes(S)
<1>1. Sized(T)
  BY FS_Subset DEF Sized
<1>2. UNION {BytesOf(b) : b \in T} \subseteq UNION {BytesOf(b) : b \in S}
  OBVIOUS
<1>3. Cardinality(UNION {BytesOf(b) : b \in T}) <= Cardinality(UNION {BytesOf(b) : b \in S})
  BY <1>2, BytesFinite, FS_Subset
<1> QED
  BY <1>1, <1>3, BytesFinite DEF Bytes, BytesOf

LEMMA BytesUnion ==
  ASSUME NEW S, Sized(S), NEW T, Sized(T), S \intersect T = {}
  PROVE  Sized(S \union T) /\ Bytes(S \union T) = Bytes(S) + Bytes(T)
<1> DEFINE All(X) == UNION {BytesOf(b) : b \in X}
<1>1. Sized(S \union T)
  BY FS_Union DEF Sized
<1>2. All(S \union T) = All(S) \union All(T)
  OBVIOUS
<1>3. All(S) \intersect All(T) = {}
  BY DEF BytesOf
<1>4. /\ IsFiniteSet(All(S)) /\ IsFiniteSet(All(T))
      /\ Cardinality(All(S)) \in Nat /\ Cardinality(All(T)) \in Nat
  BY BytesFinite, FS_CardinalityType
<1>5. Cardinality(All(S \union T)) = Cardinality(All(S)) + Cardinality(All(T))
  <2>1. Cardinality(All(S) \union All(T))
          = Cardinality(All(S)) + Cardinality(All(T)) - Cardinality(All(S) \intersect All(T))
    BY <1>4, FS_Union
  <2>2. Cardinality(All(S) \intersect All(T)) = 0
    BY <1>3, FS_EmptySet
  <2>3. \A u, v \in Nat : \A w : w = u + v - 0 => w = u + v
    OBVIOUS
  <2> QED
    BY <1>2, <1>4, <2>1, <2>2, <2>3
<1> QED
  BY <1>1, <1>5 DEF Bytes, BytesOf

LEMMA BytesOne ==
  ASSUME NEW b, b.bytes \in Nat
  PROVE  Sized({b}) /\ Bytes({b}) = b.bytes
<1>1. UNION {BytesOf(c) : c \in {b}} = BytesOf(b)
  OBVIOUS
<1> QED
  BY <1>1, BytesOfFinite, FS_Singleton DEF Sized, Bytes, BytesOf

---------------------------------------------------------------------------
(* The blocks that Malloc asks for, and the pool with the first k of them.  *)
NewBlock(names, s, k) == SymmetricBlock(names[k], round', s[k])
NewBlocks(names, s, k) == {NewBlock(names, s, j) : j \in 1 .. k}
Need(names, s, k) == Used(SymmetricPool) + Bytes(NewBlocks(names, s, k))
Got(names, s, n) == {k \in 1 .. n : Need(names, s, k) <= capacity}

Request(names, s, n) ==
  /\ n \in 1 .. 5 /\ DOMAIN names = 1 .. n
  /\ \A k \in 1 .. n : names[k] \in Pointers /\ s[k] \in Nat
  /\ \A j, k \in 1 .. n : names[j] = names[k] => j = k

LEMMA NewBlockIs ==
  ASSUME NEW names, NEW s, NEW k
  PROVE  /\ NewBlock(names, s, k).name = names[k] /\ NewBlock(names, s, k).nr = round'
         /\ NewBlock(names, s, k).bytes = s[k] /\ NewBlock(names, s, k).pool = SymmetricPool
BY DEF NewBlock, SymmetricBlock, Block

(* Each block needs its bytes more than those before it. *)
LEMMA NeedSum ==
  ASSUME NEW names, NEW s, NEW n, Request(names, s, n), Sized(live)
  PROVE  /\ \A k \in 0 .. n : Sized(NewBlocks(names, s, k)) /\ Need(names, s, k) \in Nat
         /\ Need(names, s, 0) = Used(SymmetricPool)
         /\ \A k \in 1 .. n : Need(names, s, k) = Need(names, s, k - 1) + s[k]
<1>1. ASSUME NEW k \in 0 .. n PROVE Sized(NewBlocks(names, s, k))
  <2> DEFINE f == [j \in 1 .. k |-> NewBlock(names, s, j)]
  <2>1. f \in Surjection(1 .. k, NewBlocks(names, s, k))
    BY DEF Surjection, NewBlocks
  <2>2. IsFiniteSet(1 .. k) /\ 1 .. k \subseteq 1 .. n
    BY FS_Interval DEF Request
  <2>3. IsFiniteSet(NewBlocks(names, s, k))
    BY <2>1, <2>2, FS_Surjection
  <2> QED
    BY <2>2, <2>3, NewBlockIs DEF Sized, NewBlocks, Request
<1>2. Used(SymmetricPool) \in Nat
  BY BytesSubset DEF Used
<1>3. \A k \in 0 .. n : Need(names, s, k) \in Nat
  <2> TAKE k \in 0 .. n
  <2>1. Bytes(NewBlocks(names, s, k)) \in Nat
    BY <1>1, BytesFinite
  <2> QED
    BY <1>2, <2>1 DEF Need
<1>4. Need(names, s, 0) = Used(SymmetricPool)
  <2>1. NewBlocks(names, s, 0) = {}
    BY DEF NewBlocks
  <2> QED
    BY <1>2, <2>1, BytesEmpty DEF Need
<1>5. ASSUME NEW k \in 1 .. n PROVE Need(names, s, k) = Need(names, s, k - 1) + s[k]
  <2> DEFINE b == NewBlock(names, s, k)
             S == NewBlocks(names, s, k - 1)
  <2>1. NewBlocks(names, s, k) = S \union {b}
    <3>1. 1 .. k = (1 .. k - 1) \union {k}
      OBVIOUS
    <3> QED
      BY <3>1 DEF NewBlocks
  <2>2. S \intersect {b} = {}
    BY NewBlockIs DEF NewBlocks, Request
  <2>3. b.bytes = s[k] /\ s[k] \in Nat /\ Sized({b}) /\ Bytes({b}) = b.bytes
    BY NewBlockIs, BytesOne DEF Request
  <2>4. k - 1 \in 0 .. n /\ Sized(S)
    BY <1>1 DEF Request
  <2>5. Bytes(S \union {b}) = Bytes(S) + s[k] /\ Bytes(S) \in Nat
    BY <2>2, <2>3, <2>4, BytesUnion, BytesFinite
  <2> HIDE DEF b, S
  <2> QED
    BY <1>2, <2>1, <2>3, <2>5 DEF Need, S
<1> QED
  BY <1>1, <1>3, <1>4, <1>5
(* They are got up to one of them.                                          *)
LEMMA GotFirst ==
  ASSUME NEW names, NEW s, NEW n, Request(names, s, n), Sized(live), capacity \in Nat
  PROVE  /\ \A k \in Got(names, s, n), j \in 1 .. n : j <= k => j \in Got(names, s, n)
         /\ Got(names, s, n) # {} => \E m \in Got(names, s, n) : Got(names, s, n) = 1 .. m
<1> DEFINE need(k) == Need(names, s, k)
           G == Got(names, s, n)
<1>1. \A k \in 0 .. n : need(k) \in Nat
  BY NeedSum
<1>2. \A k \in 1 .. n : need(k - 1) <= need(k)
  <2> TAKE k \in 1 .. n
  <2>1. s[k] \in Nat /\ n \in Nat /\ k - 1 \in 0 .. n
    BY DEF Request
  <2>2. need(k) = need(k - 1) + s[k]
    BY NeedSum
  <2>3. need(k - 1) \in Nat
    BY <1>1, <2>1
  <2> QED
    BY <2>1, <2>2, <2>3
<1>3. n \in 1 .. 5 /\ G = {k \in 1 .. n : need(k) <= capacity}
  BY DEF Request, Got
<1> HIDE DEF need, G
<1>4. \A k \in G, j \in 1 .. n : j <= k => j \in G
  <2> SUFFICES ASSUME NEW k \in G, NEW j \in 1 .. n, j <= k PROVE need(j) <= need(k)
    BY <1>1, <1>3
  <2>1. \A m \in 1 .. 5 : m \in {1, 2, 3, 4, 5}
    OBVIOUS
  <2>2. /\ n >= 2 => need(1) <= need(2)
        /\ n >= 3 => need(2) <= need(3)
        /\ n >= 4 => need(3) <= need(4)
        /\ n >= 5 => need(4) <= need(5)
    BY <1>2, <1>3
  <2> QED
    BY <1>1, <1>3, <2>1, <2>2
<1>5. G # {} => \E m \in G : G = 1 .. m
  <2> SUFFICES ASSUME G # {} PROVE \E m \in G : \A k \in G : k <= m
    BY <1>3, <1>4
  <2>1. \A k \in G : k \in {1, 2, 3, 4, 5}
    BY <1>3
  <2> QED
    BY <2>1
<1> QED
  BY <1>4, <1>5 DEF G

---------------------------------------------------------------------------
(* A pool has room for all that is in it. *)
PoolsFit == Sized(live) /\ \A pool \in {"ddr", "msmc", "vsmem"} : Used(pool) \in 0 .. capacity

LEMMA AddBlocks ==
  ASSUME Sized(live), NEW N, Sized(N), N \intersect live = {},
         NEW pool, \A b \in N : b.pool = pool,
         live' = live \union N
  PROVE  /\ Sized(live)' /\ Used(pool)' = Used(pool) + Bytes(N)
         /\ \A q : q # pool => Used(q)' = Used(q)
<1> DEFINE In(q) == {b \in live : b.pool = q}
<1>1. Sized(live')
  BY BytesUnion
<1>2. Used(pool)' = Used(pool) + Bytes(N)
  <2>1. {b \in live' : b.pool = pool} = In(pool) \union N
    OBVIOUS
  <2>2. Sized(In(pool)) /\ In(pool) \intersect N = {}
    BY BytesSubset
  <2>3. Bytes(In(pool) \union N) = Bytes(In(pool)) + Bytes(N)
    BY <2>2, BytesUnion
  <2> QED
    BY <2>1, <2>3 DEF Used, Bytes
<1>3. ASSUME NEW q, q # pool PROVE Used(q)' = Used(q)
  <2>1. {b \in live' : b.pool = q} = In(q)
    BY <1>3
  <2> QED
    BY <2>1 DEF Used, Bytes
<1> QED
  BY <1>1, <1>2, <1>3 DEF Sized

LEMMA DropBlocks ==
  ASSUME PoolsFit, live' \subseteq live, capacity' = capacity, capacity \in Nat
  PROVE  PoolsFit'
<1>1. Sized(live')
  BY BytesSubset DEF PoolsFit
<1>2. ASSUME NEW q \in {"ddr", "msmc", "vsmem"} PROVE (Used(q) \in 0 .. capacity)'
  <2>1. Sized({b \in live : b.pool = q}) /\ Used(q) \in 0 .. capacity
    BY BytesSubset DEF PoolsFit
  <2>2. {b \in live' : b.pool = q} \subseteq {b \in live : b.pool = q}
    OBVIOUS
  <2>3. Bytes({b \in live' : b.pool = q}) \in Nat /\ Bytes({b \in live' : b.pool = q}) <= Used(q)
    BY <2>1, <2>2, BytesSubset DEF Used
  <2> QED
    BY <2>1, <2>3 DEF Used, Bytes
<1> QED
  BY <1>1, <1>2 DEF PoolsFit, Sized

(* One block more, if it fits. *)
LEMMA AddOne ==
  ASSUME PoolsFit, capacity' = capacity, capacity \in Nat,
         NEW b, b.bytes \in Nat, b \notin live, Fits(b.pool, b.bytes), live' = live \union {b},
         b.pool \in {"ddr", "msmc", "vsmem"}
  PROVE  PoolsFit'
<1>1. Sized({b}) /\ Bytes({b}) = b.bytes
  BY BytesOne
<1>2. /\ Sized(live)' /\ Used(b.pool)' = Used(b.pool) + b.bytes
      /\ \A q : q # b.pool => Used(q)' = Used(q)
  <2>1. Sized(live) /\ {b} \intersect live = {} /\ \A c \in {b} : c.pool = b.pool
    BY DEF PoolsFit
  <2> QED
    BY <1>1, <2>1, AddBlocks
<1>3. \A q \in {"ddr", "msmc", "vsmem"} : Used(q)' \in 0 .. capacity
  BY <1>2 DEF PoolsFit, Fits
<1> QED
  BY <1>2, <1>3 DEF PoolsFit
---------------------------------------------------------------------------
(* What Malloc does: every pointer named gets its block or NULL.            *)
LEMMA MallocIs ==
  ASSUME NEW names, NEW s, NEW n, Request(names, s, n), Malloc(names, s)
  PROVE  /\ DOMAIN ptr' = Pointers
         /\ \A k \in 1 .. n : ptr'[names[k]] =
              IF k \in Got(names, s, n) THEN NewBlock(names, s, k) ELSE NoBlock
         /\ \A v \in Pointers : (\A k \in 1 .. n : names[k] # v) => ptr'[v] = ptr[v]
         /\ live' = live \union {NewBlock(names, s, k) : k \in Got(names, s, n)}
         /\ wrongFree' = wrongFree
<1> DEFINE need(k) == Used(SymmetricPool) + Bytes({SymmetricBlock(names[j], round', s[j]) : j \in 1 .. k})
<1>1. /\ \A k \in 1 .. n : names[k] \in Pointers
      /\ \A j, k \in 1 .. n : names[j] = names[k] => j = k
      /\ DOMAIN names = 1 .. n
  BY DEF Request
<1>2. ptr' = [v \in Pointers |->
               IF \E k \in DOMAIN names : names[k] = v
               THEN LET k == CHOOSE k \in DOMAIN names : names[k] = v
                    IN  IF need(k) <= capacity THEN SymmetricBlock(v, round', s[k]) ELSE NoBlock
               ELSE ptr[v]]
  BY DEF Malloc, Allocated
<1>3. ASSUME NEW k \in 1 .. n
      PROVE  ptr'[names[k]] = IF k \in Got(names, s, n) THEN NewBlock(names, s, k) ELSE NoBlock
  <2>1. (CHOOSE j \in DOMAIN names : names[j] = names[k]) = k
    BY <1>1
  <2>2. need(k) = Need(names, s, k)
    BY DEF Need, NewBlocks, NewBlock
  <2>3. k \in Got(names, s, n) <=> need(k) <= capacity
    BY <2>2 DEF Got
  <2> HIDE DEF need
  <2> QED
    BY <1>1, <1>2, <2>1, <2>3 DEF NewBlock
<1>4. \A v \in Pointers : (\A k \in 1 .. n : names[k] # v) => ptr'[v] = ptr[v]
  BY <1>1, <1>2
<1>5. \A k \in 1 .. n : NewBlock(names, s, k) # NoBlock
  <2>1. NoBlock.name = "none" /\ "none" \notin Pointers
    BY DEF NoBlock, Pointers
  <2>2. \A k \in 1 .. n : NewBlock(names, s, k).name = names[k]
    BY NewBlockIs
  <2> QED
    BY <1>1, <2>1, <2>2
<1>6. live' = live \union ({ptr'[names[k]] : k \in DOMAIN names} \ {NoBlock}) /\ wrongFree' = wrongFree
  BY DEF Malloc
<1>7. {ptr'[names[k]] : k \in DOMAIN names} \ {NoBlock} = {NewBlock(names, s, k) : k \in Got(names, s, n)}
  <2>1. Got(names, s, n) \subseteq 1 .. n
    BY DEF Got
  <2> QED
    BY <1>1, <1>3, <1>5, <2>1
<1>8. DOMAIN ptr' = Pointers
  BY <1>2
<1> QED
  BY <1>3, <1>4, <1>6, <1>7, <1>8

(* It keeps to the room there is, and takes what it says it takes.          *)
LEMMA MallocFits ==
  ASSUME NEW names, NEW s, NEW n, Request(names, s, n), Malloc(names, s),
         PoolsFit, UNCHANGED <<ompacc, useDdr, capacity>>, capacity \in Nat,
         \A k \in 1 .. n : NewBlock(names, s, k) \notin live
  PROVE  /\ PoolsFit'
         /\ Need(names, s, n) <= capacity =>
              Used(SymmetricPool)' = Need(names, s, n) /\ Got(names, s, n) = 1 .. n
<1> DEFINE G == Got(names, s, n)
           N == {NewBlock(names, s, k) : k \in G}
<1>1. live' = live \union N /\ G \subseteq 1 .. n /\ Sized(live)
  BY MallocIs DEF Got, PoolsFit
<1>2. G = {} \/ \E m \in G : G = 1 .. m
  BY <1>1, GotFirst
<1>3. SymmetricPool \in {"ddr", "msmc", "vsmem"} /\ SymmetricPool' = SymmetricPool
  BY DEF SymmetricPool
<1>4. Sized(N) /\ Used(SymmetricPool) + Bytes(N) <= capacity
  <2>1. CASE G = {}
    <3>1. N = {}
      BY <2>1
    <3>2. Sized({})
      BY FS_EmptySet DEF Sized
    <3> QED
      BY <1>3, <3>1, <3>2, BytesEmpty DEF PoolsFit
  <2>2. CASE \E m \in G : G = 1 .. m
    <3>1. PICK m \in G : G = 1 .. m
      BY <2>2
    <3>2. N = NewBlocks(names, s, m)
      BY <3>1 DEF NewBlocks
    <3>3. m \in 0 .. n /\ Need(names, s, m) <= capacity
      BY <1>1 DEF Got, Request
    <3> QED
      BY <1>1, <3>2, <3>3, NeedSum DEF Need
  <2> QED
    BY <1>2, <2>1, <2>2
<1>5. /\ Sized(live)' /\ Used(SymmetricPool)' = Used(SymmetricPool) + Bytes(N)
      /\ \A q : q # SymmetricPool => Used(q)' = Used(q)
  <2>1. \A b \in N : b.pool = SymmetricPool
    BY NewBlockIs
  <2>2. N \intersect live = {}
    BY <1>1
  <2> HIDE DEF N
  <2>3. \A pool : (\A b \in N : b.pool = pool) =>
          /\ Sized(live)' /\ Used(pool)' = Used(pool) + Bytes(N)
          /\ \A q : q # pool => Used(q)' = Used(q)
    BY <1>1, <1>4, <2>2, AddBlocks
  <2> QED
    BY <2>1, <2>3, <1>3 DEF Used
<1>6. Bytes(N) \in Nat
  BY <1>4, BytesFinite
<1>7. \A q \in {"ddr", "msmc", "vsmem"} : Used(q)' \in 0 .. capacity
  BY <1>3, <1>4, <1>5, <1>6 DEF PoolsFit
<1>8. ASSUME Need(names, s, n) <= capacity
      PROVE  Used(SymmetricPool)' = Need(names, s, n) /\ G = 1 .. n
  <2>1. n \in 1 .. n /\ n \in G
    BY <1>8 DEF Request, Got
  <2>2. G = 1 .. n
    BY <1>1, <1>2, <2>1
  <2>3. N = NewBlocks(names, s, n)
    BY <2>2 DEF NewBlocks
  <2> QED
    BY <1>5, <2>2, <2>3 DEF Need
<1> QED
  BY <1>5, <1>7, <1>8 DEF PoolsFit
---------------------------------------------------------------------------
(* What the command line says is a positive number. *)
LEMMA ValueIsPositive ==
  ASSUME NEW argv, NEW option, NEW default \in Nat
  PROVE  Value(argv, option, default) \in Nat /\ (default # 0 => Value(argv, option, default) # 0)
<1>1. \A word : AtLeastOne(word) \in Nat \ {0}
  BY HostArgsAssumption DEF AtLeastOne
<1> QED
  BY <1>1 DEF Value

(* The programs' blocks.  A pointer v of this round's has the size SizeOf(v). *)
SizeOf(v) == CASE v = "heap" -> HeapSize
               [] v \in {"a", "b"} -> Size
               [] v = "leak" -> LeakBytes
               [] OTHER -> 1
Of(v, k) == SymmetricBlock(v, k, SizeOf(v))

(* What sym_heap_reset holds at each of its stages, and how much that is;   *)
(* the rounds whose leak it has behind it.                                  *)
Holds == CASE stage = "arrays" -> {"heap"}
           [] stage = "target" -> {"heap", "a", "b"}
           [] stage = "free" -> {"heap", "a", "b", "signals"}
           [] OTHER -> {}
HoldsBytes == CASE stage = "arrays" -> HeapSize
                [] stage = "target" -> HeapSize + 2 * Size
                [] stage = "free" -> HeapSize + 2 * Size + 1
                [] OTHER -> 0
NoLeak == ompacc \/ LeakBytes = 0
Leaks == IF NoLeak THEN {}
         ELSE {Of("leak", k) : k \in 1 .. (IF stage \in {"arrays", "target"} THEN round - 1 ELSE round)}

ResetInv ==
  Reset =>
    /\ stage \in {"round", "arrays", "target", "free", "killed", "exit"}
    /\ stage \notin {"killed", "exit"} =>
         /\ \A v \in Holds : ptr[v] = Of(v, round) /\ Of(v, round) \in live
         /\ live \subseteq {Of(v, round) : v \in Holds} \union Leaks
         /\ NoLeak => Used(SymmetricPool) = HoldsBytes
         /\ Holds # {} /\ ompacc => region = Of("heap", round)
         /\ stage \in {"arrays", "target"} /\ ompacc => targetUsed = 0
         /\ stage = "free" /\ ompacc => targetUsed = LeakBytes
         /\ Holds # {} => round >= 1
    /\ NoLeak => /\ round >= 2 \/ (round = 1 /\ stage \in {"round", "free"})
                      => HeapSize + 2 * Size + 1 <= capacity
                 /\ stage = "killed" \/ (stage = "exit" /\ round < Rounds) => round <= 1

(* What offload holds: what it allocated before its rounds, what is left    *)
(* behind by the calls that got memory, and the blocks of the call that is  *)
(* on its way.                                                              *)
Five == {"obj", "inner_h", "inner_h_ints", "inner_t", "region_ints"}
Left(K) == {Of(v, k) : v \in Five, k \in K}
Packed == {"obj", "inner_h", "inner_h_ints", "inner_t", "inner_t_ints"}
Buffers == {ptr[v] : v \in {"a", "b", "heap"}} \ {NoBlock}
InCall == {Of(v, round) : v \in CASE stage = "data" -> Packed
                                  [] stage = "return" -> Packed \union {"region_ints"}
                                  [] OTHER -> {}}

OffloadInv ==
  heapProgram = "offload" =>
    /\ stage \in {"buffers", "call", "data", "return", "print", "killed", "exit"}
    /\ stage = "buffers" => round = 0
    /\ stage # "killed" =>
         /\ \A v \in {"a", "b", "heap"} : ptr[v] \in {NoBlock, Of(v, 0)}
         /\ stage \in {"buffers", "exit"} => Buffers = {}
         /\ \E K \in SUBSET (1 .. (IF stage \in {"data", "return"} THEN round - 1 ELSE round)) :
              live = Buffers \union Left(K) \union InCall
    /\ stage = "data" => \A v \in Packed : ptr[v] = Of(v, round)
    /\ stage = "return" => ptr["host_ints"] = Of("inner_t_ints", round)
    /\ stage \in {"return", "print"} =>
         /\ \A v \in Packed \ {"inner_t_ints"} : ptr[v] = Of(v, round)
         /\ ptr["inner_t_ints"] = Of("region_ints", round)
    /\ stage = "print" => {Of(v, round) : v \in Five} \subseteq live
    /\ stage \in {"data", "return", "print"} => round >= 1

(* What the caller holds is what is allocated, each block once and with the *)
(* call that gives it back to its pool.                                     *)
PoolOf(via) == IF via = "scratch_free" THEN ScratchPool ELSE SymmetricPool

CallerInv ==
  heapProgram = "caller" =>
    /\ stage \in {"buffers", "exit"} /\ round = 0
    /\ IsFiniteSet(held)
    /\ live = {h.block : h \in held} \ {ArmOnlyHeap}
    /\ \A h \in held :
         IF h.block = ArmOnlyHeap THEN h = [block |-> ArmOnlyHeap, via |-> "heap_destroy"]
         ELSE h.block.bytes \in Nat /\ h.block.pool = PoolOf(h.via)
    /\ \A g, h \in held : g.block = h.block => g = h

(* The target's heap lies on memory, and has no more in it than that.       *)
RegionInv == region.bytes \in Nat /\ targetUsed \in 0 .. region.bytes

NoWrongFree == wrongFree = FALSE

HeapShape ==
  /\ ompacc \in BOOLEAN /\ useDdr \in BOOLEAN /\ capacity \in Capacities
  /\ heapProgram \in {"reset", "offload", "caller"}
  /\ PoolsFit /\ RegionInv /\ NoWrongFree
  /\ round \in 0 .. Rounds /\ DOMAIN ptr = Pointers
  /\ \A b \in live : b.pool \in {"ddr", "msmc", "vsmem"}

HeapInv == HeapShape /\ ResetInv /\ OffloadInv /\ CallerInv

---------------------------------------------------------------------------
(* A free is right of blocks that are allocated, in the pool they are from. *)
LEMMA FreesRightly ==
  ASSUME NoWrongFree, NEW pool, NEW blocks, \A b \in blocks \ {NoBlock} : b \in live /\ b.pool = pool,
         wrongFree' = (wrongFree \/ \E b \in blocks \ {NoBlock} : b \notin live \/ b.pool # pool)
  PROVE  NoWrongFree'
BY DEF NoWrongFree

LEMMA NothingFreed == NoWrongFree /\ wrongFree' = wrongFree => NoWrongFree'
BY DEF NoWrongFree

(* Sizes and capacities are numbers. *)
LEMMA SizesAre ==
  ASSUME HeapShape
  PROVE  /\ Size \in Nat /\ LeakBytes \in Nat /\ HeapSize \in Nat /\ Rounds \in Nat
         /\ capacity \in Nat /\ round \in Nat /\ round <= Rounds
         /\ \A v : SizeOf(v) \in Nat
         /\ Reset => HeapSize = 2 * Size + 1 + LeakBytes
         /\ SymmetricPool \in {"ddr", "msmc", "vsmem"} /\ ScratchPool \in {"ddr", "msmc", "vsmem"}
<1>1. Size \in Nat /\ LeakBytes \in Nat /\ Rounds \in Nat
  BY ValueIsPositive, HeapProgramsAssumption DEF Size, LeakBytes, Rounds
<1>2. HeapSize \in Nat /\ (Reset => HeapSize = 2 * Size + 1 + LeakBytes)
  BY <1>1 DEF HeapSize
<1>3. \A v : SizeOf(v) \in Nat
  BY <1>1, <1>2 DEF SizeOf
<1>4. capacity \in Nat /\ round \in Nat /\ round <= Rounds
  BY <1>1, VsMemAssumption DEF HeapShape
<1> QED
  BY <1>1, <1>2, <1>3, <1>4 DEF SymmetricPool, ScratchPool

LEMMA OfIs ==
  \A v, k : /\ Of(v, k).name = v /\ Of(v, k).nr = k /\ Of(v, k).bytes = SizeOf(v)
            /\ Of(v, k).pool = SymmetricPool
BY DEF Of, SymmetricBlock, Block

(* No pointer of a program is NULL by chance. *)
LEMMA OfIsNotNull == \A v \in Pointers \union {"region_ints"} : \A k : Of(v, k) # NoBlock
<1>1. NoBlock.name = "none" /\ "none" \notin Pointers \union {"region_ints"}
  BY DEF NoBlock, Pointers
<1> QED
  BY <1>1, OfIs

(* What a program was started with does not change, nor the sizes it has    *)
(* from there.                                                              *)
LEMMA SetupKept ==
  ASSUME UNCHANGED <<ompacc, useDdr, heapProgram, heapLine>>
  PROVE  /\ Size' = Size /\ LeakBytes' = LeakBytes /\ HeapSize' = HeapSize /\ Rounds' = Rounds
         /\ SymmetricPool' = SymmetricPool /\ ScratchPool' = ScratchPool
         /\ Reset' = Reset /\ NoLeak' = NoLeak
         /\ \A v : SizeOf(v)' = SizeOf(v)
         /\ \A v, k : Of(v, k)' = Of(v, k)
<1>1. /\ Size' = Size /\ LeakBytes' = LeakBytes /\ HeapSize' = HeapSize /\ Rounds' = Rounds
      /\ SymmetricPool' = SymmetricPool /\ ScratchPool' = ScratchPool
      /\ Reset' = Reset /\ NoLeak' = NoLeak
  BY DEF Size, LeakBytes, HeapSize, Rounds, SymmetricPool, ScratchPool, Reset, NoLeak
<1>2. \A v : SizeOf(v)' = SizeOf(v)
  BY <1>1 DEF SizeOf
<1>3. \A v, k : Of(v, k)' = Of(v, k)
  BY <1>1, <1>2 DEF Of, SymmetricBlock, Block
<1> QED
  BY <1>1, <1>2, <1>3

(* A program's calls of symmetric_malloc, for pointers of this round. *)
LEMMA MallocStep ==
  ASSUME HeapShape, UnchangedSetup,
         NEW names, NEW s, NEW n, Request(names, s, n), Malloc(names, s),
         \A k \in 1 .. n : s[k] = SizeOf(names[k]),
         \A k \in 1 .. n : Of(names[k], round') \notin live
  PROVE  /\ PoolsFit' /\ DOMAIN ptr' = Pointers /\ NoWrongFree'
         /\ \A b \in live' : b.pool \in {"ddr", "msmc", "vsmem"}
         /\ \A k \in 1 .. n : ptr'[names[k]] =
              IF k \in Got(names, s, n) THEN Of(names[k], round') ELSE NoBlock
         /\ \A v \in Pointers : (\A k \in 1 .. n : names[k] # v) => ptr'[v] = ptr[v]
         /\ live' = live \union {Of(names[k], round') : k \in Got(names, s, n)}
         /\ Need(names, s, n) <= capacity =>
              Used(SymmetricPool)' = Need(names, s, n) /\ Got(names, s, n) = 1 .. n
         /\ \A k \in Got(names, s, n), j \in 1 .. n : j <= k => j \in Got(names, s, n)
<1>1. \A k \in 1 .. n : NewBlock(names, s, k) = Of(names[k], round')
  BY DEF NewBlock, Of
<1>2. PoolsFit /\ Sized(live) /\ capacity \in Nat /\ NoWrongFree
  BY SizesAre DEF HeapShape, PoolsFit
<1>3. UNCHANGED <<ompacc, useDdr, capacity>>
  BY DEF UnchangedSetup
<1>4. \A k \in 1 .. n : NewBlock(names, s, k) \notin live
  BY <1>1
<1>5. /\ PoolsFit'
      /\ Need(names, s, n) <= capacity =>
           Used(SymmetricPool)' = Need(names, s, n) /\ Got(names, s, n) = 1 .. n
  BY <1>2, <1>3, <1>4, MallocFits
<1>6. Got(names, s, n) \subseteq 1 .. n
  BY DEF Got
<1>7. /\ DOMAIN ptr' = Pointers /\ NoWrongFree'
      /\ \A k \in 1 .. n : ptr'[names[k]] =
           IF k \in Got(names, s, n) THEN NewBlock(names, s, k) ELSE NoBlock
      /\ \A v \in Pointers : (\A k \in 1 .. n : names[k] # v) => ptr'[v] = ptr[v]
      /\ live' = live \union {NewBlock(names, s, k) : k \in Got(names, s, n)}
  BY <1>2, MallocIs, NothingFreed
<1>8. live' = live \union {Of(names[k], round') : k \in Got(names, s, n)}
  BY <1>1, <1>6, <1>7
<1>9. \A b \in live' : b.pool \in {"ddr", "msmc", "vsmem"}
  BY <1>8, OfIs, SizesAre DEF HeapShape
<1>10. \A k \in Got(names, s, n), j \in 1 .. n : j <= k => j \in Got(names, s, n)
  BY <1>2, GotFirst
<1> QED
  BY <1>1, <1>5, <1>7, <1>8, <1>9, <1>10
---------------------------------------------------------------------------
LEMMA HeapInvInit == HeapInitial => HeapInv
<1> SUFFICES ASSUME HeapInitial PROVE HeapInv
  OBVIOUS
<1> USE DEF HeapInitial, VsMemInit
<1>1. Sized({}) /\ Bytes({}) = 0
  BY FS_EmptySet, BytesEmpty DEF Sized
<1>2. Used(SymmetricPool) = 0 /\ \A q : Used(q) = 0
  <2>1. \A q : {b \in live : b.pool = q} = {}
    OBVIOUS
  <2> QED
    BY <1>1, <2>1 DEF Used
<1>3. capacity \in Nat /\ Rounds \in Nat
  BY VsMemAssumption, ValueIsPositive, HeapProgramsAssumption DEF Rounds
<1>4. HeapShape
  <2>1. PoolsFit
    BY <1>1, <1>2, <1>3 DEF PoolsFit
  <2>2. RegionInv
    BY DEF RegionInv, NoBlock
  <2>3. NoWrongFree
    BY DEF NoWrongFree
  <2> QED
    BY <1>3, <2>1, <2>2, <2>3 DEF HeapShape
<1>5. ResetInv
  BY <1>2 DEF ResetInv, Reset, Holds, HoldsBytes
<1>6. OffloadInv
  <2> SUFFICES ASSUME heapProgram = "offload" PROVE OffloadInv
    BY DEF OffloadInv
  <2>1. stage \in {"buffers", "exit"}
    BY DEF Reset
  <2>2. \A v \in {"a", "b", "heap"} : ptr[v] = NoBlock
    BY DEF Pointers
  <2>3. Buffers = {} /\ InCall = {} /\ Left({}) = {}
    BY <2>1, <2>2 DEF Buffers, InCall, Left
  <2>4. live = Buffers \union Left({}) \union InCall
    BY <2>3
  <2> QED
    BY <2>1, <2>2, <2>3, <2>4 DEF OffloadInv
<1>7. CallerInv
  <2>1. IsFiniteSet(held)
    BY FS_EmptySet
  <2> QED
    BY <2>1 DEF CallerInv, Reset
<1> QED
  BY <1>4, <1>5, <1>6, <1>7 DEF HeapInv

(* The target's heap, after heap_init and in a round in which it is not laid. *)
LEMMA HeapInitRegion ==
  ASSUME RegionInv, NEW b, b.bytes \in Nat, HeapInit(b)
  PROVE  RegionInv' /\ (ompacc => region' = b /\ targetUsed' = 0)
BY DEF RegionInv, HeapInit

---------------------------------------------------------------------------
(* sym_heap_reset *)

(* Only sym_heap_reset is at its stages: of the others nothing is to be shown. *)
LEMMA OnlyReset ==
  ASSUME Reset, heapProgram' = heapProgram
  PROVE  OffloadInv' /\ CallerInv' /\ Reset'
BY DEF Reset, OffloadInv, CallerInv

LEMMA ResetHeapStep ==
  ASSUME HeapInv, ResetHeap
  PROVE  HeapInv'
<1> DEFINE names == <<"heap">>
           s == <<HeapSize>>
<1>1. /\ Reset /\ round < Rounds /\ round' = round + 1 /\ Malloc(names, s) /\ UnchangedSetup
      /\ stage = "round" /\ stage' = IF ptr'["heap"] = NoBlock THEN "exit" ELSE "arrays"
      /\ IF ptr'["heap"] = NoBlock THEN UNCHANGED <<region, targetUsed>> ELSE HeapInit(ptr'["heap"])
  BY DEF ResetHeap, StageGoto
<1>2. HeapShape /\ ResetInv
  BY DEF HeapInv
<1>3. UNCHANGED <<ompacc, useDdr, heapProgram, heapLine>> /\ capacity' = capacity
  BY <1>1 DEF UnchangedSetup
<1>4. live \subseteq Leaks /\ (NoLeak => Used(SymmetricPool) = 0)
      /\ (NoLeak /\ round >= 1 => HeapSize + 2 * Size + 1 <= capacity)
  <2>1. round >= 1 => round >= 2 \/ round = 1
    BY <1>2, SizesAre
  <2> QED
    BY <1>1, <1>2, <2>1 DEF ResetInv, Holds, HoldsBytes
<1>5. Request(names, s, 1) /\ s[1] = SizeOf("heap") /\ names[1] = "heap"
  BY <1>2, SizesAre DEF Request, Pointers, SizeOf
<1>6. Of("heap", round') \notin live
  <2>1. \A b \in Leaks : b.name = "leak"
    BY OfIs DEF Leaks
  <2> QED
    BY <1>4, <2>1, OfIs
<1>7. /\ PoolsFit' /\ DOMAIN ptr' = Pointers /\ NoWrongFree'
      /\ \A b \in live' : b.pool \in {"ddr", "msmc", "vsmem"}
      /\ ptr'["heap"] = IF 1 \in Got(names, s, 1) THEN Of("heap", round') ELSE NoBlock
      /\ live' = live \union {Of(names[k], round') : k \in Got(names, s, 1)}
      /\ Need(names, s, 1) <= capacity =>
           Used(SymmetricPool)' = Need(names, s, 1) /\ Got(names, s, 1) = 1 .. 1
  <2>1. \A k \in 1 .. 1 : s[k] = SizeOf(names[k]) /\ Of(names[k], round') \notin live
    BY <1>5, <1>6
  <2> HIDE DEF names, s
  <2> QED
    BY <1>1, <1>2, <1>5, <2>1, MallocStep
<1>8. Need(names, s, 1) = Used(SymmetricPool) + HeapSize
  <2>1. Sized(live)
    BY <1>2 DEF HeapShape, PoolsFit
  <2>2. Need(names, s, 1) = Need(names, s, 1 - 1) + s[1] /\ Need(names, s, 0) = Used(SymmetricPool)
    BY <1>5, <2>1, NeedSum
  <2> QED
    BY <2>2
<1>9. 1 \in Got(names, s, 1) <=> Used(SymmetricPool) + HeapSize <= capacity
  BY <1>8 DEF Got
<1>10. NoLeak /\ round >= 1 => ptr'["heap"] # NoBlock
  BY <1>2, <1>4, <1>7, <1>9, SizesAre, OfIsNotNull DEF Pointers
<1>11. HeapShape'
  <2>1. RegionInv'
    <3>1. ptr'["heap"] # NoBlock => ptr'["heap"].bytes \in Nat
      BY <1>2, <1>7, SizesAre, OfIs
    <3> QED
      BY <1>1, <1>2, <3>1, HeapInitRegion DEF HeapShape, RegionInv
  <2> QED
    BY <1>1, <1>2, <1>3, <1>7, <2>1, SizesAre, SetupKept DEF HeapShape
<1>12. ResetInv'
  <2>1. CASE ptr'["heap"] = NoBlock
    <3>1. stage' = "exit" /\ (NoLeak => round = 0)
      BY <1>1, <1>2, <1>10, <2>1, SizesAre
    <3>2. NoLeak' = NoLeak /\ (NoLeak => round' <= 1 /\ ~(round' >= 2))
      BY <1>1, <1>3, <3>1, SetupKept
    <3> QED
      BY <3>1, <3>2 DEF ResetInv
  <2>2. CASE ptr'["heap"] # NoBlock
    <3>1. /\ stage' = "arrays" /\ ptr'["heap"] = Of("heap", round')
          /\ 1 \in Got(names, s, 1) /\ Need(names, s, 1) <= capacity
      BY <1>1, <1>7, <2>2 DEF Got
    <3>2. live' = live \union {Of("heap", round')} /\ (NoLeak => Used(SymmetricPool)' = HeapSize)
      BY <1>2, <1>4, <1>7, <1>8, <3>1, SizesAre
    <3>3. Of("heap", round)' = Of("heap", round') /\ NoLeak' = NoLeak /\ HeapSize' = HeapSize /\ Size' = Size
      BY <1>3, SetupKept DEF Of, SymmetricBlock, Block
    <3>4. Leaks' = Leaks
      <4>1. \A k : Of("leak", k)' = Of("leak", k)
        BY <1>3, SetupKept
      <4>2. round' - 1 = round
        BY <1>1, <1>2, SizesAre
      <4> QED
        BY <1>1, <3>1, <3>3, <4>1, <4>2 DEF Leaks
    <3>5. Holds' = {"heap"} /\ HoldsBytes' = HeapSize
      BY <3>1, <3>3 DEF Holds, HoldsBytes
    <3>6. ompacc' => region' = ptr'["heap"] /\ targetUsed' = 0
      BY <1>1, <1>3, <2>2 DEF HeapInit
    <3>7. NoLeak' => (round' >= 2 => HeapSize' + 2 * Size' + 1 <= capacity')
      BY <1>1, <1>2, <1>3, <1>4, <3>3, SizesAre
    <3>8. round' >= 1
      BY <1>1, <1>2, SizesAre
    <3> QED
      BY <1>4, <3>1, <3>2, <3>3, <3>4, <3>5, <3>6, <3>7, <3>8 DEF ResetInv
  <2> QED
    BY <2>1, <2>2
<1> QED
  BY <1>1, <1>3, <1>11, <1>12, OnlyReset DEF HeapInv
LEMMA ResetArraysStep ==
  ASSUME HeapInv, Reset, ResetArrays
  PROVE  HeapInv'
<1> DEFINE names == <<"a", "b">>
           s == <<Size, Size>>
           N == {Of(names[k], round') : k \in Got(names, s, 2)}
<1>1. /\ round' = round /\ Malloc(names, s) /\ UnchangedSetup /\ UNCHANGED <<region, targetUsed>>
      /\ stage = "arrays"
      /\ stage' = IF NoBlock \in {ptr'["a"], ptr'["b"]} THEN "killed" ELSE "target"
  BY DEF ResetArrays, StageGoto
<1>2. HeapShape /\ ResetInv
  BY DEF HeapInv
<1>3. UNCHANGED <<ompacc, useDdr, heapProgram, heapLine>> /\ capacity' = capacity
  BY <1>1 DEF UnchangedSetup
<1>4. /\ Holds = {"heap"} /\ ptr["heap"] = Of("heap", round) /\ Of("heap", round) \in live
      /\ live \subseteq {Of("heap", round)} \union Leaks
      /\ (NoLeak => Used(SymmetricPool) = HeapSize) /\ round >= 1
      /\ (ompacc => region = Of("heap", round) /\ targetUsed = 0)
      /\ (NoLeak /\ round >= 2 => HeapSize + 2 * Size + 1 <= capacity)
  <2>1. Holds = {"heap"} /\ HoldsBytes = HeapSize
    BY <1>1 DEF Holds, HoldsBytes
  <2> QED
    BY <1>1, <1>2, <2>1 DEF ResetInv
<1>5. /\ Request(names, s, 2) /\ names[1] = "a" /\ names[2] = "b"
      /\ \A k \in 1 .. 2 : s[k] = Size /\ SizeOf(names[k]) = Size
  BY <1>2, SizesAre DEF Request, Pointers, SizeOf
<1>6. \A k \in 1 .. 2 : Of(names[k], round') \notin live
  <2>1. \A b \in Leaks : b.name = "leak"
    BY OfIs DEF Leaks
  <2>2. \A b \in live : b.name \in {"heap", "leak"}
    BY <1>4, <2>1, OfIs
  <2> QED
    BY <2>2, <1>5, OfIs
<1>7. /\ PoolsFit' /\ DOMAIN ptr' = Pointers /\ NoWrongFree'
      /\ \A b \in live' : b.pool \in {"ddr", "msmc", "vsmem"}
      /\ \A k \in 1 .. 2 : ptr'[names[k]] =
           IF k \in Got(names, s, 2) THEN Of(names[k], round') ELSE NoBlock
      /\ ptr'["heap"] = ptr["heap"]
      /\ live' = live \union N
      /\ Need(names, s, 2) <= capacity =>
           Used(SymmetricPool)' = Need(names, s, 2) /\ Got(names, s, 2) = 1 .. 2
  <2>1. \A k \in 1 .. 2 : s[k] = SizeOf(names[k])
    BY <1>5
  <2>2. \A k \in 1 .. 2 : names[k] # "heap"
    BY <1>5
  <2>3. "heap" \in Pointers
    BY DEF Pointers
  <2> HIDE DEF names, s
  <2> QED
    BY <1>1, <1>2, <1>5, <1>6, <2>1, <2>2, <2>3, MallocStep
<1>8. Need(names, s, 2) = Used(SymmetricPool) + 2 * Size
  <2>1. Sized(live) /\ Used(SymmetricPool) \in Nat /\ Size \in Nat
    BY <1>2, SizesAre DEF HeapShape, PoolsFit
  <2>2. /\ Need(names, s, 2) = Need(names, s, 2 - 1) + s[2]
        /\ Need(names, s, 1) = Need(names, s, 1 - 1) + s[1]
        /\ Need(names, s, 0) = Used(SymmetricPool)
    BY <1>5, <2>1, NeedSum
  <2> QED
    BY <2>1, <2>2
<1>9. HeapShape'
  <2>1. RegionInv'
    BY <1>1, <1>2 DEF HeapShape, RegionInv
  <2> QED
    BY <1>1, <1>2, <1>3, <1>7, <2>1, SizesAre, SetupKept DEF HeapShape
<1>10. ResetInv'
  <2>1. CASE stage' = "killed"
    <3>1. Got(names, s, 2) # 1 .. 2
      <4>1. ptr'["a"] = NoBlock \/ ptr'["b"] = NoBlock
        BY <1>1, <2>1
      <4> QED
        BY <1>5, <1>7, <4>1, OfIsNotNull DEF Pointers
    <3>2. NoLeak => round <= 1
      BY <1>2, <1>4, <1>7, <1>8, <3>1, SizesAre
    <3> QED
      BY <1>1, <1>2, <1>3, <2>1, <3>2, SizesAre, SetupKept DEF ResetInv
  <2>2. CASE stage' = "target"
    <3>1. Got(names, s, 2) = 1 .. 2
      <4>1. ptr'["a"] # NoBlock /\ ptr'["b"] # NoBlock
        BY <1>1, <2>2
      <4>2. 1 \in Got(names, s, 2) /\ 2 \in Got(names, s, 2)
        BY <1>5, <1>7, <4>1
      <4> QED
        BY <4>2 DEF Got
    <3>2. /\ ptr'["a"] = Of("a", round) /\ ptr'["b"] = Of("b", round)
          /\ live' = live \union {Of("a", round), Of("b", round)}
      BY <1>1, <1>5, <1>7, <3>1
    <3>3. \A v, k : Of(v, k)' = Of(v, k)
      BY <1>3, SetupKept
    <3>4. Leaks' = Leaks
      <4>1. NoLeak' = NoLeak
        BY <1>3, SetupKept
      <4> QED
        BY <1>1, <2>2, <3>3, <4>1 DEF Leaks
    <3>5. Need(names, s, 2) <= capacity
      <4>1. 2 \in Got(names, s, 2)
        BY <3>1
      <4> QED
        BY <4>1 DEF Got
    <3>6. /\ Holds' = {"heap", "a", "b"} /\ HoldsBytes' = HeapSize + 2 * Size
          /\ (NoLeak => Used(SymmetricPool)' = HeapSize + 2 * Size)
      BY <1>2, <1>3, <1>4, <1>7, <1>8, <2>2, <3>5, SizesAre, SetupKept DEF Holds, HoldsBytes
    <3>7. \A v \in Holds' : ptr'[v] = Of(v, round) /\ Of(v, round) \in live'
      BY <1>4, <1>7, <3>2, <3>6
    <3>8. live' \subseteq {Of(v, round) : v \in Holds'} \union Leaks'
      BY <1>4, <3>2, <3>4, <3>6
    <3>9. \A v : Of(v, round)' = Of(v, round)
      BY <1>1, <3>3 DEF Of, SymmetricBlock, Block
    <3>10. NoLeak' => (round' >= 2 => HeapSize' + 2 * Size' + 1 <= capacity')
      BY <1>1, <1>3, <1>4, SetupKept
    <3>11. NoLeak' = NoLeak
      BY <1>3, SetupKept
    <3> QED
      BY <1>1, <1>3, <1>4, <2>2, <3>6, <3>7, <3>8, <3>9, <3>10, <3>11 DEF ResetInv
  <2> QED
    BY <1>1, <2>1, <2>2
<1> QED
  BY <1>3, <1>9, <1>10, OnlyReset DEF HeapInv

(* The blocks of ResetTarget: the handle, and the leak if there is one. *)
LEMMA ResetTargetStep ==
  ASSUME HeapInv, Reset, ResetTarget
  PROVE  HeapInv'
<1> DEFINE names == IF LeakBytes > 0 /\ ~ompacc THEN <<"signals", "leak">> ELSE <<"signals">>
           s == IF LeakBytes > 0 /\ ~ompacc THEN <<1, LeakBytes>> ELSE <<1>>
           n == IF LeakBytes > 0 /\ ~ompacc THEN 2 ELSE 1
           N == {Of(names[k], round') : k \in Got(names, s, n)}
<1>1. /\ round' = round /\ Malloc(names, s) /\ UnchangedSetup /\ region' = region
      /\ stage = "target" /\ stage' = IF ptr'["signals"] = NoBlock THEN "killed" ELSE "free"
      /\ IF LeakBytes > 0 /\ ompacc THEN TargetMalloc(LeakBytes) ELSE targetUsed' = targetUsed
  BY DEF ResetTarget, StageGoto
<1>2. HeapShape /\ ResetInv
  BY DEF HeapInv
<1>3. UNCHANGED <<ompacc, useDdr, heapProgram, heapLine>> /\ capacity' = capacity
  BY <1>1 DEF UnchangedSetup
<1>4. /\ Holds = {"heap", "a", "b"}
      /\ \A v \in Holds : ptr[v] = Of(v, round) /\ Of(v, round) \in live
      /\ live \subseteq {Of(v, round) : v \in Holds} \union Leaks
      /\ (NoLeak => Used(SymmetricPool) = HeapSize + 2 * Size) /\ round >= 1
      /\ (ompacc => region = Of("heap", round) /\ targetUsed = 0)
      /\ (NoLeak /\ round >= 2 => HeapSize + 2 * Size + 1 <= capacity)
  <2>1. Holds = {"heap", "a", "b"} /\ HoldsBytes = HeapSize + 2 * Size
    BY <1>1 DEF Holds, HoldsBytes
  <2> QED
    BY <1>1, <1>2, <2>1 DEF ResetInv
<1>5. /\ Request(names, s, n) /\ 1 \in 1 .. n /\ names[1] = "signals" /\ s[1] = 1
      /\ \A k \in 1 .. n : s[k] = SizeOf(names[k]) /\ names[k] \in {"signals", "leak"}
  <2>1. SizeOf("signals") = 1 /\ SizeOf("leak") = LeakBytes /\ LeakBytes \in Nat
    BY <1>2, SizesAre DEF SizeOf
  <2>2. CASE LeakBytes > 0 /\ ~ompacc
    BY <2>1, <2>2 DEF Request, Pointers
  <2>3. CASE ~(LeakBytes > 0 /\ ~ompacc)
    <3>1. names = <<"signals">> /\ s = <<1>> /\ n = 1
      BY <2>3
    <3> HIDE DEF names, s, n
    <3> QED
      BY <2>1, <3>1 DEF Request, Pointers
  <2> QED
    BY <2>2, <2>3
<1>6. NoLeak <=> n = 1
  BY <1>2, SizesAre DEF NoLeak, HeapShape
<1>7. \A k \in 1 .. n : Of(names[k], round') \notin live
  <2>1. \A b \in Leaks : b.name = "leak" /\ b.nr # round
    <3>1. Leaks = {} \/ Leaks = {Of("leak", k) : k \in 1 .. (round - 1)}
      BY <1>1 DEF Leaks
    <3> QED
      BY <1>2, <3>1, SizesAre, OfIs
  <2>2. \A b \in live : b.name \in {"heap", "a", "b"} \/ b.nr # round
    BY <1>4, <2>1, OfIs
  <2>3. \A b \in live : b.name # "signals"
    BY <1>4, <2>1, OfIs
  <2> QED
    BY <1>1, <1>5, <2>2, <2>3, OfIs
<1> HIDE DEF names, s, n
<1>8. /\ PoolsFit' /\ DOMAIN ptr' = Pointers /\ NoWrongFree'
      /\ \A b \in live' : b.pool \in {"ddr", "msmc", "vsmem"}
      /\ ptr'["signals"] = IF 1 \in Got(names, s, n) THEN Of("signals", round') ELSE NoBlock
      /\ \A v \in Holds : ptr'[v] = ptr[v]
      /\ live' = live \union N
      /\ Need(names, s, n) <= capacity =>
           Used(SymmetricPool)' = Need(names, s, n) /\ Got(names, s, n) = 1 .. n
  <2>1. \A v \in Holds : v \in Pointers /\ \A k \in 1 .. n : names[k] # v
    BY <1>4, <1>5 DEF Pointers
  <2> QED
    BY <1>1, <1>2, <1>5, <1>7, <2>1, MallocStep
<1>9. Need(names, s, 1) = Used(SymmetricPool) + 1 /\ (n = 1 \/ n = 2)
  <2>1. Sized(live)
    BY <1>2 DEF HeapShape, PoolsFit
  <2>2. Need(names, s, 1) = Need(names, s, 1 - 1) + s[1] /\ Need(names, s, 0) = Used(SymmetricPool)
    BY <1>5, <2>1, NeedSum
  <2> QED
    BY <1>5, <2>2 DEF n
<1>10. targetUsed' = IF ompacc THEN LeakBytes ELSE targetUsed
  <2>1. CASE ompacc
    <3>1. region.bytes = HeapSize /\ targetUsed = 0 /\ LeakBytes \in Nat /\ LeakBytes <= HeapSize
      BY <1>2, <1>4, <2>1, SizesAre, OfIs DEF SizeOf
    <3> QED
      BY <1>1, <2>1, <3>1 DEF TargetMalloc
  <2>2. CASE ~ompacc
    BY <1>1, <2>2
  <2> QED
    BY <2>1, <2>2
<1>11. HeapShape'
  <2>1. RegionInv'
    <3>1. ompacc => region.bytes = HeapSize /\ LeakBytes \in 0 .. HeapSize
      BY <1>2, <1>4, SizesAre, OfIs DEF SizeOf
    <3> QED
      BY <1>1, <1>2, <1>10, <3>1 DEF HeapShape, RegionInv
  <2> QED
    BY <1>1, <1>2, <1>3, <1>8, <2>1, SizesAre, SetupKept DEF HeapShape
<1>12. ResetInv'
  <2>0. NoLeak' = NoLeak /\ HeapSize' = HeapSize /\ Size' = Size /\ LeakBytes' = LeakBytes
    BY <1>3, SetupKept
  <2>1. CASE stage' = "killed"
    <3>1. 1 \notin Got(names, s, n)
      BY <1>1, <1>8, <2>1, OfIsNotNull DEF Pointers
    <3>2. NoLeak => Need(names, s, 1) > capacity
      <4>1. Used(SymmetricPool) \in Nat /\ capacity \in Nat
        BY <1>2, SizesAre DEF HeapShape, PoolsFit
      <4> QED
        BY <1>5, <1>9, <3>1, <4>1 DEF Got
    <3>3. NoLeak => round <= 1
      BY <1>2, <1>4, <1>9, <3>2, SizesAre
    <3> QED
      BY <1>1, <1>2, <1>3, <2>0, <2>1, <3>3, SizesAre DEF ResetInv
  <2>2. CASE stage' = "free"
    <3>1. 1 \in Got(names, s, n) /\ Need(names, s, 1) <= capacity /\ ptr'["signals"] = Of("signals", round)
      BY <1>1, <1>8, <2>2 DEF Got
    <3>2. Of("signals", round) \in N
      BY <1>1, <1>5, <3>1
    <3>3. \A v, k : Of(v, k)' = Of(v, k)
      BY <1>3, SetupKept
    <3>4. Leaks' = IF NoLeak THEN {} ELSE {Of("leak", k) : k \in 1 .. round}
      BY <1>1, <2>0, <2>2, <3>3 DEF Leaks
    <3>5. Holds' = {"heap", "a", "b", "signals"} /\ HoldsBytes' = HeapSize + 2 * Size + 1
      BY <2>0, <2>2 DEF Holds, HoldsBytes
    <3>6. NoLeak => Used(SymmetricPool)' = HeapSize + 2 * Size + 1
      BY <1>2, <1>4, <1>6, <1>8, <1>9, <3>1, SizesAre
    <3>7. \A v \in Holds' : ptr'[v] = Of(v, round) /\ Of(v, round) \in live'
      BY <1>4, <1>8, <3>1, <3>2, <3>5
    <3>8. live' \subseteq {Of(v, round) : v \in Holds'} \union Leaks'
      <4>1. Leaks \subseteq Leaks'
        <5>1. 1 .. round - 1 \subseteq 1 .. round
          BY <1>2, SizesAre
        <5> QED
          BY <1>1, <3>4, <5>1 DEF Leaks
      <4>2. N \subseteq {Of("signals", round)} \union Leaks'
        <5>1. N \subseteq {Of(names[k], round) : k \in 1 .. n}
          BY <1>1 DEF Got
        <5>2. CASE NoLeak
          BY <1>5, <1>6, <5>1, <5>2
        <5>3. CASE ~NoLeak
          <6>1. Of("leak", round) \in Leaks'
            BY <1>2, <1>4, <3>4, <5>3, SizesAre
          <6> QED
            BY <1>5, <5>1, <6>1
        <5> QED
          BY <5>2, <5>3
      <4> QED
        BY <1>4, <1>8, <3>5, <4>1, <4>2
    <3>9. \A v : Of(v, round)' = Of(v, round)
      BY <1>1, <3>3 DEF Of, SymmetricBlock, Block
    <3>10. NoLeak => HeapSize + 2 * Size + 1 <= capacity
      BY <1>2, <1>4, <1>9, <3>1, SizesAre
    <3>11. ompacc' => region' = Of("heap", round)' /\ targetUsed' = LeakBytes'
      BY <1>1, <1>3, <1>4, <1>10, <2>0, <3>9
    <3> QED
      BY <1>1, <1>3, <1>4, <2>0, <2>2, <3>5, <3>6, <3>7, <3>8, <3>9, <3>10, <3>11 DEF ResetInv
  <2> QED
    BY <1>1, <2>1, <2>2
<1> QED
  BY <1>3, <1>11, <1>12, OnlyReset DEF HeapInv
(* Blocks of the programs that are allocated are freed where they are from. *)
LEMMA FreeStep ==
  ASSUME HeapShape, UnchangedSetup, NEW blocks, SymmetricFree(blocks),
         \A b \in blocks \ {NoBlock} : b \in live /\ b.pool = SymmetricPool
  PROVE  /\ live' = live \ blocks /\ NoWrongFree' /\ PoolsFit'
         /\ \A b \in live' : b.pool \in {"ddr", "msmc", "vsmem"}
<1>1. live' = live \ blocks /\ NoWrongFree'
  <2>1. NoWrongFree /\ live' = live \ blocks
        /\ wrongFree' = (wrongFree \/ \E b \in blocks \ {NoBlock} : b \notin live \/ b.pool # SymmetricPool)
    BY DEF SymmetricFree, FreeTo, HeapShape
  <2> QED
    BY <2>1, NothingFreed, FreesRightly
<1>2. PoolsFit /\ capacity' = capacity /\ capacity \in Nat
  BY SizesAre DEF HeapShape, UnchangedSetup
<1>3. PoolsFit'
  BY <1>1, <1>2, DropBlocks
<1> QED
  BY <1>1, <1>3 DEF HeapShape

LEMMA ResetFreeStep ==
  ASSUME HeapInv, Reset, ResetFree
  PROVE  HeapInv'
<1> DEFINE blocks == {ptr[v] : v \in {"signals", "a", "b", "heap"}}
<1>1. /\ round' = round /\ SymmetricFree(blocks) /\ UnchangedSetup /\ UNCHANGED <<region, targetUsed>>
      /\ stage = "free" /\ stage' = "round" /\ DOMAIN ptr' = Pointers
  BY DEF ResetFree, StageGoto
<1>2. HeapShape /\ ResetInv
  BY DEF HeapInv
<1>3. UNCHANGED <<ompacc, useDdr, heapProgram, heapLine>> /\ capacity' = capacity
  BY <1>1 DEF UnchangedSetup
<1>4. /\ Holds = {"heap", "a", "b", "signals"}
      /\ \A v \in Holds : ptr[v] = Of(v, round) /\ Of(v, round) \in live
      /\ live \subseteq {Of(v, round) : v \in Holds} \union Leaks /\ round >= 1
      /\ (NoLeak => HeapSize + 2 * Size + 1 <= capacity)
  <2>1. Holds = {"heap", "a", "b", "signals"}
    BY <1>1 DEF Holds
  <2>2. round >= 1
    BY <1>1, <1>2, <2>1 DEF ResetInv
  <2>3. round = 1 \/ round >= 2
    BY <1>2, <2>2, SizesAre
  <2> QED
    BY <1>1, <1>2, <2>1, <2>2, <2>3 DEF ResetInv
<1>5. blocks = {Of(v, round) : v \in Holds}
  BY <1>4
<1>6. \A b \in blocks : b \in live /\ b.pool = SymmetricPool
  BY <1>4, <1>5, OfIs
<1> HIDE DEF blocks
<1>7. /\ live' = live \ blocks /\ NoWrongFree' /\ PoolsFit'
      /\ \A b \in live' : b.pool \in {"ddr", "msmc", "vsmem"}
  BY <1>1, <1>2, <1>6, FreeStep
<1>8. HeapShape'
  <2>1. RegionInv'
    BY <1>1, <1>2 DEF HeapShape, RegionInv
  <2> QED
    BY <1>1, <1>2, <1>3, <1>7, <2>1, SizesAre, SetupKept DEF HeapShape
<1>9. ResetInv'
  <2>1. NoLeak' = NoLeak /\ HeapSize' = HeapSize /\ Size' = Size
    BY <1>3, SetupKept
  <2>2. Leaks' = Leaks
    <3>1. \A k : Of("leak", k)' = Of("leak", k)
      BY <1>3, SetupKept
    <3> QED
      BY <1>1, <2>1, <3>1 DEF Leaks
  <2>3. Holds' = {} /\ HoldsBytes' = 0
    BY <1>1 DEF Holds, HoldsBytes
  <2>4. live' \subseteq Leaks'
    BY <1>4, <1>5, <1>7, <2>2
  <2>5. NoLeak => Used(SymmetricPool)' = 0
    <3>1. NoLeak => live' = {}
      BY <2>1, <2>4 DEF Leaks
    <3>2. live' = {} => {b \in live' : b.pool = SymmetricPool'} = {}
      OBVIOUS
    <3> QED
      BY <3>1, <3>2, BytesEmpty DEF Used, Bytes
  <2> QED
    BY <1>1, <1>3, <1>4, <2>1, <2>3, <2>4, <2>5 DEF ResetInv
<1> QED
  BY <1>3, <1>8, <1>9, OnlyReset DEF HeapInv

LEMMA ResetExitStep ==
  ASSUME HeapInv, ResetExit
  PROVE  HeapInv'
<1>1. /\ Reset /\ round' = round /\ UnchangedSetup /\ UNCHANGED <<memVars, ptr>>
      /\ stage = "round" /\ stage' = "exit" /\ round = Rounds
  BY DEF ResetExit, StageGoto
<1>2. HeapShape /\ ResetInv
  BY DEF HeapInv
<1>3. UNCHANGED <<ompacc, useDdr, heapProgram, heapLine>> /\ capacity' = capacity
  BY <1>1 DEF UnchangedSetup
<1>4. PoolsFit'
  BY <1>1, <1>2, <1>3, SizesAre, DropBlocks DEF memVars, HeapShape
<1>5. HeapShape'
  BY <1>1, <1>2, <1>3, <1>4, SetupKept, NothingFreed DEF HeapShape, RegionInv, memVars
<1>6. ResetInv'
  <2>1. NoLeak' = NoLeak /\ HeapSize' = HeapSize /\ Size' = Size /\ Rounds' = Rounds
    BY <1>3, SetupKept
  <2>2. ~(round < Rounds)
    BY <1>1, <1>2, SizesAre
  <2>3. NoLeak /\ round >= 2 => HeapSize + 2 * Size + 1 <= capacity
    BY <1>1, <1>2 DEF ResetInv
  <2> QED
    BY <1>1, <1>3, <2>1, <2>2, <2>3 DEF ResetInv
<1> QED
  BY <1>1, <1>3, <1>5, <1>6, OnlyReset DEF HeapInv
---------------------------------------------------------------------------
(* offload *)

LEMMA OnlyOffload ==
  ASSUME heapProgram = "offload", heapProgram' = heapProgram
  PROVE  ResetInv' /\ CallerInv' /\ ~Reset
BY DEF Reset, ResetInv, CallerInv

LEMMA LeftKept ==
  ASSUME UNCHANGED <<ompacc, useDdr, heapProgram, heapLine>>
  PROVE  \A K : Left(K)' = Left(K)
<1>1. \A v, k : Of(v, k)' = Of(v, k)
  BY SetupKept
<1> QED
  BY <1>1 DEF Left

LEMMA LeftIs == \A K : \A b \in Left(K) : b.name \in Five /\ b.nr \in K
<1> SUFFICES ASSUME NEW K, NEW v \in Five, NEW k \in K PROVE Of(v, k).name \in Five /\ Of(v, k).nr \in K
  BY DEF Left
<1> QED
  BY OfIs

LEMMA OffloadBuffersStep ==
  ASSUME HeapInv, heapProgram = "offload", OffloadBuffers
  PROVE  HeapInv'
<1> DEFINE names == <<"a", "b", "heap">>
           s == <<Size, Size, HeapSize>>
           N == {Of(names[k], round') : k \in Got(names, s, 3)}
<1>1. /\ round' = round /\ Malloc(names, s) /\ UnchangedSetup
      /\ stage = "buffers" /\ stage' \in {"call", "killed"}
      /\ IF stage' = "call" THEN HeapInit(ptr'["heap"]) ELSE UNCHANGED <<region, targetUsed>>
  BY DEF OffloadBuffers, StageGoto
<1>2. HeapShape /\ OffloadInv
  BY DEF HeapInv
<1>3. UNCHANGED <<ompacc, useDdr, heapProgram, heapLine>> /\ capacity' = capacity
  BY <1>1 DEF UnchangedSetup
<1>4. round = 0 /\ live = {}
  <2>1. round = 0 /\ Buffers = {} /\ InCall = {}
    BY <1>1, <1>2 DEF OffloadInv, InCall
  <2>2. PICK K \in SUBSET (1 .. round) : live = Buffers \union Left(K) \union InCall
    BY <1>1, <1>2 DEF OffloadInv
  <2>3. K = {}
    BY <2>1, <2>2
  <2>4. Left({}) = {}
    BY DEF Left
  <2> QED
    BY <2>1, <2>2, <2>3, <2>4
<1>5. /\ Request(names, s, 3) /\ names[1] = "a" /\ names[2] = "b" /\ names[3] = "heap"
      /\ \A k \in 1 .. 3 : s[k] = SizeOf(names[k])
  BY <1>2, SizesAre DEF Request, Pointers, SizeOf
<1>6. /\ PoolsFit' /\ DOMAIN ptr' = Pointers /\ NoWrongFree'
      /\ \A b \in live' : b.pool \in {"ddr", "msmc", "vsmem"}
      /\ \A k \in 1 .. 3 : ptr'[names[k]] =
           IF k \in Got(names, s, 3) THEN Of(names[k], round') ELSE NoBlock
      /\ live' = N
  <2>1. \A k \in 1 .. 3 : Of(names[k], round') \notin live
    BY <1>4
  <2> HIDE DEF names, s
  <2> QED
    BY <1>1, <1>2, <1>4, <1>5, <2>1, MallocStep
<1>7. HeapShape'
  <2>1. RegionInv'
    <3>1. ptr'["heap"].bytes \in Nat
      <4>1. ptr'["heap"] = Of("heap", round') \/ ptr'["heap"] = NoBlock
        BY <1>5, <1>6
      <4>2. NoBlock.bytes \in Nat
        BY DEF NoBlock
      <4> QED
        BY <1>2, <4>1, <4>2, OfIs, SizesAre
    <3> QED
      BY <1>1, <1>2, <3>1, HeapInitRegion DEF HeapShape, RegionInv
  <2> QED
    BY <1>1, <1>2, <1>3, <1>6, <2>1, SizesAre, SetupKept DEF HeapShape
<1>8. OffloadInv'
  <2>1. \A v : Of(v, 0)' = Of(v, 0)
    BY <1>3, SetupKept
  <2>2. \A v \in {"a", "b", "heap"} : ptr'[v] \in {NoBlock, Of(v, 0)}
    BY <1>1, <1>4, <1>5, <1>6
  <2>3. live' = Buffers'
    <3>1. Got(names, s, 3) \subseteq 1 .. 3
      BY DEF Got
    <3>2. {"a", "b", "heap"} = {names[k] : k \in 1 .. 3}
      <4>1. \A k \in 1 .. 3 : k = 1 \/ k = 2 \/ k = 3
        OBVIOUS
      <4> QED
        BY <1>5, <4>1
    <3>3. \A k \in 1 .. 3 : Of(names[k], round') # NoBlock
      BY <1>5, OfIsNotNull DEF Request
    <3> HIDE DEF names, s
    <3>4. N = {ptr'[names[k]] : k \in 1 .. 3} \ {NoBlock}
      BY <1>6, <3>1, <3>3
    <3>5. {ptr'[v] : v \in {"a", "b", "heap"}} = {ptr'[names[k]] : k \in 1 .. 3}
      BY <3>2
    <3> QED
      BY <1>6, <3>4, <3>5 DEF Buffers
  <2>4. stage' = "call" => live' = Buffers' \union Left({})' \union InCall' /\ {} \in SUBSET (1 .. round')
    BY <2>3 DEF Left, InCall
  <2>5. stage' = "call" => \E K \in SUBSET (1 .. round') : live' = Buffers' \union Left(K)' \union InCall'
    BY <2>4
  <2> QED
    BY <1>1, <2>1, <2>2, <2>5 DEF OffloadInv
<1> QED
  BY <1>3, <1>7, <1>8, OnlyOffload DEF HeapInv
LEMMA DataMapPackStep ==
  ASSUME HeapInv, heapProgram = "offload", DataMapPack
  PROVE  HeapInv'
<1> DEFINE names == <<"obj", "inner_h", "inner_h_ints", "inner_t", "inner_t_ints">>
           s == [k \in DOMAIN names |-> 1]
           N == {Of(names[k], round') : k \in Got(names, s, 5)}
<1>1. /\ round < Rounds /\ round' = round + 1 /\ Malloc(names, s) /\ UnchangedSetup
      /\ stage = "call" /\ UNCHANGED <<region, targetUsed>>
      /\ stage' = IF ptr'["obj"] = NoBlock THEN "call"
                  ELSE IF \E k \in DOMAIN names : ptr'[names[k]] = NoBlock THEN "killed"
                  ELSE "data"
  BY DEF DataMapPack, StageGoto
<1>2. HeapShape /\ OffloadInv
  BY DEF HeapInv
<1>3. UNCHANGED <<ompacc, useDdr, heapProgram, heapLine>> /\ capacity' = capacity
  BY <1>1 DEF UnchangedSetup
<1>4. /\ \A v \in {"a", "b", "heap"} : ptr[v] \in {NoBlock, Of(v, 0)}
      /\ \E K \in SUBSET (1 .. round) : live = Buffers \union Left(K)
  BY <1>1, <1>2 DEF OffloadInv, InCall
<1>5. PICK K \in SUBSET (1 .. round) : live = Buffers \union Left(K)
  BY <1>4
<1>6. /\ Request(names, s, 5) /\ names[1] = "obj" /\ {names[k] : k \in 1 .. 5} = Packed
      /\ \A k \in 1 .. 5 : s[k] = 1 /\ names[k] \in Packed
      /\ DOMAIN names = 1 .. 5
  <2>1. DOMAIN names = 1 .. 5 /\ names[1] = "obj"
    OBVIOUS
  <2>2. \A k \in 1 .. 5 : k = 1 \/ k = 2 \/ k = 3 \/ k = 4 \/ k = 5
    OBVIOUS
  <2>3. {names[k] : k \in 1 .. 5} = Packed
    BY <2>2 DEF Packed
  <2>4. \A j, k \in 1 .. 5 : names[j] = names[k] => j = k
    BY <2>2
  <2>5. \A k \in 1 .. 5 : names[k] \in Packed
    BY <2>3
  <2> HIDE DEF names
  <2> QED
    BY <2>1, <2>3, <2>4, <2>5 DEF Request, Packed, Pointers
<1> HIDE DEF names, s
<1>7. \A k \in 1 .. 5 : s[k] = SizeOf(names[k]) /\ Of(names[k], round') \notin live
  <2>1. \A v \in Packed : SizeOf(v) = 1
    BY DEF SizeOf, Packed
  <2>2. \A b \in live : b.nr # round'
    <3>1. \A b \in Left(K) : b.nr \in 1 .. round
      BY LeftIs
    <3>2. \A b \in Buffers : b.nr = 0
      BY <1>4, OfIs DEF Buffers
    <3> QED
      BY <1>1, <1>2, <1>5, <3>1, <3>2, SizesAre
  <2> QED
    BY <1>6, <2>1, <2>2, OfIs
<1>8. /\ PoolsFit' /\ DOMAIN ptr' = Pointers /\ NoWrongFree'
      /\ \A b \in live' : b.pool \in {"ddr", "msmc", "vsmem"}
      /\ \A k \in 1 .. 5 : ptr'[names[k]] =
           IF k \in Got(names, s, 5) THEN Of(names[k], round') ELSE NoBlock
      /\ \A v \in {"a", "b", "heap"} : ptr'[v] = ptr[v]
      /\ live' = live \union N
      /\ \A k \in Got(names, s, 5), j \in 1 .. 5 : j <= k => j \in Got(names, s, 5)
  <2>1. \A v \in {"a", "b", "heap"} : v \in Pointers /\ \A k \in 1 .. 5 : names[k] # v
    BY <1>6 DEF Packed, Pointers
  <2> QED
    BY <1>1, <1>2, <1>6, <1>7, <2>1, MallocStep
<1>9. Got(names, s, 5) \subseteq 1 .. 5 /\ \A k \in 1 .. 5 : Of(names[k], round') # NoBlock
  BY <1>6, OfIsNotNull DEF Got, Request
<1>10. HeapShape'
  <2>1. RegionInv'
    BY <1>1, <1>2 DEF HeapShape, RegionInv
  <2> QED
    BY <1>1, <1>2, <1>3, <1>8, <2>1, SizesAre, SetupKept DEF HeapShape
<1>11. OffloadInv'
  <2>1. /\ \A v, k : Of(v, k)' = Of(v, k)
        /\ \A L : Left(L)' = Left(L)
        /\ Buffers' = Buffers
    BY <1>3, <1>8, SetupKept, LeftKept DEF Buffers
  <2>2. \A v \in {"a", "b", "heap"} : ptr'[v] \in {NoBlock, Of(v, 0)'}
    BY <1>4, <1>8, <2>1
  <2>3. \A v : Of(v, round)' = Of(v, round')
    BY <1>3, SetupKept DEF Of, SymmetricBlock, Block
  <2>4. CASE ptr'["obj"] = NoBlock
    <3>1. stage' = "call" /\ 1 \notin Got(names, s, 5)
      <4>1. stage' = "call"
        BY <1>1, <2>4
      <4>2. 1 \in 1 .. 5
        OBVIOUS
      <4> QED
        BY <1>6, <1>8, <1>9, <2>4, <4>1, <4>2
    <3>2. Got(names, s, 5) = {}
      <4>1. \A k \in Got(names, s, 5) : 1 <= k /\ 1 \in 1 .. 5
        BY <1>9
      <4> QED
        BY <1>8, <3>1, <4>1
    <3>3. live' = Buffers' \union Left(K)' \union InCall'
      BY <1>5, <1>8, <2>1, <3>1, <3>2 DEF InCall
    <3>4. K \in SUBSET (1 .. round')
      BY <1>1, <1>2, SizesAre
    <3>5. \E L \in SUBSET (1 .. round') : live' = Buffers' \union Left(L)' \union InCall'
      BY <3>3, <3>4
    <3> QED
      BY <1>3, <2>2, <3>1, <3>5 DEF OffloadInv
  <2>5. CASE ptr'["obj"] # NoBlock /\ stage' # "data"
    <3>1. stage' = "killed"
      BY <1>1, <2>5
    <3> QED
      BY <3>1 DEF OffloadInv
  <2>6. CASE ptr'["obj"] # NoBlock /\ stage' = "data"
    <3>1. \A k \in 1 .. 5 : ptr'[names[k]] # NoBlock
      BY <1>1, <1>6, <2>6
    <3>2. Got(names, s, 5) = 1 .. 5
      BY <1>8, <1>9, <3>1
    <3>3. N = {Of(v, round') : v \in Packed}
      BY <1>6, <3>2
    <3>4. \A v \in Packed : ptr'[v] = Of(v, round')
      <4> TAKE v \in Packed
      <4>1. PICK k \in 1 .. 5 : v = names[k]
        BY <1>6
      <4> QED
        BY <1>8, <3>2, <4>1
    <3>5. InCall' = {Of(v, round') : v \in Packed}
      BY <2>3, <2>6 DEF InCall
    <3>6. live' = Buffers' \union Left(K)' \union InCall'
      BY <1>5, <1>8, <2>1, <3>3, <3>5
    <3>7. round' - 1 = round /\ round' >= 1
      BY <1>1, <1>2, SizesAre
    <3>8. \E L \in SUBSET (1 .. round' - 1) : live' = Buffers' \union Left(L)' \union InCall'
      BY <3>6, <3>7
    <3> QED
      BY <1>3, <2>2, <2>3, <2>6, <3>4, <3>7, <3>8 DEF OffloadInv
  <2> QED
    BY <2>4, <2>5, <2>6
<1> QED
  BY <1>3, <1>10, <1>11, OnlyOffload DEF HeapInv
LEMMA DataMapRegionStep ==
  ASSUME HeapInv, heapProgram = "offload", DataMapRegion
  PROVE  HeapInv'
<1> DEFINE ints == SymmetricBlock("region_ints", round, 1)
<1>1. /\ round' = round /\ UnchangedSetup /\ UNCHANGED <<wrongFree, region, targetUsed>>
      /\ stage = "data" /\ stage' = IF Fits(SymmetricPool, 1) THEN "return" ELSE "killed"
      /\ ptr' = [ptr EXCEPT !["host_ints"] = ptr["inner_t_ints"],
                            !["inner_t_ints"] = IF Fits(SymmetricPool, 1) THEN ints ELSE NoBlock]
      /\ live' = live \union (IF Fits(SymmetricPool, 1) THEN {ints} ELSE {})
  BY DEF DataMapRegion, StageGoto
<1>2. HeapShape /\ OffloadInv
  BY DEF HeapInv
<1>3. UNCHANGED <<ompacc, useDdr, heapProgram, heapLine>> /\ capacity' = capacity
  BY <1>1 DEF UnchangedSetup
<1>4. /\ \A v \in {"a", "b", "heap"} : ptr[v] \in {NoBlock, Of(v, 0)}
      /\ \A v \in Packed : ptr[v] = Of(v, round)
      /\ InCall = {Of(v, round) : v \in Packed} /\ round >= 1
      /\ \E K \in SUBSET (1 .. round - 1) : live = Buffers \union Left(K) \union InCall
  BY <1>1, <1>2 DEF OffloadInv, InCall
<1>5. PICK K \in SUBSET (1 .. round - 1) : live = Buffers \union Left(K) \union InCall
  BY <1>4
<1>6. ints = Of("region_ints", round)
  BY DEF Of, SizeOf
<1> HIDE DEF ints
<1>7. ints \notin live /\ ints.bytes = 1 /\ ints.pool = SymmetricPool
  <2>1. \A b \in Buffers : b.name \in {"a", "b", "heap"}
    BY <1>4, OfIs DEF Buffers
  <2>2. \A b \in InCall : b.name \in Packed
    BY <1>4, OfIs
  <2>3. \A b \in Left(K) : b.nr \in 1 .. round - 1
    BY LeftIs
  <2>4. ints.name = "region_ints" /\ ints.nr = round /\ ints.bytes = 1 /\ ints.pool = SymmetricPool
    BY <1>6, OfIs DEF SizeOf
  <2>5. round \notin 1 .. round - 1 /\ "region_ints" \notin Packed
    BY <1>2, SizesAre DEF Packed
  <2> QED
    BY <1>5, <2>1, <2>2, <2>3, <2>4, <2>5
<1>8. PoolsFit' /\ \A b \in live' : b.pool \in {"ddr", "msmc", "vsmem"}
  <2>1. PoolsFit /\ capacity \in Nat /\ SymmetricPool \in {"ddr", "msmc", "vsmem"}
    BY <1>2, SizesAre DEF HeapShape
  <2>2. CASE Fits(SymmetricPool, 1)
    BY <1>1, <1>2, <1>3, <1>7, <2>1, <2>2, AddOne DEF HeapShape
  <2>3. CASE ~Fits(SymmetricPool, 1)
    BY <1>1, <1>2, <1>3, <2>1, <2>3, DropBlocks DEF HeapShape
  <2> QED
    BY <2>2, <2>3
<1>9. /\ DOMAIN ptr' = Pointers
      /\ ptr'["host_ints"] = ptr["inner_t_ints"]
      /\ \A v \in Pointers \ {"host_ints", "inner_t_ints"} : ptr'[v] = ptr[v]
      /\ Fits(SymmetricPool, 1) => ptr'["inner_t_ints"] = ints
  BY <1>1, <1>2 DEF HeapShape, Pointers
<1>10. HeapShape'
  <2>1. RegionInv'
    BY <1>1, <1>2 DEF HeapShape, RegionInv
  <2> QED
    BY <1>1, <1>2, <1>3, <1>8, <1>9, <2>1, SetupKept, NothingFreed DEF HeapShape
<1>11. OffloadInv'
  <2>1. CASE Fits(SymmetricPool, 1)
    <3>1. stage' = "return" /\ live' = live \union {ints}
      BY <1>1, <2>1
    <3>2. /\ \A v, k : Of(v, k)' = Of(v, k)
          /\ \A L : Left(L)' = Left(L)
          /\ \A v : Of(v, round)' = Of(v, round)
      <4>1. \A v, k : Of(v, k)' = Of(v, k)
        BY <1>3, SetupKept
      <4> QED
        BY <1>1, <1>3, <4>1, LeftKept DEF Of, SymmetricBlock, Block
    <3>3. Buffers' = Buffers
      BY <1>9 DEF Buffers, Pointers
    <3>4. InCall' = InCall \union {ints}
      BY <1>4, <1>6, <3>1, <3>2 DEF InCall
    <3>5. live' = Buffers' \union Left(K)' \union InCall'
      BY <1>5, <3>1, <3>2, <3>3, <3>4
    <3>6. \E L \in SUBSET (1 .. round' - 1) : live' = Buffers' \union Left(L)' \union InCall'
      BY <1>1, <3>5
    <3>7. \A v \in {"a", "b", "heap"} : ptr'[v] \in {NoBlock, Of(v, 0)'}
      BY <1>4, <1>9, <3>2 DEF Pointers
    <3>8. /\ ptr'["host_ints"] = Of("inner_t_ints", round)'
          /\ ptr'["inner_t_ints"] = Of("region_ints", round)'
          /\ \A v \in Packed \ {"inner_t_ints"} : ptr'[v] = Of(v, round)'
      BY <1>4, <1>6, <1>9, <2>1, <3>2 DEF Packed, Pointers
    <3> QED
      BY <1>1, <1>3, <1>4, <3>1, <3>6, <3>7, <3>8 DEF OffloadInv
  <2>2. CASE ~Fits(SymmetricPool, 1)
    BY <1>1, <2>2 DEF OffloadInv
  <2> QED
    BY <2>1, <2>2
<1> QED
  BY <1>3, <1>10, <1>11, OnlyOffload DEF HeapInv

LEMMA DataMapReturnStep ==
  ASSUME HeapInv, heapProgram = "offload", DataMapReturn
  PROVE  HeapInv'
<1> DEFINE b == ptr["host_ints"]
           of(vs) == {Of(v, round) : v \in vs}
<1>1. /\ round' = round /\ UnchangedSetup /\ UNCHANGED <<region, targetUsed, ptr>>
      /\ stage = "return" /\ stage' = "print" /\ SymmetricFree({b})
  BY DEF DataMapReturn, StageGoto
<1>2. HeapShape /\ OffloadInv
  BY DEF HeapInv
<1>3. UNCHANGED <<ompacc, useDdr, heapProgram, heapLine>> /\ capacity' = capacity
  BY <1>1 DEF UnchangedSetup
<1>4. /\ \A v \in {"a", "b", "heap"} : ptr[v] \in {NoBlock, Of(v, 0)}
      /\ b = Of("inner_t_ints", round)
      /\ \A v \in Packed \ {"inner_t_ints"} : ptr[v] = Of(v, round)
      /\ ptr["inner_t_ints"] = Of("region_ints", round)
      /\ InCall = of(Packed \union {"region_ints"}) /\ round >= 1
      /\ \E K \in SUBSET (1 .. round - 1) : live = Buffers \union Left(K) \union InCall
  BY <1>1, <1>2 DEF OffloadInv, InCall
<1>5. PICK K \in SUBSET (1 .. round - 1) : live = Buffers \union Left(K) \union InCall
  BY <1>4
<1>6. b \in live /\ b.pool = SymmetricPool
  BY <1>4, <1>5, OfIs DEF Packed
<1> HIDE DEF b
<1>7. /\ live' = live \ {b} /\ NoWrongFree' /\ PoolsFit'
      /\ \A c \in live' : c.pool \in {"ddr", "msmc", "vsmem"}
  <2>1. \A c \in {b} \ {NoBlock} : c \in live /\ c.pool = SymmetricPool
    BY <1>6
  <2> QED
    BY <1>1, <1>2, <2>1, FreeStep
<1>8. HeapShape'
  <2>1. RegionInv'
    BY <1>1, <1>2 DEF HeapShape, RegionInv
  <2> QED
    BY <1>1, <1>2, <1>3, <1>7, <2>1, SetupKept DEF HeapShape
<1>9. OffloadInv'
  <2>1. /\ \A v, k : Of(v, k)' = Of(v, k)
        /\ \A L : Left(L)' = Left(L)
        /\ \A v : Of(v, round)' = Of(v, round)
        /\ Buffers' = Buffers /\ InCall' = {}
    <3>1. \A v, k : Of(v, k)' = Of(v, k)
      BY <1>3, SetupKept
    <3> QED
      BY <1>1, <1>3, <3>1, LeftKept DEF Of, SymmetricBlock, Block, Buffers, InCall
  <2>2. of(Packed \union {"region_ints"}) = of(Five) \union {b}
    BY <1>4 DEF Packed, Five
  <2>3. b \notin Buffers /\ b \notin Left(K) /\ b \notin of(Five)
    <3>1. b.name = "inner_t_ints"
      BY <1>4, OfIs
    <3>2. \A c \in Buffers : c.name \in {"a", "b", "heap"}
      BY <1>4, OfIs DEF Buffers
    <3>3. \A c \in Left(K) \union of(Five) : c.name \in Five
      BY LeftIs, OfIs
    <3> QED
      BY <3>1, <3>2, <3>3 DEF Five
  <2>4. Left(K \union {round}) = Left(K) \union of(Five)
    <3>1. \A c : c \in Left(K \union {round}) <=> \E v \in Five, k \in K \union {round} : c = Of(v, k)
      BY DEF Left
    <3>2. \A c : c \in Left(K) <=> \E v \in Five, k \in K : c = Of(v, k)
      BY DEF Left
    <3>3. \A c : c \in of(Five) <=> \E v \in Five : c = Of(v, round)
      OBVIOUS
    <3> QED
      BY <3>1, <3>2, <3>3
  <2> HIDE DEF of
  <2>5. live' = Buffers \union Left(K \union {round})
    BY <1>4, <1>5, <1>7, <2>2, <2>3, <2>4
  <2>6. K \union {round} \in SUBSET (1 .. round')
    <3>1. round \in Nat /\ 1 .. round - 1 \subseteq 1 .. round /\ round \in 1 .. round
      BY <1>2, <1>4, SizesAre
    <3>2. K \subseteq 1 .. round - 1 /\ round' = round
      BY <1>1
    <3> QED
      BY <3>1, <3>2
  <2>7. \E L \in SUBSET (1 .. round') : live' = Buffers' \union Left(L)' \union InCall'
    BY <2>1, <2>5, <2>6
  <2>8. {Of(v, round)' : v \in Five} \subseteq live'
    BY <2>1, <2>4, <2>5 DEF of
  <2> QED
    BY <1>1, <1>3, <1>4, <2>1, <2>7, <2>8 DEF OffloadInv
<1> QED
  BY <1>3, <1>8, <1>9, OnlyOffload DEF HeapInv
LEMMA DataMapPrintStep ==
  ASSUME HeapInv, heapProgram = "offload", DataMapPrint
  PROVE  HeapInv'
<1>1. /\ round' = round /\ UnchangedSetup /\ UNCHANGED memVars
      /\ stage = "print" /\ stage' = "call"
      /\ ptr' = [v \in Pointers |-> IF v \in {"a", "b", "heap"} THEN ptr[v] ELSE NoBlock]
  BY DEF DataMapPrint, StageGoto
<1>2. HeapShape /\ OffloadInv
  BY DEF HeapInv
<1>3. /\ UNCHANGED <<ompacc, useDdr, heapProgram, heapLine>> /\ capacity' = capacity
      /\ live' = live /\ wrongFree' = wrongFree /\ region' = region /\ targetUsed' = targetUsed
  BY <1>1 DEF UnchangedSetup, memVars
<1>4. /\ \A v \in {"a", "b", "heap"} : ptr[v] \in {NoBlock, Of(v, 0)}
      /\ \E K \in SUBSET (1 .. round) : live = Buffers \union Left(K) \union InCall
  BY <1>1, <1>2 DEF OffloadInv
<1>5. /\ DOMAIN ptr' = Pointers /\ \A v \in {"a", "b", "heap"} : ptr'[v] = ptr[v]
      /\ Buffers' = Buffers /\ InCall = {} /\ InCall' = {}
  <2>1. \A v \in {"a", "b", "heap"} : ptr'[v] = ptr[v]
    BY <1>1 DEF Pointers
  <2> QED
    BY <1>1, <2>1 DEF Buffers, InCall
<1>6. HeapShape'
  <2>1. PoolsFit'
    BY <1>2, <1>3, SizesAre, DropBlocks DEF HeapShape
  <2> QED
    BY <1>1, <1>2, <1>3, <1>5, <2>1, SetupKept, NothingFreed DEF HeapShape, RegionInv
<1>7. OffloadInv'
  <2>1. (\A v : Of(v, 0)' = Of(v, 0)) /\ \A L : Left(L)' = Left(L)
    BY <1>3, SetupKept, LeftKept
  <2>2. \E L \in SUBSET (1 .. round') : live' = Buffers' \union Left(L)' \union InCall'
    BY <1>1, <1>3, <1>4, <1>5, <2>1
  <2> QED
    BY <1>1, <1>3, <1>4, <1>5, <2>1, <2>2 DEF OffloadInv
<1> QED
  BY <1>3, <1>6, <1>7, OnlyOffload DEF HeapInv

LEMMA OffloadFreeStep ==
  ASSUME HeapInv, heapProgram = "offload", OffloadFree
  PROVE  HeapInv'
<1> DEFINE blocks == {ptr[v] : v \in {"heap", "a", "b"}}
<1>1. /\ round' = round /\ UnchangedSetup /\ UNCHANGED <<region, targetUsed>>
      /\ stage = "call" /\ stage' = "exit" /\ SymmetricFree(blocks)
      /\ ptr' = [v \in Pointers |-> NoBlock]
  BY DEF OffloadFree, StageGoto
<1>2. HeapShape /\ OffloadInv
  BY DEF HeapInv
<1>3. UNCHANGED <<ompacc, useDdr, heapProgram, heapLine>> /\ capacity' = capacity
  BY <1>1 DEF UnchangedSetup
<1>4. /\ \A v \in {"a", "b", "heap"} : ptr[v] \in {NoBlock, Of(v, 0)}
      /\ \E K \in SUBSET (1 .. round) : live = Buffers \union Left(K)
  BY <1>1, <1>2 DEF OffloadInv, InCall
<1>5. PICK K \in SUBSET (1 .. round) : live = Buffers \union Left(K)
  BY <1>4
<1>6. blocks \ {NoBlock} = Buffers
  BY DEF Buffers
<1>7. \A b \in blocks \ {NoBlock} : b \in live /\ b.pool = SymmetricPool
  <2>1. \A b \in blocks \ {NoBlock} : b.pool = SymmetricPool
    BY <1>4, OfIs
  <2> QED
    BY <1>5, <1>6, <2>1
<1>8. \A b \in Left(K) : b \notin blocks
  <2>1. \A b \in Left(K) : b.name \in Five
    BY LeftIs
  <2>2. \A b \in blocks : b.name \in {"none", "a", "b", "heap"}
    BY <1>4, OfIs DEF NoBlock
  <2> QED
    BY <2>1, <2>2 DEF Five
<1> HIDE DEF blocks
<1>9. /\ live' = live \ blocks /\ NoWrongFree' /\ PoolsFit'
      /\ \A b \in live' : b.pool \in {"ddr", "msmc", "vsmem"}
  BY <1>1, <1>2, <1>7, FreeStep
<1>10. live' = Left(K)
  BY <1>5, <1>6, <1>8, <1>9
<1>11. HeapShape'
  <2>1. RegionInv'
    BY <1>1, <1>2 DEF HeapShape, RegionInv
  <2> QED
    BY <1>1, <1>2, <1>3, <1>9, <2>1, SetupKept DEF HeapShape
<1>12. OffloadInv'
  <2>1. \A L : Left(L)' = Left(L)
    BY <1>3, LeftKept
  <2>2. \A v \in {"a", "b", "heap"} : ptr'[v] = NoBlock
    BY <1>1 DEF Pointers
  <2>3. Buffers' = {} /\ InCall' = {}
    BY <1>1, <2>2 DEF Buffers, InCall
  <2>4. \E L \in SUBSET (1 .. round') : live' = Buffers' \union Left(L)' \union InCall'
    BY <1>1, <1>10, <2>1, <2>3
  <2>5. NoBlock' = NoBlock
    BY DEF NoBlock
  <2> QED
    BY <1>1, <2>2, <2>3, <2>4, <2>5 DEF OffloadInv
<1> QED
  BY <1>3, <1>11, <1>12, OnlyOffload DEF HeapInv

(* Five blocks for each call that got memory. *)
LEMMA LeftCounts ==
  ASSUME NEW n \in Nat, NEW K \in SUBSET (1 .. n)
  PROVE  \E k \in 0 .. n : Cardinality(Left(K)) = 5 * k
<1> DEFINE f == [p \in Five \X K |-> Of(p[1], p[2])]
<1>1. IsFiniteSet(1 .. n) /\ Cardinality(1 .. n) = n
  BY FS_Interval
<1>2. IsFiniteSet(K) /\ Cardinality(K) \in 0 .. n
  <2>1. IsFiniteSet(K) /\ Cardinality(K) <= n
    BY <1>1, FS_Subset
  <2> QED
    BY <2>1, FS_CardinalityType
<1>3. IsFiniteSet(Five) /\ Cardinality(Five) = 5
  <2> DEFINE g == [j \in 1 .. 5 |-> IF j = 1 THEN "obj" ELSE IF j = 2 THEN "inner_h"
                      ELSE IF j = 3 THEN "inner_h_ints" ELSE IF j = 4 THEN "inner_t" ELSE "region_ints"]
  <2>1. \A j \in 1 .. 5 : j = 1 \/ j = 2 \/ j = 3 \/ j = 4 \/ j = 5
    OBVIOUS
  <2>2. /\ g[1] = "obj" /\ g[2] = "inner_h" /\ g[3] = "inner_h_ints"
        /\ g[4] = "inner_t" /\ g[5] = "region_ints" /\ g \in [1 .. 5 -> Five]
    BY DEF Five
  <2> HIDE DEF g
  <2>3. g \in Bijection(1 .. 5, Five)
    <3>1. \A j, k \in 1 .. 5 : g[j] = g[k] => j = k
      BY <2>1, <2>2
    <3>2. \A v \in Five : \E k \in 1 .. 5 : g[k] = v
      BY <2>2 DEF Five
    <3> QED
      BY <2>2, <3>1, <3>2 DEF Bijection, Injection, Surjection, IsInjective
  <2>4. ExistsBijection(1 .. 5, Five)
    BY <2>3 DEF ExistsBijection
  <2>5. IsFiniteSet(1 .. 5) /\ Cardinality(1 .. 5) = 5
    <3>1. \A m \in Nat : IsFiniteSet(1 .. m) /\ Cardinality(1 .. m) = m
      BY FS_Interval
    <3> QED
      BY <3>1
  <2> QED
    BY <2>4, <2>5, FS_Bijection
<1>4. f \in Bijection(Five \X K, Left(K))
  <2>1. f \in [Five \X K -> Left(K)]
    BY DEF Left
  <2>2. \A p, q \in Five \X K : f[p] = f[q] => p = q
    BY OfIs
  <2>3. \A b \in Left(K) : \E p \in Five \X K : f[p] = b
    <3> TAKE b \in Left(K)
    <3>1. PICK v \in Five, k \in K : b = Of(v, k)
      BY DEF Left
    <3> WITNESS <<v, k>> \in Five \X K
    <3> QED
      BY <3>1
  <2> HIDE DEF f
  <2> QED
    BY <2>1, <2>2, <2>3 DEF Bijection, Injection, Surjection, IsInjective
<1>5. IsFiniteSet(Five \X K) /\ Cardinality(Five \X K) = 5 * Cardinality(K)
  BY <1>2, <1>3, FS_Product
<1>6. Cardinality(Left(K)) = Cardinality(Five \X K)
  <2> HIDE DEF f
  <2>1. ExistsBijection(Five \X K, Left(K))
    BY <1>4 DEF ExistsBijection
  <2> QED
    BY <1>5, <2>1, FS_Bijection
<1> QED
  BY <1>2, <1>5, <1>6
---------------------------------------------------------------------------
(* The caller *)

LEMMA OnlyCaller ==
  ASSUME heapProgram = "caller", heapProgram' = heapProgram
  PROVE  ResetInv' /\ OffloadInv' /\ ~Reset
BY DEF Reset, ResetInv, OffloadInv

(* There is a number that no block held has. *)
LEMMA FreshNrIsFresh ==
  ASSUME IsFiniteSet(held), Cardinality(held) < MaxBlocks
  PROVE  \A h \in held : h.block.nr # FreshNr
<1> DEFINE nrs == {h.block.nr : h \in held}
           f == [h \in held |-> h.block.nr]
<1>1. f \in Surjection(held, nrs)
  BY DEF Surjection
<1>2. IsFiniteSet(nrs) /\ Cardinality(nrs) <= Cardinality(held) /\ Cardinality(held) \in Nat
      /\ Cardinality(nrs) \in Nat
  BY <1>1, FS_Surjection, FS_CardinalityType
<1>3. IsFiniteSet(0 .. MaxBlocks) /\ Cardinality(0 .. MaxBlocks) = MaxBlocks + 1
  BY FS_Interval, VsMemAssumption
<1>4. ~(0 .. MaxBlocks \subseteq nrs)
  <2>1. 0 .. MaxBlocks \subseteq nrs => Cardinality(0 .. MaxBlocks) <= Cardinality(nrs)
    BY <1>2, FS_Subset
  <2> QED
    BY <1>2, <1>3, <2>1, VsMemAssumption
<1>5. \E k \in 0 .. MaxBlocks : \A h \in held : h.block.nr # k
  BY <1>4
<1> QED
  BY <1>5 DEF FreshNr

(* A block the caller gets, from the pool it goes back to, or NULL. *)
LEMMA GetStep ==
  ASSUME HeapInv, heapProgram = "caller", Cardinality(held) < MaxBlocks,
         NEW bytes \in CallerSizes, NEW via, Get(PoolOf(via), bytes, via),
         UNCHANGED <<ompacc, useDdr, capacity, wrongFree, heapProgram, heapLine, stage, round, ptr>>
  PROVE  /\ PoolsFit' /\ CallerInv' /\ \A b \in live' : b.pool \in {"ddr", "msmc", "vsmem"}
<1> DEFINE b == Block("block", FreshNr, PoolOf(via), bytes)
<1>1. HeapShape /\ CallerInv
  BY DEF HeapInv
<1>2. bytes \in Nat /\ capacity \in Nat /\ PoolOf(via) \in {"ddr", "msmc", "vsmem"}
  BY <1>1, VsMemAssumption, SizesAre DEF PoolOf
<1>3. b.name = "block" /\ b.nr = FreshNr /\ b.pool = PoolOf(via) /\ b.bytes = bytes
  BY DEF Block
<1>4. PoolOf(via)' = PoolOf(via) /\ \A w : PoolOf(w)' = PoolOf(w)
  BY DEF PoolOf, ScratchPool, SymmetricPool
<1>5. b # ArmOnlyHeap
  BY <1>3 DEF ArmOnlyHeap, NoBlock
<1>6. \A h \in held : h.block # b
  BY <1>1, <1>3, FreshNrIsFresh DEF CallerInv
<1>7. CASE Fits(PoolOf(via), bytes)
  <2>1. live' = live \union {b} /\ held' = held \union {[block |-> b, via |-> via]}
    BY <1>7 DEF Get, Hold
  <2> HIDE DEF b
  <2>2. b \notin live
    BY <1>1, <1>6 DEF CallerInv
  <2>3. PoolsFit'
    BY <1>1, <1>2, <1>3, <1>7, <2>1, <2>2, AddOne DEF HeapShape
  <2>4. IsFiniteSet(held')
    BY <1>1, <2>1, FS_AddElement DEF CallerInv
  <2>5. live' = {h.block : h \in held'} \ {ArmOnlyHeap}
    <3>1. live = {h.block : h \in held} \ {ArmOnlyHeap}
      BY <1>1 DEF CallerInv
    <3>2. {h.block : h \in held'} = {h.block : h \in held} \union {b}
      <4> DEFINE r == [block |-> b, via |-> via]
      <4>1. held' = held \union {r} /\ r.block = b
        BY <2>1
      <4> HIDE DEF r
      <4> QED
        BY <4>1
    <3> QED
      BY <1>5, <2>1, <3>1, <3>2
  <2>6. \A h \in held' :
          IF h.block = ArmOnlyHeap THEN h = [block |-> ArmOnlyHeap, via |-> "heap_destroy"]
          ELSE h.block.bytes \in Nat /\ h.block.pool = PoolOf(h.via)'
    <3>1. b.bytes \in Nat /\ b.pool = PoolOf(via)' /\ \A h \in held : PoolOf(h.via)' = PoolOf(h.via)
      BY <1>2, <1>3, <1>4 DEF b
    <3> QED
      BY <1>1, <1>5, <2>1, <3>1 DEF CallerInv
  <2>7. \A g, h \in held' : g.block = h.block => g = h
    BY <1>1, <1>6, <2>1 DEF CallerInv
  <2>8. ArmOnlyHeap' = ArmOnlyHeap
    BY DEF ArmOnlyHeap, NoBlock
  <2>9. CallerInv'
    BY <1>1, <2>4, <2>5, <2>6, <2>7, <2>8 DEF CallerInv
  <2>10. \A c \in live' : c.pool \in {"ddr", "msmc", "vsmem"}
    BY <1>1, <1>2, <1>3, <2>1 DEF HeapShape
  <2> QED
    BY <2>3, <2>9, <2>10
<1>8. CASE ~Fits(PoolOf(via), bytes)
  <2>1. live' = live /\ held' = held
    BY <1>8 DEF Get
  <2>2. PoolsFit'
    BY <1>1, <1>2, <2>1, DropBlocks DEF HeapShape
  <2>3. ArmOnlyHeap' = ArmOnlyHeap
    BY DEF ArmOnlyHeap, NoBlock
  <2>4. CallerInv'
    BY <1>1, <1>4, <2>1, <2>3 DEF CallerInv
  <2> QED
    BY <1>1, <2>1, <2>2, <2>4 DEF HeapShape
<1> QED
  BY <1>7, <1>8
(* What the caller frees goes back to where it is from. *)
LEMMA CallFreeStep ==
  ASSUME HeapInv, heapProgram = "caller", CallFree,
         UNCHANGED <<ompacc, useDdr, capacity, heapProgram, heapLine, stage, round, ptr>>
  PROVE  HeapInv'
<1>1. HeapShape /\ CallerInv
  BY DEF HeapInv
<1>2. PICK h \in held :
        /\ held' = held \ {h}
        /\ CASE h.block = ArmOnlyHeap -> UNCHANGED <<live, wrongFree>>
             [] h.via = "scratch_free" -> ScratchFree({h.block})
             [] OTHER -> SymmetricFree({h.block})
        /\ IF region = h.block THEN region' = NoBlock /\ targetUsed' = 0
           ELSE UNCHANGED <<region, targetUsed>>
  BY DEF CallFree
<1>3. live' = live \ {h.block} /\ NoWrongFree'
  <2>1. CASE h.block = ArmOnlyHeap
    <3>1. ArmOnlyHeap \notin live
      BY <1>1 DEF CallerInv
    <3>2. h.via # "scratch_free"
      BY <1>1, <2>1 DEF CallerInv
    <3> QED
      BY <1>1, <1>2, <2>1, <3>1, <3>2, NothingFreed DEF HeapShape
  <2>2. CASE h.block # ArmOnlyHeap
    <3>1. h.block \in live /\ h.block.pool = PoolOf(h.via)
      BY <1>1, <2>2 DEF CallerInv
    <3>2. IF h.via = "scratch_free" THEN ScratchFree({h.block}) ELSE SymmetricFree({h.block})
      BY <1>2, <2>2
    <3>3. FreeTo(PoolOf(h.via), {h.block})
      BY <3>2 DEF ScratchFree, SymmetricFree, PoolOf
    <3> QED
      <4>1. NoWrongFree /\ live' = live \ {h.block}
            /\ wrongFree' = (wrongFree \/ \E b \in {h.block} \ {NoBlock} : b \notin live \/ b.pool # PoolOf(h.via))
        BY <1>1, <3>3 DEF FreeTo, HeapShape
      <4>2. \A b \in {h.block} \ {NoBlock} : b \in live /\ b.pool = PoolOf(h.via)
        BY <3>1
      <4> QED
        BY <4>1, <4>2, FreesRightly
  <2> QED
    BY <2>1, <2>2
<1>4. PoolsFit' /\ \A b \in live' : b.pool \in {"ddr", "msmc", "vsmem"}
  <2>1. PoolsFit /\ capacity \in Nat
    BY <1>1, SizesAre DEF HeapShape
  <2> QED
    BY <1>1, <1>3, <2>1, DropBlocks DEF HeapShape
<1>5. RegionInv'
  BY <1>1, <1>2 DEF HeapShape, RegionInv, NoBlock
<1>6. CallerInv'
  <2>1. \A via : PoolOf(via)' = PoolOf(via)
    BY DEF PoolOf, ScratchPool, SymmetricPool
  <2>2. ArmOnlyHeap' = ArmOnlyHeap
    BY DEF ArmOnlyHeap, NoBlock
  <2>3. IsFiniteSet(held')
    BY <1>1, <1>2, FS_Subset DEF CallerInv
  <2>4. live' = {g.block : g \in held'} \ {ArmOnlyHeap}
    <3>1. {g.block : g \in held'} = {g.block : g \in held} \ {h.block}
      BY <1>1, <1>2 DEF CallerInv
    <3> QED
      BY <1>1, <1>3, <3>1 DEF CallerInv
  <2> QED
    BY <1>1, <1>2, <2>1, <2>2, <2>3, <2>4 DEF CallerInv
<1>7. HeapShape'
  BY <1>1, <1>3, <1>4, <1>5, SetupKept DEF HeapShape
<1> QED
  BY <1>6, <1>7, OnlyCaller DEF HeapInv

LEMMA CallerStep ==
  ASSUME HeapInv, heapProgram = "caller", CallerNext,
         UNCHANGED <<heapProgram, heapLine, stage, round, ptr>>
  PROVE  HeapInv'
<1>1. HeapShape /\ CallerInv /\ UNCHANGED <<ompacc, useDdr, capacity>>
  BY DEF HeapInv, CallerNext
<1>2. /\ \A via : via # "scratch_free" => PoolOf(via) = SymmetricPool
      /\ PoolOf("scratch_free") = ScratchPool
  BY DEF PoolOf
<1>3. ASSUME PoolsFit', CallerInv', \A b \in live' : b.pool \in {"ddr", "msmc", "vsmem"},
             RegionInv', wrongFree' = wrongFree
      PROVE  HeapInv'
  <2>1. HeapShape'
    BY <1>1, <1>3, SetupKept, NothingFreed DEF HeapShape
  <2> QED
    BY <1>3, <2>1, OnlyCaller DEF HeapInv
<1>4. ASSUME NEW bytes \in CallerSizes, NEW via, Get(PoolOf(via), bytes, via),
             Cardinality(held) < MaxBlocks, UNCHANGED wrongFree, RegionInv'
      PROVE  HeapInv'
  BY <1>1, <1>3, <1>4, GetStep
<1>5. ASSUME UNCHANGED <<region, targetUsed>>
      PROVE  RegionInv'
  BY <1>1, <1>5 DEF HeapShape, RegionInv
<1>6. ASSUME NEW bytes \in CallerSizes, Cardinality(held) < MaxBlocks, CallSymmetric(bytes)
      PROVE  HeapInv'
  BY <1>2, <1>4, <1>5, <1>6 DEF CallSymmetric
<1>7. ASSUME NEW bytes \in CallerSizes, Cardinality(held) < MaxBlocks, CallScratch(bytes)
      PROVE  HeapInv'
  BY <1>2, <1>4, <1>5, <1>7 DEF CallScratch
<1>8. ASSUME NEW bytes \in CallerSizes, Cardinality(held) < MaxBlocks, CallGetMem(bytes)
      PROVE  HeapInv'
  BY <1>2, <1>4, <1>5, <1>8 DEF CallGetMem
<1>9. ASSUME NEW bytes \in CallerSizes, Cardinality(held) < MaxBlocks, CallHeapCreate(bytes)
      PROVE  HeapInv'
  <2>1. CASE ompacc
    <3> DEFINE b == Block("block", FreshNr, SymmetricPool, bytes)
    <3>1. /\ Get(SymmetricPool, bytes, "heap_destroy") /\ UNCHANGED wrongFree
          /\ IF Fits(SymmetricPool, bytes) THEN HeapInit(b) ELSE UNCHANGED <<region, targetUsed>>
      BY <1>9, <2>1 DEF CallHeapCreate
    <3>2. b.bytes \in Nat
      BY VsMemAssumption DEF Block
    <3> HIDE DEF b
    <3>3. RegionInv'
      BY <1>1, <1>5, <3>1, <3>2, HeapInitRegion DEF HeapShape
    <3> QED
      BY <1>2, <1>4, <1>9, <3>1, <3>3
  <2>2. CASE ~ompacc
    <3> DEFINE r == [block |-> ArmOnlyHeap, via |-> "heap_destroy"]
    <3>1. held' = held \union {r} /\ UNCHANGED memVars
      BY <1>9, <2>2 DEF CallHeapCreate, Hold
    <3>2. UNCHANGED <<live, wrongFree, region, targetUsed>>
      BY <3>1 DEF memVars
    <3>3. r.block = ArmOnlyHeap
      OBVIOUS
    <3>4. PoolsFit'
      BY <1>1, <3>2, SizesAre, DropBlocks DEF HeapShape
    <3>5. CallerInv'
      <4>1. \A via : PoolOf(via)' = PoolOf(via)
        BY <1>1 DEF PoolOf, ScratchPool, SymmetricPool
      <4>2. ArmOnlyHeap' = ArmOnlyHeap
        BY DEF ArmOnlyHeap, NoBlock
      <4>3. IsFiniteSet(held')
        BY <1>1, <3>1, FS_AddElement DEF CallerInv
      <4>4. {h.block : h \in held'} = {h.block : h \in held} \union {ArmOnlyHeap}
        BY <3>1, <3>3
      <4>5. \A h \in held : h.block = ArmOnlyHeap => h = r
        BY <1>1 DEF CallerInv
      <4> QED
        BY <1>1, <3>1, <3>2, <3>3, <4>1, <4>2, <4>3, <4>4, <4>5 DEF CallerInv
    <3> QED
      BY <1>1, <1>3, <1>5, <3>2, <3>4, <3>5 DEF HeapShape
  <2> QED
    BY <2>1, <2>2
<1>10. ASSUME CallFree PROVE HeapInv'
  BY <1>1, <1>10, CallFreeStep
<1>11. ASSUME NEW bytes \in CallerSizes, CallOnTarget(bytes)
       PROVE  HeapInv'
  <2>1. TargetMalloc(bytes) /\ UNCHANGED <<live, wrongFree, region, held>> /\ bytes \in Nat
    BY <1>11, VsMemAssumption DEF CallOnTarget
  <2>2. RegionInv'
    BY <1>1, <2>1 DEF HeapShape, RegionInv, TargetMalloc
  <2>3. PoolsFit'
    BY <1>1, <2>1, SizesAre, DropBlocks DEF HeapShape
  <2>4. CallerInv'
    <3>1. (\A via : PoolOf(via)' = PoolOf(via)) /\ ArmOnlyHeap' = ArmOnlyHeap
      BY <1>1 DEF PoolOf, ScratchPool, SymmetricPool, ArmOnlyHeap, NoBlock
    <3> QED
      BY <1>1, <2>1, <3>1 DEF CallerInv
  <2> QED
    BY <1>1, <1>3, <2>1, <2>2, <2>3, <2>4 DEF HeapShape
<1> QED
  BY <1>6, <1>7, <1>8, <1>9, <1>10, <1>11 DEF CallerNext
---------------------------------------------------------------------------
(* A step of a program or of its caller. *)
LEMMA HeapInvStep ==
  ASSUME HeapInv, [HeapNext]_heapVars
  PROVE  HeapInv'
<1>1. HeapShape /\ ResetInv /\ OffloadInv /\ CallerInv
  BY DEF HeapInv
<1>2. CASE heapProgram # "caller" /\ ProgramNext
  <2>1. Reset \/ heapProgram = "offload"
    BY <1>1, <1>2 DEF HeapShape, Reset
  <2>2. stage \in {"round", "arrays", "target", "free"} => Reset
    BY <1>1, <2>1 DEF OffloadInv
  <2>3. stage \in {"buffers", "call", "data", "return", "print"} => heapProgram = "offload"
    BY <1>1, <2>1 DEF ResetInv
  <2>4. CASE ResetHeap
    BY <2>4, ResetHeapStep
  <2>5. CASE ResetArrays
    BY <2>2, <2>5, ResetArraysStep DEF ResetArrays, StageGoto
  <2>6. CASE ResetTarget
    BY <2>2, <2>6, ResetTargetStep DEF ResetTarget, StageGoto
  <2>7. CASE ResetFree
    BY <2>2, <2>7, ResetFreeStep DEF ResetFree, StageGoto
  <2>8. CASE ResetExit
    BY <2>8, ResetExitStep
  <2>9. CASE OffloadBuffers
    BY <2>3, <2>9, OffloadBuffersStep DEF OffloadBuffers, StageGoto
  <2>10. CASE DataMapPack
    BY <2>3, <2>10, DataMapPackStep DEF DataMapPack, StageGoto
  <2>11. CASE DataMapRegion
    BY <2>3, <2>11, DataMapRegionStep DEF DataMapRegion, StageGoto
  <2>12. CASE DataMapReturn
    BY <2>3, <2>12, DataMapReturnStep DEF DataMapReturn, StageGoto
  <2>13. CASE DataMapPrint
    BY <2>3, <2>13, DataMapPrintStep DEF DataMapPrint, StageGoto
  <2>14. CASE OffloadFree
    BY <2>3, <2>14, OffloadFreeStep DEF OffloadFree, StageGoto
  <2> QED
    BY <1>2, <2>4, <2>5, <2>6, <2>7, <2>8, <2>9, <2>10, <2>11, <2>12, <2>13, <2>14 DEF ProgramNext
<1>3. CASE heapProgram = "caller" /\ CallerNext /\ UNCHANGED <<heapProgram, heapLine, stage, round, ptr>>
  BY <1>3, CallerStep
<1>4. CASE UNCHANGED heapVars
  <2>1. UNCHANGED <<ompacc, useDdr, capacity, live, wrongFree, region, targetUsed, held,
                    heapProgram, heapLine, stage, round, ptr>>
    BY <1>4 DEF heapVars, vsmemVars, memVars
  <2> QED
    <3>1. HeapShape'
      <4>1. PoolsFit'
        BY <1>1, <2>1, SizesAre, DropBlocks DEF HeapShape
      <4> QED
        BY <1>1, <2>1, <4>1, SetupKept, NothingFreed DEF HeapShape, RegionInv
    <3>2. /\ \A v, k : Of(v, k)' = Of(v, k)
          /\ \A v : Of(v, round)' = Of(v, round)
          /\ (\A K : Left(K)' = Left(K)) /\ NoLeak' = NoLeak
      <4>1. \A v, k : Of(v, k)' = Of(v, k)
        BY <2>1, SetupKept
      <4> QED
        BY <2>1, <4>1, SetupKept, LeftKept DEF Of, SymmetricBlock, Block
    <3>3. /\ Leaks' = Leaks /\ Holds' = Holds /\ HoldsBytes' = HoldsBytes
          /\ Used(SymmetricPool)' = Used(SymmetricPool)
      BY <2>1, <3>2, SetupKept DEF Leaks, Holds, HoldsBytes, Used, Bytes
    <3>4. ResetInv'
      BY <1>1, <2>1, <3>2, <3>3, SetupKept DEF ResetInv
    <3>5. Buffers' = Buffers /\ InCall' = InCall
      BY <2>1, <3>2 DEF Buffers, InCall
    <3>6. OffloadInv'
      BY <1>1, <2>1, <3>2, <3>5 DEF OffloadInv
    <3>7. CallerInv'
      <4>1. (\A via : PoolOf(via)' = PoolOf(via)) /\ ArmOnlyHeap' = ArmOnlyHeap
        BY <2>1 DEF PoolOf, ScratchPool, SymmetricPool, ArmOnlyHeap, NoBlock
      <4> QED
        BY <1>1, <2>1, <4>1 DEF CallerInv
    <3> QED
      BY <3>1, <3>4, <3>6, <3>7 DEF HeapInv
<1> QED
  BY <1>2, <1>3, <1>4 DEF HeapNext

LEMMA HeapInvariance == HeapSpec => []HeapInv
<1>1. HeapInitial => HeapInv
  BY HeapInvInit
<1>2. HeapInv /\ [HeapNext]_heapVars => HeapInv'
  BY HeapInvStep
<1> QED
  BY <1>1, <1>2, PTL DEF HeapSpec

LEMMA HeapInvIsSafe == HeapInv => BlocksSafe
<1> SUFFICES ASSUME HeapInv PROVE BlocksSafe
  OBVIOUS
<1>1. HeapShape /\ ResetInv /\ OffloadInv /\ CallerInv
  BY DEF HeapInv
<1>2. HeapTypeOK
  <2>1. VsMemTypeOK
    <3>1. \A pool \in {"ddr", "msmc", "vsmem"} : Used(pool) <= capacity
      BY <1>1, SizesAre DEF HeapShape, PoolsFit
    <3> QED
      <4>1. wrongFree \in BOOLEAN
        BY <1>1 DEF HeapShape, NoWrongFree
      <4> QED
        BY <1>1, <3>1, <4>1 DEF VsMemTypeOK, HeapShape, RegionInv
  <2>2. stage \in {"round", "arrays", "target", "free", "buffers", "call", "data",
                   "return", "print", "killed", "exit"}
    BY <1>1 DEF HeapShape, ResetInv, OffloadInv, CallerInv, Reset
  <2> QED
    BY <1>1, <2>1, <2>2 DEF HeapTypeOK, HeapShape
<1>3. FreedWhereAllocated
  <2>1. NoWrongFree
    BY <1>1 DEF HeapShape
  <2> QED
    BY <2>1 DEF FreedWhereAllocated, NoWrongFree
<1>4. UsesLiveMemory
  <2>1. ASSUME Reset, stage = "target", ompacc PROVE region = ptr["heap"] /\ region \in live
    <3>1. "heap" \in Holds
      BY <2>1 DEF Holds
    <3> QED
      BY <1>1, <2>1, <3>1 DEF ResetInv
  <2>2. ASSUME stage = "print"
        PROVE  {ptr[v] : v \in {"obj", "inner_h", "inner_h_ints", "inner_t", "inner_t_ints"}} \subseteq live
    <3>1. heapProgram = "offload"
      BY <1>1, <2>2 DEF HeapShape, ResetInv, CallerInv, Reset
    <3>2. /\ \A v \in Packed \ {"inner_t_ints"} : ptr[v] = Of(v, round)
          /\ ptr["inner_t_ints"] = Of("region_ints", round)
          /\ {Of(v, round) : v \in Five} \subseteq live
      BY <1>1, <2>2, <3>1 DEF OffloadInv
    <3> QED
      BY <3>2 DEF Packed, Five
  <2> QED
    BY <2>1, <2>2 DEF UsesLiveMemory
<1>5. LeavesFiveBlocks
  <2> SUFFICES ASSUME heapProgram = "offload", stage = "exit"
               PROVE  \E k \in 0 .. round : Cardinality(live) = 5 * k
    BY DEF LeavesFiveBlocks
  <2>1. Buffers = {} /\ InCall = {}
    BY <1>1 DEF OffloadInv, InCall
  <2>2. PICK K \in SUBSET (1 .. round) : live = Buffers \union Left(K) \union InCall
    BY <1>1 DEF OffloadInv
  <2>3. live = Left(K) /\ round \in Nat
    BY <1>1, <2>1, <2>2, SizesAre
  <2> QED
    BY <2>3, LeftCounts
<1> QED
  BY <1>2, <1>3, <1>4, <1>5 DEF BlocksSafe

LEMMA HeapInvIsAlike == HeapInv => RoundsAlike
<1> SUFFICES ASSUME HeapInv, Reset PROVE RoundsAlike
  BY DEF RoundsAlike
<1>1. HeapShape /\ ResetInv
  BY DEF HeapInv
<1>2. LeakFits
  BY <1>1 DEF LeakFits, ResetInv
<1>3. ASSUME stage = "round"
      PROVE  live \subseteq IF ompacc THEN {} ELSE {SymmetricBlock("leak", k, LeakBytes) : k \in 1 .. round}
  <2>1. live \subseteq Leaks
    BY <1>1, <1>3 DEF ResetInv, Holds
  <2>2. \A k : Of("leak", k) = SymmetricBlock("leak", k, LeakBytes)
    BY DEF Of, SizeOf
  <2> QED
    BY <1>3, <2>1, <2>2 DEF Leaks, NoLeak
<1>4. NoLeak /\ (stage = "killed" \/ (stage = "exit" /\ round < Rounds)) => round <= 1
  BY <1>1 DEF ResetInv
<1> QED
  BY <1>2, <1>3, <1>4 DEF RoundsAlike, NoLeak

(* In every build, with any sizes and any memory, blocks go back once and   *)
(* to the allocator they are from, nothing is used that is not allocated,   *)
(* and offload leaves five blocks for each call of data_map_target.         *)
THEOREM FreesWhatItAllocated == HeapSpec => []BlocksSafe
BY HeapInvariance, HeapInvIsSafe, PTL

(* Every round of sym_heap_reset begins with the memory of the first: for   *)
(* any number of rounds, memory that is enough for one is enough for all.   *)
THEOREM ResetRoundsAlike == HeapSpec => []RoundsAlike
BY HeapInvariance, HeapInvIsAlike, PTL
=============================================================================
