---------------------------- MODULE RangesProofs ----------------------------
(***************************************************************************)
(* What the planners promise for every width of the block numbers, every   *)
(* size and every request; the run of MCPlanning checks the same on a      *)
(* small width.                                                            *)
(***************************************************************************)
EXTENDS Ranges, Sequences, SequenceTheorems, TLAPS

(* A range that passes check_range is made of block numbers that do not    *)
(* wrap and, when the size is known, lie on the device.                    *)
THEOREM RangeOkNoWrap ==
  ASSUME NEW start \in U32, NEW count \in U32, NEW total \in OptU32,
         RangeOk(start, count, total), NEW i \in 0..(count - 1)
  PROVE  /\ (start + i) % (U32Max + 1) = start + i
         /\ total # None => start + i < total
<1>1. /\ start \in Nat /\ count \in Nat /\ U32Max \in Nat /\ i \in Nat
      /\ i < count /\ start + count <= U32Max
  BY U32MaxAssumption DEF U32, RangeOk
<1>2. start + i \in 0..U32Max
  BY <1>1
<1>3. (start + i) % (U32Max + 1) = start + i
  BY <1>1, <1>2
<1>4. total # None => start + i < total
  <2>1. SUFFICES ASSUME total # None PROVE start + i < total
    OBVIOUS
  <2>2. total \in Nat /\ start + count <= total
    BY <2>1, U32MaxAssumption DEF RangeOk, OptU32, U32
  <2> QED BY <1>1, <2>2
<1> QED BY <1>3, <1>4

(* A read that is not refused covers a count of blocks in range of the     *)
(* device, the explicit count when there is one and else all blocks from   *)
(* start on.                                                               *)
THEOREM PlanReadSafe ==
  ASSUME NEW start \in U32, NEW count \in OptU32, NEW total \in OptU32,
         PlanRead(start, count, total) # None
  PROVE  LET blocks == PlanRead(start, count, total)
         IN  /\ blocks \in U32
             /\ RangeOk(start, blocks, total)
             /\ IF count # None THEN blocks = count ELSE start + blocks = total
<1>1. CASE count # None
  BY <1>1 DEF PlanRead, OptU32
<1>2. CASE count = None
  <2>1. total \in U32 /\ total # None
    BY <1>2, NoneAssumption DEF PlanRead, OptU32
  <2>2. SaturatingSub(total, start) \in U32 /\ SaturatingSub(total, start) # None
    BY <2>1, U32MaxAssumption, NoneAssumption DEF SaturatingSub, U32
  <2>3. /\ PlanRead(start, count, total) = SaturatingSub(total, start)
        /\ RangeOk(start, SaturatingSub(total, start), total)
    BY <1>2, <2>1, <2>2 DEF PlanRead
  <2>4. start + SaturatingSub(total, start) = total
    BY <2>1, <2>3, U32MaxAssumption DEF SaturatingSub, RangeOk, U32
  <2> QED BY <1>2, <2>2, <2>3, <2>4
<1> QED BY <1>1, <1>2

(* A write that is not refused covers at most the whole blocks of its      *)
(* input, in range of the device.                                          *)
THEOREM PlanWriteSafe ==
  ASSUME NEW blockBytes \in Nat \ {0}, NEW inputLen \in Nat,
         NEW start \in U32, NEW count \in OptU32, NEW total \in OptU32,
         PlanWrite(blockBytes, inputLen, start, count, total) # None
  PROVE  LET blocks == PlanWrite(blockBytes, inputLen, start, count, total)
         IN  /\ blocks \in U32
             /\ RangeOk(start, blocks, total)
             /\ blocks <= inputLen \div blockBytes
             /\ inputLen % blockBytes = 0
             /\ count # None => blocks = count
<1> DEFINE fileBlocks == inputLen \div blockBytes
           blocks == IF count # None THEN count ELSE fileBlocks
<1>1. /\ PlanWrite(blockBytes, inputLen, start, count, total) = blocks
      /\ inputLen % blockBytes = 0
      /\ fileBlocks <= U32Max
      /\ blocks <= fileBlocks
      /\ RangeOk(start, blocks, total)
  BY DEF PlanWrite
<1>2. fileBlocks \in Nat
  OBVIOUS
<1>3. blocks \in U32
  <2>1. CASE count # None
    BY <2>1 DEF OptU32
  <2>2. CASE count = None
    BY <2>2, <1>1, <1>2, U32MaxAssumption DEF U32
  <2> QED BY <2>1, <2>2
<1> QED BY <1>1, <1>3

-----------------------------------------------------------------------------
(* A copy of a range of blocks grows by the next one. *)
LEMMA ImageGrows ==
  ASSUME NEW S, NEW n \in Nat, NEW start \in Nat, NEW f, NEW s \in Seq(S),
         f[start + n] \in S, s = [i \in 1..n |-> f[start + i - 1]]
  PROVE  Append(s, f[start + n]) = [i \in 1..(n + 1) |-> f[start + i - 1]]
<1> DEFINE t == Append(s, f[start + n])
           u == [i \in 1..(n + 1) |-> f[start + i - 1]]
<1>1. Len(s) = n
  BY LenProperties
<1>2. /\ t \in Seq(S) /\ Len(t) = n + 1
      /\ \A i \in 1..n : t[i] = s[i]
      /\ t[n + 1] = f[start + n]
  BY <1>1, AppendProperties
<1>3. ASSUME NEW i \in 1..(n + 1) PROVE t[i] = f[start + i - 1]
  <2>1. CASE i \in 1..n
    BY <1>2, <2>1
  <2>2. CASE i = n + 1
    <3>1. start + i - 1 = start + n
      BY <2>2
    <3> QED BY <1>2, <2>2, <3>1
  <2> QED BY <2>1, <2>2
<1>4. t = [i \in 1..(n + 1) |-> t[i]]
  BY <1>2, LenProperties
<1> QED BY <1>3, <1>4
=============================================================================
