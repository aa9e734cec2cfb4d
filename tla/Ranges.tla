------------------------------- MODULE Ranges -------------------------------
(***************************************************************************)
(* Block-range arithmetic shared by the backends: check_range              *)
(* (flasher.rs), plan_read and plan_write (commands.rs).  All counts and   *)
(* block numbers are u32 in the code; U32Max stands for u32::MAX so that   *)
(* TLC can visit both sides of the overflow check.  A result of None       *)
(* stands for the functions' Err: the request is refused.                  *)
(***************************************************************************)
EXTENDS Integers

CONSTANTS U32Max, None

ASSUME U32MaxAssumption == U32Max \in Nat
ASSUME NoneAssumption == None \notin Int

U32 == 0..U32Max
OptU32 == U32 \cup {None}

(* u32::saturating_sub *)
SaturatingSub(a, b) == IF a >= b THEN a - b ELSE 0

(* RangeOk without the checked_add, for mutation: the end is never compared *)
(* with u32::MAX.                                                           *)
RangeOkUnchecked(start, count, total) ==
  total # None => /\ start < total
                  /\ start + count <= total

(* Whether start..start+count is a range of a device of total blocks;     *)
(* with an unknown size only the end's overflow is checked.                *)
RangeOk(start, count, total) ==
  /\ start + count <= U32Max
  /\ total # None => /\ start < total
                     /\ start + count <= total

(* PlanRead that defaults to the whole device whatever the start. *)
PlanReadWholeDevice(start, count, total) ==
  LET blocks == IF count # None THEN count ELSE total
  IN  IF blocks # None /\ RangeOk(start, blocks, total) THEN blocks ELSE None

(* The number of blocks a read covers, None when it is refused. *)
PlanRead(start, count, total) ==
  LET blocks == IF count # None THEN count
                ELSE IF total # None THEN SaturatingSub(total, start) ELSE None
  IN  IF blocks # None /\ RangeOk(start, blocks, total) THEN blocks ELSE None

(* The number of blocks a write of an input of inputLen bytes covers. *)
PlanWrite(blockBytes, inputLen, start, count, total) ==
  LET fileBlocks == inputLen \div blockBytes
      blocks == IF count # None THEN count ELSE fileBlocks
  IN  IF /\ inputLen % blockBytes = 0
         /\ fileBlocks <= U32Max
         /\ blocks <= fileBlocks
         /\ RangeOk(start, blocks, total)
      THEN blocks ELSE None

=============================================================================
