------------------------- MODULE BlockTransferProofs -------------------------
(***************************************************************************)
(* Proofs about BlockTransfer, for every size of the flash, set of input   *)
(* files, set of calls and faults.                                         *)
(***************************************************************************)
EXTENDS BlockTransfer, RangesProofs, SequenceTheorems, TLAPS

PreLoop   == {"geometry", "plan", "stat", "open"}
WriteLoop == {"load", "write", "verify"}
InLoop    == WriteLoop \cup {"read"}

(* Where a call is in its course.  It is over when pc is "idle", and has   *)
(* no outcome and no deinit before.                                        *)
CourseOK ==
  /\ pc # "idle" => call # None /\ result = "none" /\ deinits = 0
  /\ result = "ok" => call # None
  /\ pc \notin {"idle", "deinit"} => ~error
  /\ pc \in WriteLoop => call.op = "write" /\ opened # None
  /\ pc \in {"write", "verify"} => buf \in DataWord
  /\ pc \in {"read", "plan"} => call.op = "read"

(* The loop body runs while a block is left, and the transfer is over      *)
(* without an error when none is.                                          *)
CountOK ==
  /\ pc \in PreLoop => done = 0 /\ out = << >>
  /\ pc \in InLoop => done < blocks
  /\ pc = "finish" \/ (pc = "deinit" /\ ~error) => done = blocks
  /\ pc \in {"open"} \cup InLoop => RangeOk(call.start, blocks, DeviceBlocks)

(* What has been read is the flash, which a read leaves alone.             *)
Image(n) == [i \in 1..n |-> flash[call.start + i - 1]]
ImageOK ==
  /\ pc \in InLoop \cup {"finish"} /\ call.op = "read" => out = Image(done)
  /\ pc = "deinit" /\ ~error /\ call.op = "read" => out = Image(done)
  /\ result = "ok" /\ call.op = "read" => out = Image(done)

IInv == TypeOK /\ CourseOK /\ CountOK /\ ImageOK /\ OutcomeHonest

-----------------------------------------------------------------------------
(* The request at work, and the files. *)
LEMMA CallType ==
  ASSUME IInv, call # None
  PROVE  /\ call.op \in {"read", "write"} /\ call.start \in U32
         /\ call.count \in OptU32 /\ call.verify \in BOOLEAN
<1>1. call \in Calls
  BY DEF IInv, TypeOK
<1> QED BY <1>1, TransferAssumption DEF Call

LEMMA FileType ==
  ASSUME NEW f \in Files
  PROVE  f.len \in Nat /\ f.data \in Seq(DataWord) /\ Len(f.data) = f.len \div BlockBytes
BY TransferAssumption DEF File

(* A plan is a range of the device. *)
LEMMA PlanType ==
  ASSUME IInv, pc \in {"plan", "stat"}, PlanTransfer(file.len) # None
  PROVE  /\ PlanTransfer(file.len) \in U32
         /\ RangeOk(call.start, PlanTransfer(file.len), DeviceBlocks)
<1>1. call # None /\ file \in Files
  BY DEF IInv, CourseOK, TypeOK
<1>2. DeviceBlocks \in OptU32 /\ file.len \in Nat /\ BlockBytes \in Nat \ {0}
  BY <1>1, TransferAssumption, FileType DEF OptU32
<1>3. CASE call.op = "read"
  BY <1>1, <1>2, <1>3, CallType, PlanReadSafe DEF PlanTransfer
<1>4. CASE call.op = "write"
  BY <1>1, <1>2, <1>4, CallType, PlanWriteSafe DEF PlanTransfer
<1> QED BY <1>1, <1>3, <1>4, CallType

(* In the loop the block number does not wrap. *)
LEMMA BlockNumIs ==
  ASSUME IInv, pc \in InLoop
  PROVE  BlockNum = call.start + done
<1>1. call # None /\ done < blocks /\ blocks \in U32 /\ done \in 0..blocks
      /\ RangeOk(call.start, blocks, DeviceBlocks)
  BY DEF IInv, CourseOK, CountOK, TypeOK, InLoop, WriteLoop
<1>2. call.start \in U32 /\ DeviceBlocks \in OptU32 /\ done \in 0..(blocks - 1)
  BY <1>1, CallType, TransferAssumption, U32MaxAssumption DEF OptU32, U32
<1> QED BY <1>1, <1>2, RangeOkNoWrap DEF BlockNum

LEMMA LoopPcIs ==
  ASSUME NEW n
  PROVE  /\ n = blocks => LoopPc(n) = "finish"
         /\ n # blocks => LoopPc(n) = IF call.op = "read" THEN "read" ELSE "load"
BY DEF LoopPc

-----------------------------------------------------------------------------
LEMMA IInvInit == Init => IInv
<1> SUFFICES ASSUME Init PROVE IInv
  OBVIOUS
<1>1. out \in Seq(DataWord) /\ blocks \in U32 /\ done \in 0..blocks /\ calls \in 0..MaxCalls
  BY EmptySeq, U32MaxAssumption, TransferAssumption DEF Init, U32
<1>2. TypeOK
  <2>1. call \in Calls \cup {None} /\ buf \in DataWord \cup {Missing} /\ opened \in Files \cup {None}
    BY DEF Init
  <2>2. deinits \in 0..1
    BY DEF Init
  <2>3. error \in BOOLEAN /\ flash \in [Addr -> DataWord] /\ file \in Files
    BY DEF Init
  <2>4. session \in {"open", "closed"} /\ result \in {"none", "ok", "err", "died"} /\ pc = "idle"
    BY DEF Init
  <2> QED BY <1>1, <2>1, <2>2, <2>3, <2>4 DEF TypeOK
<1> QED BY <1>2 DEF Init, IInv, CourseOK, CountOK, ImageOK, OutcomeHonest, PreLoop, WriteLoop, InLoop

(* An error of the transfer: deinit follows. *)
LEMMA FailKeeps ==
  ASSUME IInv, pc # "idle", Fail
  PROVE  IInv'
<1> USE DEF Fail, request, loop, backend
<1>1. TypeOK'
  BY DEF IInv, TypeOK
<1>2. CourseOK' /\ CountOK'
  BY DEF IInv, CourseOK, CountOK, PreLoop, WriteLoop, InLoop
<1>3. ImageOK' /\ OutcomeHonest'
  BY DEF IInv, CourseOK, ImageOK, OutcomeHonest, WriteLoop, InLoop
<1> QED BY <1>1, <1>2, <1>3 DEF IInv

LEMMA BeginKeeps == ASSUME IInv, NEW c \in Calls, Begin(c) PROVE IInv'
<1> USE DEF Begin
<1>1. c # None
  BY TransferAssumption
<1>2. TypeOK'
  <2>1. out' \in Seq(DataWord) /\ blocks' \in U32 /\ done' \in 0..blocks'
    BY EmptySeq, U32MaxAssumption DEF U32
  <2>2. calls' \in 0..MaxCalls /\ deinits' \in 0..1
    BY TransferAssumption DEF IInv, TypeOK
  <2>3. error' \in BOOLEAN /\ call' \in Calls \cup {None} /\ opened' \in Files \cup {None}
    OBVIOUS
  <2> QED BY <2>1, <2>2, <2>3 DEF IInv, TypeOK
<1>3. CourseOK' /\ CountOK' /\ ImageOK' /\ OutcomeHonest'
  BY <1>1 DEF CourseOK, CountOK, ImageOK, OutcomeHonest, PreLoop, WriteLoop, InLoop
<1> QED BY <1>2, <1>3 DEF IInv

LEMMA GeometryKeeps == IInv /\ Geometry => IInv'
<1> SUFFICES ASSUME IInv, Geometry PROVE IInv'
  OBVIOUS
<1> USE DEF Geometry, request, loop
<1>1. TypeOK'
  BY DEF IInv, TypeOK
<1>2. CourseOK' /\ CountOK'
  BY CallType DEF IInv, CourseOK, CountOK, PreLoop, WriteLoop, InLoop
<1>3. ImageOK' /\ OutcomeHonest'
  BY DEF IInv, CourseOK, ImageOK, OutcomeHonest, WriteLoop, InLoop
<1> QED BY <1>1, <1>2, <1>3 DEF IInv

LEMMA MakePlanKeeps == IInv /\ MakePlan => IInv'
<1> SUFFICES ASSUME IInv, MakePlan PROVE IInv'
  OBVIOUS
<1>1. CASE Fail
  BY <1>1, FailKeeps DEF MakePlan
<1>2. CASE /\ PlanTransfer(file.len) # None
           /\ blocks' = PlanTransfer(file.len) /\ pc' = "open"
           /\ UNCHANGED <<request, done, buf, out, verdict, file, opened, backend>>
  <2> USE <1>2 DEF request, verdict, backend
  <2>1. done = 0 /\ pc \in {"plan", "stat"}
    BY DEF MakePlan, IInv, CountOK, PreLoop
  <2>2. blocks' \in U32 /\ RangeOk(call'.start, blocks', DeviceBlocks)
    BY <2>1, PlanType
  <2>3. TypeOK'
    BY <2>1, <2>2, U32MaxAssumption DEF IInv, TypeOK, U32
  <2>4. CourseOK' /\ CountOK'
    BY <2>1, <2>2 DEF IInv, CourseOK, CountOK, PreLoop, WriteLoop, InLoop
  <2>5. ImageOK' /\ OutcomeHonest'
    BY <2>1 DEF IInv, CourseOK, ImageOK, OutcomeHonest, WriteLoop, InLoop
  <2> QED BY <2>3, <2>4, <2>5 DEF IInv
<1> QED BY <1>1, <1>2 DEF MakePlan

LEMMA OpenFileKeeps == IInv /\ OpenFile => IInv'
<1> SUFFICES ASSUME IInv, OpenFile PROVE IInv'
  OBVIOUS
<1>1. CASE Fail
  BY <1>1, FailKeeps DEF OpenFile
<1>2. CASE /\ opened' = (IF call.op = "write" THEN file ELSE None)
           /\ pc' = LoopPc(0)
           /\ UNCHANGED <<request, loop, verdict, file, backend>>
  <2> USE <1>2 DEF request, loop, verdict, backend
  <2>1. /\ pc = "open" /\ done = 0 /\ out = << >> /\ call # None /\ ~error /\ file \in Files
        /\ file # None /\ blocks \in Nat /\ RangeOk(call.start, blocks, DeviceBlocks)
    BY TransferAssumption, U32MaxAssumption
       DEF OpenFile, IInv, CountOK, CourseOK, TypeOK, PreLoop, WriteLoop, InLoop, U32
  <2>2. call.op \in {"read", "write"} /\ call' = call
    BY <2>1, CallType
  <2>3. pc' \in {"finish", "read", "load"}
    BY LoopPcIs
  <2>4. TypeOK'
    BY <2>1, <2>3 DEF IInv, TypeOK
  <2>5. CourseOK'
    BY <2>1, <2>2, <2>3, LoopPcIs DEF IInv, CourseOK, PreLoop, WriteLoop, InLoop
  <2>6. CountOK'
    BY <2>1, <2>2, <2>3, LoopPcIs DEF CountOK, PreLoop, WriteLoop, InLoop
  <2>7. out' = [i \in 1..done' |-> flash'[call'.start + i - 1]]
    BY <2>1
  <2>8. ImageOK'
    BY <2>7 DEF ImageOK, Image
  <2>9. OutcomeHonest'
    BY <2>1, <2>3 DEF IInv, CourseOK, OutcomeHonest
  <2> QED BY <2>4, <2>5, <2>6, <2>8, <2>9 DEF IInv
<1> QED BY <1>1, <1>2 DEF OpenFile

LEMMA LoadBlockKeeps == IInv /\ LoadBlock => IInv'
<1> SUFFICES ASSUME IInv, LoadBlock PROVE IInv'
  OBVIOUS
<1>1. CASE Fail
  BY <1>1, FailKeeps DEF LoadBlock
<1>2. CASE /\ done + 1 <= Len(opened.data)
           /\ buf' = opened.data[done + 1]
           /\ pc' = "write"
           /\ UNCHANGED <<request, blocks, done, out, verdict, file, opened, backend>>
  <2> USE <1>2 DEF request, verdict, backend
  <2>1. pc = "load" /\ opened \in Files /\ done \in Nat /\ opened # None
    BY U32MaxAssumption DEF LoadBlock, IInv, TypeOK, CourseOK, WriteLoop, U32
  <2>2. buf' \in DataWord
    BY <2>1, FileType
  <2>3. TypeOK'
    BY <2>2 DEF IInv, TypeOK
  <2>4. CourseOK' /\ CountOK'
    BY <2>1, <2>2 DEF IInv, CourseOK, CountOK, PreLoop, WriteLoop, InLoop
  <2>5. ImageOK' /\ OutcomeHonest'
    BY <2>1 DEF IInv, CourseOK, ImageOK, Image, OutcomeHonest, WriteLoop, InLoop
  <2> QED BY <2>3, <2>4, <2>5 DEF IInv
<1> QED BY <1>1, <1>2 DEF LoadBlock

(* The step to the next block of a write. *)
LEMMA BlockDoneOfWrite ==
  ASSUME IInv, pc \in {"write", "verify"}, BlockDone, error' = FALSE, TypeOK',
         UNCHANGED <<request, blocks, result, opened, deinits>>
  PROVE  IInv'
<1> USE DEF BlockDone, request
<1>1. /\ done \in Nat /\ blocks \in Nat /\ done < blocks
      /\ call # None /\ call.op = "write" /\ opened # None /\ result = "none" /\ deinits = 0
      /\ RangeOk(call.start, blocks, DeviceBlocks)
  BY U32MaxAssumption DEF IInv, TypeOK, CourseOK, CountOK, WriteLoop, InLoop, U32
<1>2. pc' = IF done + 1 = blocks THEN "finish" ELSE "load"
  BY <1>1 DEF LoopPc
<1>3. CourseOK'
  BY <1>1, <1>2 DEF CourseOK, WriteLoop
<1>4. CountOK'
  BY <1>1, <1>2 DEF CountOK, PreLoop, WriteLoop, InLoop
<1>5. ImageOK' /\ OutcomeHonest'
  BY <1>1, <1>2 DEF ImageOK, OutcomeHonest
<1> QED BY <1>3, <1>4, <1>5 DEF IInv

LEMMA DoneInPlan ==
  ASSUME IInv, pc \in InLoop
  PROVE  done + 1 \in 0..blocks
BY U32MaxAssumption DEF IInv, TypeOK, CountOK, U32

LEMMA WriteBlockKeeps == IInv /\ WriteBlock => IInv'
<1> SUFFICES ASSUME IInv, WriteBlock PROVE IInv'
  OBVIOUS
<1>1. CASE Fail
  BY <1>1, FailKeeps DEF WriteBlock
<1>2. CASE ~Fail
  <2>1. /\ pc = "write"
        /\ UNCHANGED <<request, blocks, buf, out, result, file, opened, session, deinits>>
    BY <1>2 DEF WriteBlock
  <2>2. PICK w \in DataWord, ok \in BOOLEAN :
          /\ flash' = [flash EXCEPT ![BlockNum] = w]
          /\ IF ~ok THEN pc' = "deinit" /\ UNCHANGED done
             ELSE IF call.verify THEN pc' = "verify" /\ UNCHANGED done
             ELSE BlockDone
          /\ error' = ~ok
    BY <1>2 DEF WriteBlock
  <2>3. flash' \in [Addr -> DataWord]
    BY <2>2 DEF IInv, TypeOK
  <2>4. ASSUME done' \in 0..blocks,
               pc' \in {"deinit", "verify", "finish", "read", "load"},
               error' \in BOOLEAN
        PROVE  TypeOK'
    BY <2>1, <2>3, <2>4 DEF IInv, TypeOK, request
  <2>5. /\ call # None /\ call.op = "write" /\ opened # None /\ result = "none" /\ deinits = 0
        /\ buf \in DataWord /\ done < blocks /\ done \in 0..blocks
        /\ RangeOk(call.start, blocks, DeviceBlocks)
    BY <2>1 DEF IInv, TypeOK, CourseOK, CountOK, WriteLoop, InLoop
  <2>6. CASE ok = FALSE
    <3>1. pc' = "deinit" /\ done' = done /\ error' = TRUE
      BY <2>2, <2>6
    <3>2. TypeOK'
      BY <2>4, <2>5, <3>1
    <3> QED BY <2>1, <2>5, <3>1, <3>2
            DEF IInv, CourseOK, CountOK, ImageOK, OutcomeHonest, request, PreLoop, WriteLoop, InLoop
  <2>7. CASE ok = TRUE /\ call.verify
    <3>1. pc' = "verify" /\ done' = done /\ error' = FALSE
      BY <2>2, <2>7
    <3>2. TypeOK'
      BY <2>4, <2>5, <3>1
    <3> QED BY <2>1, <2>5, <3>1, <3>2
            DEF IInv, CourseOK, CountOK, ImageOK, OutcomeHonest, request, PreLoop, WriteLoop, InLoop
  <2>8. CASE ok = TRUE /\ ~call.verify
    <3>1. BlockDone /\ error' = FALSE
      BY <2>2, <2>8
    <3>2. done' \in 0..blocks /\ pc' \in {"finish", "read", "load"}
      BY <2>1, <3>1, DoneInPlan DEF BlockDone, LoopPc, InLoop, WriteLoop
    <3>3. TypeOK'
      BY <2>4, <3>1, <3>2
    <3> QED BY <2>1, <3>1, <3>3, BlockDoneOfWrite
  <2> QED BY <2>6, <2>7, <2>8
<1> QED BY <1>1, <1>2

LEMMA VerifyBlockKeeps == IInv /\ VerifyBlock => IInv'
<1> SUFFICES ASSUME IInv, VerifyBlock PROVE IInv'
  OBVIOUS
<1>1. CASE Fail
  BY <1>1, FailKeeps DEF VerifyBlock
<1>2. CASE BlockDone /\ UNCHANGED <<request, blocks, buf, out, verdict, file, opened, backend>>
  <2>1. pc = "verify" /\ error' = FALSE
    BY <1>2 DEF VerifyBlock, IInv, TypeOK, CourseOK, verdict
  <2>2. done' \in 0..blocks /\ pc' \in {"finish", "read", "load"}
    BY <1>2, <2>1, DoneInPlan DEF BlockDone, LoopPc, InLoop, WriteLoop
  <2>3. TypeOK'
    BY <1>2, <2>1, <2>2 DEF IInv, TypeOK, request, verdict, backend
  <2> QED BY <1>2, <2>1, <2>3, BlockDoneOfWrite DEF verdict, backend
<1> QED BY <1>1, <1>2 DEF VerifyBlock

LEMMA ReadBlockKeeps == IInv /\ ReadBlock => IInv'
<1> SUFFICES ASSUME IInv, ReadBlock PROVE IInv'
  OBVIOUS
<1>1. CASE Fail
  BY <1>1, FailKeeps DEF ReadBlock
<1>2. CASE /\ Addressable
           /\ buf' = flash[BlockNum] /\ out' = Append(out, flash[BlockNum])
           /\ BlockDone
           /\ UNCHANGED <<request, blocks, verdict, file, opened, backend>>
  <2> USE <1>2 DEF BlockDone, request, verdict, backend
  <2>1. /\ pc = "read" /\ call # None /\ call.op = "read" /\ result = "none" /\ deinits = 0
        /\ ~error /\ done \in Nat /\ blocks \in Nat /\ done < blocks
        /\ RangeOk(call.start, blocks, DeviceBlocks)
        /\ out \in Seq(DataWord) /\ out = Image(done)
    BY U32MaxAssumption
       DEF ReadBlock, IInv, TypeOK, CourseOK, CountOK, ImageOK, WriteLoop, InLoop, U32
  <2>2. flash[BlockNum] \in DataWord
    BY DEF Addressable, IInv, TypeOK
  <2>3. BlockNum = call.start + done /\ call.start \in Nat
    BY <2>1, BlockNumIs, CallType, U32MaxAssumption DEF InLoop, U32
  <2>4. out' = [i \in 1..(done + 1) |-> flash[call.start + i - 1]]
    BY <2>1, <2>2, <2>3, ImageGrows DEF Image
  <2>5. out' = Image(done)'
    BY <2>4 DEF Image
  <2>6. pc' = IF done + 1 = blocks THEN "finish" ELSE "read"
    BY <2>1 DEF LoopPc
  <2>7. TypeOK'
    <3>1. done' \in 0..blocks /\ out' \in Seq(DataWord)
      BY <2>1, <2>2, AppendProperties
    <3> QED BY <2>2, <2>6, <3>1 DEF IInv, TypeOK
  <2>8. CourseOK'
    BY <2>1, <2>6 DEF CourseOK, WriteLoop
  <2>9. CountOK'
    BY <2>1, <2>6 DEF CountOK, PreLoop, WriteLoop, InLoop
  <2>10. ImageOK' /\ OutcomeHonest'
    BY <2>1, <2>5, <2>6 DEF ImageOK, OutcomeHonest
  <2> QED BY <2>7, <2>8, <2>9, <2>10 DEF IInv
<1> QED BY <1>1, <1>2 DEF ReadBlock

LEMMA FinishKeeps == IInv /\ Finish => IInv'
<1> SUFFICES ASSUME IInv, Finish PROVE IInv'
  OBVIOUS
<1>1. CASE Fail
  BY <1>1, FailKeeps DEF Finish
<1>2. CASE pc' = "deinit" /\ UNCHANGED <<request, loop, verdict, file, opened, backend>>
  <2> USE <1>2 DEF Finish, request, loop, verdict, backend
  <2>1. TypeOK'
    BY DEF IInv, TypeOK
  <2>2. CourseOK' /\ CountOK'
    BY DEF IInv, CourseOK, CountOK, PreLoop, WriteLoop, InLoop
  <2>3. ImageOK' /\ OutcomeHonest'
    BY DEF IInv, CourseOK, ImageOK, Image, OutcomeHonest, WriteLoop, InLoop
  <2> QED BY <2>1, <2>2, <2>3 DEF IInv
<1> QED BY <1>1, <1>2 DEF Finish

LEMMA DeinitKeeps == IInv /\ Deinit => IInv'
<1> SUFFICES ASSUME IInv, Deinit PROVE IInv'
  OBVIOUS
<1>1. /\ pc = "deinit" /\ pc' = "idle" /\ deinits = 0 /\ deinits' = 1 /\ call # None
      /\ ~error => done = blocks
      /\ UNCHANGED <<request, loop, error, file, opened, flash>>
  BY DEF Deinit, IInv, CourseOK, CountOK
<1>2. PICK ok \in BOOLEAN : /\ session' = IF ok THEN "closed" ELSE session
                            /\ result' = IF ok /\ ~error THEN "ok" ELSE "err"
  BY DEF Deinit
<1>3. /\ result' \in {"ok", "err"} /\ session' \in {"open", "closed"}
      /\ result' = "ok" => ~error /\ session' = "closed"
  BY <1>2 DEF IInv, TypeOK
<1>4. TypeOK'
  BY <1>1, <1>3 DEF IInv, TypeOK, request, loop
<1>5. CourseOK' /\ CountOK'
  BY <1>1 DEF CourseOK, CountOK, request, PreLoop, WriteLoop, InLoop
<1>6. ImageOK'
  BY <1>1, <1>3 DEF IInv, ImageOK, Image, request, loop, WriteLoop, InLoop
<1>7. OutcomeHonest'
  BY <1>1, <1>3 DEF OutcomeHonest, loop
<1> QED BY <1>4, <1>5, <1>6, <1>7 DEF IInv

LEMMA DieKeeps == IInv /\ Die => IInv'
<1> SUFFICES ASSUME IInv, Die PROVE IInv'
  OBVIOUS
<1> USE DEF Die, request, loop, backend
<1>1. TypeOK'
  BY DEF IInv, TypeOK
<1>2. CourseOK' /\ CountOK' /\ ImageOK' /\ OutcomeHonest'
  BY DEF CourseOK, CountOK, ImageOK, OutcomeHonest, PreLoop, WriteLoop, InLoop
<1> QED BY <1>1, <1>2 DEF IInv

(* Another file behind the path, or a stutter. *)
LEMMA OutsideKeeps ==
  ASSUME IInv, UNCHANGED <<pc, request, loop, verdict, opened, backend>>, file' \in Files
  PROVE  IInv'
<1> USE DEF request, loop, verdict, backend
<1>1. TypeOK'
  BY DEF IInv, TypeOK
<1>2. CourseOK' /\ CountOK' /\ ImageOK' /\ OutcomeHonest'
  BY DEF IInv, CourseOK, CountOK, ImageOK, Image, OutcomeHonest
<1> QED BY <1>1, <1>2 DEF IInv

LEMMA IInvStep == IInv /\ [Next]_vars => IInv'
<1> SUFFICES ASSUME IInv, [Next]_vars PROVE IInv'
  OBVIOUS
<1>1. CASE UNCHANGED vars \/ ReplaceFile
  <2>1. UNCHANGED <<pc, request, loop, verdict, opened, backend>> /\ file' \in Files
    BY <1>1 DEF vars, ReplaceFile, IInv, TypeOK
  <2> QED BY <2>1, OutsideKeeps
<1>2. CASE \E c \in Calls : Begin(c)
  BY <1>2, BeginKeeps
<1> QED BY <1>1, <1>2, GeometryKeeps, MakePlanKeeps, OpenFileKeeps, LoadBlockKeeps, WriteBlockKeeps,
           VerifyBlockKeeps, ReadBlockKeeps, FinishKeeps, DeinitKeeps, DieKeeps DEF Next

LEMMA IInvAlways == Spec => []IInv
BY IInvInit, IInvStep, PTL DEF Spec

-----------------------------------------------------------------------------
(* Every state of run_read_nand and run_write_nand is well typed; among    *)
(* others the loops never count beyond their plan.                         *)
THEOREM TypeCorrect == Spec => []TypeOK
<1>1. IInv => TypeOK
  BY DEF IInv
<1> QED BY <1>1, IInvAlways, PTL

(* Whatever fails and in whatever combination, the outcome is honest: the  *)
(* error of the transfer and that of deinit do not mask each other, and    *)
(* deinit is called exactly once (flasher.rs, finish of both functions).   *)
THEOREM OutcomeAlwaysHonest == Spec => []OutcomeHonest
<1>1. IInv => OutcomeHonest
  BY DEF IInv
<1> QED BY <1>1, IInvAlways, PTL

(* The output of a read that reports success is the flash, block for block *)
(* from the start of the request, for every device size and plan.          *)
THEOREM OkReadAlwaysMatches == Spec => []OkReadMatches
<1>1. IInv => OkReadMatches
  <2> SUFFICES ASSUME IInv, result = "ok", call.op = "read"
               PROVE  out = [i \in 1..blocks |-> flash[call.start + i - 1]]
    BY DEF OkReadMatches
  <2>1. done = blocks /\ out = Image(done)
    BY DEF IInv, OutcomeHonest, ImageOK
  <2> QED BY <2>1 DEF Image
<1> QED BY <1>1, IInvAlways, PTL

-----------------------------------------------------------------------------
(* The refinement of FlashTransfer.  A write has its file open from the    *)
(* loop on, the block in hand is the file's next, and the blocks counted   *)
(* hold what the file has for them, if success is to be trusted.           *)
EndOK == pc = "idle" /\ call # None => result # "none"
FileOK ==
  /\ pc \in PreLoop \cup {"read"} => opened = None
  /\ pc \in {"write", "verify"} =>
       done + 1 <= Len(opened.data) /\ buf = opened.data[done + 1]

Written(n) ==
  \A i \in 0..(n - 1) : /\ call.start + i \in Addr
                        /\ flash[call.start + i] = Content(i + 1)
WrittenOK ==
  Trusted /\ (pc \in WriteLoop \cup {"finish"} \/ (pc = "deinit" /\ ~error)) => Written(done)

RInv == EndOK /\ FileOK /\ WrittenOK

LEMMA BlockInPlan ==
  ASSUME IInv, pc \in InLoop
  PROVE  BlockNum \in Blocks
<1>1. done \in 0..(blocks - 1)
  BY U32MaxAssumption DEF IInv, TypeOK, CountOK, U32
<1> QED BY <1>1, BlockNumIs DEF Blocks

LEMMA RInvInit == Init => RInv
BY DEF Init, RInv, EndOK, FileOK, WrittenOK, PreLoop, WriteLoop

(* What a call leaves alone when it fails. *)
LEMMA FailKeepsR ==
  ASSUME IInv, RInv, pc # "idle", Fail
  PROVE  RInv'
BY DEF Fail, RInv, EndOK, FileOK, WrittenOK, PreLoop, WriteLoop, IInv, TypeOK

LEMMA WriteBlockKeepsR ==
  ASSUME IInv, RInv, WriteBlock, ~Fail
  PROVE  RInv'
<1> DEFINE same == UNCHANGED <<call, blocks, buf, opened>>
<1>1. /\ pc = "write" /\ same
      /\ call # None /\ opened # None /\ result = "none" /\ result' = "none"
      /\ BlockNum = call.start + done /\ BlockNum \in Blocks /\ BlockNum \in Addr
      /\ done + 1 <= Len(opened.data) /\ buf = opened.data[done + 1]
      /\ done \in Nat /\ call.start \in Nat
  BY BlockNumIs, BlockInPlan, CallType, U32MaxAssumption
     DEF WriteBlock, IInv, CourseOK, TypeOK, RInv, FileOK, WriteLoop, InLoop, request,
         Addressable, U32
<1>2. PICK w \in DataWord, ok \in BOOLEAN :
        /\ (ok /\ w # buf => BlockNum \in SilentBlocks)
        /\ flash' = [flash EXCEPT ![BlockNum] = w]
        /\ IF ~ok THEN pc' = "deinit" /\ UNCHANGED done
           ELSE IF call.verify THEN pc' = "verify" /\ UNCHANGED done
           ELSE BlockDone
        /\ error' = ~ok
  BY DEF WriteBlock
<1>3. flash \in [Addr -> DataWord]
  BY DEF IInv, TypeOK
<1>4. Written(done)' <=> \A i \in 0..(done' - 1) :
        call.start + i \in Addr /\ flash'[call.start + i] = Content(i + 1)
  BY <1>1 DEF Written, Content
<1>5. Trusted' = Trusted
  BY <1>1 DEF Trusted, Blocks
<1>6. ASSUME Trusted, NEW i \in 0..(done - 1)
      PROVE  call.start + i \in Addr /\ flash'[call.start + i] = Content(i + 1)
  <2>1. call.start + i \in Addr /\ flash[call.start + i] = Content(i + 1)
    BY <1>1, <1>6 DEF RInv, WrittenOK, Written, WriteLoop
  <2>2. call.start + i # BlockNum
    BY <1>1
  <2> QED BY <1>2, <1>3, <2>1, <2>2
<1>7. CASE ok = FALSE
  <2>1. pc' = "deinit" /\ error' = TRUE
    BY <1>2, <1>7
  <2> QED BY <2>1 DEF RInv, EndOK, FileOK, WrittenOK, PreLoop, WriteLoop
<1>8. CASE ok = TRUE /\ call.verify
  <2>1. pc' = "verify" /\ done' = done
    BY <1>2, <1>8
  <2>2. WrittenOK'
    BY <1>4, <1>5, <1>6, <2>1 DEF WrittenOK
  <2> QED BY <1>1, <2>1, <2>2 DEF RInv, EndOK, FileOK, PreLoop
<1>9. CASE ok = TRUE /\ ~call.verify
  <2>1. done' = done + 1 /\ pc' \in {"finish", "load"}
    BY <1>1, <1>2, <1>9 DEF BlockDone, LoopPc, IInv, CourseOK, WriteLoop
  <2>2. ASSUME Trusted PROVE flash'[BlockNum] = Content(done + 1)
    <3>1. w = buf
      BY <1>1, <1>2, <1>9, <2>2 DEF Trusted
    <3> QED BY <1>1, <1>2, <1>3, <3>1 DEF Content
  <2>3. ASSUME Trusted, NEW i \in 0..(done' - 1)
        PROVE  call.start + i \in Addr /\ flash'[call.start + i] = Content(i + 1)
    <3>1. CASE i \in 0..(done - 1)
      BY <1>6, <2>3, <3>1
    <3>2. CASE i = done
      BY <1>1, <2>2, <2>3, <3>2
    <3> QED BY <1>1, <2>1, <3>1, <3>2
  <2>4. WrittenOK'
    BY <1>4, <1>5, <2>3 DEF WrittenOK
  <2> QED BY <1>1, <2>1, <2>4 DEF RInv, EndOK, FileOK, PreLoop
<1> QED BY <1>7, <1>8, <1>9

LEMMA VerifyBlockKeepsR ==
  ASSUME IInv, RInv, VerifyBlock, ~Fail
  PROVE  RInv'
<1>1. /\ pc = "verify" /\ flash[BlockNum] = buf /\ BlockDone
      /\ UNCHANGED <<call, blocks, flash, opened, result>>
      /\ call # None /\ opened # None /\ result = "none"
      /\ BlockNum = call.start + done /\ BlockNum \in Blocks
      /\ done + 1 <= Len(opened.data) /\ buf = opened.data[done + 1]
      /\ done \in Nat /\ call.start \in Nat /\ call.op = "write"
  BY BlockNumIs, BlockInPlan, CallType, U32MaxAssumption
     DEF VerifyBlock, IInv, CourseOK, TypeOK, RInv, FileOK, WriteLoop, InLoop, request,
         verdict, backend, U32
<1>2. BlockNum \in Addr
  <2>1. /\ call.start \in U32 /\ blocks \in U32 /\ DeviceBlocks \in OptU32 /\ DeviceBlocks # None
        /\ RangeOk(call.start, blocks, DeviceBlocks) /\ done \in 0..(blocks - 1)
    BY <1>1, CallType, TransferAssumption, U32MaxAssumption, NoneAssumption
       DEF IInv, CountOK, TypeOK, InLoop, WriteLoop, OptU32, U32
  <2>2. call.start + done < DeviceBlocks
    BY <2>1, RangeOkNoWrap
  <2> QED BY <1>1, <2>2, TransferAssumption, U32MaxAssumption DEF Addr, U32
<1>3. done' = done + 1 /\ pc' \in {"finish", "load"}
  BY <1>1 DEF BlockDone, LoopPc
<1>4. Trusted' = Trusted
  BY <1>1 DEF Trusted, Blocks
<1>5. ASSUME Trusted, NEW i \in 0..(done' - 1)
      PROVE  call.start + i \in Addr /\ flash[call.start + i] = Content(i + 1)
  <2>1. CASE i \in 0..(done - 1)
    BY <1>1, <1>5, <2>1 DEF RInv, WrittenOK, Written, WriteLoop
  <2>2. CASE i = done
    BY <1>1, <1>2, <2>2 DEF Content
  <2> QED BY <1>1, <1>3, <2>1, <2>2
<1>6. WrittenOK'
  BY <1>1, <1>4, <1>5 DEF WrittenOK, Written, Content
<1> QED BY <1>1, <1>3, <1>6 DEF RInv, EndOK, FileOK, PreLoop

LEMMA RInvStep == IInv /\ RInv /\ [Next]_vars => RInv'
<1> SUFFICES ASSUME IInv, RInv, [Next]_vars PROVE RInv'
  OBVIOUS
<1> USE DEF RInv, EndOK, FileOK, PreLoop, WriteLoop
<1>1. CASE pc # "idle" /\ Fail
  BY <1>1, FailKeepsR
<1>2. CASE UNCHANGED vars \/ ReplaceFile
  <2>1. UNCHANGED <<pc, call, blocks, done, buf, error, result, opened, flash>>
    BY <1>2 DEF vars, ReplaceFile, request, loop, verdict, backend
  <2> QED BY <2>1 DEF WrittenOK, Written, Trusted, Blocks, Content
<1>3. ASSUME NEW c \in Calls, Begin(c) PROVE RInv'
  BY <1>3 DEF Begin, WrittenOK
<1>4. CASE Geometry
  BY <1>4 DEF Geometry, WrittenOK
<1>5. CASE MakePlan /\ ~Fail
  BY <1>5 DEF MakePlan, WrittenOK, verdict
<1>6. CASE OpenFile /\ ~Fail
  <2>1. /\ pc = "open" /\ done = 0 /\ done' = 0 /\ call # None /\ call' = call
        /\ opened' = (IF call.op = "write" THEN file ELSE None)
        /\ pc' \in {"finish", "read", "load"} /\ (pc' = "read" => call.op = "read")
    BY <1>6 DEF OpenFile, LoopPc, loop, request, IInv, CountOK, CourseOK
  <2>2. Written(done)'
    BY <2>1 DEF Written
  <2>3. WrittenOK'
    BY <2>2 DEF WrittenOK
  <2> QED BY <2>1, <2>3
<1>7. CASE LoadBlock /\ ~Fail
  <2>1. /\ pc = "load" /\ pc' = "write" /\ done + 1 <= Len(opened.data)
        /\ buf' = opened.data[done + 1]
        /\ UNCHANGED <<call, blocks, done, opened, flash>>
    BY <1>7 DEF LoadBlock, request, backend
  <2>2. WrittenOK'
    BY <2>1 DEF WrittenOK, Written, Trusted, Blocks, Content
  <2> QED BY <2>1, <2>2
<1>8. CASE WriteBlock /\ ~Fail
  BY <1>8, WriteBlockKeepsR
<1>9. CASE VerifyBlock /\ ~Fail
  BY <1>9, VerifyBlockKeepsR
<1>10. CASE ReadBlock /\ ~Fail
  <2>1. /\ pc = "read" /\ opened = None /\ opened' = None /\ pc' \in {"finish", "read"}
        /\ call' = call
    BY <1>10 DEF ReadBlock, BlockDone, LoopPc, request, IInv, CourseOK
  <2> QED BY <2>1 DEF WrittenOK, Trusted
<1>11. CASE Finish /\ ~Fail
  <2>1. /\ pc = "finish" /\ pc' = "deinit"
        /\ UNCHANGED <<call, blocks, done, error, opened, flash>>
    BY <1>11 DEF Finish, request, loop, verdict, backend
  <2> QED BY <2>1 DEF WrittenOK, Written, Trusted, Blocks, Content
<1>12. CASE Deinit \/ Die
  <2>1. pc' = "idle" /\ result' # "none"
    BY <1>12 DEF Deinit, Die
  <2> QED BY <2>1 DEF WrittenOK
<1> QED BY <1>1, <1>2, <1>3, <1>4, <1>5, <1>6, <1>7, <1>8, <1>9, <1>10, <1>11, <1>12
        DEF Next, MakePlan, OpenFile, LoadBlock, WriteBlock, VerifyBlock, ReadBlock, Finish

-----------------------------------------------------------------------------
(* The steps of a call are steps of FlashTransfer. *)
LEMMA VerdictIs ==
  /\ call = None => Verdict = "none"
  /\ call # None /\ result = "none" => Verdict = "busy"
  /\ call # None /\ result = "ok" => Verdict = "ok"
  /\ call # None /\ result \in {"err", "died"} => Verdict = "failed"
BY DEF Verdict

LEMMA VerdictIsNext ==
  /\ call' = None => Verdict' = "none"
  /\ call' # None /\ result' = "none" => Verdict' = "busy"
  /\ call' # None /\ result' = "ok" => Verdict' = "ok"
  /\ call' # None /\ result' \in {"err", "died"} => Verdict' = "failed"
BY DEF Verdict

LEMMA TargetIs ==
  ASSUME opened # None
  PROVE  /\ DOMAIN Target = Blocks
         /\ \A a \in Blocks : Target[a] = Content(a - call.start + 1)
BY DEF Target

(* Most steps are stutters: the plan, the flash and the outcome are what   *)
(* they were.                                                              *)
LEMMA StutterMaps ==
  ASSUME UNCHANGED <<call, opened, flash, result>>, UNCHANGED blocks \/ opened = None
  PROVE  UNCHANGED Transfer!vars
<1>1. Target' = Target
  BY DEF Target, Blocks, Content
<1>2. Trusted' = Trusted
  BY DEF Trusted, Blocks
<1>3. Verdict' = Verdict
  BY DEF Verdict
<1> QED BY <1>1, <1>2, <1>3 DEF Transfer!vars

LEMMA InitMaps == Init => Transfer!Init
<1> SUFFICES ASSUME Init PROVE Transfer!Init
  OBVIOUS
<1>1. Target = << >> /\ Trusted = FALSE
  BY DEF Init, Target, Trusted
<1>2. Verdict = "none"
  BY VerdictIs DEF Init
<1>3. flash \in [Addr -> DataWord \cup {Missing}]
  BY DEF Init
<1> QED BY <1>1, <1>2, <1>3 DEF Transfer!Init, Transfer!NoPlan

(* A call that gets past its arguments plans nothing yet. *)
LEMMA BeginMaps ==
  ASSUME IInv, RInv, NEW c \in Calls, Begin(c)
  PROVE  Transfer!Begin
<1>1. Verdict # "busy"
  BY VerdictIs DEF Begin, RInv, EndOK, IInv, TypeOK
<1>2. Verdict' = "busy"
  BY VerdictIsNext, TransferAssumption DEF Begin
<1>3. Target' = << >> /\ Trusted' = FALSE
  BY DEF Begin, Target, Trusted
<1> QED BY <1>1, <1>2, <1>3 DEF Begin, Transfer!Begin, Transfer!NoPlan

(* Opening the input is what fixes the content to be written. *)
LEMMA OpenFileMaps ==
  ASSUME IInv, RInv, OpenFile, call.op = "write", ~Fail
  PROVE  Transfer!Plan
<1>1. /\ pc = "open" /\ opened = None /\ opened' = file /\ file \in Files /\ file # None
      /\ call # None /\ result = "none" /\ UNCHANGED <<call, blocks, result, flash>>
  BY TransferAssumption
     DEF OpenFile, IInv, TypeOK, CourseOK, RInv, FileOK, PreLoop, request, loop, verdict, backend
<1>2. Verdict = "busy" /\ Verdict' = "busy"
  BY <1>1, VerdictIs, VerdictIsNext
<1>3. Target = << >>
  BY <1>1 DEF Target
<1>4. DOMAIN Target' = Blocks /\ \A a \in Blocks : Target'[a] = Content(a - call.start + 1)'
  BY <1>1 DEF Target, Blocks
<1>5. call.start \in Nat /\ blocks \in Nat
  BY <1>1, CallType, U32MaxAssumption DEF IInv, TypeOK, U32
<1>6. Blocks \subseteq Nat
  BY <1>5 DEF Blocks
<1>7. ASSUME NEW a \in Blocks
      PROVE  Target'[a] \in DataWord \cup {Missing}
  <2>1. a - call.start + 1 \in Nat \ {0}
    BY <1>5 DEF Blocks
  <2>2. file.data \in Seq(DataWord)
    BY <1>1, FileType
  <2>3. Content(a - call.start + 1)' \in DataWord \cup {Missing}
    BY <1>1, <2>1, <2>2 DEF Content
  <2> QED BY <1>4, <2>3
<1>8. Trusted' \in BOOLEAN
  BY DEF Trusted
<1> QED BY <1>1, <1>2, <1>3, <1>4, <1>6, <1>7, <1>8 DEF Transfer!Plan, Transfer!NoPlan

LEMMA WriteBlockMaps ==
  ASSUME IInv, RInv, WriteBlock, ~Fail
  PROVE  Transfer!Program(BlockNum)
<1>1. /\ pc = "write" /\ call # None /\ opened # None /\ result = "none"
      /\ UNCHANGED <<call, blocks, opened, result>>
  BY DEF WriteBlock, IInv, CourseOK, WriteLoop, request
<1>2. Verdict = "busy" /\ Verdict' = Verdict /\ Target' = Target /\ Trusted' = Trusted
  BY <1>1, VerdictIs, VerdictIsNext DEF Target, Trusted, Blocks, Content
<1>3. BlockNum \in DOMAIN Target
  BY <1>1, BlockInPlan, TargetIs DEF InLoop, WriteLoop
<1>4. \E w \in DataWord \cup {Missing} : flash' = [flash EXCEPT ![BlockNum] = w]
  BY DEF WriteBlock
<1> QED BY <1>2, <1>3, <1>4 DEF Transfer!Program

(* The outcomes. *)
LEMMA FailMaps ==
  ASSUME call # None, result = "none", result' \in {"err", "died"},
         UNCHANGED <<call, opened, flash, blocks>>
  PROVE  Transfer!Fail
<1>1. Verdict = "busy" /\ Verdict' = "failed"
  BY VerdictIs, VerdictIsNext
<1>2. Target' = Target /\ Trusted' = Trusted
  BY DEF Target, Trusted, Blocks, Content
<1> QED BY <1>1, <1>2 DEF Transfer!Fail

LEMMA DeinitMaps ==
  ASSUME IInv, RInv, Deinit
  PROVE  Transfer!Fail \/ Transfer!Succeed
<1>1. /\ pc = "deinit" /\ call # None /\ result = "none"
      /\ ~error => done = blocks
      /\ UNCHANGED <<call, opened, flash, blocks>>
  BY DEF Deinit, IInv, CourseOK, CountOK, request, loop
<1>2. /\ result' \in {"ok", "err"} /\ (result' = "ok" => ~error)
  BY DEF Deinit
<1>3. CASE result' = "err"
  BY <1>1, <1>3, FailMaps
<1>4. CASE result' = "ok"
  <2>1. Verdict = "busy" /\ Verdict' = "ok" /\ Target' = Target /\ Trusted' = Trusted
    BY <1>1, <1>4, VerdictIs, VerdictIsNext DEF Target, Trusted, Blocks, Content
  <2>2. ASSUME Trusted, NEW a \in DOMAIN Target
        PROVE  a \in Addr /\ flash[a] = Target[a]
    <3>1. opened # None /\ a \in Blocks /\ Target[a] = Content(a - call.start + 1)
      BY <2>2, TargetIs DEF Trusted
    <3>2. PICK i \in 0..(blocks - 1) : a = call.start + i
      BY <3>1 DEF Blocks
    <3>3. call.start \in Nat /\ blocks \in Nat
      BY <1>1, CallType, U32MaxAssumption DEF IInv, TypeOK, U32
    <3>4. a - call.start + 1 = i + 1
      BY <3>2, <3>3
    <3>5. Written(blocks)
      BY <1>1, <1>2, <1>4, <2>2 DEF RInv, WrittenOK
    <3> QED BY <3>1, <3>2, <3>4, <3>5 DEF Written
  <2> QED BY <1>1, <2>1, <2>2 DEF Transfer!Succeed
<1> QED BY <1>2, <1>3, <1>4

LEMMA StepMaps == IInv /\ RInv /\ [Next]_vars => [Transfer!Next]_(Transfer!vars)
<1> SUFFICES ASSUME IInv, RInv, [Next]_vars PROVE [Transfer!Next]_(Transfer!vars)
  OBVIOUS
<1> DEFINE Stutters == /\ UNCHANGED <<call, opened, flash, result>>
                       /\ UNCHANGED blocks \/ opened = None
<1>1. ASSUME Stutters PROVE UNCHANGED Transfer!vars
  BY <1>1, StutterMaps
<1>2. CASE Fail
  BY <1>1, <1>2 DEF Fail, request, loop, backend
<1>3. CASE UNCHANGED vars \/ ReplaceFile
  BY <1>1, <1>3 DEF vars, ReplaceFile, request, loop, verdict, backend
<1>4. ASSUME NEW c \in Calls, Begin(c) PROVE Transfer!Next
  BY <1>4, BeginMaps DEF Transfer!Next
<1>5. CASE Geometry
  <2>1. call # None /\ result = "none" /\ UNCHANGED <<call, opened, flash, blocks>>
    BY <1>5 DEF Geometry, IInv, CourseOK, request, loop
  <2>2. CASE result' = "err"
    BY <2>1, <2>2, FailMaps DEF Transfer!Next
  <2>3. CASE UNCHANGED result
    BY <1>1, <2>1, <2>3
  <2> QED BY <1>5, <2>2, <2>3 DEF Geometry
<1>6. CASE MakePlan /\ ~Fail
  <2>1. opened = None
    BY <1>6 DEF MakePlan, RInv, FileOK, PreLoop
  <2> QED BY <1>1, <1>6, <2>1 DEF MakePlan, request, verdict, backend
<1>7. CASE OpenFile /\ ~Fail
  <2>1. CASE call.op = "write"
    BY <1>7, <2>1, OpenFileMaps DEF Transfer!Next
  <2>2. CASE call.op # "write"
    <3>1. opened = None
      BY <1>7 DEF OpenFile, RInv, FileOK, PreLoop
    <3> QED BY <1>1, <1>7, <2>2, <3>1 DEF OpenFile, request, loop, verdict, backend
  <2> QED BY <2>1, <2>2
<1>8. CASE (LoadBlock \/ VerifyBlock \/ ReadBlock \/ Finish) /\ ~Fail
  BY <1>1, <1>8 DEF LoadBlock, VerifyBlock, ReadBlock, Finish, request, loop, verdict, backend
<1>9. CASE WriteBlock /\ ~Fail
  <2>1. BlockNum \in Addr
    BY <1>9 DEF WriteBlock, Addressable
  <2> QED BY <1>9, <2>1, WriteBlockMaps DEF Transfer!Next
<1>10. CASE Deinit
  BY <1>10, DeinitMaps DEF Transfer!Next
<1>11. CASE Die
  <2>1. /\ call # None /\ result = "none" /\ result' = "died"
        /\ UNCHANGED <<call, opened, flash, blocks>>
    BY <1>11 DEF Die, IInv, CourseOK, request, loop, backend
  <2> QED BY <2>1, FailMaps DEF Transfer!Next
<1> QED BY <1>2, <1>3, <1>4, <1>5, <1>6, <1>7, <1>8, <1>9, <1>10, <1>11 DEF Next

(* run_write_nand and run_read_nand keep the promise of a transfer, step   *)
(* by step, for every flash, file and fault: only planned blocks are       *)
(* programmed, and success speaks for the content of the file that was     *)
(* opened, whatever happened to its path meanwhile.                        *)
THEOREM TransferImplemented == Spec => ImplementsTransfer
<1>1. Spec => []RInv
  BY RInvInit, RInvStep, IInvAlways, PTL DEF Spec
<1> QED BY <1>1, IInvAlways, InitMaps, StepMaps, PTL DEF Spec, ImplementsTransfer, Transfer!Spec
=============================================================================
