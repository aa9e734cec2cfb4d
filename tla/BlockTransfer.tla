---------------------------- MODULE BlockTransfer ----------------------------
(***************************************************************************)
(* run_read_nand and run_write_nand (flasher.rs): transfers through a      *)
(* backend that implements NandFlasher, LPC/XFlash or DemoN.  Every call   *)
(* of the backend is answered before the next is made, well or with an     *)
(* error; the input file may be replaced by another process at any time.   *)
(***************************************************************************)
EXTENDS Ranges, Sequences, FiniteSets

CONSTANTS
  DeviceBlocks,   \* size of the flash, in blocks of the backend
  BlockLimit,     \* block numbers from here on are refused (u16 of DemoN)
  DataWord,       \* the contents a block may have
  Missing,        \* the content of a block that the input does not have
  BlockBytes,     \* bytes in a block
  Files,          \* contents of the input: its length and its whole blocks
  Calls,          \* the requests a caller may make
  MaxCalls,       \* bound on the number of calls
  SilentBlocks,   \* blocks that may hold something else after a good write:
                  \* a silent medium, or a block that LPC's write_bulk cut short
  Faults          \* which faults happen, of FaultKinds

(* A failing backend call, an error on the input or output file, a panic   *)
(* or kill.                                                                *)
FaultKinds == {"device", "file", "die"}

Addr == 0..(DeviceBlocks - 1)
File == [len : Nat, data : Seq(DataWord)]
Call == [op : {"read", "write"}, start : U32, count : OptU32, verify : BOOLEAN]

ASSUME TransferAssumption ==
  /\ DeviceBlocks \in U32 /\ BlockLimit \in Nat /\ BlockBytes \in Nat \ {0} /\ MaxCalls \in Nat
  /\ Files \subseteq File /\ \A f \in Files : Len(f.data) = f.len \div BlockBytes
  /\ Calls \subseteq Call /\ None \notin Calls \cup Files
  /\ Missing \notin DataWord
  /\ SilentBlocks \subseteq Addr /\ Faults \subseteq FaultKinds

VARIABLES
  pc,       \* where the caller's thread is
  call,     \* the request it is working on, or worked on last
  calls,    \* number of requests so far
  blocks,   \* number of blocks planned
  done,     \* number of blocks transferred
  buf,      \* block_buf: the block read last, from the input or the flash
  error,    \* whether read_blocks or write_blocks returned an error
  result,   \* outcome of the request
  out,      \* content of a read's output file
  file,     \* content behind the path of the input
  opened,   \* content behind the open handle, None if there is none
  session,  \* whether the programmer is initialised for flash access
  deinits,  \* history: how often this request called deinit
  flash     \* content of the flash

request == <<call, calls>>
loop    == <<blocks, done, buf, out>>
verdict == <<error, result>>
backend == <<session, deinits, flash>>
vars    == <<pc, request, loop, verdict, file, opened, backend>>

Init ==
  /\ pc = "idle" /\ call = None /\ calls = 0
  /\ blocks = 0 /\ done = 0 /\ buf = Missing /\ out = << >>
  /\ error = FALSE /\ result = "none"
  /\ file \in Files /\ opened = None
  /\ session = "closed" /\ deinits = 0 /\ flash \in [Addr -> DataWord]

-----------------------------------------------------------------------------
Begin(c) ==
  /\ pc = "idle" /\ calls < MaxCalls
  /\ pc' = "geometry" /\ call' = c /\ calls' = calls + 1
  /\ blocks' = 0 /\ done' = 0 /\ buf' = Missing /\ out' = << >>
  /\ error' = FALSE /\ result' = "none"
  /\ opened' = None /\ deinits' = 0
  /\ UNCHANGED <<file, session, flash>>

(* The backend is initialised, or fails with the flash initialised or not. *)
Geometry ==
  /\ pc = "geometry"
  /\ \/ pc' = (IF call.op = "read" THEN "plan" ELSE "stat") /\ session' = "open" /\ UNCHANGED result
     \/ /\ "device" \in Faults /\ pc' = "idle" /\ result' = "err"
        /\ session' \in {session, "open"}
  /\ UNCHANGED <<request, loop, error, file, opened, deinits, flash>>

(* read_blocks or write_blocks returns an error. *)
Fail ==
  /\ error' = TRUE /\ pc' = "deinit"
  /\ UNCHANGED <<request, loop, result, file, opened, backend>>

PlanTransfer(inputLen) ==
  IF call.op = "read" THEN PlanRead(call.start, call.count, DeviceBlocks)
  ELSE PlanWrite(BlockBytes, inputLen, call.start, call.count, DeviceBlocks)

(* The plan is made from the length of the path's content at this moment;  *)
(* the file is opened afterwards.                                          *)
MakePlan ==
  /\ pc \in {"plan", "stat"}
  /\ \/ (PlanTransfer(file.len) = None \/ "file" \in Faults) /\ Fail
     \/ /\ PlanTransfer(file.len) # None
        /\ blocks' = PlanTransfer(file.len) /\ pc' = "open"
        /\ UNCHANGED <<request, done, buf, out, verdict, file, opened, backend>>

LoopPc(n) == IF n = blocks THEN "finish" ELSE IF call.op = "read" THEN "read" ELSE "load"

OpenFile ==
  /\ pc = "open"
  /\ \/ "file" \in Faults /\ Fail
     \/ /\ opened' = (IF call.op = "write" THEN file ELSE None)
        /\ pc' = LoopPc(0)
        /\ UNCHANGED <<request, loop, verdict, file, backend>>

(* Mutant: the start of the request is forgotten. *)
BlockNumFromZero == done

(* The block number of the loops, start + i in u32. *)
BlockNum == (call.start + done) % (U32Max + 1)

(* Mutant: a short read of the input is padded instead of refused. *)
LoadBlockPadded ==
  /\ pc = "load"
  /\ \E w \in DataWord :
       buf' = IF done + 1 <= Len(opened.data) THEN opened.data[done + 1] ELSE w
  /\ pc' = "write"
  /\ UNCHANGED <<request, blocks, done, out, verdict, file, opened, backend>>

(* read_exact fails at the end of a file that got shorter since the stat. *)
LoadBlock ==
  /\ pc = "load"
  /\ \/ (done + 1 > Len(opened.data) \/ "file" \in Faults) /\ Fail
     \/ /\ done + 1 <= Len(opened.data)
        /\ buf' = opened.data[done + 1]
        /\ pc' = "write"
        /\ UNCHANGED <<request, blocks, done, out, verdict, file, opened, backend>>

Addressable == BlockNum < BlockLimit /\ BlockNum \in Addr

(* Mutant: a block is counted when written and again when verified. *)
BlockDoneTwice == done' = done + 2 /\ pc' = LoopPc(done + 1)

BlockDone == done' = done + 1 /\ pc' = LoopPc(done + 1)

(* A write is done, or fails with the block in any state, or succeeds over *)
(* a block that does not hold what was written.                            *)
WriteBlock ==
  /\ pc = "write"
  /\ \/ ~Addressable /\ Fail
     \/ /\ Addressable
        /\ \E w \in DataWord, ok \in BOOLEAN :
             /\ ~ok => "device" \in Faults
             /\ ok /\ w # buf => BlockNum \in SilentBlocks
             /\ flash' = [flash EXCEPT ![BlockNum] = w]
             /\ IF ~ok THEN pc' = "deinit" /\ UNCHANGED done
                ELSE IF call.verify THEN pc' = "verify" /\ UNCHANGED done
                ELSE BlockDone
             /\ error' = ~ok
        /\ UNCHANGED <<request, blocks, buf, out, result, file, opened, session, deinits>>

VerifyBlock ==
  /\ pc = "verify"
  /\ \/ (flash[BlockNum] # buf \/ "device" \in Faults) /\ Fail
     \/ /\ flash[BlockNum] = buf
        /\ BlockDone
        /\ UNCHANGED <<request, blocks, buf, out, verdict, file, opened, backend>>

ReadBlock ==
  /\ pc = "read"
  /\ \/ (~Addressable \/ {"device", "file"} \cap Faults # {}) /\ Fail
     \/ /\ Addressable
        /\ buf' = flash[BlockNum] /\ out' = Append(out, flash[BlockNum])
        /\ BlockDone
        /\ UNCHANGED <<request, blocks, verdict, file, opened, backend>>

(* A read flushes its output. *)
Finish ==
  /\ pc = "finish"
  /\ \/ call.op = "read" /\ "file" \in Faults /\ Fail
     \/ pc' = "deinit" /\ UNCHANGED <<request, loop, verdict, file, opened, backend>>

(* Mutant: the outcome of deinit replaces that of the transfer. *)
DeinitReplacesError ==
  /\ pc = "deinit" /\ pc' = "idle"
  /\ deinits' = deinits + 1
  /\ \E ok \in BOOLEAN :
       /\ ~ok => "device" \in Faults
       /\ session' = IF ok THEN "closed" ELSE session
       /\ result' = IF ok THEN "ok" ELSE "err"
  /\ UNCHANGED <<request, loop, error, file, opened, flash>>

(* deinit is called whatever the outcome; the error of the transfer goes   *)
(* before its own.                                                         *)
Deinit ==
  /\ pc = "deinit" /\ pc' = "idle"
  /\ deinits' = deinits + 1
  /\ \E ok \in BOOLEAN :
       /\ ~ok => "device" \in Faults
       /\ session' = IF ok THEN "closed" ELSE session
       /\ result' = IF ok /\ ~error THEN "ok" ELSE "err"
  /\ UNCHANGED <<request, loop, error, file, opened, flash>>

Die ==
  /\ "die" \in Faults /\ pc # "idle"
  /\ pc' = "idle" /\ result' = "died"
  /\ UNCHANGED <<request, loop, error, file, opened, backend>>

(* Another process puts another file in the place of the input. *)
ReplaceFile ==
  /\ \E f \in Files : file' = f
  /\ UNCHANGED <<pc, request, loop, verdict, opened, backend>>

Next ==
  \/ \E c \in Calls : Begin(c)
  \/ Geometry \/ MakePlan \/ OpenFile \/ LoadBlock \/ WriteBlock \/ VerifyBlock \/ ReadBlock
  \/ Finish \/ Deinit \/ Die \/ ReplaceFile

Spec == Init /\ [][Next]_vars

-----------------------------------------------------------------------------
TypeOK ==
  /\ pc \in {"idle", "geometry", "plan", "stat", "open", "load", "write", "verify", "read",
             "finish", "deinit"}
  /\ call \in Calls \cup {None} /\ calls \in 0..MaxCalls
  /\ blocks \in U32 /\ done \in 0..blocks
  /\ buf \in DataWord \cup {Missing} /\ out \in Seq(DataWord)
  /\ error \in BOOLEAN /\ result \in {"none", "ok", "err", "died"}
  /\ file \in Files /\ opened \in Files \cup {None}
  /\ session \in {"open", "closed"} /\ deinits \in 0..1
  /\ flash \in [Addr -> DataWord]

(* After a call that got past geometry, and did not die, the backend was   *)
(* released; a call reported as done has left it closed, and no step of it *)
(* failed: neither a failed transfer nor a failed deinit is masked.        *)
OutcomeHonest ==
  /\ result = "ok" => ~error /\ session = "closed" /\ deinits = 1 /\ done = blocks
  /\ pc = "idle" /\ error /\ result # "died" => result = "err" /\ deinits = 1

Blocks == {call.start + i : i \in 0..(blocks - 1)}

(* The output of a read reported as done is the flash, block for block. *)
OkReadMatches ==
  result = "ok" /\ call.op = "read" =>
    out = [i \in 1..blocks |-> flash[call.start + i - 1]]

(* A write implements FlashTransfer: only planned blocks are programmed,   *)
(* nothing after the call returned, and success means that the flash holds *)
(* the blocks of the file that was opened, also when the path was given    *)
(* another content between the stat, the open and the end of the write.    *)
Content(i) == IF i <= Len(opened.data) THEN opened.data[i] ELSE Missing
Target == IF opened # None THEN [a \in Blocks |-> Content(a - call.start + 1)] ELSE << >>
Trusted == opened # None /\ (call.verify \/ Blocks \cap SilentBlocks = {})
Verdict ==
  IF call = None THEN "none"
  ELSE [none |-> "busy", ok |-> "ok", err |-> "failed", died |-> "failed"][result]
Transfer == INSTANCE FlashTransfer
  WITH Word <- DataWord \cup {Missing}, plan <- Target, trusted <- Trusted, verdict <- Verdict
ImplementsTransfer == Transfer!Spec
=============================================================================
