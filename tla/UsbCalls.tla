------------------------------ MODULE UsbCalls ------------------------------
(***************************************************************************)
(* Calls that follow each other on one libusb programmer, DemoN or         *)
(* LPC/XFlash.  Each is a process of its own; what passes from one to the  *)
(* next is the state of the programmer, its unread answers and who has its *)
(* interface.                                                              *)
(***************************************************************************)
EXTENDS DemonClient, LpcCalls

vars == <<usb, demon, lpc>>

Init == UsbInit /\ DemonInit /\ LpcInit

Next ==
  \/ UsbNext /\ UNCHANGED <<demon, lpc>>
  \/ DemonNext /\ UNCHANGED lpc
  \/ LpcNext /\ UNCHANGED demon

Spec == Init /\ [][Next]_vars

-----------------------------------------------------------------------------
TypeOK == UsbTypeOK /\ DemonTypeOK /\ LpcTypeOK

PastInit == phase \in {"blocks", "acquire", "list", "unlist", "release"} \/ result = "ok"
IsDemon == programmer.kind = "demon"

(* What a call takes for the flash id and the rest of the device info, and *)
(* for the version, flash config and status of LPC, are the answers to     *)
(* these questions of its, although answers carry no tag and those that    *)
(* came too late for the calls before are still waiting.                   *)
AnswersItsQuestion ==
  /\ IsDemon /\ job # None /\ PastInit =>
       info = <<"device_id", "protocol", "firmware", "nand_id">>
  /\ mistaken => unreset

(* A call that got through init leaves the flash released and the console  *)
(* out of reset whatever its outcome, unless it was killed or a transfer   *)
(* to the programmer failed; an LPC call that was told the flash config    *)
(* has closed the flash.                                                   *)
ReleasedAfterInit ==
  stage = "idle" /\ result # "killed" =>
    /\ IsDemon /\ job # None /\ PastInit /\ ~sendFailed => ~inReset /\ ~acquired
    /\ result = "ok" /\ phase = "flash_deinit" => ~opened

(* A success leaves no half command and no answer for the next call. *)
OkLeavesNothing ==
  stage = "idle" /\ result = "ok" /\ IsDemon /\ job.op # "bad_blocks" /\ ~job.cuts =>
    pipe = << >> /\ wants = "cmd"

(* Wherever a command stops, no later call makes the programmer take the   *)
(* content of a block for commands: the next call notices that its first   *)
(* question is not answered.  The exception is an unverified write of      *)
(* which a block was cut short, as write_block does not look at the length *)
(* written.                                                                *)
BlocksAreNotCommands == [][lost' => lost \/ (job.cuts /\ ~job.verify)]_vars

(* A read reported as done has the blocks of the flash. *)
OkReadMatches ==
  IsDemon /\ result = "ok" /\ job.op = "read" => image = [i \in 1..FlashBlocks |-> flash[i - 1]]

(* An XSVF write that was reported as done has run the player on the file, *)
(* or, if its transfer was cut short, on a part of it.  With what success  *)
(* is not looked at.                                                       *)
XsvfOkMeansRun ==
  result = "ok" /\ job.op = "xsvf" => played = "file" \/ (played = "part" /\ job.cuts)

(* As DemoN calls, unverified or not, implement FlashTransfer: whatever    *)
(* was left behind by the calls before, only planned blocks are            *)
(* programmed, nothing after a success, and a verified success is true.    *)
Plan == IF IsDemon /\ phase = "blocks" /\ job.op = "write"
        THEN [b \in BlocksOf(job) |-> job.file[b + 1]] ELSE << >>
Transfer == INSTANCE FlashTransfer
  WITH Word    <- DataWord,
       plan    <- Plan,
       trusted <- phase = "blocks" /\ job.verify,
       verdict <- CASE job = None                                  -> "none"
                    [] job # None /\ stage # "idle"                  -> "busy"
                    [] job # None /\ stage = "idle" /\ result = "ok" -> "ok"
                    [] OTHER                                       -> "failed"
ImplementsTransfer == Transfer!Spec

-----------------------------------------------------------------------------
(* "Don't leave the flash acquired / SB reset asserted" (demon.rs:304). *)
FlashReleased == stage = "idle" => ~inReset /\ ~acquired
=============================================================================
