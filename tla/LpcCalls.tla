------------------------------ MODULE LpcCalls ------------------------------
(***************************************************************************)
(* The command-line calls that are LPC/XFlash's own (commands.rs,          *)
(* lpc/lpc.rs): asking for the flash config (info, xsvf detect) and        *)
(* playing an XSVF file (xsvf write).  Commands are control transfers,     *)
(* which are whole or nothing.                                             *)
(***************************************************************************)
EXTENDS UsbClient

VARIABLES
  opened,   \* whether the programmer has the flash initialised
  loaded,   \* what its buffer holds: "none", "part" or "file"
  played,   \* history: what the XSVF player was run on in this call
  unreset,  \* history: a device_reset of this call has not reset the programmer
  mistaken  \* history: an answer was taken for that to another question, in this call

lpc == <<opened, loaded, played, unreset, mistaken>>

LpcInit ==
  opened = FALSE /\ loaded = "none" /\ played = "none" /\ unreset = FALSE /\ mistaken = FALSE

-----------------------------------------------------------------------------
Control(c) == [control |-> c]
Bulk == [bulk |-> "file"]
Reset == [reset |-> "device"]

Ask(q) == <<Control(q), Get("word", q)>>
LpcOpen == <<Reset>> \o Ask("version")
FlashInit == Ask("data_init")
Xsvf ==
  <<Reset>> \o Ask("version") \o Ask("version") \o Ask("version")
    \o <<Control("data_write"), Bulk, Control("xsvf_exec")>> \o Ask("data_status")

LpcBegin(j) ==
  /\ programmer.kind = "lpc" /\ j.op \in {"detect", "xsvf"}
  /\ Begin(j, "lpc_init", LpcOpen)
  /\ played' = "none" /\ unreset' = FALSE /\ mistaken' = FALSE
  /\ UNCHANGED <<opened, loaded>>

(* An error returns at once; one of flash_init is logged and the call goes *)
(* on to its end without flash_deinit.                                     *)
LpcFail == Return(IF phase = "flash_init" THEN "ok" ELSE "failed")

(* Mutant: a successful reset does not discard what waits to be read. *)
ResetKeepsAnswers == UNCHANGED <<unreset, pipe>>

ResetWorks == pipe' = << >> /\ UNCHANGED unreset

(* device_reset: that the reset itself fails is ignored. *)
DeviceReset ==
  /\ Sending("reset")
  /\ \/ Alive /\ ResetWorks
     \/ UsbFails /\ unreset' = TRUE /\ UNCHANGED pipe
  /\ (Continue \/ (UsbFails /\ LpcFail))
  /\ UNCHANGED <<interface, call, unread, opened, loaded, played, mistaken>>

(* The programmer's part of a control transfer. *)
Obey(c) ==
  /\ CASE c \in {"version", "data_status"} -> Put("word", c) /\ UNCHANGED <<opened, loaded, played>>
       [] c = "data_init"   -> Put("word", c) /\ opened' = TRUE /\ UNCHANGED <<loaded, played>>
       [] c = "data_deinit" -> opened' = FALSE /\ UNCHANGED <<pipe, loaded, played>>
       [] c = "data_write"  -> loaded' = "none" /\ UNCHANGED <<pipe, opened, played>>
       [] OTHER             -> played' = loaded /\ UNCHANGED <<pipe, opened, loaded>>
  /\ UNCHANGED unread

ControlTransfer ==
  /\ Sending("control")
  /\ \/ Alive /\ Obey(Head(todo).control) /\ (Continue \/ (UsbFails /\ LpcFail))
     \/ (UsbFails \/ ~Alive) /\ LpcFail /\ UNCHANGED <<answers, opened, loaded, played>>
  /\ UNCHANGED <<interface, call, unreset, mistaken>>

(* Mutant: an error of the transfer of the file is ignored. *)
WriteFileIgnored ==
  /\ Sending("bulk")
  /\ \/ Alive /\ loaded' = "file"
     \/ UsbFails /\ loaded' \in {"none", "part"}
  /\ Continue
  /\ UNCHANGED <<interface, call, answers, opened, played, unreset, mistaken>>

(* write_bulk of the file: its time limit may leave it in part. *)
WriteFile ==
  /\ Sending("bulk")
  /\ \/ Alive /\ loaded' \in {"file"} \cup (IF job.cuts THEN {"part"} ELSE {}) /\ Continue
     \/ (UsbFails \/ ~Alive) /\ loaded' \in {"none", "part", "file"} /\ LpcFail
  /\ UNCHANGED <<interface, call, answers, opened, played, unreset, mistaken>>

(* read_u32; a config may be one that parse refuses. *)
AnswerIn(q) ==
  /\ Getting(q)
  /\ \/ /\ Alive /\ ReadBulk("word")
        /\ mistaken' = (mistaken \/ Head(pipe).value # q)
        /\ \/ Continue
           \/ q = "data_init" /\ LpcFail
     \/ ReadFails("word") /\ LpcFail /\ UNCHANGED mistaken
  /\ UNCHANGED <<interface, call, opened, loaded, played, unreset>>

LpcInitialized ==
  /\ Finished("lpc_init")
  /\ IF job.op = "detect" THEN Enter("flash_init", FlashInit) ELSE Enter("xsvf", Xsvf)
  /\ UNCHANGED <<interface, call, answers, lpc>>

FlashDeinit ==
  /\ Finished("flash_init")
  /\ Enter("flash_deinit", <<Control("data_deinit")>>)
  /\ UNCHANGED <<interface, call, answers, lpc>>

LpcDone ==
  /\ Finished("flash_deinit") \/ Finished("xsvf")
  /\ Return("ok")
  /\ UNCHANGED <<interface, call, answers, lpc>>

LpcNext ==
  \/ \E j \in Jobs : LpcBegin(j)
  \/ DeviceReset \/ ControlTransfer \/ WriteFile
  \/ \E q \in {"version", "data_init", "data_status"} : AnswerIn(q)
  \/ LpcInitialized \/ FlashDeinit \/ LpcDone

-----------------------------------------------------------------------------
LpcTypeOK ==
  /\ opened \in BOOLEAN /\ unreset \in BOOLEAN /\ mistaken \in BOOLEAN
  /\ loaded \in {"none", "part", "file"} /\ played \in {"none", "part", "file"}
=============================================================================
