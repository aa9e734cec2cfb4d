----------------------------- MODULE PicoSession -----------------------------
(***************************************************************************)
(* The PicoFlasher backend: pico_read and pico_write (commands.rs) run     *)
(* under with_smc_stopped over the serial client (picoflasher/usb.rs), one *)
(* command-line or library call after another against the same programmer  *)
(* and console.                                                            *)
(*                                                                         *)
(* One block of flash, and one u32 or u8 answer, is one Word.  The host's  *)
(* commands wait in inbox until the programmer handles them in order; its  *)
(* answers wait in replies until the host reads them, whatever it is that  *)
(* it then takes them for.  A command goes out whole or not at all: one    *)
(* that write_all sends in part, and whose rest the programmer would take  *)
(* from the bytes that follow, is left out.                                *)
(***************************************************************************)
EXTENDS Ranges, Sequences, FiniteSets

CONSTANTS
  DeviceBlocks,   \* size of the medium
  Word,           \* what travels on the serial line
  DataWord,       \* the words a block of flash may hold
  Zero,           \* status 0, the all-zero answer
  ErrWord,        \* a status other than 0
  VersionWord,    \* answer to GET_VERSION
  ConfigWords,    \* possible answers to GET_FLASH_CONFIG and EMMC_GET_EXT_CSD
  NandSize,       \* size a word taken for a flash config stands for, None if unsupported
  SecCount,       \* size a word taken for an EXT_CSD stands for
  BlockBytes,     \* bytes in a block
  Calls,          \* the requests a caller may make
  MaxCalls,       \* bound on the number of calls
  Faults,         \* which faults happen, of FaultKinds
  SilentMedia,    \* media that may store something else and report success
  LateReplies     \* whether answers and commands outlive the call that gave up on them

FaultKinds == {"send", "timeout", "status", "file", "die"}

Media == {"nand", "emmc"}

Addr == 0..(DeviceBlocks - 1)

ASSUME WordAssumption ==
  /\ DataWord \subseteq Word /\ ConfigWords \subseteq Word
  /\ {Zero, ErrWord, VersionWord} \subseteq Word
  /\ Zero # ErrWord
  /\ NandSize \in [Word -> OptU32] /\ SecCount \in [Word -> U32]
ASSUME SizeAssumption ==
  DeviceBlocks \in Nat /\ BlockBytes \in Nat \ {0} /\ MaxCalls \in Nat
ASSUME FaultAssumption ==
  Faults \subseteq FaultKinds /\ SilentMedia \subseteq Media /\ LateReplies \in BOOLEAN

(* file is the content of the input, which has an odd end when inputLen is *)
(* not a multiple of BlockBytes.                                           *)
Call == [op : {"read", "write"}, media : Media, start : U32, count : OptU32,
         verify : BOOLEAN, inputLen : Nat, file : Seq(DataWord)]

ASSUME CallsAssumption ==
  /\ Calls \subseteq Call
  /\ \A c \in Calls : Len(c.file) = c.inputLen \div BlockBytes
ASSUME NoCallAssumption == None \notin Calls

VARIABLES
  pc,           \* where the host is
  call,         \* the request it is working on, or worked on last
  calls,        \* number of requests so far
  total,        \* size of the medium as the host found it
  blocks,       \* number of blocks planned
  done,         \* number of blocks transferred
  keepStopped,  \* keep_stopped of with_smc_stopped
  result,       \* outcome of the request
  out,          \* content of a read's output file
  sent,         \* history: which of STOP and START this request delivered
  inbox,        \* commands the programmer has not handled
  replies,      \* answers the host has not read
  medium,       \* which medium the console has
  flash,        \* its content
  smc,          \* the console's SMC
  tainted       \* history: blocks programmed by writes that were not reported as done

request   == <<call, calls>>
planned   == <<total, blocks>>
copied    == <<done, out>>
device    == <<medium, flash, smc, tainted>>
hostVars  == <<pc, request, planned, copied, keepStopped, result, sent>>
vars      == <<hostVars, inbox, replies, device>>

Init ==
  /\ pc = "idle" /\ call = None /\ calls = 0
  /\ total = None /\ blocks = 0 /\ done = 0 /\ out = << >>
  /\ keepStopped = FALSE /\ result = "none" /\ sent = {}
  /\ inbox = << >> /\ replies = << >>
  /\ medium \in Media /\ flash \in [Addr -> DataWord]
  /\ smc = "running" /\ tainted = {}

-----------------------------------------------------------------------------
(* The serial client. *)

Commands == {"GET_VERSION", "STOP_SMC", "SET_SMC_WORKAROUND", "START_SMC", "GET_FLASH_CONFIG",
             "EMMC_INIT", "EMMC_DETECT", "EMMC_GET_EXT_CSD",
             "READ_FLASH", "WRITE_FLASH", "EMMC_READ", "EMMC_WRITE"}

ReadCmd(media)  == IF media = "nand" THEN "READ_FLASH" ELSE "EMMC_READ"
WriteCmd(media) == IF media = "nand" THEN "WRITE_FLASH" ELSE "EMMC_WRITE"

Send(cmd, lba, data) == inbox' = Append(inbox, [cmd |-> cmd, lba |-> lba, data |-> data])

Receive == replies # << >> /\ replies' = Tail(replies)

Answer == Head(replies)

(* Mutant: the start of the request is forgotten. *)
LbaFromZero == done

(* The block address of the loops, start + done in u32. *)
Lba == (call.start + done) % (U32Max + 1)

(* The error leaves pico_read or pico_write through with_smc_stopped; one  *)
(* before STOP_SMC leaves the call at once.                                *)
Fail ==
  /\ result' = "err"
  /\ pc' = IF pc \in {"hello", "version"} THEN "idle" ELSE "unwind"
  /\ UNCHANGED <<request, planned, copied, keepStopped, sent, inbox, device>>

(* A query of the setup phase: where it is sent, and where its answer is   *)
(* awaited.                                                                *)
Queries == {<<"hello",    "GET_VERSION",      "version">>,
            <<"nand",     "GET_FLASH_CONFIG", "config">>,
            <<"emmc",     "EMMC_INIT",        "init">>,
            <<"initd",    "EMMC_DETECT",      "detect">>,
            <<"detected", "EMMC_GET_EXT_CSD", "csd">>}

Query(q) ==
  /\ pc = q[1] /\ pc' = q[3]
  /\ Send(q[2], 0, Zero)
  /\ UNCHANGED <<request, planned, copied, keepStopped, result, sent, replies, device>>

Sending  == {q[1] : q \in Queries} \cup {"program", "fetch"}
Awaiting == {q[3] : q \in Queries} \cup {"status", "ret", "data"}

SendFails == "send" \in Faults /\ pc \in Sending /\ Fail /\ UNCHANGED replies

(* Mutant: only the first answer is awaited with a time limit. *)
TimeoutOnVersion ==
  "timeout" \in Faults /\ pc = "version" /\ replies = << >> /\ Fail /\ UNCHANGED replies

Timeout == "timeout" \in Faults /\ pc \in Awaiting /\ replies = << >> /\ Fail /\ UNCHANGED replies

-----------------------------------------------------------------------------
(* with_smc_stopped. *)

(* A new call opens the port; unless LateReplies, the programmer has       *)
(* finished what an earlier call asked for, and what it answered is gone.  *)
Connect(c) ==
  /\ pc = "idle" /\ calls < MaxCalls
  /\ LateReplies \/ inbox = << >>
  /\ replies' = << >> \/ (LateReplies /\ UNCHANGED replies)
  /\ pc' = "hello" /\ call' = c /\ calls' = calls + 1
  /\ total' = None /\ blocks' = 0 /\ done' = 0 /\ out' = << >>
  /\ keepStopped' = FALSE /\ result' = "none" /\ sent' = {}
  /\ UNCHANGED <<inbox, device>>

(* Mutant: STOP_SMC is left out. *)
VersionReplyNoStop ==
  /\ pc = "version" /\ pc' = "workaround"
  /\ Receive
  /\ UNCHANGED <<request, planned, copied, keepStopped, result, sent, inbox, device>>

VersionReply ==
  /\ pc = "version" /\ pc' = "stop"
  /\ Receive
  /\ UNCHANGED <<request, planned, copied, keepStopped, result, sent, inbox, device>>

(* Whether the command left the host; its failure is ignored. *)
SendOrIgnore(cmd) ==
  \/ Send(cmd, 0, Zero) /\ sent' = sent \cup ({cmd} \ {"SET_SMC_WORKAROUND"})
  \/ "send" \in Faults /\ UNCHANGED <<inbox, sent>>

StopSmc ==
  /\ pc = "stop" /\ pc' = "workaround"
  /\ SendOrIgnore("STOP_SMC")
  /\ UNCHANGED <<request, planned, copied, keepStopped, result, replies, device>>

SetSmcWorkaround ==
  /\ pc = "workaround" /\ pc' = call.media
  /\ SendOrIgnore("SET_SMC_WORKAROUND")
  /\ UNCHANGED <<request, planned, copied, keepStopped, result, replies, device>>

(* Mutants: keep_stopped is set only once a block is written; keep_stopped *)
(* is ignored, and every failure leaves the SMC stopped.                   *)
StayStoppedFromSecondBlock == result = "err" /\ keepStopped /\ done > 0
StayStoppedOnAnyError == result = "err"

(* op has returned: the SMC restarts unless the write failed after         *)
(* keep_stopped was set.                                                   *)
MustStayStopped == result = "err" /\ keepStopped

LeaveStopped ==
  /\ pc = "unwind" /\ pc' = "idle"
  /\ MustStayStopped
  /\ UNCHANGED <<request, planned, copied, keepStopped, result, sent, inbox, replies, device>>

(* Mutant: the SMC restarts whatever the outcome. *)
StartSmcAlways ==
  /\ pc = "unwind" /\ pc' = "idle"
  /\ SendOrIgnore("START_SMC")
  /\ UNCHANGED <<request, planned, copied, keepStopped, result, replies, device>>

StartSmc ==
  /\ pc = "unwind" /\ pc' = "idle"
  /\ ~MustStayStopped
  /\ SendOrIgnore("START_SMC")
  /\ UNCHANGED <<request, planned, copied, keepStopped, result, replies, device>>

(* The process is killed, or a panic unwinds it: nothing more is sent. *)
Die ==
  /\ "die" \in Faults /\ pc # "idle"
  /\ pc' = "idle"
  /\ result' = IF result = "none" THEN "died" ELSE result
  /\ UNCHANGED <<request, planned, copied, keepStopped, sent, inbox, replies, device>>

-----------------------------------------------------------------------------
(* prepare_nand and prepare_emmc. *)

ConfigReply ==
  /\ pc = "config" /\ pc' = "plan"
  /\ Receive
  /\ total' = NandSize[Answer]
  /\ UNCHANGED <<request, blocks, copied, keepStopped, result, sent, inbox, device>>

InitReply ==
  /\ pc = "init"
  /\ Receive
  /\ \/ Answer # Zero /\ Fail
     \/ /\ Answer = Zero /\ pc' = "initd"
        /\ UNCHANGED <<request, planned, copied, keepStopped, result, sent, inbox, device>>

DetectReply ==
  /\ pc = "detect"
  /\ Receive
  /\ \/ Answer = Zero /\ Fail
     \/ /\ Answer # Zero /\ pc' = "detected"
        /\ UNCHANGED <<request, planned, copied, keepStopped, result, sent, inbox, device>>

CsdReply ==
  /\ pc = "csd" /\ pc' = "plan"
  /\ Receive
  /\ total' = SecCount[Answer]
  /\ UNCHANGED <<request, blocks, copied, keepStopped, result, sent, inbox, device>>

-----------------------------------------------------------------------------
(* pico_read and pico_write. *)

PlanOf(c) == IF c.op = "read" THEN PlanRead(c.start, c.count, total)
             ELSE PlanWrite(BlockBytes, c.inputLen, c.start, c.count, total)

LoopHead == IF call.op = "read" THEN "fetch" ELSE "load"

(* Plan the transfer and open the file. *)
MakePlan ==
  /\ pc = "plan"
  /\ \/ (PlanOf(call) = None \/ "file" \in Faults) /\ Fail
     \/ /\ PlanOf(call) # None
        /\ blocks' = PlanOf(call)
        /\ pc' = IF blocks' = 0 THEN "finish" ELSE LoopHead
        /\ UNCHANGED <<request, total, copied, keepStopped, result, sent, inbox, device>>
  /\ UNCHANGED replies

(* Mutant: a block is counted when written and again when verified. *)
BlockDoneTwice ==
  /\ done' = done + 2
  /\ pc' = IF done + 1 = blocks THEN "finish" ELSE LoopHead

(* One more block is transferred. *)
BlockDone ==
  /\ done' = done + 1
  /\ pc' = IF done' = blocks THEN "finish" ELSE LoopHead

(* Read a block of the input; from here on a failure keeps the SMC stopped. *)
LoadBlock ==
  /\ pc = "load"
  /\ \/ "file" \in Faults /\ Fail
     \/ /\ keepStopped' = TRUE /\ pc' = "program"
        /\ UNCHANGED <<request, planned, copied, result, sent, inbox, device>>
  /\ UNCHANGED replies

ProgramBlock ==
  /\ pc = "program" /\ pc' = "status"
  /\ Send(WriteCmd(call.media), Lba, call.file[done + 1])
  /\ UNCHANGED <<request, planned, copied, keepStopped, result, sent, replies, device>>

(* Mutant: the status of a write is read and not looked at. *)
StatusReplyUnchecked ==
  /\ pc = "status"
  /\ Receive
  /\ IF call.verify THEN pc' = "fetch" /\ UNCHANGED done ELSE BlockDone
  /\ UNCHANGED <<request, planned, out, keepStopped, result, sent, inbox, device>>

StatusReply ==
  /\ pc = "status"
  /\ Receive
  /\ \/ Answer # Zero /\ Fail
     \/ /\ Answer = Zero
        /\ IF call.verify THEN pc' = "fetch" /\ UNCHANGED done ELSE BlockDone
        /\ UNCHANGED <<request, planned, out, keepStopped, result, sent, inbox, device>>

(* A block is read for pico_read, and to verify one just written. *)
FetchBlock ==
  /\ pc = "fetch" /\ pc' = "ret"
  /\ Send(ReadCmd(call.media), Lba, Zero)
  /\ UNCHANGED <<request, planned, copied, keepStopped, result, sent, replies, device>>

RetReply ==
  /\ pc = "ret"
  /\ Receive
  /\ \/ Answer # Zero /\ Fail
     \/ /\ Answer = Zero /\ pc' = "data"
        /\ UNCHANGED <<request, planned, copied, keepStopped, result, sent, inbox, device>>

(* Mutant: read-back data is not compared with the input. *)
DataReplyUncompared ==
  /\ pc = "data"
  /\ Receive
  /\ IF call.op = "read" THEN out' = Append(out, Answer) ELSE UNCHANGED out
  /\ BlockDone
  /\ UNCHANGED <<request, planned, keepStopped, result, sent, inbox, device>>

DataReply ==
  /\ pc = "data"
  /\ Receive
  /\ \/ /\ call.op = "read"
        /\ out' = Append(out, Answer)
        /\ BlockDone
        /\ UNCHANGED <<request, planned, keepStopped, result, sent, inbox, device>>
     \/ /\ call.op = "write" /\ Answer = call.file[done + 1]
        /\ BlockDone
        /\ UNCHANGED <<request, planned, out, keepStopped, result, sent, inbox, device>>
     \/ call.op = "read" /\ "file" \in Faults /\ Fail
     \/ call.op = "write" /\ Answer # call.file[done + 1] /\ Fail

(* The blocks of the current plan. *)
WriteRange == {call.start + i : i \in 0..(blocks - 1)}

(* All blocks are transferred; a read still flushes its output. *)
Finish ==
  /\ pc = "finish"
  /\ \/ "file" \in Faults /\ call.op = "read" /\ Fail
     \/ /\ result' = "ok" /\ pc' = "unwind"
        /\ tainted' = IF call.op = "write" THEN tainted \ WriteRange ELSE tainted
        /\ UNCHANGED <<request, planned, copied, keepStopped, sent, inbox, medium, flash, smc>>
  /\ UNCHANGED replies

HostStep ==
  \/ (\E q \in Queries : Query(q)) \/ SendFails \/ Timeout
  \/ VersionReply \/ StopSmc \/ SetSmcWorkaround \/ LeaveStopped \/ StartSmc
  \/ ConfigReply \/ InitReply \/ DetectReply \/ CsdReply
  \/ MakePlan \/ LoadBlock \/ ProgramBlock \/ StatusReply \/ FetchBlock \/ RetReply
  \/ DataReply \/ Finish

-----------------------------------------------------------------------------
(* The programmer's firmware and the console, as the host relies on them.  *)

Reply(words) == replies' = replies \o words

SmcCommand(f) ==
  /\ f.cmd \in {"STOP_SMC", "START_SMC", "SET_SMC_WORKAROUND"}
  /\ smc' = CASE f.cmd = "STOP_SMC"  -> "stopped"
              [] f.cmd = "START_SMC" -> "running"
              [] OTHER               -> smc
  /\ UNCHANGED <<replies, medium, flash, tainted>>

(* EMMC_INIT answers a status, EMMC_DETECT whether there is a card; the     *)
(* flash config of a console with eMMC tells no NAND size.                 *)
Inquiry(f) ==
  /\ \/ f.cmd = "GET_VERSION" /\ Reply(<<VersionWord>>)
     \/ /\ f.cmd \in {"GET_FLASH_CONFIG", "EMMC_GET_EXT_CSD"}
        /\ \E w \in ConfigWords :
             /\ f.cmd = "GET_FLASH_CONFIG" /\ medium = "emmc" => NandSize[w] = None
             /\ Reply(<<w>>)
     \/ /\ f.cmd \in {"EMMC_INIT", "EMMC_DETECT"}
        /\ \E ok \in BOOLEAN :
             /\ ok => medium = "emmc"
             /\ ~ok => medium # "emmc" \/ "status" \in Faults
             /\ Reply(<<IF ok = (f.cmd = "EMMC_INIT") THEN Zero ELSE ErrWord>>)
  /\ UNCHANGED device

ReadFlash(f) ==
  /\ f.cmd \in {ReadCmd(m) : m \in Media}
  /\ LET there == f.cmd = ReadCmd(medium) /\ f.lba \in Addr
     IN  \/ there /\ Reply(<<Zero, flash[f.lba]>>)
         \/ (~there \/ "status" \in Faults) /\ Reply(<<ErrWord>>)
  /\ UNCHANGED device

(* A write is done, fails with the block in any state, or reports success  *)
(* over a block it did not write as asked.                                 *)
WriteFlash(f) ==
  /\ f.cmd \in {WriteCmd(m) : m \in Media}
  /\ IF f.cmd = WriteCmd(medium) /\ f.lba \in Addr
     THEN /\ \E w \in DataWord, ok \in BOOLEAN :
               /\ ok /\ w # f.data => medium \in SilentMedia
               /\ ~ok => "status" \in Faults
               /\ flash' = [flash EXCEPT ![f.lba] = w]
               /\ Reply(<<IF ok THEN Zero ELSE ErrWord>>)
          /\ tainted' = tainted \cup {f.lba}
     ELSE Reply(<<ErrWord>>) /\ UNCHANGED <<flash, tainted>>
  /\ UNCHANGED <<medium, smc>>

Handle ==
  /\ inbox # << >>
  /\ inbox' = Tail(inbox)
  /\ LET f == Head(inbox)
     IN  SmcCommand(f) \/ Inquiry(f) \/ ReadFlash(f) \/ WriteFlash(f)
  /\ UNCHANGED hostVars

Next == (\E c \in Calls : Connect(c)) \/ HostStep \/ Die \/ Handle

Spec == Init /\ [][Next]_vars

(* The host thread runs on, and its reads time out; of the programmer      *)
(* nothing is assumed.                                                     *)
FairSpec == Spec /\ WF_vars(HostStep)

-----------------------------------------------------------------------------
Frame == [cmd : Commands, lba : U32, data : Word]

PcLabels == {"idle", "stop", "workaround", "plan", "load", "finish", "unwind"}
              \cup Sending \cup Awaiting

(* Every variable has its type, and a transfer never passes its plan. *)
TypeOK ==
  /\ pc \in PcLabels
  /\ call \in Calls \cup {None} /\ calls \in 0..MaxCalls
  /\ call = None => pc = "idle"
  /\ total \in OptU32 /\ blocks \in U32 /\ done \in 0..blocks /\ out \in Seq(Word)
  /\ keepStopped \in BOOLEAN /\ result \in {"none", "ok", "err", "died"}
  /\ sent \subseteq {"STOP_SMC", "START_SMC"}
  /\ inbox \in Seq(Frame) /\ replies \in Seq(Word)
  /\ medium \in Media /\ flash \in [Addr -> DataWord] /\ smc \in {"running", "stopped"}
  /\ tainted \subseteq Addr

(* What the SMC will be once the programmer has handled its inbox: stopped *)
(* by the last STOP_SMC, or already, with no START_SMC to come.            *)
StoppedFrom(i) == \A j \in i..Len(inbox) : inbox[j].cmd # "START_SMC"
StaysStopped ==
  \/ smc = "stopped" /\ StoppedFrom(1)
  \/ \E i \in 1..Len(inbox) : inbox[i].cmd = "STOP_SMC" /\ StoppedFrom(i)

(* After a write has set keep_stopped the console is held, with nothing on *)
(* the line that would release it, until the write is done or another call *)
(* begins: also when it fails, times out or dies, and also when commands   *)
(* of earlier calls are still on the line.                                 *)
PartialImageHeld ==
  "STOP_SMC" \in sent /\ keepStopped /\ result # "ok" => StaysStopped

(* A write reported as done has left exactly its input on the flash: each  *)
(* status belongs to the block just sent, and no block is skipped.  For a  *)
(* medium that corrupts silently this is what --verify is for.             *)
Trusted == call # None /\ (call.verify \/ call.media \notin SilentMedia)
OkWriteMatches ==
  result = "ok" /\ call.op = "write" /\ Trusted =>
    /\ WriteRange \subseteq Addr
    /\ \A i \in 0..(blocks - 1) : flash[call.start + i] = call.file[i + 1]

(* The output of a read reported as done is the flash, block for block. *)
OkReadMatches ==
  result = "ok" /\ call.op = "read" =>
    /\ WriteRange \subseteq Addr
    /\ out = [i \in 1..blocks |-> flash[call.start + i - 1]]

(* A write implements FlashTransfer: it programs planned blocks only, also *)
(* after it was given up, and success means the plan is on the flash.      *)
Target == IF call # None /\ call.op = "write"
          THEN [a \in WriteRange |-> call.file[a - call.start + 1]] ELSE << >>
Verdict ==
  IF call = None THEN "none"
  ELSE [none |-> "busy", ok |-> "ok", err |-> "failed", died |-> "failed"][result]
Transfer == INSTANCE FlashTransfer
              WITH Word <- DataWord, plan <- Target, trusted <- Trusted, verdict <- Verdict
ImplementsTransfer == Transfer!Spec

(* Every call returns, also when the programmer never answers. *)
CallReturns == pc # "idle" ~> pc = "idle"

(* When the programmer goes on handling commands, a console whose SMC a    *)
(* call stopped runs again, unless that call is a write that failed after  *)
(* it had begun to program.                                                *)
ConsoleReleased ==
  WF_vars(Handle) =>
    (pc # "idle" /\ "STOP_SMC" \in sent ~>
       smc = "running" \/ (pc = "idle" /\ result = "err" /\ keepStopped))

(* While a call moves blocks the console is stopped, or about to be.       *)
StoppedDuringTransfer ==
  pc \in {"program", "status", "fetch", "ret", "data"} => StaysStopped

(* The console never runs on an image that a write has left partial.       *)
PartialImageNeverRuns == pc = "idle" /\ inbox = << >> /\ tainted # {} => smc = "stopped"
=============================================================================
