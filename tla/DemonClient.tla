----------------------------- MODULE DemonClient -----------------------------
(***************************************************************************)
(* DemonClient (demon/demon.rs) and its NandFlasher (flasher.rs): what a   *)
(* call transfers, and what the programmer makes of it.  Commands carry no *)
(* length and no checksum, and nothing resets the programmer: it takes the *)
(* bytes as they come, and a command that stopped half way goes on with    *)
(* the bytes of the next call.                                             *)
(***************************************************************************)
EXTENDS UsbClient

CONSTANT FlashBlocks  \* number of blocks of the flash

ASSUME FlashBlocksAssumption == FlashBlocks \in Nat \ {0}

Addr == 0..(FlashBlocks - 1)

VARIABLES
  mode,      \* "bootloader" or "firmware"
  wants,     \* what the programmer takes the next bytes for
  target,    \* the block of its current command
  inReset,   \* whether it holds the console in reset
  acquired,  \* whether it has taken the flash from the console
  flash,     \* content of the blocks
  lost,      \* history: block content was taken for commands
  info,      \* what the answers of probe_info were answers to
  at,        \* number of blocks transferred
  image,     \* content of the blocks read
  sendFailed \* history: a transfer to the programmer failed in this call

parser  == <<wants, target, lost>>
console == <<inReset, acquired>>
client  == <<info, at, image, sendFailed>>
demon   == <<mode, parser, console, flash, client>>

DemonInit ==
  /\ mode \in {"bootloader", "firmware"} /\ wants = "cmd" /\ target = 0 /\ lost = FALSE
  /\ inReset = FALSE /\ acquired = FALSE
  /\ flash \in [Addr -> DataWord]
  /\ programmer.kind # "demon" => mode = "firmware" /\ \A a, b \in Addr : flash[a] = flash[b]
  /\ info = << >> /\ at = 0 /\ image = << >> /\ sendFailed = FALSE

-----------------------------------------------------------------------------
(* The commands of the client, transfer by transfer. *)
GetMode == <<Byte("mode"), Get("byte", "mode")>>
Acquire == <<Byte("reset"), Byte("acquire")>>
Release == <<Byte("release"), Byte("deassert")>>
Question(q) == <<Byte(q), Get("word", "info")>>
ReadFlashId == Acquire \o Question("nand_id") \o Release
ProbeInfo == Question("device_id") \o Question("protocol") \o Question("firmware") \o ReadFlashId

ReadBlock(b, use) == <<Byte("read"), Number(b), Get("block", use)>>
WriteBlock(b, w) == <<Byte("program"), Number(b), Block(w)>>

Transfers(b) ==
  IF job.op = "read" THEN ReadBlock(b, "image")
  ELSE WriteBlock(b, job.file[b + 1]) \o (IF job.verify THEN ReadBlock(b, "verify") ELSE << >>)

BlocksOf(j) == IF j.op = "read" THEN Addr ELSE 0..(Len(j.file) - 1)

-----------------------------------------------------------------------------
(* The programmer. *)
Answers == {"mode", "device_id", "protocol", "firmware", "nand_id"}

Command(c) ==
  /\ UNCHANGED <<mode, flash, target, lost, programmer, owner, detached, strayed, unread>>
  /\ wants' = CASE c = "read" -> "read_num" [] c = "program" -> "program_num" [] OTHER -> "cmd"
  /\ bus' = IF c = "leave" /\ mode = "bootloader" THEN "leaving" ELSE bus
  /\ inReset'  = CASE c = "reset" -> TRUE [] c = "deassert" -> FALSE [] OTHER -> inReset
  /\ acquired' = CASE c = "acquire" -> TRUE [] c = "release" -> FALSE [] OTHER -> acquired
  /\ CASE c = "mode"    -> Put("byte", mode)
       [] c = "nand_id" -> Put("word", IF acquired THEN c ELSE "garbage")
       [] c \in Answers \ {"mode", "nand_id"} -> Put("word", c)
       [] c = "bad_blocks" -> pipe' = pipe \o <<[length |-> "byte", value |-> "count"],
                                                [length |-> "word", value |-> "list"]>>
       [] OTHER -> UNCHANGED pipe

(* A transfer that leaves the interface, the mode and the console alone. *)
Parse(next, block) ==
  /\ wants' = next /\ target' = block
  /\ UNCHANGED <<interface, mode, console, unread>>

ReadOut(b) == Put("block", flash[b]) /\ UNCHANGED <<flash, lost>>
Program(b) == \E w \in DataWord : flash' = [flash EXCEPT ![b] = w] /\ UNCHANGED pipe
Silent == UNCHANGED <<flash, pipe, lost>>

(* What follows is taken for commands that nobody gave. *)
Stray == lost' = TRUE /\ UNCHANGED <<flash, pipe>> /\ Parse("cmd", target)

(* A byte: a command, half a block number or part of a block. *)
TakeByte(c) ==
  CASE wants = "cmd" -> Command(c)
    [] wants = "read_num" -> Silent /\ Parse("read_half", target)
    [] wants = "program_num" -> Silent /\ Parse("program_half", target)
    [] wants = "read_half" -> \E b \in Addr : ReadOut(b) /\ Parse("cmd", b)
    [] wants = "program_half" -> Silent /\ \E b \in Addr : Parse("data", b)
    [] OTHER -> Silent /\ Parse("rest", target)

TakeNumber(b) ==
  CASE wants = "read_num" -> ReadOut(b) /\ Parse("cmd", b)
    [] wants = "program_num" -> Silent /\ Parse("data", b)
    [] wants = "program_half" -> Silent /\ \E a \in Addr : Parse("rest", a)
    [] wants \in {"data", "rest"} -> Silent /\ Parse("rest", target)
    [] OTHER -> Stray

(* A block, or the part of it that was sent.  It is programmed when all    *)
(* its bytes have come; nothing tells the host what was stored.            *)
TakeBlock(whole) ==
  CASE wants = "data" /\ whole -> Program(target) /\ Parse("cmd", target) /\ UNCHANGED lost
    [] wants = "data" /\ ~whole -> Silent /\ Parse("rest", target)
    [] wants = "rest" -> Program(target) /\ Parse("cmd", target) /\ lost' = TRUE
    [] OTHER -> Stray

Ignored == UNCHANGED <<interface, mode, parser, console, flash, answers>>

(* The transfer reaches the programmer. *)
Take(t, whole) ==
  IF lost THEN Ignored
  ELSE CASE "byte" \in DOMAIN t   -> TakeByte(t.byte)
         [] "number" \in DOMAIN t -> TakeNumber(t.number)
         [] OTHER                 -> TakeBlock(whole)

(* It leaves the bootloader: it vanishes from the bus, which an open that  *)
(* is under way notices, and comes back.                                   *)
Reenumerate ==
  /\ \/ /\ bus = "leaving" /\ bus' = "gone" /\ owner' = "nobody"
        /\ mode' = "firmware" /\ wants' = "cmd" /\ pipe' = << >>
        /\ IF stage \in {"detach", "reclaim"} THEN Return("failed") ELSE UNCHANGED course
        /\ UNCHANGED strayed
     \/ /\ bus = "gone" /\ bus' = "present"
        /\ owner' = (IF programmer.driver THEN "kernel" ELSE "nobody") /\ strayed' = FALSE
        /\ UNCHANGED <<mode, wants, pipe, course>>
  /\ UNCHANGED <<programmer, detached, call, unread, target, lost, console, flash, client>>

-----------------------------------------------------------------------------
(* The client. *)

DemonBegin(j) ==
  /\ programmer.kind = "demon" /\ j.op \in {"info", "read", "write", "bad_blocks"}
  /\ Begin(j, "mode", GetMode)
  /\ info' = << >> /\ at' = 0 /\ image' = << >> /\ sendFailed' = FALSE
  /\ UNCHANGED <<mode, parser, console, flash>>

(* Mutant: an error of read_invalid_blocks is returned at once. *)
FailAtOnce == Return("failed")

(* Mutant: an error in the loop over the blocks is passed over. *)
FailPassedOver == IF phase = "blocks" THEN Continue ELSE Return("failed")

(* An error returns at once, but that of read_invalid_blocks releases the  *)
(* flash first; that the release may fail too is ignored.                  *)
Fail == IF phase = "list" THEN Enter("unlist", Release) ELSE Return("failed")

(* write_byte, write_u16 and write_bulk. *)
SendTransfer ==
  /\ stage = "talk" /\ todo # << >> /\ "get" \notin DOMAIN Head(todo)
  /\ \/ /\ Alive /\ \E whole \in (IF job.cuts THEN BOOLEAN ELSE {TRUE}) : Take(Head(todo), whole)
        /\ Continue /\ UNCHANGED sendFailed
     \/ /\ Alive /\ UsbFails /\ \E whole \in BOOLEAN : Take(Head(todo), whole)
        /\ Fail /\ sendFailed' = TRUE
     \/ /\ ~Alive \/ UsbFails
        /\ Ignored /\ Fail /\ sendFailed' = TRUE
  /\ UNCHANGED <<call, info, at, image>>

Unmoved == UNCHANGED <<interface, call, mode, parser, console, flash, sendFailed>>

ReadError(length) == ReadFails(length) /\ Fail /\ UNCHANGED <<info, at, image>>

(* A byte that is no mode counts as "bootloader", whoever it answers. *)
ModeIn ==
  /\ Getting("mode") /\ Unmoved
  /\ \/ /\ Alive /\ ReadBulk("byte")
        /\ \/ Head(pipe).value # "bootloader" /\ Enter("probe", ProbeInfo)
           \/ Head(pipe).value # "firmware" /\ Enter("leave", <<Byte("leave")>>)
        /\ UNCHANGED <<info, at, image>>
     \/ ReadError("byte")

(* One second later the programmer is opened anew; the client before is    *)
(* dropped when that has worked.                                           *)
Reopen ==
  /\ programmer.kind = "demon" /\ Finished("leave")
  /\ stage' = "claim" /\ phase' = "probe" /\ todo' = ProbeInfo
  /\ UNCHANGED <<interface, call, result, answers, demon>>

InfoIn ==
  /\ Getting("info") /\ Unmoved
  /\ \/ /\ Alive /\ ReadBulk("word") /\ info' = Append(info, Head(pipe).value)
        /\ Continue /\ UNCHANGED <<at, image>>
     \/ ReadError("word")

(* The blocks of a read or write, which are those of the flash at most; of  *)
(* an empty file there are none.                                           *)
StartBlocks ==
  /\ BlocksOf(job) \subseteq Addr
  /\ IF BlocksOf(job) = {} THEN Return("ok") ELSE Enter("blocks", Transfers(0))

(* What comes after init: geometry may not know the chip, and the blocks   *)
(* may be refused.                                                         *)
Initialized ==
  /\ programmer.kind = "demon" /\ Finished("probe")
  /\ \/ job.op = "info" /\ Return("ok")
     \/ job.op \in {"read", "write"} /\ StartBlocks
     \/ job.op \in {"read", "write"} /\ Return("failed")
     \/ job.op = "bad_blocks" /\ Enter("acquire", Acquire)
  /\ UNCHANGED <<interface, call, answers, demon>>

BlockIn ==
  /\ Getting("image") /\ Unmoved
  /\ \/ /\ Alive /\ ReadBulk("block") /\ image' = Append(image, Head(pipe).value)
        /\ Continue /\ UNCHANGED <<info, at>>
     \/ ReadError("block")

(* Mutant: the block read back is not compared. *)
VerifyInUncompared ==
  /\ Getting("verify") /\ Unmoved
  /\ \/ Alive /\ ReadBulk("block") /\ Continue /\ UNCHANGED <<info, at, image>>
     \/ ReadError("block")

VerifyIn ==
  /\ Getting("verify") /\ Unmoved
  /\ \/ /\ Alive /\ ReadBulk("block")
        /\ IF Head(pipe).value = job.file[at + 1] THEN Continue ELSE Return("failed")
        /\ UNCHANGED <<info, at, image>>
     \/ ReadError("block")

(* Mutant: the block number is not advanced. *)
BlockDoneRepeats ==
  /\ Finished("blocks")
  /\ at' = at + 1
  /\ IF at + 1 \in BlocksOf(job) THEN Enter("blocks", Transfers(at)) ELSE Return("ok")
  /\ UNCHANGED <<interface, call, answers, mode, parser, console, flash, info, image, sendFailed>>

(* Mutant: one block too many is transferred. *)
BlockDoneLate ==
  /\ Finished("blocks")
  /\ at' = at + 1
  /\ IF at \in BlocksOf(job) THEN Enter("blocks", Transfers(at)) ELSE Return("ok")
  /\ UNCHANGED <<interface, call, answers, mode, parser, console, flash, info, image, sendFailed>>

BlockDone ==
  /\ Finished("blocks")
  /\ at' = at + 1
  /\ IF at + 1 \in BlocksOf(job) THEN Enter("blocks", Transfers(at + 1)) ELSE Return("ok")
  /\ UNCHANGED <<interface, call, answers, mode, parser, console, flash, info, image, sendFailed>>

(* get_invalid_blocks: read_variable takes any answer that is not too long, *)
(* and a timeout for an empty one.                                          *)
ListInvalidBlocks ==
  /\ Finished("acquire")
  /\ Enter("list", <<Byte("bad_blocks"), Get("word", "count")>>)
  /\ UNCHANGED <<interface, call, answers, demon>>

Variable == pipe # << >> /\ Length[Head(pipe).length] <= 2 /\ pipe' = Tail(pipe) /\ UNCHANGED unread

CountIn ==
  /\ Getting("count") /\ Unmoved /\ UNCHANGED <<info, at, image>>
  /\ \/ Alive /\ Variable /\ Enter("list", <<Get("word", "list")>>)
     \/ Alive /\ TimesOut /\ Enter("release", Release)
     \/ Breaks("word") /\ Fail

ListIn ==
  /\ Getting("list") /\ Unmoved /\ UNCHANGED <<info, at, image>>
  /\ \/ Alive /\ (Variable \/ TimesOut) /\ Enter("release", Release)
     \/ Breaks("word") /\ Fail

ListDone ==
  /\ \/ Finished("release") /\ Return("ok")
     \/ Finished("unlist") /\ Return("failed")
  /\ UNCHANGED <<interface, call, answers, demon>>

DemonNext ==
  \/ \E j \in Jobs : DemonBegin(j)
  \/ programmer.kind = "demon" /\ SendTransfer
  \/ ModeIn \/ Reopen \/ InfoIn \/ Initialized \/ BlockIn \/ VerifyIn \/ BlockDone
  \/ ListInvalidBlocks \/ CountIn \/ ListIn \/ ListDone \/ Reenumerate

-----------------------------------------------------------------------------
DemonTypeOK ==
  /\ mode \in {"bootloader", "firmware"} /\ target \in Addr /\ lost \in BOOLEAN
  /\ wants \in {"cmd", "read_num", "read_half", "program_num", "program_half", "data", "rest"}
  /\ inReset \in BOOLEAN /\ acquired \in BOOLEAN /\ sendFailed \in BOOLEAN
  /\ flash \in [Addr -> DataWord] /\ at \in 0..FlashBlocks /\ Len(image) <= FlashBlocks
  /\ Len(info) <= 4
=============================================================================
