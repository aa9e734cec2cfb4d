--------------------------- MODULE UsbCallsProofs ---------------------------
(***************************************************************************)
(* DriverGivenBack, TypeOK, AnswersItsQuestion, ReleasedAfterInit and      *)
(* XsvfOkMeansRun for every number of calls, whatever the jobs, faults and *)
(* programmers, and however many answers came too late; and                *)
(* OkLeavesNothing, OkReadMatches, BlocksAreNotCommands and the refinement *)
(* of FlashTransfer for every number of calls of which none begins with    *)
(* more than four answers waiting.                                         *)
(***************************************************************************)
EXTENDS UsbCalls, SequenceTheorems, TLAPS

(* What holds of the interface at every step.  The client's claim does not *)
(* outlive the call; a programmer that has left the bus is not claimed by  *)
(* the client or a driver, and no claim is tried again on it; and a driver *)
(* that is not attached was detached by the client that has the interface, *)
(* or by one that is about to claim it.                                    *)
ClaimEnds == stage = "idle" => owner # "client"
GoneIsFree == bus = "gone" => owner \notin {"client", "kernel"} /\ stage # "reclaim"
DriverKnown ==
  programmer.driver /\ ~strayed /\ bus # "gone" =>
    owner = "kernel" \/ (owner = "client" /\ detached) \/ stage = "reclaim"
OwnInv == ClaimEnds /\ GoneIsFree /\ DriverKnown

(* Most steps of a call are transfers: they leave the interface alone,     *)
(* save that a programmer that is present may be told to leave, and go on  *)
(* talking, return, or open the programmer anew.                           *)
Talks ==
  /\ stage = "talk" /\ stage' \in {"talk", "drop", "claim"}
  /\ UNCHANGED <<programmer, owner, detached, strayed>>
  /\ bus' = bus \/ (bus = "present" /\ bus' = "leaving")

-----------------------------------------------------------------------------
(* The invariant gives the property.                                       *)
LEMMA OwnInvSuffices == OwnInv => DriverGivenBack
BY DEF OwnInv, ClaimEnds, DriverKnown, DriverGivenBack

LEMMA OwnInvInit == Init => OwnInv
BY DEF Init, UsbInit, OwnInv, ClaimEnds, GoneIsFree, DriverKnown

LEMMA OwnInvStutter == OwnInv /\ UNCHANGED vars => OwnInv'
BY DEF OwnInv, ClaimEnds, GoneIsFree, DriverKnown, vars, usb, interface, course

LEMMA OwnInvTalks == OwnInv /\ Talks => OwnInv'
BY DEF OwnInv, ClaimEnds, GoneIsFree, DriverKnown, Talks

(* A call begins with nothing detached, as the client before is gone.      *)
LEMMA OwnInvBegin ==
  ASSUME NEW j, NEW first, NEW transfers, OwnInv, Begin(j, first, transfers)
  PROVE  OwnInv'
BY DEF OwnInv, ClaimEnds, GoneIsFree, DriverKnown, Begin

-----------------------------------------------------------------------------
(* The steps of UsbClient.                                                 *)
LEMMA OwnInvUsb == OwnInv /\ UsbNext => OwnInv'
<1> SUFFICES ASSUME OwnInv, UsbNext PROVE OwnInv'
    OBVIOUS
<1> USE DEF OwnInv, ClaimEnds, GoneIsFree, DriverKnown
<1>1. CASE Claim
      BY <1>1 DEF Claim, NotOpened, Return, interface
<1>2. CASE DetachKernelDriver
      BY <1>2 DEF DetachKernelDriver, NotOpened, Return, interface
<1>3. CASE Reclaim
      BY <1>3 DEF Reclaim, Return
<1>4. CASE Drop
      BY <1>4 DEF Drop
<1>5. CASE Kill
      BY <1>5 DEF Kill
<1>6. CASE OtherProcess
      BY <1>6 DEF OtherProcess, course
<1> QED BY <1>1, <1>2, <1>3, <1>4, <1>5, <1>6 DEF UsbNext

-----------------------------------------------------------------------------
(* The steps of DemonClient.                                               *)

(* The programmer has no say in who holds its interface.                   *)
LEMMA TakeKeepsOwner ==
  ASSUME NEW t, NEW whole, Take(t, whole)
  PROVE  /\ UNCHANGED <<programmer, owner, detached, strayed>>
         /\ bus' \in {bus, "leaving"}
<1> DEFINE Keeps == /\ UNCHANGED <<programmer, owner, detached, strayed>>
                    /\ bus' \in {bus, "leaving"}
<1>1. ASSUME Ignored PROVE Keeps
      BY <1>1 DEF Ignored, interface
<1>2. ASSUME NEW next, NEW block, Parse(next, block) PROVE Keeps
      BY <1>2 DEF Parse, interface
<1>3. ASSUME NEW c, Command(c) PROVE Keeps
      BY <1>3 DEF Command
<1>4. ASSUME NEW c, TakeByte(c) PROVE Keeps
      BY <1>2, <1>3, <1>4 DEF TakeByte
<1>5. ASSUME NEW b, TakeNumber(b) PROVE Keeps
      BY <1>2, <1>5 DEF TakeNumber, Stray
<1>6. ASSUME TakeBlock(whole) PROVE Keeps
      BY <1>2, <1>6 DEF TakeBlock, Stray
<1> QED BY <1>1, <1>4, <1>5, <1>6 DEF Take

LEMMA SendTalks == SendTransfer => Talks
<1> SUFFICES ASSUME SendTransfer PROVE Talks
    OBVIOUS
<1>1. stage = "talk" /\ stage' \in {"talk", "drop"}
      BY DEF SendTransfer, Continue, Fail, Enter, Return
<1>2. CASE Ignored
      BY <1>1, <1>2 DEF Ignored, interface, Talks
<1>3. CASE Alive /\ \E whole \in BOOLEAN : Take(Head(todo), whole)
      BY <1>1, <1>3, TakeKeepsOwner DEF Alive, Talks
<1> QED BY <1>2, <1>3 DEF SendTransfer

LEMMA OwnInvDemon == OwnInv /\ DemonNext => OwnInv'
<1> SUFFICES ASSUME OwnInv, DemonNext PROVE OwnInv'
    OBVIOUS
<1>1. ASSUME NEW j \in Jobs, DemonBegin(j) PROVE OwnInv'
      BY <1>1, OwnInvBegin DEF DemonBegin
<1>2. CASE SendTransfer
      BY <1>2, SendTalks, OwnInvTalks
<1>3. CASE ModeIn \/ InfoIn \/ BlockIn \/ VerifyIn \/ CountIn \/ ListIn
  <2>1. stage = "talk" /\ UNCHANGED interface
        BY <1>3 DEF ModeIn, InfoIn, BlockIn, VerifyIn, CountIn, ListIn, Getting, Unmoved
  <2>2. stage' \in {"talk", "drop"}
        BY <1>3, <2>1 DEF ModeIn, InfoIn, BlockIn, VerifyIn, CountIn, ListIn, ReadError,
           Continue, Fail, Enter, Return
  <2> QED BY <2>1, <2>2, OwnInvTalks DEF Talks, interface
<1>4. CASE Reopen \/ Initialized \/ BlockDone \/ ListInvalidBlocks \/ ListDone
  <2>1. stage = "talk" /\ UNCHANGED interface
        BY <1>4 DEF Reopen, Initialized, BlockDone, ListInvalidBlocks, ListDone, Finished
  <2>2. stage' \in {"talk", "drop", "claim"}
        BY <1>4, <2>1 DEF Reopen, Initialized, StartBlocks, BlockDone, ListInvalidBlocks, ListDone,
           Enter, Return
  <2> QED BY <2>1, <2>2, OwnInvTalks DEF Talks, interface
<1>5. CASE Reenumerate
      BY <1>5 DEF Reenumerate, Return, course, OwnInv, ClaimEnds, GoneIsFree, DriverKnown
<1> QED BY <1>1, <1>2, <1>3, <1>4, <1>5 DEF DemonNext

-----------------------------------------------------------------------------
(* The steps of LpcCalls.                                                  *)
LEMMA OwnInvLpc == OwnInv /\ LpcNext => OwnInv'
<1> SUFFICES ASSUME OwnInv, LpcNext PROVE OwnInv'
    OBVIOUS
<1>1. ASSUME NEW j \in Jobs, LpcBegin(j) PROVE OwnInv'
      BY <1>1, OwnInvBegin DEF LpcBegin
<1>2. CASE DeviceReset \/ ControlTransfer \/ WriteFile
  <2>1. stage = "talk" /\ UNCHANGED interface
        BY <1>2 DEF DeviceReset, ControlTransfer, WriteFile, Sending
  <2>2. stage' \in {"talk", "drop"}
        BY <1>2, <2>1 DEF DeviceReset, ControlTransfer, WriteFile, Continue, LpcFail, Return
  <2> QED BY <2>1, <2>2, OwnInvTalks DEF Talks, interface
<1>3. ASSUME NEW q, AnswerIn(q) PROVE OwnInv'
  <2>1. stage = "talk" /\ UNCHANGED interface
        BY <1>3 DEF AnswerIn, Getting
  <2>2. stage' \in {"talk", "drop"}
        BY <1>3, <2>1 DEF AnswerIn, Continue, LpcFail, Return
  <2> QED BY <2>1, <2>2, OwnInvTalks DEF Talks, interface
<1>4. CASE LpcInitialized \/ FlashDeinit \/ LpcDone
  <2>1. stage = "talk" /\ UNCHANGED interface
        BY <1>4 DEF LpcInitialized, FlashDeinit, LpcDone, Finished
  <2>2. stage' \in {"talk", "drop"}
        BY <1>4, <2>1 DEF LpcInitialized, FlashDeinit, LpcDone, Enter, Return
  <2> QED BY <2>1, <2>2, OwnInvTalks DEF Talks, interface
<1> QED BY <1>1, <1>2, <1>3, <1>4 DEF LpcNext

-----------------------------------------------------------------------------
(* Between calls nobody holds the programmer's interface for a call that   *)
(* is over, and the kernel driver is attached where there is one: whatever *)
(* transfers failed, whoever else claims the interface, and also when the  *)
(* programmer left its bootloader in between.  The exceptions are the ones *)
(* that strayed records (demon/usb.rs and lpc/usb.rs, claim_interface and  *)
(* Drop).                                                                  *)
THEOREM DriverAlwaysGivenBack == Spec => []DriverGivenBack
<1>1. Init => OwnInv
      BY OwnInvInit
<1>2. OwnInv /\ [Next]_vars => OwnInv'
      BY OwnInvUsb, OwnInvDemon, OwnInvLpc, OwnInvStutter DEF Next
<1>3. OwnInv => DriverGivenBack
      BY OwnInvSuffices
<1> QED BY <1>1, <1>2, <1>3, PTL DEF Spec

-----------------------------------------------------------------------------
(* Every number of calls: what the answers are taken for, the console and  *)
(* the types. Nothing resets a DemoN between calls and its answers carry   *)
(* no tag, so the invariant says in which order answers can wait, where in *)
(* its scripts a call is, and how the two fit; for LPC, whose calls begin  *)
(* with a reset, that at most one answer waits.                            *)

(* What is left of a script after its first k transfers.                   *)
Left(s, k) == SubSeq(s, k + 1, Len(s))

(* A call is being worked on: its client opens the programmer or talks to  *)
(* it.                                                                     *)
Active == stage \in {"claim", "detach", "reclaim", "talk"}
CourseOK ==
  /\ job = None => stage = "idle" /\ result = "none"
  /\ Active => result = "none"

(* The answer to a question that is answered with a word, and the answer   *)
(* that waits at LPC, if one does.                                         *)
InfoWord(v) == [length |-> "word", value |-> v]
Waits(waiting, q) == pipe = IF waiting THEN <<InfoWord(q)>> ELSE << >>
(* A file that was loaded or played whole, or in part where transfers may  *)
(* be cut.                                                                 *)
Whole(x) == x = "file" \/ (x = "part" /\ job.cuts)

(* Where a call of LPC is: in which function, after how many of its        *)
(* transfers. Once a reset has worked, what waits to be read is the answer *)
(* to the question that was asked last, and nothing else.                  *)
AtOpen(k) ==
  /\ phase = "lpc_init" /\ k \in 0..3 /\ todo = Left(LpcOpen, k) /\ (stage # "talk" => k = 0)
  /\ ~unreset /\ k > 0 => Waits(k = 2, "version")
AtFlash(k) ==
  /\ phase = "flash_init" /\ k \in 0..2 /\ todo = Left(FlashInit, k)
  /\ stage = "talk" /\ job.op = "detect"
  /\ ~unreset => Waits(k = 1, "data_init")
Closing == <<Control("data_deinit")>>
AtClose(k) ==
  /\ phase = "flash_deinit" /\ k \in 0..1 /\ todo = Left(Closing, k)
  /\ stage = "talk" /\ job.op = "detect"
  /\ k = 1 => ~opened
AtXsvf(k) ==
  /\ phase = "xsvf" /\ k \in 0..12 /\ todo = Left(Xsvf, k)
  /\ stage = "talk" /\ job.op = "xsvf"
  /\ ~unreset => Waits(k \in {2, 4, 6, 11}, IF k = 11 THEN "data_status" ELSE "version")
  /\ k = 9 => Whole(loaded)
  /\ k >= 10 => Whole(played)
(* The invariant of LPC. The answer that is read is the one that waits     *)
(* alone; before xsvf_exec the file was loaded in this call, after it the  *)
(* player was run on that; data_deinit has closed the flash.               *)
LpcInv ==
  programmer.kind = "lpc" =>
    /\ bus = "present"
    /\ job # None => job.op \in {"detect", "xsvf"}
    /\ Active => \E k \in 0..12 : AtOpen(k) \/ AtFlash(k) \/ AtClose(k) \/ AtXsvf(k)
    /\ mistaken => unreset
    /\ ~Active /\ result = "ok" =>
         /\ job.op = "xsvf" => Whole(played)
         /\ phase = "flash_deinit" => ~opened

(* The answers of DemoN.                                                   *)
ModeBytes == [length : {"byte"}, value : {"bootloader", "firmware"}]
CountByte == [length |-> "byte", value |-> "count"]
Bytes == ModeBytes \cup {CountByte}
Contents == [length : {"block"}, value : DataWord]
Questions == <<"device_id", "protocol", "firmware", "nand_id">>
AnAnswer == Bytes \cup Contents \cup {InfoWord(v) : v \in {"device_id", "protocol", "firmware", "nand_id", "list"}}
(* Answers that end what a call asks: nothing that is asked next could be  *)
(* taken for a continuation of them.                                       *)
Closed == Contents \cup {InfoWord("nand_id")}
(* Which answer may wait behind which. Answers carry no tag, and a call    *)
(* that gives up leaves its own behind; but it asks in a fixed order and   *)
(* stops at the first error, and the next call begins with the mode. So    *)
(* behind the answer to a question of probe_info waits the answer to the   *)
(* next question, or a byte: the mode that the next call asked for, or the *)
(* count of bad blocks.                                                    *)
Follows(a, b) ==
  /\ a \in ModeBytes => b \in Bytes \cup {InfoWord("device_id")}
  /\ a = CountByte => b = InfoWord("list")
  /\ a = InfoWord("list") => b \in Bytes
  /\ a = InfoWord("device_id") => b \in Bytes \cup {InfoWord("protocol")}
  /\ a = InfoWord("protocol") => b \in Bytes \cup {InfoWord("firmware")}
  /\ a = InfoWord("firmware") => b \in Bytes \cup {InfoWord("nand_id")}
Chain(p) ==
  /\ p \in Seq(AnAnswer)
  /\ \A i \in 1..(Len(p) - 1) : Follows(p[i], p[i + 1])
  /\ p # << >> => p[Len(p)] # CountByte
(* The last answer that waits.                                             *)
EndsIn(A) == pipe # << >> => pipe[Len(pipe)] \in A

(* The answers a call has read in probe_info: those to the first n         *)
(* questions; or, to the first, a list of bad blocks that an earlier call  *)
(* left behind, after which it fails.                                      *)
First(n) == [i \in 1..n |-> Questions[i]]
ReaderOK(n) ==
  /\ info = First(n) \/ (n = 1 /\ info = <<"list">>)
  /\ pipe # << >> =>
       IF n = 0 THEN Head(pipe) \in Bytes \cup {InfoWord("device_id"), InfoWord("list")}
       ELSE Follows(InfoWord(info[n]), Head(pipe))
(* What a call has asked in probe_info: the last answer that waits is to   *)
(* its last question, or ends a command that an earlier call left half     *)
(* sent. That nothing waits means that all answers were its own.           *)
Prompt(a) == IF a = 0 THEN ModeBytes ELSE {InfoWord(Questions[a])}
WriterOK(n, a) ==
  ~lost =>
    /\ EndsIn(Closed \cup Prompt(a))
    /\ pipe = << >> => n = a /\ info = First(n) /\ (wants = "cmd" \/ n = 4)
(* What the programmer takes the next bytes for, before and during         *)
(* probe_info: the bytes of get_mode and of a question complete the number *)
(* of a block, the next are taken for its content.                         *)
Early == wants \notin {"read_num", "program_num"}
Settled == wants \in {"cmd", "data", "rest"}
Untouched == at = 0 /\ image = << >>

(* Where a call of DemoN is: in which function, after how many of its      *)
(* transfers.                                                              *)
AtMode(k) ==
  /\ phase = "mode" /\ k \in 0..1 /\ todo = Left(GetMode, k) /\ (stage # "talk" => k = 0)
  /\ info = << >> /\ Untouched
  /\ k = 1 => Early /\ (~lost => EndsIn(Closed \cup ModeBytes))
Leaving == <<Byte("leave")>>
AtLeave(k) ==
  /\ phase = "leave" /\ k \in 0..1 /\ todo = Left(Leaving, k) /\ stage = "talk" /\ Untouched
  /\ Early /\ ReaderOK(0) /\ WriterOK(0, 0)
Answered(k) == IF k < 2 THEN 0 ELSE IF k < 4 THEN 1 ELSE IF k < 6 THEN 2 ELSE IF k < 10 THEN 3 ELSE 4
Asked(k) == IF k < 1 THEN 0 ELSE IF k < 3 THEN 1 ELSE IF k < 5 THEN 2 ELSE IF k < 9 THEN 3 ELSE 4
AtProbe(k) ==
  /\ phase = "probe" /\ k \in 0..12 /\ todo = Left(ProbeInfo, k) /\ (stage # "talk" => k = 0) /\ Untouched
  /\ ReaderOK(Answered(k))
  /\ WriterOK(Answered(k), Asked(k))
  /\ IF k = 0 THEN Early ELSE Settled /\ bus = "present"
  /\ k \in {8, 9, 10} /\ ~lost /\ wants = "cmd" => acquired
  /\ k >= 11 => ~acquired
  /\ k = 12 => ~inReset
(* The last answer that waits ends a command.                              *)
Quiet == ~lost => EndsIn(Closed)
Clean == ~inReset /\ ~acquired
(* In the loop over the blocks.                                            *)
AtBlocks(k) ==
  /\ phase = "blocks" /\ stage = "talk" /\ job.op \in {"read", "write"}
  /\ BlocksOf(job) \subseteq Addr /\ at \in BlocksOf(job)
  /\ k \in 0..Len(Transfers(at)) /\ todo = Left(Transfers(at), k)
  /\ Len(image) = IF job.op = "write" THEN 0 ELSE IF k = 3 THEN at + 1 ELSE at
  /\ info = Questions /\ Quiet /\ Clean
Listing == <<Byte("bad_blocks"), Get("word", "count")>>
(* In get_invalid_blocks.                                                  *)
AtAcquire(k) ==
  /\ phase = "acquire" /\ stage = "talk" /\ job.op = "bad_blocks" /\ Untouched
  /\ k \in 0..2 /\ todo = Left(Acquire, k)
  /\ info = Questions /\ Quiet
AtList(k) ==
  /\ phase = "list" /\ stage = "talk" /\ job.op = "bad_blocks" /\ Untouched
  /\ k \in 0..2 /\ todo = (IF k < 2 THEN Left(Listing, k) ELSE <<Get("word", "list")>>)
  /\ info = Questions /\ (k = 0 => Quiet)
AtRelease(k) ==
  /\ phase \in {"release", "unlist"} /\ stage = "talk" /\ job.op = "bad_blocks" /\ Untouched
  /\ k \in 0..2 /\ todo = Left(Release, k)
  /\ info = Questions
  /\ k >= 1 => ~acquired
  /\ k = 2 => ~inReset
(* The programmer between two transfers. It is in the middle of a command, *)
(* or lost, only when a call stopped in the loop over the blocks, which    *)
(* has the flash released.                                                 *)
Parser ==
  /\ Chain(pipe)
  /\ lost => wants = "cmd"
  /\ lost \/ wants # "cmd" => Clean
  /\ ~lost /\ wants # "cmd" => EndsIn(Closed)
(* The invariant of DemoN.                                                 *)
DemonInv ==
  programmer.kind = "demon" =>
    /\ Parser
    /\ job # None => job.op \in {"info", "read", "write", "bad_blocks"}
    /\ Active => \E k \in 0..12 : \/ AtMode(k) \/ AtLeave(k) \/ AtProbe(k) \/ AtBlocks(k) \/ AtAcquire(k)
                                  \/ AtList(k) \/ AtRelease(k)
    /\ ~Active /\ job # None /\ PastInit =>
         /\ info = Questions
         /\ result # "killed" /\ ~sendFailed => Clean
UInv == CourseOK /\ LpcInv /\ DemonInv

(* The transfers of LPC.                                                   *)
LpcSteps == {Reset, Bulk}
  \cup {Control(q) : q \in {"version", "data_init", "data_deinit", "data_write", "xsvf_exec", "data_status"}}
  \cup {Get("word", q) : q \in {"version", "data_init", "data_status"}}

(* The head of a sequence is its first element.                            *)
LEMMA HeadIsFirst ==
  ASSUME NEW S, NEW s \in Seq(S), s # << >>
  PROVE  Head(s) = s[1]
OBVIOUS

(* What is left of a script: the whole, nothing at the end, and one        *)
(* transfer less after each.                                               *)
LEMMA LeftStep ==
  ASSUME NEW S, NEW s \in Seq(S), NEW k \in 0..Len(s)
  PROVE  /\ Left(s, 0) = s
         /\ Left(s, k) = << >> <=> k = Len(s)
         /\ k < Len(s) => Head(Left(s, k)) = s[k + 1] /\ Tail(Left(s, k)) = Left(s, k + 1)
<1>1. Len(s) \in Nat /\ \A i \in 1..Len(s) : s[i] \in S
  BY LenProperties
<1>2. ASSUME NEW j \in 0..Len(s)
      PROVE  /\ Left(s, j) \in Seq(S)
             /\ Len(Left(s, j)) = Len(s) - j
             /\ \A i \in 1..(Len(s) - j) : Left(s, j)[i] = s[j + i]
  <2>1. \A i \in (j + 1)..Len(s) : s[i] \in S
    BY <1>1
  <2>2. /\ SubSeq(s, j + 1, Len(s)) \in Seq(S)
        /\ Len(SubSeq(s, j + 1, Len(s))) = IF j + 1 <= Len(s) THEN Len(s) - (j + 1) + 1 ELSE 0
        /\ \A i \in 1..(Len(s) - (j + 1) + 1) : SubSeq(s, j + 1, Len(s))[i] = s[j + 1 + i - 1]
    BY <1>1, <2>1, SubSeqProperties
  <2> QED BY <1>1, <2>2 DEF Left
<1>3. Left(s, 0) = s
  BY <1>1, <1>2, SeqEqual
<1>4. Left(s, k) = << >> <=> k = Len(s)
  BY <1>1, <1>2, EmptySeq
<1>5. ASSUME k < Len(s)
      PROVE  Head(Left(s, k)) = s[k + 1] /\ Tail(Left(s, k)) = Left(s, k + 1)
  <2>1. k + 1 \in 0..Len(s) /\ Left(s, k) # << >>
    BY <1>1, <1>4, <1>5
  <2>2. /\ Tail(Left(s, k)) \in Seq(S)
        /\ Len(Tail(Left(s, k))) = Len(s) - k - 1
        /\ \A i \in 1..(Len(s) - k - 1) : Tail(Left(s, k))[i] = Left(s, k)[i + 1]
    BY <1>1, <1>2, <2>1, HeadTailProperties
  <2>3. \A i \in 1..(Len(s) - k - 1) : Tail(Left(s, k))[i] = Left(s, k + 1)[i]
    BY <1>1, <1>2, <2>1, <2>2
  <2>4. Tail(Left(s, k)) = Left(s, k + 1)
    <3>1. /\ Left(s, k + 1) \in Seq(S)
          /\ Len(Left(s, k + 1)) = Len(s) - k - 1
      BY <1>1, <1>2, <2>1
    <3> DEFINE t == Tail(Left(s, k))
                 u == Left(s, k + 1)
    <3>3. /\ t \in Seq(S) /\ u \in Seq(S) /\ Len(t) = Len(u)
          /\ \A i \in 1..Len(t) : t[i] = u[i]
      BY <2>2, <2>3, <3>1
    <3> HIDE DEF t, u
    <3>4. t = u
      BY <3>3, SeqEqual
    <3> QED BY <3>4 DEF t, u
  <2>5. Head(Left(s, k)) = Left(s, k)[1]
    BY <1>2, <2>1, HeadIsFirst
  <2>6. Left(s, k)[1] = s[k + 1]
    BY <1>1, <1>2, <1>5
  <2> QED BY <2>4, <2>5, <2>6
<1> QED BY <1>3, <1>4, <1>5

(* The same of a script whose length is known by bounds.                   *)
LEMMA LeftAt ==
  ASSUME NEW S, NEW s \in Seq(S), NEW n \in Nat, Len(s) <= n, n <= Len(s), NEW k \in Nat, k <= n
  PROVE  /\ Left(s, 0) = s
         /\ Left(s, k) = << >> <=> k = n
         /\ k < n => Head(Left(s, k)) = s[k + 1] /\ Tail(Left(s, k)) = Left(s, k + 1)
BY LeftStep

(* A script of three transfers, one by one.                                *)
LEMMA Three ==
  ASSUME NEW S, NEW a \in S, NEW b \in S, NEW c \in S
  PROVE  LET s == <<a>> \o <<b, c>>
         IN  s \in Seq(S) /\ Len(s) <= 3 /\ 3 <= Len(s) /\ s[1] = a /\ s[2] = b /\ s[3] = c
OBVIOUS

(* What a call that opens LPC has to transfer next.                        *)
LEMMA OpenAt ==
  ASSUME NEW k \in Nat, AtOpen(k)
  PROVE  /\ k \in 0..3 /\ (todo = << >> <=> k = 3)
         /\ k = 0 => Head(todo) = Reset
         /\ k = 1 => Head(todo) = Control("version")
         /\ k = 2 => Head(todo) = Get("word", "version")
         /\ k < 3 => Tail(todo) = Left(LpcOpen, k + 1)
<1>1. Reset \in LpcSteps /\ Control("version") \in LpcSteps /\ Get("word", "version") \in LpcSteps
  BY DEF LpcSteps
<1>2. LpcOpen = <<Reset>> \o <<Control("version"), Get("word", "version")>>
  BY DEF LpcOpen, Ask
<1>3. /\ LpcOpen \in Seq(LpcSteps) /\ Len(LpcOpen) <= 3 /\ 3 <= Len(LpcOpen)
      /\ LpcOpen[1] = Reset /\ LpcOpen[2] = Control("version") /\ LpcOpen[3] = Get("word", "version")
  BY <1>1, <1>2, Three
<1>4. /\ todo = << >> <=> k = 3
      /\ k < 3 => Head(todo) = LpcOpen[k + 1] /\ Tail(todo) = Left(LpcOpen, k + 1)
  <2>1. todo = Left(LpcOpen, k)
    BY DEF AtOpen
  <2>2. /\ Left(LpcOpen, k) = << >> <=> k = 3
        /\ k < 3 => Head(Left(LpcOpen, k)) = LpcOpen[k + 1] /\ Tail(Left(LpcOpen, k)) = Left(LpcOpen, k + 1)
    <3>0. k <= 3
      BY DEF AtOpen
    <3>1. LpcOpen \in Seq(LpcSteps) /\ Len(LpcOpen) <= 3 /\ 3 <= Len(LpcOpen)
      BY <1>3
    <3>2. Left(LpcOpen, k) = << >> <=> k = 3
      BY <3>0, <3>1, LeftAt
    <3>3. k < 3 => Head(Left(LpcOpen, k)) = LpcOpen[k + 1]
      BY <3>0, <3>1, LeftAt
    <3>4. k < 3 => Tail(Left(LpcOpen, k)) = Left(LpcOpen, k + 1)
      BY <3>0, <3>1, LeftAt
    <3> QED BY <3>2, <3>3, <3>4
  <2> QED BY <2>1, <2>2
<1> QED BY <1>3, <1>4 DEF AtOpen

(* What flash_init has to transfer next.                                   *)
LEMMA FlashAt ==
  ASSUME NEW k \in Nat, AtFlash(k)
  PROVE  /\ k \in 0..2 /\ (todo = << >> <=> k = 2)
         /\ k = 0 => Head(todo) = Control("data_init")
         /\ k = 1 => Head(todo) = Get("word", "data_init")
         /\ k < 2 => Tail(todo) = Left(FlashInit, k + 1)
<1>1. Control("data_init") \in LpcSteps /\ Get("word", "data_init") \in LpcSteps
  BY DEF LpcSteps
<1>2. /\ FlashInit \in Seq(LpcSteps) /\ Len(FlashInit) <= 2 /\ 2 <= Len(FlashInit)
      /\ FlashInit[1] = Control("data_init") /\ FlashInit[2] = Get("word", "data_init")
  BY <1>1 DEF FlashInit, Ask
<1>3. /\ todo = << >> <=> k = 2
      /\ k < 2 => Head(todo) = FlashInit[k + 1] /\ Tail(todo) = Left(FlashInit, k + 1)
  <2>1. todo = Left(FlashInit, k)
    BY DEF AtFlash
  <2>2. /\ Left(FlashInit, k) = << >> <=> k = 2
        /\ k < 2 => Head(Left(FlashInit, k)) = FlashInit[k + 1] /\ Tail(Left(FlashInit, k)) = Left(FlashInit, k + 1)
    <3>0. k <= 2
      BY DEF AtFlash
    <3>1. FlashInit \in Seq(LpcSteps) /\ Len(FlashInit) <= 2 /\ 2 <= Len(FlashInit)
      BY <1>2
    <3>2. Left(FlashInit, k) = << >> <=> k = 2
      BY <3>0, <3>1, LeftAt
    <3>3. k < 2 => Head(Left(FlashInit, k)) = FlashInit[k + 1]
      BY <3>0, <3>1, LeftAt
    <3>4. k < 2 => Tail(Left(FlashInit, k)) = Left(FlashInit, k + 1)
      BY <3>0, <3>1, LeftAt
    <3> QED BY <3>2, <3>3, <3>4
  <2> QED BY <2>1, <2>2
<1> QED BY <1>2, <1>3 DEF AtFlash

(* What flash_deinit has to transfer next.                                 *)
LEMMA CloseAt ==
  ASSUME NEW k \in Nat, AtClose(k)
  PROVE  /\ k \in 0..1 /\ (todo = << >> <=> k = 1)
         /\ k = 0 => Head(todo) = Control("data_deinit") /\ Tail(todo) = Left(Closing, k + 1)
<1>1. Control("data_deinit") \in LpcSteps
  BY DEF LpcSteps
<1>2. Closing \in Seq(LpcSteps) /\ Len(Closing) <= 1 /\ 1 <= Len(Closing) /\ Closing[1] = Control("data_deinit")
  BY <1>1 DEF Closing
<1>3. /\ todo = << >> <=> k = 1
      /\ k < 1 => Head(todo) = Closing[k + 1] /\ Tail(todo) = Left(Closing, k + 1)
  <2>1. todo = Left(Closing, k)
    BY DEF AtClose
  <2>2. /\ Left(Closing, k) = << >> <=> k = 1
        /\ k < 1 => Head(Left(Closing, k)) = Closing[k + 1] /\ Tail(Left(Closing, k)) = Left(Closing, k + 1)
    <3>0. k <= 1
      BY DEF AtClose
    <3>1. Closing \in Seq(LpcSteps) /\ Len(Closing) <= 1 /\ 1 <= Len(Closing)
      BY <1>2
    <3>2. Left(Closing, k) = << >> <=> k = 1
      BY <3>0, <3>1, LeftAt
    <3>3. k < 1 => Head(Left(Closing, k)) = Closing[k + 1]
      BY <3>0, <3>1, LeftAt
    <3>4. k < 1 => Tail(Left(Closing, k)) = Left(Closing, k + 1)
      BY <3>0, <3>1, LeftAt
    <3> QED BY <3>2, <3>3, <3>4
  <2> QED BY <2>1, <2>2
<1> QED BY <1>2, <1>3 DEF AtClose

(* A script of twelve transfers, in the pieces of Xsvf, one by one.        *)
LEMMA Twelve ==
  ASSUME NEW S, NEW r \in S, NEW cv \in S, NEW gv \in S, NEW dw \in S, NEW f \in S, NEW x \in S,
         NEW cs \in S, NEW gs \in S
  PROVE  LET s == <<r>> \o <<cv, gv>> \o <<cv, gv>> \o <<cv, gv>> \o <<dw, f, x>> \o <<cs, gs>>
         IN  /\ s \in Seq(S) /\ Len(s) <= 12 /\ 12 <= Len(s)
             /\ s[1] = r /\ s[2] = cv /\ s[3] = gv /\ s[4] = cv /\ s[5] = gv /\ s[6] = cv /\ s[7] = gv
             /\ s[8] = dw /\ s[9] = f /\ s[10] = x /\ s[11] = cs /\ s[12] = gs
OBVIOUS

(* What xsvf write has to transfer next.                                   *)
LEMMA XsvfAt ==
  ASSUME NEW k \in Nat, AtXsvf(k)
  PROVE  /\ k \in 0..12 /\ (todo = << >> <=> k = 12)
         /\ k = 0 => Head(todo) = Reset
         /\ k \in {1, 3, 5} => Head(todo) = Control("version")
         /\ k \in {2, 4, 6} => Head(todo) = Get("word", "version")
         /\ k = 7 => Head(todo) = Control("data_write")
         /\ k = 8 => Head(todo) = Bulk
         /\ k = 9 => Head(todo) = Control("xsvf_exec")
         /\ k = 10 => Head(todo) = Control("data_status")
         /\ k = 11 => Head(todo) = Get("word", "data_status")
         /\ k < 12 => Tail(todo) = Left(Xsvf, k + 1)
<1>1. /\ Reset \in LpcSteps /\ Control("version") \in LpcSteps /\ Get("word", "version") \in LpcSteps
      /\ Control("data_write") \in LpcSteps /\ Bulk \in LpcSteps /\ Control("xsvf_exec") \in LpcSteps
      /\ Control("data_status") \in LpcSteps /\ Get("word", "data_status") \in LpcSteps
  BY DEF LpcSteps
<1>2. Xsvf = <<Reset>> \o <<Control("version"), Get("word", "version")>>
               \o <<Control("version"), Get("word", "version")>>
               \o <<Control("version"), Get("word", "version")>>
               \o <<Control("data_write"), Bulk, Control("xsvf_exec")>>
               \o <<Control("data_status"), Get("word", "data_status")>>
  BY DEF Xsvf, Ask
<1>3. /\ Xsvf \in Seq(LpcSteps) /\ Len(Xsvf) <= 12 /\ 12 <= Len(Xsvf)
      /\ Xsvf[1] = Reset
      /\ Xsvf[2] = Control("version") /\ Xsvf[3] = Get("word", "version")
      /\ Xsvf[4] = Control("version") /\ Xsvf[5] = Get("word", "version")
      /\ Xsvf[6] = Control("version") /\ Xsvf[7] = Get("word", "version")
      /\ Xsvf[8] = Control("data_write") /\ Xsvf[9] = Bulk /\ Xsvf[10] = Control("xsvf_exec")
      /\ Xsvf[11] = Control("data_status") /\ Xsvf[12] = Get("word", "data_status")
  BY <1>1, <1>2, Twelve
<1>4. /\ todo = << >> <=> k = 12
      /\ k < 12 => Head(todo) = Xsvf[k + 1] /\ Tail(todo) = Left(Xsvf, k + 1)
  <2>1. todo = Left(Xsvf, k)
    BY DEF AtXsvf
  <2>2. /\ Left(Xsvf, k) = << >> <=> k = 12
        /\ k < 12 => Head(Left(Xsvf, k)) = Xsvf[k + 1] /\ Tail(Left(Xsvf, k)) = Left(Xsvf, k + 1)
    <3>0. k <= 12
      BY DEF AtXsvf
    <3>1. Xsvf \in Seq(LpcSteps) /\ Len(Xsvf) <= 12 /\ 12 <= Len(Xsvf)
      BY <1>3
    <3>2. Left(Xsvf, k) = << >> <=> k = 12
      BY <3>0, <3>1, LeftAt
    <3>3. k < 12 => Head(Left(Xsvf, k)) = Xsvf[k + 1]
      BY <3>0, <3>1, LeftAt
    <3>4. k < 12 => Tail(Left(Xsvf, k)) = Left(Xsvf, k + 1)
      BY <3>0, <3>1, LeftAt
    <3> QED BY <3>2, <3>3, <3>4
  <2> QED BY <2>1, <2>2
<1> QED BY <1>3, <1>4 DEF AtXsvf

-----------------------------------------------------------------------------
Opening == stage \in {"claim", "detach", "reclaim"}
Moves   == Opening /\ stage' \in {"detach", "reclaim", "talk"} /\ UNCHANGED <<phase, todo, result>>
             /\ (stage' = "talk" => owner' = "client")
Refuses == Opening /\ Return("failed")
Dropped == stage = "drop" /\ stage' = "idle" /\ UNCHANGED <<phase, todo, result>>
Killed  == stage # "idle" /\ stage' = "idle" /\ UNCHANGED phase /\ result' = "killed"
Aside   == UNCHANGED course /\ (owner = "client" <=> owner' = "client")

(* A step of UsbClient is one of these, and touches neither the programmer *)
(* nor its answers.                                                        *)
LEMMA UsbSteps ==
  ASSUME UsbNext
  PROVE  /\ UNCHANGED <<programmer, bus, call, answers>>
         /\ Moves \/ Refuses \/ Dropped \/ Killed \/ Aside
<1> USE DEF Opening, Moves, Refuses, Dropped, Killed, Aside
<1>1. CASE Claim
      BY <1>1 DEF Claim, NotOpened, interface
<1>2. CASE DetachKernelDriver
      BY <1>2 DEF DetachKernelDriver, NotOpened, interface
<1>3. CASE Reclaim
      BY <1>3 DEF Reclaim
<1>4. CASE Drop
      BY <1>4 DEF Drop
<1>5. CASE Kill
      BY <1>5 DEF Kill
<1>6. CASE OtherProcess
      BY <1>6 DEF OtherProcess, course
<1> QED BY <1>1, <1>2, <1>3, <1>4, <1>5, <1>6 DEF UsbNext

Begins == stage = "idle" /\ job' \in Jobs /\ stage' = "claim" /\ result' = "none"
GoesOn == stage = "talk" /\ UNCHANGED job
            /\ \/ stage' \in {"talk", "claim"} /\ UNCHANGED result
               \/ stage' = "drop"
Interrupted == stage \in {"detach", "reclaim"} /\ UNCHANGED job /\ stage' = "drop"

(* A step of DemonClient begins a call, goes on with it, ends its opening, *)
(* or is none of its own.                                                  *)
LEMMA DemonStepsTaken ==
  ASSUME DemonNext
  PROVE  Begins \/ GoesOn \/ Interrupted \/ UNCHANGED <<job, stage, result>>
<1> USE DEF Begins, GoesOn, Interrupted, call, course, Return, Enter, Continue
<1>1. ASSUME NEW j \in Jobs, DemonBegin(j) PROVE Begins
      BY <1>1 DEF DemonBegin, Begin
<1>2. CASE SendTransfer
      BY <1>2 DEF SendTransfer, Fail
<1>3. CASE ModeIn \/ InfoIn \/ BlockIn \/ VerifyIn \/ CountIn \/ ListIn
      BY <1>3 DEF ModeIn, InfoIn, BlockIn, VerifyIn, CountIn, ListIn, Unmoved, ReadError, Fail, Getting
<1>4. CASE Reopen \/ Initialized \/ BlockDone \/ ListInvalidBlocks \/ ListDone
      BY <1>4 DEF Reopen, Initialized, StartBlocks, BlockDone, ListInvalidBlocks, ListDone, Finished
<1>5. CASE Reenumerate
      BY <1>5 DEF Reenumerate
<1> QED BY <1>1, <1>2, <1>3, <1>4, <1>5 DEF DemonNext

(* A step of LpcCalls begins a call or goes on with it.                    *)
LEMMA LpcStepsTaken ==
  ASSUME LpcNext
  PROVE  Begins \/ GoesOn
<1> USE DEF Begins, GoesOn, call, course, Return, Enter, Continue
<1>1. ASSUME NEW j \in Jobs, LpcBegin(j) PROVE Begins
      BY <1>1 DEF LpcBegin, Begin
<1>2. CASE DeviceReset \/ ControlTransfer \/ WriteFile
      BY <1>2 DEF DeviceReset, ControlTransfer, WriteFile, LpcFail, Sending
<1>3. ASSUME NEW q, AnswerIn(q) PROVE GoesOn
      BY <1>3 DEF AnswerIn, LpcFail, Getting
<1>4. CASE LpcInitialized \/ FlashDeinit \/ LpcDone
      BY <1>4 DEF LpcInitialized, FlashDeinit, LpcDone, Finished
<1> QED BY <1>1, <1>2, <1>3, <1>4 DEF LpcNext

(* What is attached stays what it is.                                      *)
LEMMA SameProgrammer == [Next]_vars => UNCHANGED programmer
<1>1. ASSUME NEW j, NEW first, NEW transfers, Begin(j, first, transfers) PROVE UNCHANGED programmer
      BY <1>1 DEF Begin
<1>2. SendTransfer => UNCHANGED programmer
      BY SendTalks DEF Talks
<1>3. ModeIn \/ Reopen \/ InfoIn \/ Initialized \/ BlockIn \/ VerifyIn \/ BlockDone \/ ListInvalidBlocks
        \/ CountIn \/ ListIn \/ ListDone \/ Reenumerate => UNCHANGED programmer
      BY DEF ModeIn, Reopen, InfoIn, Initialized, BlockIn, VerifyIn, BlockDone, ListInvalidBlocks, CountIn,
             ListIn, ListDone, Reenumerate, Unmoved, interface
<1>4. DeviceReset \/ ControlTransfer \/ WriteFile \/ LpcInitialized \/ FlashDeinit \/ LpcDone
        => UNCHANGED programmer
      BY DEF DeviceReset, ControlTransfer, WriteFile, LpcInitialized, FlashDeinit, LpcDone, interface
<1>5. ASSUME NEW q, AnswerIn(q) PROVE UNCHANGED programmer
      BY <1>5 DEF AnswerIn, interface
<1>6. UsbNext => UNCHANGED programmer
      BY UsbSteps
<1>7. UNCHANGED vars => UNCHANGED programmer
      BY DEF vars, usb, interface
<1>8. DemonNext => UNCHANGED programmer
      BY <1>1, <1>2, <1>3 DEF DemonNext, DemonBegin
<1>9. LpcNext => UNCHANGED programmer
      BY <1>1, <1>4, <1>5 DEF LpcNext, LpcBegin
<1> QED BY <1>6, <1>7, <1>8, <1>9 DEF Next

(* There is no call at first.                                              *)
LEMMA CourseOKInit == Init => CourseOK
BY DEF Init, UsbInit, CourseOK, Active

(* A call that is being worked on has no result yet.                       *)
LEMMA CourseOKNext ==
  ASSUME CourseOK, [Next]_vars
  PROVE  CourseOK'
<1> USE DEF CourseOK, Active
<1>1. CASE UNCHANGED vars
      BY <1>1 DEF vars, usb, call, course
<1>2. CASE UsbNext
      BY <1>2, UsbSteps DEF Moves, Refuses, Dropped, Killed, Aside, Opening, Return, call, course
<1>3. CASE DemonNext \/ LpcNext
  <2>1. Begins \/ GoesOn \/ Interrupted \/ UNCHANGED <<job, stage, result>>
        BY <1>3, DemonStepsTaken, LpcStepsTaken
  <2> QED BY <2>1, UsbAssumption DEF Begins, GoesOn, Interrupted
<1> QED BY <1>1, <1>2, <1>3 DEF Next

-----------------------------------------------------------------------------
(* Where a call of LPC is.                                                 *)
LpcAt(k) == AtOpen(k) \/ AtFlash(k) \/ AtClose(k) \/ AtXsvf(k)

(* The invariant depends on these variables only.                          *)
LEMMA LpcInvSame ==
  ASSUME LpcInv, UNCHANGED <<programmer, bus, call, answers, lpc>>, UNCHANGED course
  PROVE  LpcInv'
<1>0. UNCHANGED <<programmer, bus, job, stage, phase, todo, result, pipe, opened, loaded, played, unreset, mistaken>>
      BY DEF call, answers, lpc, course
<1>1. ASSUME NEW k \in 0..12, LpcAt(k) PROVE LpcAt(k)'
      BY <1>0, <1>1 DEF LpcAt, AtOpen, AtFlash, AtClose, AtXsvf, Waits, Whole
<1> QED BY <1>0, <1>1 DEF LpcInv, Active, LpcAt, Whole

(* Opening the programmer, dropping the client or being killed keeps the   *)
(* invariant.                                                              *)
LEMMA LpcInvUsb ==
  ASSUME CourseOK, LpcInv, UsbNext, UNCHANGED lpc
  PROVE  LpcInv'
<1>0. /\ UNCHANGED <<programmer, bus, call, answers>>
      /\ UNCHANGED <<job, pipe, opened, loaded, played, unreset, mistaken>>
      /\ Moves \/ Refuses \/ Dropped \/ Killed \/ Aside
      BY UsbSteps DEF call, answers, lpc
<1>1. CASE Aside
      BY <1>0, <1>1, LpcInvSame DEF Aside
<1>2. CASE Moves
  <2>1. SUFFICES ASSUME programmer.kind = "lpc" PROVE LpcInv'
        BY <1>0 DEF LpcInv
  <2>2. PICK k \in 0..12 : LpcAt(k)
        BY <1>2, <2>1 DEF Moves, Opening, LpcInv, Active, LpcAt
  <2>3. AtOpen(0) /\ UNCHANGED <<phase, todo, result>> /\ stage' \in {"detach", "reclaim", "talk"}
        BY <1>2, <2>2 DEF Moves, Opening, LpcAt, AtOpen, AtFlash, AtClose, AtXsvf
  <2>4. AtOpen(0)'
        BY <1>0, <2>3 DEF AtOpen
  <2> QED BY <1>0, <2>1, <2>3, <2>4 DEF LpcInv, Active
<1>3. CASE Refuses \/ Killed
      BY <1>0, <1>3 DEF Refuses, Killed, Return, LpcInv, Active
<1>4. CASE Dropped
      BY <1>0, <1>4 DEF Dropped, LpcInv, Active, Whole
<1> QED BY <1>0, <1>1, <1>2, <1>3, <1>4

(* While a call of LPC talks, what it transfers next is one of its own     *)
(* transfers.                                                              *)
LEMMA LpcHead ==
  ASSUME LpcInv, programmer.kind = "lpc", stage = "talk"
  PROVE  /\ todo # << >> => Head(todo) \in LpcSteps
         /\ phase \in {"lpc_init", "flash_init", "flash_deinit", "xsvf"}
<1>1. PICK k \in 0..12 : LpcAt(k)
      BY DEF LpcInv, Active, LpcAt
<1>2. CASE AtOpen(k)
      BY <1>2, OpenAt DEF LpcSteps, AtOpen
<1>3. CASE AtFlash(k)
      BY <1>3, FlashAt DEF LpcSteps, AtFlash
<1>4. CASE AtClose(k)
      BY <1>4, CloseAt DEF LpcSteps, AtClose
<1>5. CASE AtXsvf(k)
  <2>1. k \in {0, 1, 2, 3, 4, 5, 6, 7, 8, 9, 10, 11, 12} /\ phase = "xsvf"
        BY <1>5 DEF AtXsvf
  <2> QED BY <1>5, <2>1, XsvfAt DEF LpcSteps
<1> QED BY <1>1, <1>2, <1>3, <1>4, <1>5 DEF LpcAt

(* The client of DemoN has no step in a call of LPC.                       *)
LEMMA LpcInvDemon ==
  ASSUME LpcInv, DemonNext, programmer.kind = "lpc"
  PROVE  FALSE
<1>1. ASSUME NEW use, Getting(use), use \in {"mode", "info", "image", "verify", "count", "list"} PROVE FALSE
      BY <1>1, LpcHead DEF Getting, LpcSteps, Reset, Bulk, Control, Get
<1>2. ASSUME NEW p, Finished(p), p \in {"blocks", "acquire", "release", "unlist"} PROVE FALSE
      BY <1>2, LpcHead DEF Finished
<1>3. ~Reenumerate
      BY DEF LpcInv, Reenumerate
<1>4. ~(ModeIn \/ InfoIn \/ BlockIn \/ VerifyIn \/ CountIn \/ ListIn)
      BY <1>1 DEF ModeIn, InfoIn, BlockIn, VerifyIn, CountIn, ListIn
<1>5. ~(BlockDone \/ ListInvalidBlocks \/ ListDone)
      BY <1>2 DEF BlockDone, ListInvalidBlocks, ListDone
<1>6. ~(Reopen \/ Initialized) /\ \A j \in Jobs : ~DemonBegin(j)
      BY DEF Reopen, Initialized, DemonBegin
<1> QED BY <1>3, <1>4, <1>5, <1>6 DEF DemonNext

(* A call of LPC that ends keeps the invariant, if its success is one the  *)
(* properties allow.                                                       *)
LEMMA LpcInvEnds ==
  ASSUME LpcInv, CourseOK, NEW r, Return(r), stage = "talk", UNCHANGED <<programmer, bus, job>>,
         mistaken' => unreset',
         r = "ok" => \/ phase = "flash_init" /\ job.op = "detect"
                     \/ phase = "flash_deinit" /\ job.op = "detect" /\ ~opened'
                     \/ phase = "xsvf" /\ Whole(played)'
  PROVE  LpcInv'
BY DEF LpcInv, Return, Active

(* A call of LPC that is at a place of its scripts keeps the invariant.    *)
LEMMA LpcInvAt ==
  ASSUME LpcInv, CourseOK, NEW k \in 0..12, LpcAt(k)', stage = "talk", UNCHANGED <<programmer, bus, job, stage>>,
         mistaken' => unreset'
  PROVE  LpcInv'
BY DEF LpcInv, Active, LpcAt

(* A call of LPC begins at the start of its first script.                  *)
LEMMA LpcInvBegin ==
  ASSUME LpcInv, NEW j \in Jobs, LpcBegin(j)
  PROVE  LpcInv'
<1>1. AtOpen(0)'
  <2>1. LpcOpen = Left(LpcOpen, 0)
    <3>1. Reset \in LpcSteps /\ Control("version") \in LpcSteps /\ Get("word", "version") \in LpcSteps
      BY DEF LpcSteps
    <3>2. LpcOpen = <<Reset>> \o <<Control("version"), Get("word", "version")>>
      BY DEF LpcOpen, Ask
    <3>3. LpcOpen \in Seq(LpcSteps)
      BY <3>1, <3>2, Three
    <3> QED BY <3>3, LeftStep, LenProperties
  <2> QED BY <2>1 DEF LpcBegin, Begin, AtOpen
<1>2. AtOpen(0)' /\ mistaken' = FALSE /\ job' = j /\ UNCHANGED <<programmer, bus>> /\ j.op \in {"detect", "xsvf"}
      /\ stage' = "claim" /\ result' = "none"
  BY <1>1 DEF LpcBegin, Begin
<1> QED BY <1>2 DEF LpcInv, Active

(* A device_reset that works has emptied the endpoint; one that fails is   *)
(* recorded in unreset.                                                    *)
LEMMA LpcInvReset ==
  ASSUME LpcInv, CourseOK, DeviceReset, programmer.kind = "lpc"
  PROVE  LpcInv'
<1>0. /\ stage = "talk" /\ UNCHANGED <<programmer, bus, job, opened, loaded, played, mistaken>>
      /\ \/ pipe' = << >> /\ unreset' = unreset
         \/ unreset' = TRUE
      /\ Continue \/ LpcFail
      /\ mistaken => unreset
      BY DEF DeviceReset, ResetWorks, Sending, interface, call, LpcInv
<1>1. AtOpen(0) \/ AtXsvf(0)
  <2>1. PICK k \in 0..12 : LpcAt(k)
        BY <1>0 DEF LpcInv, Active, LpcAt
  <2>2. todo # << >> /\ "reset" \in DOMAIN Head(todo)
        BY DEF DeviceReset, Sending
  <2>3. CASE AtOpen(k)
        BY <2>2, <2>3, OpenAt DEF Control, Get
  <2>4. CASE AtFlash(k)
        BY <2>2, <2>4, FlashAt DEF Control, Get
  <2>5. CASE AtClose(k)
        BY <2>2, <2>5, CloseAt DEF Control, Get
  <2>6. CASE AtXsvf(k)
    <3>1. k \in {0, 1, 2, 3, 4, 5, 6, 7, 8, 9, 10, 11, 12}
        BY <2>6 DEF AtXsvf
    <3> QED BY <2>2, <2>6, <3>1, XsvfAt DEF Control, Get, Bulk
  <2> QED BY <2>1, <2>3, <2>4, <2>5, <2>6 DEF LpcAt
<1>2. CASE LpcFail
      BY <1>0, <1>1, <1>2, LpcInvEnds DEF LpcFail, AtOpen, AtXsvf
<1>3. CASE Continue
  <2>1. todo' = Tail(todo) /\ UNCHANGED <<stage, phase, result>>
        BY <1>3 DEF Continue
  <2>2. CASE AtOpen(0)
    <3>1. Tail(todo) = Left(LpcOpen, 1)
        BY <2>2, OpenAt
    <3>2. AtOpen(1)'
        BY <1>0, <2>1, <2>2, <3>1 DEF AtOpen, Waits
    <3> QED BY <1>0, <2>1, <3>2, LpcInvAt DEF LpcAt
  <2>3. CASE AtXsvf(0)
    <3>1. Tail(todo) = Left(Xsvf, 1)
        BY <2>3, XsvfAt
    <3>2. AtXsvf(1)'
        BY <1>0, <2>1, <2>3, <3>1 DEF AtXsvf, Waits
    <3> QED BY <1>0, <2>1, <3>2, LpcInvAt DEF LpcAt
  <2> QED BY <1>1, <2>2, <2>3
<1> QED BY <1>0, <1>2, <1>3

(* Where a call is when it has a control transfer to make.                 *)
LEMMA ControlAt ==
  ASSUME LpcInv, Sending("control"), programmer.kind = "lpc"
  PROVE  \E k \in 0..12 :
           \/ k = 1 /\ AtOpen(k) /\ Head(todo) = Control("version")
           \/ k = 0 /\ AtFlash(k) /\ Head(todo) = Control("data_init")
           \/ k = 0 /\ AtClose(k) /\ Head(todo) = Control("data_deinit")
           \/ k \in {1, 3, 5} /\ AtXsvf(k) /\ Head(todo) = Control("version")
           \/ k = 7 /\ AtXsvf(k) /\ Head(todo) = Control("data_write")
           \/ k = 9 /\ AtXsvf(k) /\ Head(todo) = Control("xsvf_exec")
           \/ k = 10 /\ AtXsvf(k) /\ Head(todo) = Control("data_status")
<1>1. PICK k \in 0..12 : LpcAt(k)
      BY DEF LpcInv, Active, LpcAt, Sending
<1>2. todo # << >> /\ "control" \in DOMAIN Head(todo)
      BY DEF Sending
<1>3. CASE AtOpen(k)
      BY <1>2, <1>3, OpenAt DEF Reset, Get
<1>4. CASE AtFlash(k)
      BY <1>2, <1>4, FlashAt DEF Reset, Get
<1>5. CASE AtClose(k)
      BY <1>2, <1>5, CloseAt DEF Reset, Get
<1>6. CASE AtXsvf(k)
  <2>1. k \in {0, 1, 2, 3, 4, 5, 6, 7, 8, 9, 10, 11, 12}
        BY <1>6 DEF AtXsvf
  <2> QED BY <1>2, <1>6, <2>1, XsvfAt DEF Reset, Get, Bulk
<1> QED BY <1>1, <1>3, <1>4, <1>5, <1>6 DEF LpcAt

(* Where a call is when it has the file to transfer.                       *)
LEMMA BulkAt ==
  ASSUME LpcInv, Sending("bulk"), programmer.kind = "lpc"
  PROVE  AtXsvf(8)
<1>1. PICK k \in 0..12 : LpcAt(k)
      BY DEF LpcInv, Active, LpcAt, Sending
<1>2. todo # << >> /\ "bulk" \in DOMAIN Head(todo)
      BY DEF Sending
<1>3. CASE AtOpen(k)
      BY <1>2, <1>3, OpenAt DEF Reset, Get, Control
<1>4. CASE AtFlash(k)
      BY <1>2, <1>4, FlashAt DEF Reset, Get, Control
<1>5. CASE AtClose(k)
      BY <1>2, <1>5, CloseAt DEF Reset, Get, Control
<1>6. CASE AtXsvf(k)
  <2>1. k \in {0, 1, 2, 3, 4, 5, 6, 7, 8, 9, 10, 11, 12}
        BY <1>6 DEF AtXsvf
  <2> QED BY <1>2, <1>6, <2>1, XsvfAt DEF Reset, Get, Control
<1> QED BY <1>1, <1>3, <1>4, <1>5, <1>6 DEF LpcAt

(* Where a call is when it has an answer to read.                          *)
LEMMA AnswerAt ==
  ASSUME LpcInv, NEW q, Getting(q), programmer.kind = "lpc"
  PROVE  \E k \in 0..12 :
           \/ k = 2 /\ AtOpen(k) /\ q = "version"
           \/ k = 1 /\ AtFlash(k) /\ q = "data_init"
           \/ k \in {2, 4, 6} /\ AtXsvf(k) /\ q = "version"
           \/ k = 11 /\ AtXsvf(k) /\ q = "data_status"
<1>1. PICK k \in 0..12 : LpcAt(k)
      BY DEF LpcInv, Active, LpcAt, Getting
<1>2. todo # << >> /\ "get" \in DOMAIN Head(todo) /\ Head(todo).use = q
      BY DEF Getting
<1>3. CASE AtOpen(k)
      BY <1>2, <1>3, OpenAt DEF Reset, Get, Control
<1>4. CASE AtFlash(k)
      BY <1>2, <1>4, FlashAt DEF Reset, Get, Control
<1>5. CASE AtClose(k)
      BY <1>2, <1>5, CloseAt DEF Reset, Get, Control
<1>6. CASE AtXsvf(k)
  <2>1. k \in {0, 1, 2, 3, 4, 5, 6, 7, 8, 9, 10, 11, 12}
        BY <1>6 DEF AtXsvf
  <2> QED BY <1>2, <1>6, <2>1, XsvfAt DEF Reset, Get, Control, Bulk
<1> QED BY <1>1, <1>3, <1>4, <1>5, <1>6 DEF LpcAt

(* Where a call is when a function of it has finished.                     *)
LEMMA LpcFinishedAt ==
  ASSUME LpcInv, NEW p, Finished(p), programmer.kind = "lpc"
  PROVE  \E k \in 0..12 :
           \/ k = 3 /\ AtOpen(k) /\ p = "lpc_init"
           \/ k = 2 /\ AtFlash(k) /\ p = "flash_init"
           \/ k = 1 /\ AtClose(k) /\ p = "flash_deinit"
           \/ k = 12 /\ AtXsvf(k) /\ p = "xsvf"
<1>1. PICK k \in 0..12 : LpcAt(k)
      BY DEF LpcInv, Active, LpcAt, Finished
<1>2. todo = << >> /\ phase = p
      BY DEF Finished
<1>3. CASE AtOpen(k)
      BY <1>2, <1>3, OpenAt DEF AtOpen
<1>4. CASE AtFlash(k)
      BY <1>2, <1>4, FlashAt DEF AtFlash
<1>5. CASE AtClose(k)
      BY <1>2, <1>5, CloseAt DEF AtClose
<1>6. CASE AtXsvf(k)
      BY <1>2, <1>6, XsvfAt DEF AtXsvf
<1> QED BY <1>1, <1>3, <1>4, <1>5, <1>6 DEF LpcAt

(* A call of LPC that gives up keeps the invariant.                        *)
LEMMA LpcInvFails ==
  ASSUME LpcInv, CourseOK, LpcFail, stage = "talk", UNCHANGED <<programmer, bus, job>>,
         programmer.kind = "lpc", mistaken' => unreset'
  PROVE  LpcInv'
<1>1. phase = "flash_init" => job.op = "detect"
      BY DEF LpcInv, Active, AtOpen, AtFlash, AtClose, AtXsvf
<1> QED BY <1>1, LpcInvEnds DEF LpcFail

(* A control transfer that is a question leaves its answer alone in the    *)
(* endpoint; data_deinit closes the flash; xsvf_exec runs the player on    *)
(* what was loaded.                                                        *)
LEMMA LpcInvControl ==
  ASSUME LpcInv, CourseOK, ControlTransfer, programmer.kind = "lpc"
  PROVE  LpcInv'
<1>0. /\ stage = "talk" /\ UNCHANGED <<programmer, bus, job, unreset, mistaken>>
      /\ mistaken => unreset
      /\ Sending("control")
      BY DEF ControlTransfer, Sending, interface, call, LpcInv
<1>1. CASE LpcFail
      BY <1>0, <1>1, LpcInvFails
<1>2. ASSUME Obey(Head(todo).control), Continue PROVE LpcInv'
  <2>1. todo' = Tail(todo) /\ UNCHANGED <<stage, phase>>
        BY <1>2 DEF Continue
  <2>2. PICK k \in 0..12 :
           \/ k = 1 /\ AtOpen(k) /\ Head(todo) = Control("version")
           \/ k = 0 /\ AtFlash(k) /\ Head(todo) = Control("data_init")
           \/ k = 0 /\ AtClose(k) /\ Head(todo) = Control("data_deinit")
           \/ k \in {1, 3, 5} /\ AtXsvf(k) /\ Head(todo) = Control("version")
           \/ k = 7 /\ AtXsvf(k) /\ Head(todo) = Control("data_write")
           \/ k = 9 /\ AtXsvf(k) /\ Head(todo) = Control("xsvf_exec")
           \/ k = 10 /\ AtXsvf(k) /\ Head(todo) = Control("data_status")
        BY <1>0, ControlAt
  <2>3. SUFFICES ASSUME k + 1 \in 0..12 PROVE LpcAt(k + 1)'
        BY <1>0, <2>1, <2>2, LpcInvAt
  <2>4. CASE k = 1 /\ AtOpen(k) /\ Head(todo) = Control("version")
    <3>1. pipe' = Append(pipe, InfoWord("version"))
          BY <1>2, <2>4 DEF Obey, Control, Put, InfoWord
    <3>2. Tail(todo) = Left(LpcOpen, k + 1)
          BY <2>4, OpenAt
    <3>3. ~unreset => pipe' = <<InfoWord("version")>>
          BY <2>4, <3>1 DEF AtOpen, Waits
    <3> QED BY <1>0, <2>1, <2>4, <3>2, <3>3 DEF LpcAt, AtOpen, Waits
  <2>5. CASE k = 0 /\ AtFlash(k) /\ Head(todo) = Control("data_init")
    <3>1. pipe' = Append(pipe, InfoWord("data_init"))
          BY <1>2, <2>5 DEF Obey, Control, Put, InfoWord
    <3>2. Tail(todo) = Left(FlashInit, k + 1)
          BY <2>5, FlashAt
    <3>3. ~unreset => pipe' = <<InfoWord("data_init")>>
          BY <2>5, <3>1 DEF AtFlash, Waits
    <3> QED BY <1>0, <2>1, <2>5, <3>2, <3>3 DEF LpcAt, AtFlash, Waits
  <2>6. CASE k = 0 /\ AtClose(k) /\ Head(todo) = Control("data_deinit")
    <3>1. opened' = FALSE
          BY <1>2, <2>6 DEF Obey, Control
    <3>2. Tail(todo) = Left(Closing, k + 1)
          BY <2>6, CloseAt
    <3> QED BY <1>0, <2>1, <2>6, <3>1, <3>2 DEF LpcAt, AtClose
  <2>7. CASE k \in {1, 3, 5} /\ AtXsvf(k) /\ Head(todo) = Control("version")
    <3>1. pipe' = Append(pipe, InfoWord("version"))
          BY <1>2, <2>7 DEF Obey, Control, Put, InfoWord
    <3>2. Tail(todo) = Left(Xsvf, k + 1)
          BY <2>7, XsvfAt
    <3>3. ~unreset => pipe = << >>
          BY <2>7 DEF AtXsvf, Waits
    <3>4. ~unreset => pipe' = <<InfoWord("version")>>
          BY <3>1, <3>3
    <3> QED BY <1>0, <2>1, <2>7, <3>2, <3>4 DEF LpcAt, AtXsvf, Waits
  <2>8. CASE k = 7 /\ AtXsvf(k) /\ Head(todo) = Control("data_write")
    <3>1. pipe' = pipe
          BY <1>2, <2>8 DEF Obey, Control
    <3>2. Tail(todo) = Left(Xsvf, k + 1)
          BY <2>8, XsvfAt
    <3> QED BY <1>0, <2>1, <2>8, <3>1, <3>2 DEF LpcAt, AtXsvf, Waits
  <2>9. CASE k = 9 /\ AtXsvf(k) /\ Head(todo) = Control("xsvf_exec")
    <3>1. pipe' = pipe /\ played' = loaded
          BY <1>2, <2>9 DEF Obey, Control
    <3>2. Tail(todo) = Left(Xsvf, k + 1)
          BY <2>9, XsvfAt
    <3> QED BY <1>0, <2>1, <2>9, <3>1, <3>2 DEF LpcAt, AtXsvf, Waits, Whole
  <2>10. CASE k = 10 /\ AtXsvf(k) /\ Head(todo) = Control("data_status")
    <3>1. pipe' = Append(pipe, InfoWord("data_status")) /\ played' = played
          BY <1>2, <2>10 DEF Obey, Control, Put, InfoWord
    <3>2. Tail(todo) = Left(Xsvf, k + 1)
          BY <2>10, XsvfAt
    <3>3. ~unreset => pipe' = <<InfoWord("data_status")>>
          BY <2>10, <3>1 DEF AtXsvf, Waits
    <3> QED BY <1>0, <2>1, <2>10, <3>1, <3>2, <3>3 DEF LpcAt, AtXsvf, Waits, Whole
  <2> QED BY <2>2, <2>4, <2>5, <2>6, <2>7, <2>8, <2>9, <2>10
<1> QED BY <1>1, <1>2 DEF ControlTransfer

(* The file has been loaded whole, or in part where the call's transfers   *)
(* may be cut.                                                             *)
LEMMA LpcInvFile ==
  ASSUME LpcInv, CourseOK, WriteFile, programmer.kind = "lpc"
  PROVE  LpcInv'
<1>0. /\ stage = "talk" /\ UNCHANGED <<programmer, bus, job, pipe, unreset, mistaken>>
      /\ mistaken => unreset
      /\ AtXsvf(8)
      BY BulkAt DEF WriteFile, Sending, interface, call, answers, LpcInv
<1>1. CASE LpcFail
      BY <1>0, <1>1, LpcInvFails
<1>2. ASSUME loaded' \in {"file"} \cup (IF job.cuts THEN {"part"} ELSE {}), Continue PROVE LpcInv'
  <2>1. todo' = Tail(todo) /\ UNCHANGED <<stage, phase>>
        BY <1>2 DEF Continue
  <2>2. Tail(todo) = Left(Xsvf, 9)
        BY <1>0, XsvfAt
  <2>3. AtXsvf(9)'
        BY <1>0, <1>2, <2>1, <2>2 DEF AtXsvf, Waits, Whole
  <2> QED BY <1>0, <2>1, <2>3, LpcInvAt DEF LpcAt
<1> QED BY <1>1, <1>2 DEF WriteFile

(* Of one answer that waits none is left when it is read.                  *)
LEMMA OneAnswer ==
  ASSUME NEW x
  PROVE  Head(<<x>>) = x /\ Tail(<<x>>) = << >>
OBVIOUS

(* The answer that is read is the one to the question that was asked,      *)
(* unless a reset failed.                                                  *)
LEMMA LpcInvAnswer ==
  ASSUME LpcInv, CourseOK, NEW q, AnswerIn(q), programmer.kind = "lpc"
  PROVE  LpcInv'
<1>0. /\ stage = "talk" /\ UNCHANGED <<programmer, bus, job, unreset, played>>
      /\ mistaken => unreset
      /\ Getting(q)
      BY DEF AnswerIn, Getting, interface, call, LpcInv
<1>1. PICK k \in 0..12 :
           \/ k = 2 /\ AtOpen(k) /\ q = "version"
           \/ k = 1 /\ AtFlash(k) /\ q = "data_init"
           \/ k \in {2, 4, 6} /\ AtXsvf(k) /\ q = "version"
           \/ k = 11 /\ AtXsvf(k) /\ q = "data_status"
      BY <1>0, AnswerAt
<1>2. ASSUME ReadBulk("word"), mistaken' = (mistaken \/ Head(pipe).value # q)
      PROVE  (mistaken' => unreset') /\ (~unreset => pipe' = << >>)
  <2>1. ~unreset => pipe = <<InfoWord(q)>>
        BY <1>1 DEF AtOpen, AtFlash, AtXsvf, Waits
  <2>2. ~unreset => Head(pipe) = InfoWord(q) /\ pipe' = << >>
        BY <1>2, <2>1, OneAnswer DEF ReadBulk
  <2>3. InfoWord(q).value = q
        BY DEF InfoWord
  <2> QED BY <1>0, <1>2, <2>2, <2>3
<1>3. CASE LpcFail
      BY <1>0, <1>2, <1>3, LpcInvFails DEF AnswerIn
<1>4. ASSUME ReadBulk("word"), mistaken' = (mistaken \/ Head(pipe).value # q), Continue PROVE LpcInv'
  <2>1. todo' = Tail(todo) /\ UNCHANGED <<stage, phase>>
        BY <1>4 DEF Continue
  <2>2. (mistaken' => unreset') /\ (~unreset => pipe' = << >>)
        BY <1>2, <1>4
  <2>3. SUFFICES ASSUME k + 1 \in 0..12 PROVE LpcAt(k + 1)'
        BY <1>0, <1>1, <2>1, <2>2, LpcInvAt
  <2>4. CASE k = 2 /\ AtOpen(k)
        BY <1>0, <2>1, <2>2, <2>4, OpenAt DEF LpcAt, AtOpen, Waits
  <2>5. CASE k = 1 /\ AtFlash(k)
        BY <1>0, <2>1, <2>2, <2>5, FlashAt DEF LpcAt, AtFlash, Waits
  <2>6. CASE k \in {2, 4, 6, 11} /\ AtXsvf(k)
        BY <1>0, <2>1, <2>2, <2>6, XsvfAt DEF LpcAt, AtXsvf, Waits, Whole
  <2> QED BY <1>1, <2>4, <2>5, <2>6
<1> QED BY <1>3, <1>4 DEF AnswerIn

(* Before its first transfer a script of LPC is left as a whole.           *)
LEMMA ScriptsWhole ==
  Left(LpcOpen, 0) = LpcOpen /\ Left(FlashInit, 0) = FlashInit /\ Left(Closing, 0) = Closing /\ Left(Xsvf, 0) = Xsvf
<1>1. /\ Reset \in LpcSteps /\ Control("version") \in LpcSteps /\ Get("word", "version") \in LpcSteps
      /\ Control("data_write") \in LpcSteps /\ Bulk \in LpcSteps /\ Control("xsvf_exec") \in LpcSteps
      /\ Control("data_status") \in LpcSteps /\ Get("word", "data_status") \in LpcSteps
      /\ Control("data_init") \in LpcSteps /\ Get("word", "data_init") \in LpcSteps
      /\ Control("data_deinit") \in LpcSteps
  BY DEF LpcSteps
<1>2. LpcOpen = <<Reset>> \o <<Control("version"), Get("word", "version")>>
  BY DEF LpcOpen, Ask
<1>3. Xsvf = <<Reset>> \o <<Control("version"), Get("word", "version")>>
               \o <<Control("version"), Get("word", "version")>>
               \o <<Control("version"), Get("word", "version")>>
               \o <<Control("data_write"), Bulk, Control("xsvf_exec")>>
               \o <<Control("data_status"), Get("word", "data_status")>>
  BY DEF Xsvf, Ask
<1>4. FlashInit \in Seq(LpcSteps) /\ Closing \in Seq(LpcSteps)
  BY <1>1 DEF FlashInit, Ask, Closing
<1>5. LpcOpen \in Seq(LpcSteps)
  BY <1>1, <1>2, Three
<1>6. Xsvf \in Seq(LpcSteps)
  BY <1>1, <1>3, Twelve
<1> QED BY <1>4, <1>5, <1>6, LeftStep, LenProperties

(* LPC has these calls only.                                               *)
LEMMA LpcJobs ==
  ASSUME LpcInv, programmer.kind = "lpc", job # None
  PROVE  job.op \in {"detect", "xsvf"}
BY DEF LpcInv

(* From one function of a call of LPC to the next, and to its success.     *)
LEMMA LpcInvGoesOn ==
  ASSUME LpcInv, CourseOK, LpcInitialized \/ FlashDeinit \/ LpcDone, programmer.kind = "lpc"
  PROVE  LpcInv'
<1>0. /\ stage = "talk" /\ UNCHANGED <<programmer, bus, job, pipe, opened, played, unreset, mistaken>>
      /\ job # None
      /\ mistaken => unreset
      BY DEF LpcInitialized, FlashDeinit, LpcDone, Finished, interface, call, answers, lpc, LpcInv, CourseOK
<1>1. CASE LpcInitialized
  <2>1. PICK k \in 0..12 : k = 3 /\ AtOpen(k)
        BY <1>1, LpcFinishedAt DEF LpcInitialized
  <2>2. CASE job.op = "detect"
    <3>1. AtFlash(0)' /\ stage' = stage
          BY <1>0, <1>1, <2>1, <2>2, ScriptsWhole DEF LpcInitialized, Enter, AtOpen, AtFlash, Waits
    <3> QED BY <1>0, <3>1, LpcInvAt DEF LpcAt
  <2>3. CASE job.op = "xsvf"
    <3>1. AtXsvf(0)' /\ stage' = stage
          BY <1>0, <1>1, <2>1, <2>3, ScriptsWhole DEF LpcInitialized, Enter, AtOpen, AtXsvf, Waits
    <3> QED BY <1>0, <3>1, LpcInvAt DEF LpcAt
  <2>4. job.op \in {"detect", "xsvf"}
        BY <1>0, LpcJobs
  <2> QED BY <2>2, <2>3, <2>4
<1>2. CASE FlashDeinit
  <2>1. PICK k \in 0..12 : k = 2 /\ AtFlash(k)
        BY <1>2, LpcFinishedAt DEF FlashDeinit
  <2>2. AtClose(0)' /\ stage' = stage
        BY <1>0, <1>2, <2>1, ScriptsWhole DEF FlashDeinit, Enter, AtFlash, AtClose, Closing
  <2> QED BY <1>0, <2>2, LpcInvAt DEF LpcAt
<1>3. CASE LpcDone
  <2>1. CASE Finished("flash_deinit")
    <3>1. PICK k \in 0..12 : k = 1 /\ AtClose(k)
          BY <2>1, LpcFinishedAt
    <3> QED BY <1>0, <1>3, <3>1, LpcInvEnds DEF LpcDone, AtClose
  <2>2. CASE Finished("xsvf")
    <3>1. PICK k \in 0..12 : k = 12 /\ AtXsvf(k)
          BY <2>2, LpcFinishedAt
    <3>2. phase = "xsvf" /\ Whole(played)'
          BY <1>0, <3>1 DEF AtXsvf, Whole
    <3> QED BY <1>0, <1>3, <3>2, LpcInvEnds DEF LpcDone
  <2> QED BY <1>3, <2>1, <2>2 DEF LpcDone
<1> QED BY <1>1, <1>2, <1>3

(* The invariant of LPC holds at first.                                    *)
LEMMA LpcInvInit == Init => LpcInv
BY DEF Init, UsbInit, LpcInit, LpcInv, Active

(* Every step keeps the invariant of LPC.                                  *)
LEMMA LpcInvNext ==
  ASSUME LpcInv, CourseOK, [Next]_vars
  PROVE  LpcInv'
<1>1. CASE UNCHANGED vars
      BY <1>1, LpcInvSame DEF vars, usb, interface
<1>2. CASE UsbNext /\ UNCHANGED <<demon, lpc>>
      BY <1>2, LpcInvUsb
<1>3. CASE programmer.kind # "lpc"
      <2>1. UNCHANGED programmer
        BY SameProgrammer
      <2> QED BY <1>3, <2>1 DEF LpcInv
<1>4. CASE programmer.kind = "lpc" /\ DemonNext
      BY <1>4, LpcInvDemon
<1>5. CASE programmer.kind = "lpc" /\ LpcNext
      BY <1>5, LpcInvBegin, LpcInvReset, LpcInvControl, LpcInvFile, LpcInvAnswer, LpcInvGoesOn DEF LpcNext
<1> QED BY <1>1, <1>2, <1>3, <1>4, <1>5 DEF Next

-----------------------------------------------------------------------------
(* What an append does to the length, the ends and the elements of a       *)
(* sequence.                                                               *)
LEMMA Appended ==
  ASSUME NEW S, NEW p \in Seq(S), NEW x \in S
  PROVE  LET q == Append(p, x)
         IN  /\ q \in Seq(S) /\ q # << >> /\ Len(q) = Len(p) + 1
             /\ q[Len(q)] = x
             /\ \A i \in 1..Len(p) : q[i] = p[i]
             /\ p # << >> => Head(q) = Head(p)
             /\ p = << >> => Head(q) = x
<1> DEFINE q == Append(p, x)
<1>1. /\ q \in Seq(S) /\ Len(q) = Len(p) + 1 /\ q[Len(q)] = x
      /\ \A i \in 1..Len(p) : q[i] = p[i]
      BY AppendProperties
<1>2. Len(p) \in Nat /\ Len(q) \in Nat
      BY <1>1, LenProperties
<1>3. q # << >>
      BY <1>1, <1>2, EmptySeq
<1>4. Head(q) = q[1]
      BY <1>1, <1>3, HeadIsFirst
<1>5. ASSUME p # << >> PROVE Head(q) = Head(p)
  <2>1. Len(p) # 0
        BY <1>5, EmptySeq
  <2>2. q[1] = p[1] /\ Head(p) = p[1]
        BY <1>1, <1>2, <1>5, <2>1, HeadIsFirst
  <2> QED BY <1>4, <2>2
<1>6. ASSUME p = << >> PROVE Head(q) = x
  <2>1. Len(p) = 0
        BY <1>6, EmptySeq
  <2> QED BY <1>1, <1>4, <2>1
<1> QED BY <1>1, <1>3, <1>5, <1>6

(* What taking the first element does to the length, the ends and the      *)
(* elements of a sequence.                                                 *)
LEMMA Beheaded ==
  ASSUME NEW S, NEW p \in Seq(S), p # << >>
  PROVE  LET q == Tail(p)
         IN  /\ q \in Seq(S) /\ Len(p) \in Nat \ {0} /\ Len(q) = Len(p) - 1
             /\ \A i \in 1..Len(q) : q[i] = p[i + 1]
             /\ q # << >> <=> Len(p) > 1
             /\ q # << >> => Head(q) = p[2] /\ q[Len(q)] = p[Len(p)]
             /\ q = << >> => Head(p) = p[Len(p)]
             /\ Head(p) = p[1] /\ Head(p) \in S
<1> DEFINE q == Tail(p)
<1>1. Len(p) \in Nat \ {0}
      BY EmptySeq, LenProperties
<1>2. /\ q \in Seq(S) /\ Len(q) = Len(p) - 1
      /\ \A i \in 1..Len(q) : q[i] = p[i + 1]
      /\ Head(p) \in S
      BY <1>1, HeadTailProperties
<1>3. Head(p) = p[1]
      BY HeadIsFirst
<1>4. q # << >> <=> Len(p) > 1
  <2>1. q # << >> <=> Len(q) # 0
        BY <1>2, EmptySeq
  <2>2. PICK m \in Nat \ {0} : m = Len(p)
        BY <1>1
  <2>3. Len(q) = m - 1
        BY <1>2, <2>2
  <2>4. m - 1 # 0 <=> m > 1
        BY <2>2
  <2> QED BY <2>1, <2>2, <2>3, <2>4
<1>5. ASSUME q # << >> PROVE Head(q) = p[2] /\ q[Len(q)] = p[Len(p)]
  <2>1. Head(q) = q[1]
        BY <1>2, <1>5, HeadIsFirst
  <2> QED BY <1>1, <1>2, <1>4, <1>5, <2>1
<1>6. ASSUME q = << >> PROVE Head(p) = p[Len(p)]
  <2>1. ~(Len(p) > 1)
        BY <1>4, <1>6
  <2>2. PICK m \in Nat \ {0} : m = Len(p)
        BY <1>1
  <2>3. m = 1
        BY <2>1, <2>2
  <2> QED BY <1>3, <2>2, <2>3
<1> QED BY <1>1, <1>2, <1>3, <1>4, <1>5, <1>6

(* Chain but for its end.                                                  *)
Links(p) ==
  /\ p \in Seq(AnAnswer)
  /\ \A i \in 1..(Len(p) - 1) : Follows(p[i], p[i + 1])

(* An answer that may follow the last extends the links.                   *)
LEMMA LinksAppend ==
  ASSUME NEW p, Links(p), NEW x \in AnAnswer, p # << >> => Follows(p[Len(p)], x)
  PROVE  Links(Append(p, x))
<1> DEFINE q == Append(p, x)
<1>1. /\ p \in Seq(AnAnswer) /\ q \in Seq(AnAnswer) /\ Len(q) = Len(p) + 1
      /\ q[Len(q)] = x /\ \A i \in 1..Len(p) : q[i] = p[i]
      BY Appended DEF Links
<1>2. Len(p) \in Nat
      BY <1>1, LenProperties
<1>3. ASSUME NEW i \in 1..(Len(q) - 1) PROVE Follows(q[i], q[i + 1])
  <2>1. i \in 1..Len(p)
        BY <1>1, <1>2
  <2>2. CASE i = Len(p)
    <3>1. p # << >> /\ q[i] = p[Len(p)] /\ q[i + 1] = x
          BY <1>1, <1>2, <2>1, <2>2, EmptySeq
    <3> QED BY <3>1
  <2>3. CASE i # Len(p)
    <3>1. i \in 1..(Len(p) - 1) /\ q[i] = p[i] /\ q[i + 1] = p[i + 1]
          BY <1>1, <1>2, <2>1, <2>3
    <3> QED BY <3>1 DEF Links
  <2> QED BY <2>2, <2>3
<1> QED BY <1>1, <1>3 DEF Links

(* An answer that may follow the last, and may be the last itself, extends *)
(* the chain.                                                              *)
LEMMA ChainAppend ==
  ASSUME NEW p, Chain(p), NEW x \in AnAnswer, p # << >> => Follows(p[Len(p)], x), x # CountByte
  PROVE  Chain(Append(p, x))
<1>1. Links(Append(p, x))
      BY LinksAppend DEF Chain, Links
<1>2. LET q == Append(p, x) IN q[Len(q)] = x
      BY Appended DEF Chain
<1> QED BY <1>1, <1>2 DEF Links, Chain

(* Reading the first answer leaves a chain, whose first may follow the one *)
(* that was read.                                                          *)
LEMMA ChainTail ==
  ASSUME NEW p, Chain(p), p # << >>
  PROVE  /\ Chain(Tail(p))
         /\ Tail(p) # << >> => Follows(Head(p), Head(Tail(p))) /\ Tail(p)[Len(Tail(p))] = p[Len(p)]
         /\ Tail(p) = << >> => Head(p) = p[Len(p)]
         /\ Head(p) \in AnAnswer
<1> DEFINE q == Tail(p)
<1>1. /\ p \in Seq(AnAnswer) /\ q \in Seq(AnAnswer) /\ Len(p) \in Nat \ {0} /\ Len(q) = Len(p) - 1
      /\ \A i \in 1..Len(q) : q[i] = p[i + 1]
      /\ q # << >> <=> Len(p) > 1
      /\ q # << >> => Head(q) = p[2] /\ q[Len(q)] = p[Len(p)]
      /\ q = << >> => Head(p) = p[Len(p)]
      /\ Head(p) = p[1] /\ Head(p) \in AnAnswer
      BY Beheaded DEF Chain
<1>2. ASSUME NEW i \in 1..(Len(q) - 1) PROVE Follows(q[i], q[i + 1])
  <2>1. /\ i \in 1..Len(q) /\ i + 1 \in 1..Len(q) /\ i + 1 \in 1..(Len(p) - 1)
        BY <1>1
  <2>2. q[i] = p[i + 1] /\ q[i + 1] = p[i + 1 + 1]
        BY <1>1, <2>1
  <2>3. Follows(p[i + 1], p[i + 1 + 1])
        BY <2>1 DEF Chain
  <2> QED BY <2>2, <2>3
<1>3. ASSUME q # << >> PROVE Follows(Head(p), Head(q))
  <2>1. 1 \in 1..(Len(p) - 1)
        BY <1>1, <1>3
  <2>2. Follows(p[1], p[1 + 1])
        BY <2>1 DEF Chain
  <2> QED BY <1>1, <1>3, <2>2
<1>4. q # << >> => q[Len(q)] # CountByte
      BY <1>1 DEF Chain
<1> QED BY <1>1, <1>2, <1>3, <1>4 DEF Chain

-----------------------------------------------------------------------------
(* The transfers of DemoN.                                                 *)
DemonSteps ==
  {Byte(c) : c \in {"mode", "leave", "device_id", "protocol", "firmware", "nand_id", "reset", "acquire",
                    "release", "deassert", "read", "program", "bad_blocks"}}
    \cup {Number(b) : b \in Addr} \cup {Block(w) : w \in DataWord}
    \cup {Get("byte", "mode"), Get("word", "info"), Get("block", "image"), Get("block", "verify"),
          Get("word", "count"), Get("word", "list")}

(* What get_mode has to transfer next.                                     *)
LEMMA ModeAt ==
  ASSUME NEW k \in Nat, AtMode(k)
  PROVE  /\ k \in {0, 1} /\ (todo = << >> <=> k = 2)
         /\ k = 0 => Head(todo) = Byte("mode")
         /\ k = 1 => Head(todo) = Get("byte", "mode")
         /\ k < 2 => Tail(todo) = Left(GetMode, k + 1)
<1>1. Byte("mode") \in DemonSteps /\ Get("byte", "mode") \in DemonSteps
  BY DEF DemonSteps
<1>2. /\ GetMode \in Seq(DemonSteps) /\ Len(GetMode) <= 2 /\ 2 <= Len(GetMode)
      /\ GetMode[1] = Byte("mode") /\ GetMode[2] = Get("byte", "mode")
  BY <1>1 DEF GetMode
<1>3. /\ todo = << >> <=> k = 2
      /\ k < 2 => Head(todo) = GetMode[k + 1] /\ Tail(todo) = Left(GetMode, k + 1)
  <2>1. k <= 2 /\ k \in Nat
    BY DEF AtMode
  <2>2. todo = Left(GetMode, k)
    BY DEF AtMode
  <2>3. GetMode \in Seq(DemonSteps) /\ Len(GetMode) <= 2 /\ 2 <= Len(GetMode)
    BY <1>2
  <2>4. Left(GetMode, k) = << >> <=> k = 2
    BY <2>1, <2>3, LeftAt
  <2>5. k < 2 => Head(Left(GetMode, k)) = GetMode[k + 1]
    BY <2>1, <2>3, LeftAt
  <2>6. k < 2 => Tail(Left(GetMode, k)) = Left(GetMode, k + 1)
    BY <2>1, <2>3, LeftAt
  <2> QED BY <2>2, <2>4, <2>5, <2>6
<1> QED BY <1>2, <1>3 DEF AtMode

(* What acquire_flash has to transfer next.                                *)
LEMMA AcquireAt ==
  ASSUME NEW k \in Nat, AtAcquire(k)
  PROVE  /\ k \in {0, 1, 2} /\ (todo = << >> <=> k = 2)
         /\ k = 0 => Head(todo) = Byte("reset")
         /\ k = 1 => Head(todo) = Byte("acquire")
         /\ k < 2 => Tail(todo) = Left(Acquire, k + 1)
<1>1. Byte("reset") \in DemonSteps /\ Byte("acquire") \in DemonSteps
  BY DEF DemonSteps
<1>2. /\ Acquire \in Seq(DemonSteps) /\ Len(Acquire) <= 2 /\ 2 <= Len(Acquire)
      /\ Acquire[1] = Byte("reset") /\ Acquire[2] = Byte("acquire")
  BY <1>1 DEF Acquire
<1>3. /\ todo = << >> <=> k = 2
      /\ k < 2 => Head(todo) = Acquire[k + 1] /\ Tail(todo) = Left(Acquire, k + 1)
  <2>1. k <= 2 /\ k \in Nat
    BY DEF AtAcquire
  <2>2. todo = Left(Acquire, k)
    BY DEF AtAcquire
  <2>3. Acquire \in Seq(DemonSteps) /\ Len(Acquire) <= 2 /\ 2 <= Len(Acquire)
    BY <1>2
  <2>4. Left(Acquire, k) = << >> <=> k = 2
    BY <2>1, <2>3, LeftAt
  <2>5. k < 2 => Head(Left(Acquire, k)) = Acquire[k + 1]
    BY <2>1, <2>3, LeftAt
  <2>6. k < 2 => Tail(Left(Acquire, k)) = Left(Acquire, k + 1)
    BY <2>1, <2>3, LeftAt
  <2> QED BY <2>2, <2>4, <2>5, <2>6
<1> QED BY <1>2, <1>3 DEF AtAcquire

(* What release_flash has to transfer next.                                *)
LEMMA ReleaseAt ==
  ASSUME NEW k \in Nat, AtRelease(k)
  PROVE  /\ k \in {0, 1, 2} /\ (todo = << >> <=> k = 2)
         /\ k = 0 => Head(todo) = Byte("release")
         /\ k = 1 => Head(todo) = Byte("deassert")
         /\ k < 2 => Tail(todo) = Left(Release, k + 1)
<1>1. Byte("release") \in DemonSteps /\ Byte("deassert") \in DemonSteps
  BY DEF DemonSteps
<1>2. /\ Release \in Seq(DemonSteps) /\ Len(Release) <= 2 /\ 2 <= Len(Release)
      /\ Release[1] = Byte("release") /\ Release[2] = Byte("deassert")
  BY <1>1 DEF Release
<1>3. /\ todo = << >> <=> k = 2
      /\ k < 2 => Head(todo) = Release[k + 1] /\ Tail(todo) = Left(Release, k + 1)
  <2>1. k <= 2 /\ k \in Nat
    BY DEF AtRelease
  <2>2. todo = Left(Release, k)
    BY DEF AtRelease
  <2>3. Release \in Seq(DemonSteps) /\ Len(Release) <= 2 /\ 2 <= Len(Release)
    BY <1>2
  <2>4. Left(Release, k) = << >> <=> k = 2
    BY <2>1, <2>3, LeftAt
  <2>5. k < 2 => Head(Left(Release, k)) = Release[k + 1]
    BY <2>1, <2>3, LeftAt
  <2>6. k < 2 => Tail(Left(Release, k)) = Left(Release, k + 1)
    BY <2>1, <2>3, LeftAt
  <2> QED BY <2>2, <2>4, <2>5, <2>6
<1> QED BY <1>2, <1>3 DEF AtRelease

(* What leaving the bootloader has to transfer next.                       *)
LEMMA LeaveAt ==
  ASSUME NEW k \in Nat, AtLeave(k)
  PROVE  /\ k \in {0, 1} /\ (todo = << >> <=> k = 1)
         /\ k = 0 => Head(todo) = Byte("leave") /\ Tail(todo) = Left(Leaving, k + 1)
<1>1. Byte("leave") \in DemonSteps
  BY DEF DemonSteps
<1>2. Leaving \in Seq(DemonSteps) /\ Len(Leaving) <= 1 /\ 1 <= Len(Leaving) /\ Leaving[1] = Byte("leave")
  BY <1>1 DEF Leaving
<1>3. /\ todo = << >> <=> k = 1
      /\ k < 1 => Head(todo) = Leaving[k + 1] /\ Tail(todo) = Left(Leaving, k + 1)
  <2>1. k <= 1 /\ k \in Nat
    BY DEF AtLeave
  <2>2. todo = Left(Leaving, k)
    BY DEF AtLeave
  <2>3. Leaving \in Seq(DemonSteps) /\ Len(Leaving) <= 1 /\ 1 <= Len(Leaving)
    BY <1>2
  <2>4. Left(Leaving, k) = << >> <=> k = 1
    BY <2>1, <2>3, LeftAt
  <2>5. k < 1 => Head(Left(Leaving, k)) = Leaving[k + 1]
    BY <2>1, <2>3, LeftAt
  <2>6. k < 1 => Tail(Left(Leaving, k)) = Left(Leaving, k + 1)
    BY <2>1, <2>3, LeftAt
  <2> QED BY <2>2, <2>4, <2>5, <2>6
<1> QED BY <1>2, <1>3 DEF AtLeave

(* What read_invalid_blocks has to transfer next.                          *)
LEMMA ListAt ==
  ASSUME NEW k \in Nat, AtList(k)
  PROVE  /\ k \in {0, 1, 2} /\ todo # << >>
         /\ k = 0 => Head(todo) = Byte("bad_blocks") /\ Tail(todo) = Left(Listing, k + 1)
         /\ k = 1 => Head(todo) = Get("word", "count")
         /\ k = 2 => Head(todo) = Get("word", "list")
<1>1. Byte("bad_blocks") \in DemonSteps /\ Get("word", "count") \in DemonSteps
  BY DEF DemonSteps
<1>2. /\ Listing \in Seq(DemonSteps) /\ Len(Listing) <= 2 /\ 2 <= Len(Listing)
      /\ Listing[1] = Byte("bad_blocks") /\ Listing[2] = Get("word", "count")
  BY <1>1 DEF Listing
<1>3. k \in {0, 1, 2}
  BY DEF AtList
<1>4. CASE k = 2
  BY <1>4, OneAnswer DEF AtList
<1>5. CASE k # 2
  <2>1. k <= 2 /\ k \in Nat
    BY <1>3
  <2>2. todo = Left(Listing, k)
    BY <1>3, <1>5 DEF AtList
  <2>3. Listing \in Seq(DemonSteps) /\ Len(Listing) <= 2 /\ 2 <= Len(Listing)
    BY <1>2
  <2>4. Left(Listing, k) = << >> <=> k = 2
    BY <2>1, <2>3, LeftAt
  <2>5. k < 2 => Head(Left(Listing, k)) = Listing[k + 1]
    BY <2>1, <2>3, LeftAt
  <2>6. k < 2 => Tail(Left(Listing, k)) = Left(Listing, k + 1)
    BY <2>1, <2>3, LeftAt
  <2> QED BY <1>2, <1>3, <1>5, <2>2, <2>4, <2>5, <2>6
<1> QED BY <1>4, <1>5

(* A script of twelve transfers, in the pieces of ProbeInfo, one by one.   *)
LEMMA TwelveOfProbe ==
  ASSUME NEW S, NEW a \in S, NEW b \in S, NEW c \in S, NEW g \in S, NEW d \in S, NEW e \in S,
         NEW f \in S, NEW h \in S, NEW i \in S
  PROVE  LET s == <<a, g>> \o <<b, g>> \o <<c, g>> \o (<<d, e>> \o <<f, g>> \o <<h, i>>)
         IN  /\ s \in Seq(S) /\ Len(s) <= 12 /\ 12 <= Len(s)
             /\ s[1] = a /\ s[2] = g /\ s[3] = b /\ s[4] = g /\ s[5] = c /\ s[6] = g
             /\ s[7] = d /\ s[8] = e /\ s[9] = f /\ s[10] = g /\ s[11] = h /\ s[12] = i
OBVIOUS

(* What probe_info has to transfer next.                                   *)
LEMMA ProbeAt ==
  ASSUME NEW k \in Nat, AtProbe(k)
  PROVE  /\ k \in {0, 1, 2, 3, 4, 5, 6, 7, 8, 9, 10, 11, 12} /\ (todo = << >> <=> k = 12)
         /\ k = 0 => Head(todo) = Byte("device_id")
         /\ k = 2 => Head(todo) = Byte("protocol")
         /\ k = 4 => Head(todo) = Byte("firmware")
         /\ k = 6 => Head(todo) = Byte("reset")
         /\ k = 7 => Head(todo) = Byte("acquire")
         /\ k = 8 => Head(todo) = Byte("nand_id")
         /\ k \in {1, 3, 5, 9} => Head(todo) = Get("word", "info")
         /\ k = 10 => Head(todo) = Byte("release")
         /\ k = 11 => Head(todo) = Byte("deassert")
         /\ k < 12 => Tail(todo) = Left(ProbeInfo, k + 1)
<1>1. /\ Byte("device_id") \in DemonSteps /\ Byte("protocol") \in DemonSteps /\ Byte("firmware") \in DemonSteps
      /\ Byte("reset") \in DemonSteps /\ Byte("acquire") \in DemonSteps /\ Byte("nand_id") \in DemonSteps
      /\ Byte("release") \in DemonSteps /\ Byte("deassert") \in DemonSteps /\ Get("word", "info") \in DemonSteps
  BY DEF DemonSteps
<1>2. ProbeInfo = <<Byte("device_id"), Get("word", "info")>> \o <<Byte("protocol"), Get("word", "info")>>
                    \o <<Byte("firmware"), Get("word", "info")>>
                    \o (<<Byte("reset"), Byte("acquire")>> \o <<Byte("nand_id"), Get("word", "info")>>
                          \o <<Byte("release"), Byte("deassert")>>)
  BY DEF ProbeInfo, Question, ReadFlashId, Acquire, Release
<1>3. /\ ProbeInfo \in Seq(DemonSteps) /\ Len(ProbeInfo) <= 12 /\ 12 <= Len(ProbeInfo)
      /\ ProbeInfo[1] = Byte("device_id") /\ ProbeInfo[2] = Get("word", "info")
      /\ ProbeInfo[3] = Byte("protocol") /\ ProbeInfo[4] = Get("word", "info")
      /\ ProbeInfo[5] = Byte("firmware") /\ ProbeInfo[6] = Get("word", "info")
      /\ ProbeInfo[7] = Byte("reset") /\ ProbeInfo[8] = Byte("acquire")
      /\ ProbeInfo[9] = Byte("nand_id") /\ ProbeInfo[10] = Get("word", "info")
      /\ ProbeInfo[11] = Byte("release") /\ ProbeInfo[12] = Byte("deassert")
  BY <1>1, <1>2, TwelveOfProbe
<1>4. /\ todo = << >> <=> k = 12
      /\ k < 12 => Head(todo) = ProbeInfo[k + 1] /\ Tail(todo) = Left(ProbeInfo, k + 1)
  <2>1. k <= 12 /\ k \in Nat
    BY DEF AtProbe
  <2>2. todo = Left(ProbeInfo, k)
    BY DEF AtProbe
  <2>3. ProbeInfo \in Seq(DemonSteps) /\ Len(ProbeInfo) <= 12 /\ 12 <= Len(ProbeInfo)
    BY <1>3
  <2>4. Left(ProbeInfo, k) = << >> <=> k = 12
    BY <2>1, <2>3, LeftAt
  <2>5. k < 12 => Head(Left(ProbeInfo, k)) = ProbeInfo[k + 1]
    BY <2>1, <2>3, LeftAt
  <2>6. k < 12 => Tail(Left(ProbeInfo, k)) = Left(ProbeInfo, k + 1)
    BY <2>1, <2>3, LeftAt
  <2> QED BY <2>2, <2>4, <2>5, <2>6
<1>5. k \in {0, 1, 2, 3, 4, 5, 6, 7, 8, 9, 10, 11, 12}
  BY DEF AtProbe
<1> QED BY <1>3, <1>4, <1>5

(* The number of transfers of a block.                                     *)
Size == IF job.op = "write" /\ job.verify THEN 6 ELSE 3

(* The six transfers of a block that is written and read back, one by one. *)
LEMMA SixOfBlock ==
  ASSUME NEW S, NEW a \in S, NEW b \in S, NEW c \in S, NEW d \in S, NEW e \in S, NEW f \in S
  PROVE  LET s == <<a, b, c>> \o <<d, e, f>>
         IN  /\ s \in Seq(S) /\ Len(s) <= 6 /\ 6 <= Len(s)
             /\ s[1] = a /\ s[2] = b /\ s[3] = c /\ s[4] = d /\ s[5] = e /\ s[6] = f
OBVIOUS

(* The three transfers of a block that is read or written, one by one.     *)
LEMMA ThreeOfBlock ==
  ASSUME NEW S, NEW a \in S, NEW b \in S, NEW c \in S
  PROVE  /\ LET s == <<a, b, c>>
            IN  s \in Seq(S) /\ Len(s) <= 3 /\ 3 <= Len(s) /\ s[1] = a /\ s[2] = b /\ s[3] = c
         /\ <<a, b, c>> \o << >> = <<a, b, c>>
OBVIOUS

(* The transfers of a block: a command, the block's number and its content *)
(* or a read, twice when it is verified.                                   *)
LEMMA TransfersAre ==
  ASSUME job.op \in {"read", "write"}, job \in Jobs, NEW b \in BlocksOf(job),
         BlocksOf(job) \subseteq Addr
  PROVE  LET s == Transfers(b) IN
         /\ s \in Seq(DemonSteps)
         /\ ~(job.op = "write" /\ job.verify) => Len(s) <= 3 /\ 3 <= Len(s)
         /\ job.op = "write" /\ job.verify => Len(s) <= 6 /\ 6 <= Len(s)
         /\ s[1] = Byte(IF job.op = "read" THEN "read" ELSE "program") /\ s[2] = Number(b)
         /\ job.op = "read" => s[3] = Get("block", "image")
         /\ job.op = "write" => s[3] \in {Block(w) : w \in DataWord}
         /\ job.op = "write" /\ job.verify =>
              s[4] = Byte("read") /\ s[5] = Number(b) /\ s[6] = Get("block", "verify")
<1>1. /\ Byte("read") \in DemonSteps /\ Byte("program") \in DemonSteps /\ Number(b) \in DemonSteps
      /\ Get("block", "image") \in DemonSteps /\ Get("block", "verify") \in DemonSteps
  BY DEF DemonSteps
<1>2. CASE job.op = "read"
  <2>1. Transfers(b) = <<Byte("read"), Number(b), Get("block", "image")>>
    BY <1>2 DEF Transfers, ReadBlock
  <2> QED BY <1>1, <1>2, <2>1, ThreeOfBlock
<1>3. CASE job.op = "write"
  <2> DEFINE w == job.file[b + 1]
  <2>1. w \in DataWord
    <3>1. job.file \in Seq(DataWord)
      BY UsbAssumption DEF Job
    <3>2. b + 1 \in 1..Len(job.file)
      BY <1>3, <3>1, LenProperties DEF BlocksOf
    <3> QED BY <3>1, <3>2, LenProperties
  <2>2. Block(w) \in DemonSteps /\ Block(w) \in {Block(v) : v \in DataWord}
    BY <2>1 DEF DemonSteps
  <2>3. CASE job.verify
    <3>1. Transfers(b) = <<Byte("program"), Number(b), Block(w)>> \o <<Byte("read"), Number(b), Get("block", "verify")>>
      BY <1>3, <2>3 DEF Transfers, WriteBlock, ReadBlock
    <3> HIDE DEF w
    <3> QED BY <1>1, <1>3, <2>2, <2>3, <3>1, SixOfBlock
  <2>4. CASE ~job.verify
    <3>1. Transfers(b) = <<Byte("program"), Number(b), Block(w)>> \o << >>
      BY <1>3, <2>4 DEF Transfers, WriteBlock
    <3> HIDE DEF w
    <3> QED BY <1>1, <1>3, <2>2, <2>4, <3>1, ThreeOfBlock
  <2> QED BY <2>3, <2>4
<1> QED BY <1>2, <1>3
(* What the loop over the blocks has to transfer next.                     *)
LEMMA BlocksAt ==
  ASSUME NEW k \in Nat, AtBlocks(k), job \in Jobs
  PROVE  /\ k \in {0, 1, 2, 3, 4, 5, 6} /\ k <= Size /\ Size \in {3, 6}
         /\ todo = << >> <=> k = Size
         /\ k < Size => Tail(todo) = Left(Transfers(at), k + 1) /\ k + 1 \in 0..Len(Transfers(at))
         /\ k = 0 => Head(todo) = Byte(IF job.op = "read" THEN "read" ELSE "program")
         /\ k = 1 => Head(todo) = Number(at)
         /\ k = 2 /\ job.op = "read" => Head(todo) = Get("block", "image")
         /\ k = 2 /\ job.op = "write" => Head(todo) \in {Block(w) : w \in DataWord}
         /\ k = 3 /\ k < Size => Head(todo) = Byte("read")
         /\ k = 4 /\ k < Size => Head(todo) = Number(at)
         /\ k = 5 /\ k < Size => Head(todo) = Get("block", "verify")
<1> DEFINE s == Transfers(at)
<1>1. /\ job.op \in {"read", "write"} /\ at \in BlocksOf(job) /\ BlocksOf(job) \subseteq Addr
      BY DEF AtBlocks
<1>2. /\ s \in Seq(DemonSteps)
      /\ ~(job.op = "write" /\ job.verify) => Len(s) <= 3 /\ 3 <= Len(s)
      /\ job.op = "write" /\ job.verify => Len(s) <= 6 /\ 6 <= Len(s)
      /\ s[1] = Byte(IF job.op = "read" THEN "read" ELSE "program") /\ s[2] = Number(at)
      /\ job.op = "read" => s[3] = Get("block", "image")
      /\ job.op = "write" => s[3] \in {Block(w) : w \in DataWord}
      /\ job.op = "write" /\ job.verify =>
           s[4] = Byte("read") /\ s[5] = Number(at) /\ s[6] = Get("block", "verify")
      BY <1>1, TransfersAre
<1>3. /\ k <= Size /\ (todo = << >> <=> k = Size)
      /\ k < Size => Head(todo) = s[k + 1] /\ Tail(todo) = Left(s, k + 1)
  <2>1. CASE job.op = "write" /\ job.verify
    <3>1. k <= 6
      <4>1. k <= Len(s)
        BY DEF AtBlocks
      <4>2. Len(s) <= 6 /\ s \in Seq(DemonSteps)
        BY <1>2, <2>1
      <4> HIDE DEF s
      <4>3. Len(s) \in Nat
        BY <4>2, LenProperties
      <4> QED BY <4>1, <4>2, <4>3
    <3>2. todo = Left(s, k)
      BY DEF AtBlocks
    <3>3. s \in Seq(DemonSteps) /\ Len(s) <= 6 /\ 6 <= Len(s)
      BY <1>2, <2>1
    <3> HIDE DEF s
    <3>4. Left(s, k) = << >> <=> k = 6
      BY <3>1, <3>3, LeftAt
    <3>5. k < 6 => Head(Left(s, k)) = s[k + 1]
      BY <3>1, <3>3, LeftAt
    <3>6. k < 6 => Tail(Left(s, k)) = Left(s, k + 1)
      BY <3>1, <3>3, LeftAt
    <3> QED BY <2>1, <3>1, <3>2, <3>4, <3>5, <3>6 DEF Size
  <2>2. CASE ~(job.op = "write" /\ job.verify)
    <3>1. k <= 3
      <4>1. k <= Len(s)
        BY DEF AtBlocks
      <4>2. Len(s) <= 3 /\ s \in Seq(DemonSteps)
        BY <1>2, <2>2
      <4> HIDE DEF s
      <4>3. Len(s) \in Nat
        BY <4>2, LenProperties
      <4> QED BY <4>1, <4>2, <4>3
    <3>2. todo = Left(s, k)
      BY DEF AtBlocks
    <3>3. s \in Seq(DemonSteps) /\ Len(s) <= 3 /\ 3 <= Len(s)
      BY <1>2, <2>2
    <3> HIDE DEF s
    <3>4. Left(s, k) = << >> <=> k = 3
      BY <3>1, <3>3, LeftAt
    <3>5. k < 3 => Head(Left(s, k)) = s[k + 1]
      BY <3>1, <3>3, LeftAt
    <3>6. k < 3 => Tail(Left(s, k)) = Left(s, k + 1)
      BY <3>1, <3>3, LeftAt
    <3> QED BY <2>2, <3>1, <3>2, <3>4, <3>5, <3>6 DEF Size
  <2> QED BY <2>1, <2>2
<1>4. Size \in {3, 6} /\ (Size = 6 => job.op = "write" /\ job.verify)
      BY DEF Size
<1>5. k \in {0, 1, 2, 3, 4, 5, 6}
      BY <1>3, <1>4
<1>6. k < Size => k + 1 \in 0..Len(s)
  <2>1. Size <= Len(s) /\ s \in Seq(DemonSteps)
        BY <1>2 DEF Size
  <2> HIDE DEF s
  <2>2. Len(s) \in Nat
        BY <2>1, LenProperties
  <2> QED BY <1>4, <2>1, <2>2
<1> QED BY <1>2, <1>3, <1>4, <1>5, <1>6

-----------------------------------------------------------------------------
DemonTypes ==
  /\ mode \in {"bootloader", "firmware"} /\ target \in Addr /\ lost \in BOOLEAN
  /\ wants \in {"cmd", "read_num", "read_half", "program_num", "program_half", "data", "rest"}
  /\ inReset \in BOOLEAN /\ acquired \in BOOLEAN
  /\ flash \in [Addr -> DataWord]

(* Kinds of transfers.                                                     *)
IsByte(t) == "byte" \in DOMAIN t
IsNumber(t) == "number" \in DOMAIN t

(* A transfer to the programmer is a byte, the number of a block or its    *)
(* content.                                                                *)
LEMMA StepShapes ==
  ASSUME NEW t \in DemonSteps, "get" \notin DOMAIN t
  PROVE  /\ IsByte(t) \/ IsNumber(t) \/ "block" \in DOMAIN t
         /\ IsNumber(t) => t.number \in Addr /\ ~IsByte(t)
BY DEF DemonSteps, IsByte, IsNumber, Byte, Number, Block, Get

(* What the programmer makes of a transfer keeps the types of its state.   *)
LEMMA TypesTake ==
  ASSUME DemonTypes, NEW t \in DemonSteps, "get" \notin DOMAIN t, NEW whole, Take(t, whole)
  PROVE  DemonTypes'
<1> USE DEF DemonTypes, parser, console
<1>1. CASE Ignored
      BY <1>1 DEF Ignored
<1>2. CASE IsByte(t) /\ TakeByte(t.byte)
  <2>1. CASE Command(t.byte)
        BY <2>1 DEF Command
  <2>2. ASSUME NEW next, NEW block \in Addr, Parse(next, block),
               next \in {"cmd", "read_half", "program_half", "data", "rest"},
               UNCHANGED <<flash, lost>>
        PROVE  DemonTypes'
        BY <2>2 DEF Parse
  <2> QED BY <1>2, <2>1, <2>2 DEF TakeByte, Silent, ReadOut
<1>3. CASE IsNumber(t) /\ TakeNumber(t.number)
  <2>1. t.number \in Addr
        BY <1>3, StepShapes
  <2> QED BY <1>3, <2>1 DEF TakeNumber, Silent, ReadOut, Parse, Stray
<1>4. CASE TakeBlock(whole)
      BY <1>4 DEF TakeBlock, Silent, Program, Parse, Stray
<1> QED BY <1>1, <1>2, <1>3, <1>4 DEF Take, IsByte, IsNumber

(* A byte that comes when a command is due is taken for that command.      *)
LEMMA TakeCommand ==
  ASSUME NEW c, NEW whole, Take(Byte(c), whole), ~lost, wants = "cmd"
  PROVE  Command(c)
BY DEF Take, TakeByte, Byte

(* Bytes that are not taken for a command leave the console and the bus    *)
(* alone, and are answered with the content of a block at most.            *)
LEMMA TakeOther ==
  ASSUME DemonTypes, NEW t \in DemonSteps, "get" \notin DOMAIN t, NEW whole, Take(t, whole),
         lost \/ wants # "cmd" \/ ~IsByte(t)
  PROVE  /\ UNCHANGED <<inReset, acquired, bus>>
         /\ \/ pipe' = pipe
            \/ ~lost /\ \E x \in Contents : pipe' = Append(pipe, x)
         /\ lost => lost' /\ wants' = wants
         /\ ~lost /\ lost' => ~IsByte(t) /\ wants' = "cmd"
         /\ ~lost /\ IsByte(t) => /\ wants' \notin {"read_num", "program_num"}
                                  /\ wants \in {"data", "rest"} => wants' = "rest"
                                  /\ wants \notin {"read_num", "program_num"} => wants' \in {"cmd", "data", "rest"}
<1> DEFINE Kept == UNCHANGED <<inReset, acquired, bus>>
           Answered1 == pipe' = pipe \/ \E x \in Contents : pipe' = Append(pipe, x)
<1>1. ASSUME NEW b \in Addr, ReadOut(b) PROVE Answered1
  <2>1. [length |-> "block", value |-> flash[b]] \in Contents
        BY DEF Contents, DemonTypes
  <2> QED BY <1>1, <2>1 DEF ReadOut, Put
<1>2. ASSUME NEW next, NEW block, Parse(next, block) PROVE Kept /\ wants' = next
      BY <1>2 DEF Parse, interface, console
<1>3. CASE lost
      BY <1>3 DEF Take, Ignored, interface, parser, console, answers
<1>4. CASE ~lost /\ IsByte(t)
  <2>0. wants # "cmd"
        BY <1>4
  <2>1. TakeByte(t.byte)
        BY <1>4, StepShapes DEF Take, IsByte, IsNumber
  <2>2. CASE wants \in {"read_num", "program_num"}
    <3>1. Silent /\ (Parse("read_half", target) \/ Parse("program_half", target))
          BY <2>1, <2>2 DEF TakeByte
    <3>2. Kept /\ wants' \in {"read_half", "program_half"} /\ UNCHANGED <<pipe, lost>>
          BY <1>2, <3>1 DEF Silent
    <3> QED BY <1>4, <2>2, <3>2
  <2>3. CASE wants = "read_half"
        BY <1>1, <1>2, <1>4, <2>1, <2>3 DEF TakeByte, ReadOut
  <2>4. CASE wants = "program_half"
        BY <1>1, <1>2, <1>4, <2>1, <2>4 DEF TakeByte, Silent
  <2>5. CASE wants \in {"data", "rest"}
        BY <1>2, <1>4, <2>1, <2>5 DEF TakeByte, Silent
  <2> QED BY <2>0, <2>2, <2>3, <2>4, <2>5 DEF DemonTypes
<1>5. ASSUME Stray PROVE Kept /\ Answered1 /\ wants' = "cmd" /\ lost' = TRUE
      BY <1>2, <1>5 DEF Stray
<1>6. CASE ~lost /\ ~IsByte(t) /\ IsNumber(t)
  <2>1. TakeNumber(t.number) /\ t.number \in Addr
        BY <1>6, StepShapes DEF Take, IsByte, IsNumber
  <2>2. CASE wants = "read_num"
        BY <1>1, <1>2, <1>6, <2>1, <2>2 DEF TakeNumber, ReadOut
  <2>3. CASE wants \in {"program_num", "program_half", "data", "rest"}
        BY <1>2, <1>6, <2>1, <2>3 DEF TakeNumber, Silent
  <2>4. CASE wants \in {"cmd", "read_half"}
        BY <1>5, <1>6, <2>1, <2>4 DEF TakeNumber
  <2> QED BY <2>2, <2>3, <2>4 DEF DemonTypes
<1>7. CASE ~lost /\ ~IsByte(t) /\ ~IsNumber(t)
  <2>1. TakeBlock(whole)
        BY <1>7 DEF Take, IsByte, IsNumber
  <2>2. CASE wants = "data"
        BY <1>2, <1>7, <2>1, <2>2 DEF TakeBlock, Silent, Program
  <2>3. CASE wants = "rest"
        BY <1>2, <1>7, <2>1, <2>3 DEF TakeBlock, Program
  <2>4. CASE wants \notin {"data", "rest"}
        BY <1>5, <1>7, <2>1, <2>4 DEF TakeBlock
  <2> QED BY <2>2, <2>3, <2>4
<1> QED BY <1>3, <1>4, <1>6, <1>7

(* Anything may follow the content of a block or a flash id, the answers   *)
(* that end a command of the loop or of probe_info.                        *)
LEMMA ClosedFollows ==
  ASSUME NEW a \in Closed, NEW b
  PROVE  Follows(a, b) /\ a # CountByte /\ a \in AnAnswer
BY DEF Closed, Contents, InfoWord, Follows, ModeBytes, CountByte, AnAnswer, Bytes

(* The content of a block may follow answers that end a command.           *)
LEMMA ChainGrows ==
  ASSUME Chain(pipe), EndsIn(Closed), NEW x \in Contents, pipe' = Append(pipe, x)
  PROVE  Chain(pipe)' /\ EndsIn(Closed)' /\ pipe' # << >>
<1>1. x \in Closed /\ x \in AnAnswer /\ x # CountByte
      BY ClosedFollows DEF Closed
<1>2. pipe # << >> => Follows(pipe[Len(pipe)], x)
      BY ClosedFollows DEF EndsIn
<1>3. Chain(Append(pipe, x))
      BY <1>1, <1>2, ChainAppend
<1>4. LET q == Append(pipe, x) IN q[Len(q)] = x /\ q # << >>
      BY <1>1, Appended DEF Chain
<1> QED BY <1>1, <1>3, <1>4 DEF EndsIn

(* Bytes that are not taken for a command keep Parser; the answers they    *)
(* add go behind those that wait.                                          *)
LEMMA Other ==
  ASSUME DemonTypes, Parser, NEW t \in DemonSteps, "get" \notin DOMAIN t, NEW whole, Take(t, whole),
         lost \/ wants # "cmd" \/ (~IsByte(t) /\ Quiet /\ Clean)
  PROVE  /\ Parser' /\ UNCHANGED <<inReset, acquired, bus>>
         /\ Clean
         /\ ~lost' => ~lost /\ EndsIn(Closed)'
         /\ pipe # << >> => pipe' # << >> /\ Head(pipe') = Head(pipe)
         /\ lost => pipe' = pipe /\ wants' = wants /\ lost'
         /\ ~lost /\ IsByte(t) => /\ ~lost' /\ wants' \notin {"read_num", "program_num"}
                                  /\ wants \in {"data", "rest"} => wants' = "rest"
                                  /\ wants \notin {"read_num", "program_num"} => wants' \in {"cmd", "data", "rest"}
<1>1. /\ UNCHANGED <<inReset, acquired, bus>>
      /\ \/ pipe' = pipe
         \/ ~lost /\ \E x \in Contents : pipe' = Append(pipe, x)
      /\ lost => lost' /\ wants' = wants
      /\ ~lost /\ lost' => ~IsByte(t) /\ wants' = "cmd"
      /\ ~lost /\ IsByte(t) => /\ wants' \notin {"read_num", "program_num"}
                               /\ wants \in {"data", "rest"} => wants' = "rest"
                               /\ wants \notin {"read_num", "program_num"} => wants' \in {"cmd", "data", "rest"}
      BY TakeOther
<1>2. Clean /\ Chain(pipe) /\ (~lost => EndsIn(Closed)) /\ (lost => wants = "cmd")
      BY DEF Parser, Quiet
<1>3. lost \in BOOLEAN /\ lost' \in BOOLEAN
      BY TypesTake DEF DemonTypes
<1>4. Chain(pipe)' /\ (~lost' => EndsIn(Closed)') /\ (pipe # << >> => pipe' # << >> /\ Head(pipe') = Head(pipe))
  <2>1. CASE pipe' = pipe
        BY <1>1, <1>2, <1>3, <2>1 DEF EndsIn, Chain
  <2>2. ASSUME NEW x \in Contents, ~lost, pipe' = Append(pipe, x)
        PROVE  Chain(pipe)' /\ EndsIn(Closed)' /\ (pipe # << >> => pipe' # << >> /\ Head(pipe') = Head(pipe))
    <3>1. Chain(pipe)' /\ EndsIn(Closed)' /\ pipe' # << >>
          BY <1>2, <2>2, ChainGrows
    <3>2. x \in AnAnswer /\ pipe \in Seq(AnAnswer)
          BY <1>2, ClosedFollows DEF Closed, Chain
    <3>3. pipe # << >> => Head(pipe') = Head(pipe)
          BY <2>2, <3>2, Appended
    <3> QED BY <3>1, <3>3
  <2> QED BY <1>1, <2>1, <2>2
<1>5. Parser'
      BY <1>1, <1>2, <1>3, <1>4 DEF Parser, Clean
<1> QED BY <1>1, <1>2, <1>3, <1>4, <1>5

(* A command without an answer does only what it says.                     *)
LEMMA Plainly ==
  ASSUME Parser, NEW c \in {"leave", "reset", "acquire", "release", "deassert"},
         NEW whole, Take(Byte(c), whole), ~lost, wants = "cmd"
  PROVE  /\ Parser' /\ wants' = "cmd" /\ lost' = lost /\ pipe' = pipe
         /\ inReset'  = (CASE c = "reset" -> TRUE [] c = "deassert" -> FALSE [] OTHER -> inReset)
         /\ acquired' = (CASE c = "acquire" -> TRUE [] c = "release" -> FALSE [] OTHER -> acquired)
         /\ c # "leave" => bus' = bus
<1>1. Command(c)
      BY TakeCommand
<1>2. /\ wants' = "cmd" /\ lost' = lost /\ pipe' = pipe
      /\ inReset'  = (CASE c = "reset" -> TRUE [] c = "deassert" -> FALSE [] OTHER -> inReset)
      /\ acquired' = (CASE c = "acquire" -> TRUE [] c = "release" -> FALSE [] OTHER -> acquired)
      /\ c # "leave" => bus' = bus
      BY <1>1 DEF Command, Answers
<1>3. Parser'
      BY <1>2 DEF Parser, Chain
<1> QED BY <1>2, <1>3

(* A question of probe_info puts its answer behind those that wait.        *)
LEMMA Asks ==
  ASSUME Parser, NEW c \in {"device_id", "protocol", "firmware", "nand_id"}, c = "nand_id" => acquired,
         NEW whole, Take(Byte(c), whole), ~lost, wants = "cmd",
         pipe # << >> => Follows(pipe[Len(pipe)], InfoWord(c))
  PROVE  /\ Parser' /\ wants' = "cmd" /\ lost' = lost /\ UNCHANGED <<inReset, acquired, bus>>
         /\ pipe' # << >> /\ pipe'[Len(pipe')] = InfoWord(c)
         /\ pipe # << >> => Head(pipe') = Head(pipe)
         /\ pipe = << >> => Head(pipe') = InfoWord(c)
<1>1. Command(c)
      BY TakeCommand
<1>2. /\ wants' = "cmd" /\ lost' = lost /\ UNCHANGED <<inReset, acquired, bus>>
      /\ pipe' = Append(pipe, InfoWord(c))
      BY <1>1 DEF Command, Answers, Put, InfoWord
<1>3. InfoWord(c) \in AnAnswer /\ InfoWord(c) # CountByte
      BY DEF AnAnswer, InfoWord, CountByte
<1>4. Chain(pipe)'
      BY <1>2, <1>3, ChainAppend DEF Parser
<1>5. /\ pipe' # << >> /\ pipe'[Len(pipe')] = InfoWord(c)
      /\ pipe # << >> => Head(pipe') = Head(pipe)
      /\ pipe = << >> => Head(pipe') = InfoWord(c)
      BY <1>2, <1>3, Appended DEF Parser, Chain
<1>6. Parser'
      BY <1>2, <1>4 DEF Parser
<1> QED BY <1>2, <1>5, <1>6

(* The mode, behind the answers that wait.                                 *)
LEMMA AsksMode ==
  ASSUME Parser, DemonTypes, NEW whole, Take(Byte("mode"), whole), ~lost, wants = "cmd"
  PROVE  /\ Parser' /\ wants' = "cmd" /\ lost' = lost /\ UNCHANGED <<inReset, acquired, bus>>
         /\ pipe' # << >> /\ pipe'[Len(pipe')] \in ModeBytes
<1> DEFINE x == [length |-> "byte", value |-> mode]
<1>1. Command("mode")
      BY TakeCommand
<1>2. /\ wants' = "cmd" /\ lost' = lost /\ UNCHANGED <<inReset, acquired, bus>>
      /\ pipe' = Append(pipe, x)
      BY <1>1 DEF Command, Answers, Put
<1>3. x \in ModeBytes /\ x \in AnAnswer /\ x # CountByte
      BY DEF DemonTypes, ModeBytes, AnAnswer, Bytes, CountByte
<1>4. ASSUME pipe # << >> PROVE Follows(pipe[Len(pipe)], x)
  <2>1. pipe[Len(pipe)] # CountByte
        BY <1>4 DEF Parser, Chain
  <2>2. x \in Bytes
        BY <1>3 DEF Bytes
  <2> HIDE DEF x
  <2> QED BY <2>1, <2>2 DEF Follows
<1>5. Chain(pipe)'
      BY <1>2, <1>3, <1>4, ChainAppend DEF Parser
<1>6. pipe' # << >> /\ pipe'[Len(pipe')] = x
      BY <1>2, <1>3, Appended DEF Parser, Chain
<1>7. Parser'
      BY <1>2, <1>5 DEF Parser
<1> QED BY <1>2, <1>3, <1>6, <1>7

(* The two answers to read_invalid_blocks, behind those that wait.         *)
LEMMA AsksList ==
  ASSUME Parser, NEW whole, Take(Byte("bad_blocks"), whole), ~lost, wants = "cmd"
  PROVE  Parser' /\ wants' = "cmd" /\ lost' = lost /\ UNCHANGED <<inReset, acquired, bus>>
<1> DEFINE l == InfoWord("list")
           p == Append(pipe, CountByte)
<1>1. Command("bad_blocks")
      BY TakeCommand
<1>2. /\ wants' = "cmd" /\ lost' = lost /\ UNCHANGED <<inReset, acquired, bus>>
      /\ pipe' = pipe \o <<CountByte, l>>
      BY <1>1 DEF Command, Answers, InfoWord, CountByte
<1>3. CountByte \in AnAnswer /\ CountByte \in Bytes /\ l \in AnAnswer /\ l # CountByte
      BY DEF AnAnswer, Bytes, CountByte, InfoWord
<1>4. ASSUME pipe # << >> PROVE Follows(pipe[Len(pipe)], CountByte)
  <2>1. pipe[Len(pipe)] # CountByte
        BY <1>4 DEF Parser, Chain
  <2> QED BY <1>3, <2>1 DEF Follows
<1>5. Links(p)
      BY <1>3, <1>4, LinksAppend DEF Parser, Chain, Links
<1>6. pipe \in Seq(AnAnswer)
      BY DEF Parser, Chain
<1>7. p \in Seq(AnAnswer) /\ p[Len(p)] = CountByte
      BY <1>3, <1>6, Appended
<1>8. Follows(CountByte, l)
      BY DEF Follows, CountByte, ModeBytes, InfoWord
<1>9. Links(Append(p, l)) /\ LET q == Append(p, l) IN q[Len(q)] = l
  <2> HIDE DEF p, l
  <2>1. Links(Append(p, l))
        BY <1>3, <1>5, <1>7, <1>8, LinksAppend
  <2>2. LET q == Append(p, l) IN q[Len(q)] = l
        BY <1>3, <1>7, Appended
  <2> QED BY <2>1, <2>2
<1>10. pipe' = Append(p, l)
      BY <1>2, <1>3, <1>6
<1>11. Chain(pipe)'
      BY <1>3, <1>9, <1>10 DEF Links, Chain
<1>12. Parser'
      BY <1>2, <1>11 DEF Parser
<1> QED BY <1>2, <1>12

(* The command byte of a block changes only what the next bytes are taken  *)
(* for.                                                                    *)
LEMMA Starts ==
  ASSUME Parser, NEW c \in {"read", "program"}, NEW whole, Take(Byte(c), whole), ~lost, wants = "cmd", Clean, Quiet
  PROVE  Parser' /\ UNCHANGED <<lost, pipe, inReset, acquired, bus>>
<1>1. Command(c)
      BY TakeCommand
<1>2. UNCHANGED <<lost, pipe, inReset, acquired, bus>>
      BY <1>1 DEF Command, Answers
<1>3. Parser'
      BY <1>2 DEF Parser, Chain, Clean, Quiet, EndsIn
<1> QED BY <1>2, <1>3

(* An answer that is read, or discarded, takes nothing from Parser.        *)
LEMMA ReadKeepsParser ==
  ASSUME Parser, pipe' = pipe \/ (pipe # << >> /\ pipe' = Tail(pipe)), UNCHANGED <<wants, lost, inReset, acquired>>
  PROVE  /\ Parser'
         /\ Quiet => Quiet'
<1>1. Chain(pipe)' /\ (EndsIn(Closed) => EndsIn(Closed)')
  <2>1. CASE pipe' = pipe
        BY <2>1 DEF Parser, Chain, EndsIn
  <2>2. CASE pipe # << >> /\ pipe' = Tail(pipe)
        BY <2>2, ChainTail DEF Parser, EndsIn
  <2> QED BY <2>1, <2>2
<1> QED BY <1>1 DEF Parser, Clean, Quiet

-----------------------------------------------------------------------------
(* A transfer reaches the programmer, and the call goes on to the next.    *)
Sends(whole) ==
  /\ stage = "talk" /\ todo # << >> /\ "get" \notin DOMAIN Head(todo) /\ Take(Head(todo), whole)
  /\ bus = "present" /\ UNCHANGED <<job, info, at, image>>
Advances == todo' = Tail(todo) /\ UNCHANGED <<stage, phase>>

(* Commands are bytes.                                                     *)
LEMMA AByte ==
  ASSUME NEW c \in {"mode", "leave", "device_id", "protocol", "firmware", "nand_id", "reset", "acquire",
                    "release", "deassert", "read", "program", "bad_blocks"}
  PROVE  Byte(c) \in DemonSteps /\ IsByte(Byte(c)) /\ "get" \notin DOMAIN Byte(c)
BY DEF DemonSteps, IsByte, Byte

(* lost is a Boolean.                                                      *)
LEMMA LostIs == DemonTypes => lost \in BOOLEAN
BY DEF DemonTypes

(* The question of get_mode, sent at its place.                            *)
LEMMA ModeSends ==
  ASSUME DemonTypes, Parser, NEW k \in Nat, AtMode(k), NEW whole, Sends(whole)
  PROVE  Parser' /\ (Advances => AtMode(k + 1)') /\ k + 1 \in 0..12
<1>1. k = 0 /\ Head(todo) = Byte("mode") /\ Tail(todo) = Left(GetMode, 1) /\ Take(Byte("mode"), whole)
      BY ModeAt DEF Sends, Get
<1>2. SUFFICES Parser' /\ Early' /\ (~lost' => EndsIn(Closed \cup ModeBytes)')
      BY <1>1 DEF AtMode, Sends, Advances, Untouched
<1>3. CASE lost \/ wants # "cmd"
  <2>1. /\ Parser' /\ (~lost' => ~lost /\ EndsIn(Closed)')
        /\ lost => wants' = wants
        /\ ~lost => wants' \notin {"read_num", "program_num"}
        BY <1>1, <1>3, AByte, Other
  <2>2. lost => wants = "cmd"
        BY DEF Parser
  <2> QED BY <2>1, <2>2, LostIs DEF Early, EndsIn
<1>4. CASE ~lost /\ wants = "cmd"
      BY <1>1, <1>4, AsksMode DEF Early, EndsIn
<1> QED BY <1>2, <1>3, <1>4, LostIs

(* The command that leaves the bootloader, sent at its place.              *)
LEMMA LeaveSends ==
  ASSUME DemonTypes, Parser, NEW k \in Nat, AtLeave(k), NEW whole, Sends(whole)
  PROVE  Parser' /\ (Advances => AtLeave(k + 1)') /\ k + 1 \in 0..12
<1>1. k = 0 /\ Head(todo) = Byte("leave") /\ Tail(todo) = Left(Leaving, 1) /\ Take(Byte("leave"), whole)
      BY LeaveAt DEF Sends
<1>2. SUFFICES Parser' /\ Early' /\ ReaderOK(0)' /\ WriterOK(0, 0)'
      BY <1>1 DEF AtLeave, Sends, Advances, Untouched
<1>3. Early /\ ReaderOK(0) /\ WriterOK(0, 0) /\ info' = info
      BY DEF AtLeave, Sends
<1>4. CASE lost
  <2>1. Parser' /\ pipe' = pipe /\ wants' = wants /\ lost'
        BY <1>1, <1>4, AByte, Other
  <2> QED BY <1>3, <2>1 DEF Early, ReaderOK, WriterOK
<1>5. CASE ~lost /\ wants # "cmd"
  <2>1. /\ Parser' /\ (~lost' => ~lost /\ EndsIn(Closed)')
        /\ wants' \notin {"read_num", "program_num"}
        /\ pipe # << >> => pipe' # << >> /\ Head(pipe') = Head(pipe)
        BY <1>1, <1>5, AByte, Other
  <2>2. pipe # << >>
        BY <1>3, <1>5 DEF WriterOK
  <2> QED BY <1>3, <2>1, <2>2 DEF Early, ReaderOK, WriterOK, EndsIn
<1>6. CASE ~lost /\ wants = "cmd"
  <2>1. Parser' /\ wants' = "cmd" /\ lost' = lost /\ pipe' = pipe
        BY <1>1, <1>6, Plainly
  <2> QED BY <1>3, <2>1 DEF Early, ReaderOK, WriterOK, EndsIn
<1> QED BY <1>2, <1>4, <1>5, <1>6, LostIs

(* The questions of probe_info.                                            *)
QuestionNames == {"device_id", "protocol", "firmware", "nand_id"}

(* A sequence of four, one by one.                                         *)
LEMMA FourQuestions ==
  ASSUME NEW S, NEW a \in S, NEW b \in S, NEW c \in S, NEW d \in S
  PROVE  LET s == <<a, b, c, d>>
         IN  s \in Seq(S) /\ Len(s) <= 4 /\ 4 <= Len(s) /\ s[1] = a /\ s[2] = b /\ s[3] = c /\ s[4] = d
OBVIOUS

(* The questions of probe_info, in their order.                            *)
LEMMA QuestionsAre ==
  /\ Questions[1] = "device_id" /\ Questions[2] = "protocol" /\ Questions[3] = "firmware" /\ Questions[4] = "nand_id"
  /\ Questions \in Seq(QuestionNames) /\ Len(Questions) <= 4 /\ 4 <= Len(Questions)
<1>1. /\ "device_id" \in QuestionNames /\ "protocol" \in QuestionNames
      /\ "firmware" \in QuestionNames /\ "nand_id" \in QuestionNames
      BY DEF QuestionNames
<1> QED BY <1>1, FourQuestions DEF Questions

(* The first n questions.                                                  *)
LEMMA FirstIs ==
  ASSUME NEW n \in Nat, n <= 4
  PROVE  /\ First(n) \in Seq(QuestionNames) /\ Len(First(n)) = n
         /\ \A i \in 1..n : First(n)[i] = Questions[i]
<1>1. \A i \in 1..n : Questions[i] \in QuestionNames
  <2>1. 1..n \subseteq 1..Len(Questions)
        BY QuestionsAre, LenProperties
  <2> QED BY <2>1, QuestionsAre, LenProperties
<1> QED BY <1>1 DEF First

(* One question more.                                                      *)
LEMMA FirstGrows ==
  ASSUME NEW n \in Nat, n <= 3
  PROVE  Append(First(n), Questions[n + 1]) = First(n + 1)
<1> DEFINE s == Append(First(n), Questions[n + 1])
           t == First(n + 1)
<1>1. /\ First(n) \in Seq(QuestionNames) /\ Len(First(n)) = n
      /\ \A i \in 1..n : First(n)[i] = Questions[i]
      BY FirstIs
<1>2. n + 1 \in Nat /\ n + 1 <= 4
      OBVIOUS
<1>3. /\ t \in Seq(QuestionNames) /\ Len(t) = n + 1
      /\ \A i \in 1..(n + 1) : t[i] = Questions[i]
      BY <1>2, FirstIs
<1>4. Questions[n + 1] \in QuestionNames
      BY <1>3, LenProperties
<1>5. /\ s \in Seq(QuestionNames) /\ Len(s) = n + 1
      /\ \A i \in 1..n : s[i] = Questions[i]
      /\ s[n + 1] = Questions[n + 1]
      BY <1>1, <1>4, AppendProperties
<1>6. \A i \in 1..(n + 1) : s[i] = t[i]
      BY <1>3, <1>5
<1> HIDE DEF s, t
<1>7. s = t
      BY <1>3, <1>5, <1>6, SeqEqual
<1> QED BY <1>7 DEF s, t

(* None of the questions, and all of them.                                 *)
LEMMA FirstEnds == First(0) = << >> /\ First(4) = Questions
<1>1. First(0) = << >>
      BY FirstIs, EmptySeq
<1>2. First(4) = Questions
  <2>1. PICK n \in Nat : n = 4
        OBVIOUS
  <2> DEFINE s == First(n)
  <2>2. /\ s \in Seq(QuestionNames) /\ Len(s) = n
        /\ \A i \in 1..n : s[i] = Questions[i]
    <3>1. n <= 4
          BY <2>1
    <3> QED BY <3>1, FirstIs
  <2>3. Len(Questions) \in Nat /\ Len(Questions) <= n /\ n <= Len(Questions)
        BY <2>1, QuestionsAre, LenProperties
  <2> HIDE DEF s
  <2>4. Len(s) = Len(Questions)
        BY <2>2, <2>3
  <2>5. s = Questions
        BY <2>2, <2>4, QuestionsAre, SeqEqual
  <2> QED BY <2>1, <2>5 DEF s
<1> QED BY <1>1, <1>2

(* The last of the first n questions.                                      *)
LEMMA LastOfFirst ==
  ASSUME NEW n \in {1, 2, 3, 4}
  PROVE  First(n)[n] = Questions[n]
<1>1. n \in Nat /\ n <= 4 /\ n \in 1..n
      OBVIOUS
<1> QED BY <1>1, FirstIs

(* Each answer of probe_info may be followed by the one to the next        *)
(* question, and that of the mode by the first.                            *)
LEMMA NextQuestion ==
  /\ Follows(InfoWord("device_id"), InfoWord("protocol"))
  /\ Follows(InfoWord("protocol"), InfoWord("firmware"))
  /\ Follows(InfoWord("firmware"), InfoWord("nand_id"))
  /\ \A a \in ModeBytes : Follows(a, InfoWord("device_id"))
BY DEF Follows, InfoWord, ModeBytes, CountByte

(* A question of probe_info, after n were asked and answered: the next     *)
(* answer that is read is to question n + 1 or to nothing of probe_info,   *)
(* and the last that waits is to question n + 1 or ends a command.         *)
LEMMA Questioned ==
  ASSUME DemonTypes, Parser, NEW n \in {0, 1, 2, 3}, ReaderOK(n), WriterOK(n, n), UNCHANGED info,
         NEW whole, Take(Byte(Questions[n + 1]), whole),
         n = 3 /\ ~lost /\ wants = "cmd" => acquired
  PROVE  /\ Parser' /\ ReaderOK(n)' /\ WriterOK(n, n + 1)' /\ UNCHANGED <<inReset, acquired, bus>>
         /\ Early \/ Settled => Settled'
         /\ wants # "cmd" /\ Settled => wants' = "rest" \/ lost
         /\ lost => lost'
<1>1. PICK c : c = Questions[n + 1] /\ Take(Byte(c), whole)
      OBVIOUS
<1>2. c \in {"device_id", "protocol", "firmware", "nand_id"} /\ (c = "nand_id" <=> n = 3)
      BY <1>1, QuestionsAre
<1>3. Byte(c) \in DemonSteps /\ IsByte(Byte(c)) /\ "get" \notin DOMAIN Byte(c)
      BY <1>2, AByte
<1>4. CASE lost
  <2>1. /\ Parser' /\ pipe' = pipe /\ wants' = wants /\ lost' /\ UNCHANGED <<inReset, acquired, bus>>
        BY <1>1, <1>3, <1>4, Other
  <2>2. wants = "cmd"
        BY <1>4 DEF Parser
  <2> QED BY <1>4, <2>1, <2>2 DEF ReaderOK, WriterOK, Settled
<1>5. CASE ~lost /\ wants # "cmd"
  <2>1. /\ Parser' /\ ~lost' /\ UNCHANGED <<inReset, acquired, bus>>
        /\ ~lost' => EndsIn(Closed)'
        /\ wants \in {"data", "rest"} => wants' = "rest"
        /\ wants \notin {"read_num", "program_num"} => wants' \in {"cmd", "data", "rest"}
        /\ pipe # << >> => pipe' # << >> /\ Head(pipe') = Head(pipe)
        BY <1>1, <1>3, <1>5, Other
  <2>2. pipe # << >>
        BY <1>5 DEF WriterOK
  <2>3. ReaderOK(n)' /\ WriterOK(n, n + 1)'
        BY <2>1, <2>2 DEF ReaderOK, WriterOK, EndsIn
  <2> QED BY <1>5, <2>1, <2>3 DEF Early, Settled
<1>6. CASE ~lost /\ wants = "cmd"
  <2>1. pipe # << >> => Follows(pipe[Len(pipe)], InfoWord(c))
    <3>1. pipe # << >> => pipe[Len(pipe)] \in Closed \cup Prompt(n)
          BY <1>6 DEF WriterOK, EndsIn
    <3>2. ASSUME NEW a \in Prompt(n) PROVE Follows(a, InfoWord(c))
          BY <1>1, <3>2, NextQuestion, QuestionsAre DEF Prompt
    <3> QED BY <3>1, <3>2, ClosedFollows
  <2>2. /\ Parser' /\ wants' = "cmd" /\ lost' = lost /\ UNCHANGED <<inReset, acquired, bus>>
        /\ pipe' # << >> /\ pipe'[Len(pipe')] = InfoWord(c)
        /\ pipe # << >> => Head(pipe') = Head(pipe)
        /\ pipe = << >> => Head(pipe') = InfoWord(c)
        BY <1>1, <1>2, <1>6, <2>1, Asks
  <2>3. WriterOK(n, n + 1)'
    <3>1. InfoWord(c) \in Prompt(n + 1)
          BY <1>1 DEF Prompt
    <3> QED BY <2>2, <3>1 DEF WriterOK, EndsIn
  <2>4. ReaderOK(n)'
    <3>1. CASE pipe # << >>
          BY <2>2, <3>1 DEF ReaderOK
    <3>2. CASE pipe = << >>
      <4>1. info = First(n)
            BY <1>6, <3>2 DEF WriterOK
      <4>2. n # 0 => Follows(InfoWord(info[n]), InfoWord(c))
            BY <1>1, <4>1, LastOfFirst, QuestionsAre, NextQuestion
      <4>3. n = 0 => c = "device_id"
            BY <1>1, QuestionsAre
      <4> QED BY <2>2, <3>2, <4>1, <4>2, <4>3 DEF ReaderOK
    <3> QED BY <3>1, <3>2
  <2> QED BY <1>6, <2>2, <2>3, <2>4 DEF Settled
<1> QED BY <1>4, <1>5, <1>6, LostIs

(* The commands of ReadFlashId that are not answered.                      *)
LEMMA ProbePlainly ==
  ASSUME DemonTypes, Parser, NEW n \in {3, 4}, ReaderOK(n), WriterOK(n, n), Settled, UNCHANGED info,
         NEW c \in {"reset", "acquire", "release", "deassert"}, NEW whole, Take(Byte(c), whole)
  PROVE  /\ Parser' /\ ReaderOK(n)' /\ WriterOK(n, n)' /\ Settled' /\ UNCHANGED bus
         /\ c = "acquire" /\ ~lost' /\ wants' = "cmd" => acquired'
         /\ c = "release" => ~acquired'
         /\ c = "deassert" => ~inReset' /\ (~acquired => ~acquired')
<1>0. Byte(c) \in DemonSteps /\ IsByte(Byte(c)) /\ "get" \notin DOMAIN Byte(c)
      BY AByte
<1>1. CASE lost
  <2>1. Parser' /\ pipe' = pipe /\ wants' = wants /\ lost' /\ UNCHANGED <<inReset, acquired, bus>> /\ Clean
        BY <1>0, <1>1, Other
  <2> QED BY <1>1, <2>1 DEF ReaderOK, WriterOK, Settled, Clean
<1>2. CASE ~lost /\ wants # "cmd"
  <2>1. /\ Parser' /\ ~lost' /\ UNCHANGED <<inReset, acquired, bus>> /\ Clean
        /\ ~lost' => EndsIn(Closed)'
        /\ wants \in {"data", "rest"} => wants' = "rest"
        /\ pipe # << >> => pipe' # << >> /\ Head(pipe') = Head(pipe)
        BY <1>0, <1>2, Other
  <2>2. wants' = "rest"
        BY <1>2, <2>1 DEF Settled
  <2>3. n = 4 \/ pipe # << >>
        BY <1>2 DEF WriterOK
  <2>4. CASE pipe # << >>
        BY <1>2, <2>1, <2>2, <2>4 DEF ReaderOK, WriterOK, Settled, Clean, EndsIn
  <2>5. CASE pipe = << >> /\ n = 4
    <3>1. info = First(4)
          BY <1>2, <2>5 DEF WriterOK
    <3>2. info[4] = "nand_id"
          BY <3>1, LastOfFirst, QuestionsAre
    <3>3. \A b : Follows(InfoWord(info[4]), b)
          BY <3>2, ClosedFollows DEF Closed
    <3>4. ReaderOK(4)'
          BY <3>1, <3>3 DEF ReaderOK
    <3>5. WriterOK(4, 4)'
          BY <2>1, <3>1 DEF WriterOK, EndsIn
    <3> QED BY <2>1, <2>2, <2>5, <3>4, <3>5 DEF Settled, Clean
  <2> QED BY <2>3, <2>4, <2>5
<1>3. CASE ~lost /\ wants = "cmd"
  <2>1. /\ Parser' /\ wants' = "cmd" /\ lost' = lost /\ pipe' = pipe
        /\ inReset'  = (CASE c = "reset" -> TRUE [] c = "deassert" -> FALSE [] OTHER -> inReset)
        /\ acquired' = (CASE c = "acquire" -> TRUE [] c = "release" -> FALSE [] OTHER -> acquired)
        /\ bus' = bus
        BY <1>3, Plainly
  <2> QED BY <1>3, <2>1 DEF ReaderOK, WriterOK, Settled, EndsIn
<1> QED BY <1>1, <1>2, <1>3, LostIs

(* The transfers of probe_info, sent at their place.                       *)
LEMMA ProbeSends ==
  ASSUME DemonTypes, Parser, NEW k \in Nat, AtProbe(k), NEW whole, Sends(whole)
  PROVE  Parser' /\ (Advances => AtProbe(k + 1)') /\ k + 1 \in 0..12
<1>1. /\ k \in {0, 1, 2, 3, 4, 5, 6, 7, 8, 9, 10, 11, 12} /\ Take(Head(todo), whole) /\ bus = "present"
      /\ "get" \notin DOMAIN Head(todo) /\ todo # << >> /\ stage = "talk" /\ UNCHANGED <<job, info, at, image>>
      BY ProbeAt DEF Sends
<1>2. k \in {0, 2, 4, 6, 7, 8, 10, 11} /\ Tail(todo) = Left(ProbeInfo, k + 1)
      BY <1>1, ProbeAt DEF Get
<1>3. /\ ReaderOK(Answered(k)) /\ WriterOK(Answered(k), Asked(k))
      /\ IF k = 0 THEN Early ELSE Settled
      /\ k \in {8, 9, 10} /\ ~lost /\ wants = "cmd" => acquired
      /\ k >= 11 => ~acquired
      BY DEF AtProbe
<1>4. ASSUME Parser', ReaderOK(Answered(k + 1))', WriterOK(Answered(k + 1), Asked(k + 1))', Settled', bus' = bus,
             k + 1 \in {8, 9, 10} /\ ~lost' /\ wants' = "cmd" => acquired',
             k + 1 >= 11 => ~acquired', k + 1 = 12 => ~inReset'
      PROVE  Parser' /\ (Advances => AtProbe(k + 1)') /\ k + 1 \in 0..12
      BY <1>1, <1>2, <1>4 DEF AtProbe, Advances, Untouched
<1>5. CASE k \in {0, 2, 4, 8}
  <2>1. CASE k = 0
    <3>1. Answered(k) = 0 /\ Asked(k) = 0 /\ Answered(k + 1) = 0 /\ Asked(k + 1) = 0 + 1
          BY <2>1 DEF Answered, Asked
    <3>2. Take(Byte(Questions[0 + 1]), whole)
          BY <1>1, <2>1, ProbeAt, QuestionsAre
    <3>3. 0 = 3 /\ ~lost /\ wants = "cmd" => acquired
          BY <1>3, <2>1
    <3>4. ReaderOK(0) /\ WriterOK(0, 0) /\ (Early \/ Settled) /\ (k # 0 => Settled)
          BY <1>3, <3>1
    <3>5. /\ Parser' /\ ReaderOK(0)' /\ WriterOK(0, 0 + 1)' /\ UNCHANGED <<inReset, acquired, bus>>
          /\ Settled' /\ (wants # "cmd" /\ Settled => wants' = "rest" \/ lost)
          /\ lost => lost'
          BY <1>1, <3>2, <3>3, <3>4, Questioned
    <3>6. k + 1 \in {8, 9, 10} /\ ~lost' /\ wants' = "cmd" => acquired'
          BY <1>3, <2>1, <3>4, <3>5, LostIs
    <3> QED BY <1>4, <2>1, <3>1, <3>5, <3>6
  <2>2. CASE k = 2
    <3>1. Answered(k) = 1 /\ Asked(k) = 1 /\ Answered(k + 1) = 1 /\ Asked(k + 1) = 1 + 1
          BY <2>2 DEF Answered, Asked
    <3>2. Take(Byte(Questions[1 + 1]), whole)
          BY <1>1, <2>2, ProbeAt, QuestionsAre
    <3>3. 1 = 3 /\ ~lost /\ wants = "cmd" => acquired
          BY <1>3, <2>2
    <3>4. ReaderOK(1) /\ WriterOK(1, 1) /\ (Early \/ Settled) /\ (k # 0 => Settled)
          BY <1>3, <3>1
    <3>5. /\ Parser' /\ ReaderOK(1)' /\ WriterOK(1, 1 + 1)' /\ UNCHANGED <<inReset, acquired, bus>>
          /\ Settled' /\ (wants # "cmd" /\ Settled => wants' = "rest" \/ lost)
          /\ lost => lost'
          BY <1>1, <3>2, <3>3, <3>4, Questioned
    <3>6. k + 1 \in {8, 9, 10} /\ ~lost' /\ wants' = "cmd" => acquired'
          BY <1>3, <2>2, <3>4, <3>5, LostIs
    <3> QED BY <1>4, <2>2, <3>1, <3>5, <3>6
  <2>3. CASE k = 4
    <3>1. Answered(k) = 2 /\ Asked(k) = 2 /\ Answered(k + 1) = 2 /\ Asked(k + 1) = 2 + 1
          BY <2>3 DEF Answered, Asked
    <3>2. Take(Byte(Questions[2 + 1]), whole)
          BY <1>1, <2>3, ProbeAt, QuestionsAre
    <3>3. 2 = 3 /\ ~lost /\ wants = "cmd" => acquired
          BY <1>3, <2>3
    <3>4. ReaderOK(2) /\ WriterOK(2, 2) /\ (Early \/ Settled) /\ (k # 0 => Settled)
          BY <1>3, <3>1
    <3>5. /\ Parser' /\ ReaderOK(2)' /\ WriterOK(2, 2 + 1)' /\ UNCHANGED <<inReset, acquired, bus>>
          /\ Settled' /\ (wants # "cmd" /\ Settled => wants' = "rest" \/ lost)
          /\ lost => lost'
          BY <1>1, <3>2, <3>3, <3>4, Questioned
    <3>6. k + 1 \in {8, 9, 10} /\ ~lost' /\ wants' = "cmd" => acquired'
          BY <1>3, <2>3, <3>4, <3>5, LostIs
    <3> QED BY <1>4, <2>3, <3>1, <3>5, <3>6
  <2>4. CASE k = 8
    <3>1. Answered(k) = 3 /\ Asked(k) = 3 /\ Answered(k + 1) = 3 /\ Asked(k + 1) = 3 + 1
          BY <2>4 DEF Answered, Asked
    <3>2. Take(Byte(Questions[3 + 1]), whole)
          BY <1>1, <2>4, ProbeAt, QuestionsAre
    <3>3. 3 = 3 /\ ~lost /\ wants = "cmd" => acquired
          BY <1>3, <2>4
    <3>4. ReaderOK(3) /\ WriterOK(3, 3) /\ (Early \/ Settled) /\ (k # 0 => Settled)
          BY <1>3, <3>1
    <3>5. /\ Parser' /\ ReaderOK(3)' /\ WriterOK(3, 3 + 1)' /\ UNCHANGED <<inReset, acquired, bus>>
          /\ Settled' /\ (wants # "cmd" /\ Settled => wants' = "rest" \/ lost)
          /\ lost => lost'
          BY <1>1, <3>2, <3>3, <3>4, Questioned
    <3>6. k + 1 \in {8, 9, 10} /\ ~lost' /\ wants' = "cmd" => acquired'
          BY <1>3, <2>4, <3>4, <3>5, LostIs
    <3> QED BY <1>4, <2>4, <3>1, <3>5, <3>6
  <2> QED BY <1>5, <2>1, <2>2, <2>3, <2>4
<1>6. CASE k \in {6, 7}
  <2>1. PICK c \in {"reset", "acquire"} : Take(Byte(c), whole) /\ (c = "acquire" <=> k = 7)
        BY <1>1, <1>6, ProbeAt
  <2>2. Answered(k) = 3 /\ Asked(k) = 3 /\ Answered(k + 1) = 3 /\ Asked(k + 1) = 3
        BY <1>6 DEF Answered, Asked
  <2>3. ReaderOK(3) /\ WriterOK(3, 3) /\ Settled
        BY <1>3, <1>6, <2>2
  <2>4. /\ Parser' /\ ReaderOK(3)' /\ WriterOK(3, 3)' /\ Settled' /\ UNCHANGED bus
        /\ c = "acquire" /\ ~lost' /\ wants' = "cmd" => acquired'
        BY <1>1, <2>1, <2>3, ProbePlainly
  <2>5. k + 1 \in {8, 9, 10} /\ ~lost' /\ wants' = "cmd" => acquired'
        BY <1>6, <2>1, <2>4
  <2> QED BY <1>4, <1>6, <2>2, <2>4, <2>5
<1>7. CASE k \in {10, 11}
  <2>1. PICK c \in {"release", "deassert"} : Take(Byte(c), whole) /\ (c = "release" <=> k = 10)
        BY <1>1, <1>7, ProbeAt
  <2>2. Answered(k) = 4 /\ Asked(k) = 4 /\ Answered(k + 1) = 4 /\ Asked(k + 1) = 4
        BY <1>7 DEF Answered, Asked
  <2>3. ReaderOK(4) /\ WriterOK(4, 4) /\ Settled
        BY <1>3, <1>7, <2>2
  <2>4. /\ Parser' /\ ReaderOK(4)' /\ WriterOK(4, 4)' /\ Settled' /\ UNCHANGED bus
        /\ c = "release" => ~acquired'
        /\ c = "deassert" => ~inReset' /\ (~acquired => ~acquired')
        BY <1>1, <2>1, <2>3, ProbePlainly
  <2>5. (k + 1 >= 11 => ~acquired') /\ (k + 1 = 12 => ~inReset')
        BY <1>3, <1>7, <2>1, <2>4
  <2> QED BY <1>4, <1>7, <2>2, <2>4, <2>5
<1> QED BY <1>2, <1>5, <1>6, <1>7

(* The transfers of a block, sent at their place.                          *)
LEMMA BlocksSends ==
  ASSUME DemonTypes, Parser, job \in Jobs, NEW k \in Nat, AtBlocks(k), NEW whole, Sends(whole)
  PROVE  Parser' /\ (Advances => AtBlocks(k + 1)') /\ k + 1 \in 0..12 /\ Clean'
<1>0. /\ Take(Head(todo), whole) /\ "get" \notin DOMAIN Head(todo) /\ todo # << >>
      /\ stage = "talk" /\ UNCHANGED <<job, info, at, image>>
      BY DEF Sends
<1>1. /\ k \in {0, 1, 2, 3, 4, 5} /\ k < Size /\ k + 1 \in 0..Len(Transfers(at))
      /\ Tail(todo) = Left(Transfers(at), k + 1)
      /\ k = 2 => job.op # "read"
      BY <1>0, BlocksAt DEF Get
<1>2. /\ Head(todo) \in DemonSteps
      /\ IsByte(Head(todo)) => Head(todo) \in {Byte("read"), Byte("program")}
  <2>1. CASE k \in {0, 3}
        BY <1>1, <2>1, BlocksAt, AByte
  <2>2. CASE k \in {1, 4}
    <3>1. at \in Addr
          BY DEF AtBlocks
    <3>2. Head(todo) = Number(at)
          BY <1>1, <2>2, BlocksAt
    <3> QED BY <3>1, <3>2 DEF DemonSteps, IsByte, Number
  <2>3. CASE k = 2
    <3>1. job.op = "write"
          BY <1>1, <2>3 DEF AtBlocks
    <3>2. PICK w \in DataWord : Head(todo) = Block(w)
          BY <1>1, <2>3, <3>1, BlocksAt
    <3> QED BY <3>2 DEF DemonSteps, IsByte, Block
  <2>4. CASE k = 5
        BY <1>0, <1>1, <2>4, BlocksAt DEF Get
  <2> QED BY <1>1, <2>1, <2>2, <2>3, <2>4
<1>3. Clean /\ Quiet
      BY DEF AtBlocks
<1>4. Parser' /\ Clean' /\ Quiet'
  <2>1. CASE ~lost /\ wants = "cmd" /\ IsByte(Head(todo))
    <3>1. PICK c \in {"read", "program"} : Take(Byte(c), whole)
          BY <1>0, <1>2, <2>1
    <3>2. Parser' /\ UNCHANGED <<lost, pipe, inReset, acquired, bus>>
          BY <1>3, <2>1, <3>1, Starts
    <3> QED BY <1>3, <3>2 DEF Clean, Quiet, EndsIn
  <2>2. CASE lost \/ wants # "cmd" \/ ~IsByte(Head(todo))
    <3>1. Parser' /\ UNCHANGED <<inReset, acquired, bus>> /\ (~lost' => EndsIn(Closed)')
          BY <1>0, <1>2, <1>3, <2>2, Other
    <3> QED BY <1>3, <3>1 DEF Clean, Quiet
  <2> QED BY <2>1, <2>2
<1>5. Advances => AtBlocks(k + 1)'
  <2>1. SUFFICES ASSUME Advances PROVE AtBlocks(k + 1)'
        OBVIOUS
  <2>2. /\ todo' = Left(Transfers(at), k + 1) /\ UNCHANGED <<stage, phase>>
        BY <1>1, <2>1 DEF Advances
  <2>3. Transfers(at)' = Transfers(at) /\ BlocksOf(job)' = BlocksOf(job)
        BY <1>0 DEF Transfers, BlocksOf, WriteBlock, ReadBlock
  <2>4. Len(image)' = IF job.op = "write" THEN 0 ELSE IF k + 1 = 3 THEN at + 1 ELSE at
        BY <1>0, <1>1 DEF AtBlocks, Size
  <2> QED BY <1>0, <1>1, <1>4, <2>2, <2>3, <2>4 DEF AtBlocks
<1> QED BY <1>1, <1>4, <1>5

(* The transfers of acquire_flash, sent at their place.                    *)
LEMMA AcquireSends ==
  ASSUME DemonTypes, Parser, NEW k \in Nat, AtAcquire(k), NEW whole, Sends(whole)
  PROVE  Parser' /\ (Advances => AtAcquire(k + 1)') /\ k + 1 \in 0..12
<1>0. /\ stage = "talk" /\ UNCHANGED <<job, info, at, image>> /\ todo # << >>
      BY DEF Sends
<1>1. k \in {0, 1} /\ Tail(todo) = Left(Acquire, k + 1)
      BY <1>0, AcquireAt
<1>2. PICK c \in {"reset", "acquire"} : Take(Byte(c), whole)
      BY <1>1, AcquireAt DEF Sends
<1>3. Byte(c) \in DemonSteps /\ IsByte(Byte(c)) /\ "get" \notin DOMAIN Byte(c)
      BY AByte
<1>4. Quiet
      BY DEF AtAcquire
<1>5. Parser' /\ Quiet'
  <2>1. CASE ~lost /\ wants = "cmd"
    <3>1. Parser' /\ lost' = lost /\ pipe' = pipe
          BY <1>2, <2>1, Plainly
    <3> QED BY <1>4, <3>1 DEF Quiet, EndsIn
  <2>2. CASE lost \/ wants # "cmd"
    <3>1. PICK t \in DemonSteps : "get" \notin DOMAIN t /\ Take(t, whole)
          BY <1>2, <1>3
    <3>2. Parser' /\ (~lost' => ~lost /\ EndsIn(Closed)')
          BY <2>2, <3>1, Other
    <3> QED BY <3>2 DEF Quiet
  <2> QED BY <2>1, <2>2
<1> QED BY <1>0, <1>1, <1>5 DEF AtAcquire, Advances, Untouched

(* The question of read_invalid_blocks, sent at its place.                 *)
LEMMA ListSends ==
  ASSUME DemonTypes, Parser, NEW k \in Nat, AtList(k), NEW whole, Sends(whole)
  PROVE  Parser' /\ (Advances => AtList(k + 1)') /\ k + 1 \in 0..12
<1>0. /\ stage = "talk" /\ UNCHANGED <<job, info, at, image>> /\ "get" \notin DOMAIN Head(todo)
      BY DEF Sends
<1>1. k = 0 /\ Tail(todo) = Left(Listing, k + 1) /\ Take(Byte("bad_blocks"), whole)
      BY <1>0, ListAt DEF Get, Sends
<1>2. Byte("bad_blocks") \in DemonSteps /\ IsByte(Byte("bad_blocks")) /\ "get" \notin DOMAIN Byte("bad_blocks")
      BY AByte
<1>3. Parser'
  <2>1. CASE ~lost /\ wants = "cmd"
        BY <1>1, <2>1, AsksList
  <2>2. CASE lost \/ wants # "cmd"
        BY <1>1, <1>2, <2>2, Other
  <2> QED BY <2>1, <2>2
<1>4. ASSUME Advances PROVE AtList(1)'
  <2>1. todo' = Left(Listing, 1) /\ UNCHANGED <<stage, phase>>
        BY <1>1, <1>4 DEF Advances
  <2> HIDE DEF Left, Listing, Questions
  <2> QED BY <1>0, <2>1 DEF AtList, Untouched
<1>5. k + 1 = 1
      BY <1>1
<1> QED BY <1>3, <1>4, <1>5

(* The transfers of release_flash, sent at their place.                    *)
LEMMA ReleaseSends ==
  ASSUME DemonTypes, Parser, NEW k \in Nat, AtRelease(k), NEW whole, Sends(whole)
  PROVE  Parser' /\ (Advances => AtRelease(k + 1)') /\ k + 1 \in 0..12
<1>0. /\ stage = "talk" /\ UNCHANGED <<job, info, at, image>> /\ todo # << >>
      BY DEF Sends
<1>1. k \in {0, 1} /\ Tail(todo) = Left(Release, k + 1)
      BY <1>0, ReleaseAt
<1>2. PICK c \in {"release", "deassert"} : Take(Byte(c), whole) /\ (c = "release" <=> k = 0)
      BY <1>1, ReleaseAt DEF Sends
<1>3. Byte(c) \in DemonSteps /\ IsByte(Byte(c)) /\ "get" \notin DOMAIN Byte(c)
      BY AByte
<1>4. k = 1 => ~acquired
      BY DEF AtRelease
<1>5. Parser' /\ ~acquired' /\ (k = 1 => ~inReset')
  <2>1. CASE ~lost /\ wants = "cmd"
    <3>1. /\ Parser'
          /\ inReset'  = (CASE c = "reset" -> TRUE [] c = "deassert" -> FALSE [] OTHER -> inReset)
          /\ acquired' = (CASE c = "acquire" -> TRUE [] c = "release" -> FALSE [] OTHER -> acquired)
          BY <1>2, <2>1, Plainly
    <3> QED BY <1>1, <1>2, <1>4, <3>1
  <2>2. CASE lost \/ wants # "cmd"
    <3>1. Parser' /\ UNCHANGED <<inReset, acquired, bus>> /\ Clean
          BY <1>2, <1>3, <2>2, Other
    <3> QED BY <3>1 DEF Clean
  <2> QED BY <2>1, <2>2
<1> QED BY <1>0, <1>1, <1>5 DEF AtRelease, Advances, Untouched

-----------------------------------------------------------------------------
DemonAt(k) ==
  \/ AtMode(k) \/ AtLeave(k) \/ AtProbe(k) \/ AtBlocks(k) \/ AtAcquire(k) \/ AtList(k) \/ AtRelease(k)

(* A call that is at a place of its scripts keeps the invariant.           *)
LEMMA DemonGoesOn ==
  ASSUME DemonInv, programmer.kind = "demon", Parser', UNCHANGED <<programmer, job>>, job # None,
         Active', NEW k \in 0..12, DemonAt(k)'
  PROVE  DemonInv'
BY DEF DemonInv, DemonAt

(* A call that ends keeps the invariant, if it has all answers and leaves  *)
(* the console in order once it got through init.                          *)
LEMMA DemonEnds ==
  ASSUME DemonInv, programmer.kind = "demon", Parser', UNCHANGED <<programmer, job>>, job # None, ~Active',
         PastInit' => info' = Questions /\ (result' # "killed" /\ ~sendFailed' => Clean')
  PROVE  DemonInv'
BY DEF DemonInv, Questions

(* While a call of DemoN is worked on it is at a place of its scripts.     *)
LEMMA DemonIsAt ==
  ASSUME DemonInv, programmer.kind = "demon", Active
  PROVE  /\ \E k \in 0..12 : DemonAt(k)
         /\ Parser
BY DEF DemonInv, DemonAt

(* What each place says once a call has got through init.                  *)
LEMMA PastInitIs ==
  ASSUME NEW k \in Nat, DemonAt(k), phase \in {"blocks", "acquire", "list", "unlist", "release"}
  PROVE  info = Questions /\ (phase = "blocks" => Clean)
BY DEF DemonAt, AtMode, AtLeave, AtProbe, AtBlocks, AtAcquire, AtList, AtRelease

(* Before its first transfer a script of DemoN is left as a whole.         *)
LEMMA ReleaseWhole == Left(Release, 0) = Release /\ Left(Acquire, 0) = Acquire /\ Left(GetMode, 0) = GetMode
                      /\ Left(ProbeInfo, 0) = ProbeInfo /\ Left(Leaving, 0) = Leaving /\ Left(Listing, 0) = Listing
<1>1. /\ Byte("device_id") \in DemonSteps /\ Byte("protocol") \in DemonSteps /\ Byte("firmware") \in DemonSteps
      /\ Byte("reset") \in DemonSteps /\ Byte("acquire") \in DemonSteps /\ Byte("nand_id") \in DemonSteps
      /\ Byte("release") \in DemonSteps /\ Byte("deassert") \in DemonSteps /\ Get("word", "info") \in DemonSteps
      /\ Byte("mode") \in DemonSteps /\ Get("byte", "mode") \in DemonSteps /\ Byte("leave") \in DemonSteps
      /\ Byte("bad_blocks") \in DemonSteps /\ Get("word", "count") \in DemonSteps
  BY DEF DemonSteps
<1>2. ProbeInfo = <<Byte("device_id"), Get("word", "info")>> \o <<Byte("protocol"), Get("word", "info")>>
                    \o <<Byte("firmware"), Get("word", "info")>>
                    \o (<<Byte("reset"), Byte("acquire")>> \o <<Byte("nand_id"), Get("word", "info")>>
                          \o <<Byte("release"), Byte("deassert")>>)
  BY DEF ProbeInfo, Question, ReadFlashId, Acquire, Release
<1>3. ProbeInfo \in Seq(DemonSteps)
  BY <1>1, <1>2, TwelveOfProbe
<1>4. Release \in Seq(DemonSteps) /\ Acquire \in Seq(DemonSteps) /\ GetMode \in Seq(DemonSteps)
      /\ Leaving \in Seq(DemonSteps) /\ Listing \in Seq(DemonSteps)
  BY <1>1 DEF Release, Acquire, GetMode, Leaving, Listing
<1> QED BY <1>3, <1>4, LeftStep, LenProperties

(* An error ends the call, or makes it release the flash.                  *)
LEMMA DemonFails ==
  ASSUME DemonInv, programmer.kind = "demon", CourseOK, Fail, Parser', stage = "talk",
         UNCHANGED <<programmer, job, info, at, image>>,
         phase = "blocks" => Clean', phase \in {"acquire", "unlist", "release"} => sendFailed'
  PROVE  DemonInv'
<1>1. job # None /\ Active
      BY DEF CourseOK, Active
<1>2. PICK k \in 0..12 : DemonAt(k)
      BY <1>1, DemonIsAt
<1>3. CASE phase = "list"
  <2>1. phase' = "unlist" /\ todo' = Release /\ UNCHANGED <<stage, result>>
        BY <1>3 DEF Fail, Enter
  <2>2. AtList(k)
        BY <1>2, <1>3 DEF DemonAt, AtMode, AtLeave, AtProbe, AtBlocks, AtAcquire, AtRelease
  <2>3. AtRelease(0)'
        BY <2>1, <2>2, ReleaseWhole DEF AtList, AtRelease, Untouched
  <2> QED BY <1>1, <2>1, <2>3, DemonGoesOn DEF DemonAt, Active
<1>4. CASE phase # "list"
  <2>1. result' = "failed" /\ stage' = "drop" /\ phase' = phase
        BY <1>4 DEF Fail, Return
  <2>2. phase \in {"mode", "leave", "probe", "blocks", "acquire", "unlist", "release"}
        BY <1>2, <1>4 DEF DemonAt, AtMode, AtLeave, AtProbe, AtBlocks, AtAcquire, AtList, AtRelease
  <2>3. ~Active' /\ (PastInit' => phase \in {"blocks", "acquire", "unlist", "release"})
        BY <1>4, <2>1 DEF Active, PastInit
  <2>4. phase \in {"blocks", "acquire", "unlist", "release"} => info = Questions
        <3>1. CASE phase # "unlist"
              BY <1>2, <3>1, PastInitIs
        <3>2. CASE phase = "unlist"
              BY <1>2, <3>2 DEF DemonAt, AtMode, AtLeave, AtProbe, AtBlocks, AtAcquire, AtList, AtRelease
        <3> QED BY <3>1, <3>2
  <2> QED BY <1>1, <2>3, <2>4, DemonEnds
<1> QED BY <1>3, <1>4

-----------------------------------------------------------------------------
(* Each place belongs to a function of the call.                           *)
LEMMA PhaseIs ==
  ASSUME NEW k \in Nat
  PROVE  /\ AtMode(k) => phase = "mode"
         /\ AtLeave(k) => phase = "leave"
         /\ AtProbe(k) => phase = "probe"
         /\ AtBlocks(k) => phase = "blocks"
         /\ AtAcquire(k) => phase = "acquire"
         /\ AtList(k) => phase = "list"
         /\ AtRelease(k) => phase \in {"release", "unlist"}
BY DEF AtMode, AtLeave, AtProbe, AtBlocks, AtAcquire, AtList, AtRelease

(* A transfer that reaches the programmer takes the call to its next       *)
(* place.                                                                  *)
LEMMA SendsAdvance ==
  ASSUME DemonTypes, Parser, job \in Jobs, NEW k \in 0..12, DemonAt(k), NEW whole, Sends(whole)
  PROVE  /\ Parser' /\ (Advances => \E n \in 0..12 : DemonAt(n)')
         /\ phase = "blocks" => Clean'
<1>0. k \in Nat
      OBVIOUS
<1>1. CASE AtMode(k)
      BY <1>0, <1>1, ModeSends, PhaseIs DEF DemonAt
<1>2. CASE AtLeave(k)
      BY <1>0, <1>2, LeaveSends, PhaseIs DEF DemonAt
<1>3. CASE AtProbe(k)
      BY <1>0, <1>3, ProbeSends, PhaseIs DEF DemonAt
<1>4. CASE AtBlocks(k)
      BY <1>0, <1>4, BlocksSends DEF DemonAt
<1>5. CASE AtAcquire(k)
      BY <1>0, <1>5, AcquireSends, PhaseIs DEF DemonAt
<1>6. CASE AtList(k)
      BY <1>0, <1>6, ListSends, PhaseIs DEF DemonAt
<1>7. CASE AtRelease(k)
      BY <1>0, <1>7, ReleaseSends, PhaseIs DEF DemonAt
<1> QED BY <1>1, <1>2, <1>3, <1>4, <1>5, <1>6, <1>7 DEF DemonAt

(* While a call of DemoN talks, what it transfers next is one of its own   *)
(* transfers.                                                              *)
LEMMA ScriptHeads ==
  ASSUME NEW k \in 0..12, DemonAt(k), todo # << >>, job \in Jobs
  PROVE  Head(todo) \in DemonSteps
<1>0. k \in Nat
      OBVIOUS
<1>1. CASE AtMode(k)
      BY <1>0, <1>1, ModeAt DEF DemonSteps
<1>2. CASE AtLeave(k)
      BY <1>0, <1>2, LeaveAt, AByte
<1>3. CASE AtProbe(k)
  <2>1. k # 12 /\ k \in {0, 1, 2, 3, 4, 5, 6, 7, 8, 9, 10, 11, 12}
        BY <1>0, <1>3, ProbeAt
  <2>2. CASE k \in {1, 3, 5, 9}
        BY <1>0, <1>3, <2>2, ProbeAt DEF DemonSteps
  <2>3. CASE k \in {0, 2, 4, 6, 7, 8, 10, 11}
        BY <1>0, <1>3, <2>3, ProbeAt, AByte
  <2> QED BY <2>1, <2>2, <2>3
<1>4. CASE AtBlocks(k)
  <2>1. /\ k \in {0, 1, 2, 3, 4, 5, 6} /\ k < Size /\ Size \in {3, 6}
        BY <1>0, <1>4, BlocksAt
  <2>2. at \in Addr /\ job.op \in {"read", "write"}
        BY <1>4 DEF AtBlocks
  <2>3. CASE k \in {0, 3}
        BY <1>0, <1>4, <2>1, <2>3, BlocksAt, AByte
  <2>4. CASE k \in {1, 4}
        BY <1>0, <1>4, <2>1, <2>2, <2>4, BlocksAt DEF DemonSteps
  <2>5. CASE k = 2
        BY <1>0, <1>4, <2>1, <2>2, <2>5, BlocksAt DEF DemonSteps
  <2>6. CASE k = 5
        BY <1>0, <1>4, <2>1, <2>6, BlocksAt DEF DemonSteps
  <2> QED BY <2>1, <2>3, <2>4, <2>5, <2>6
<1>5. CASE AtAcquire(k)
      BY <1>0, <1>5, AcquireAt, AByte
<1>6. CASE AtList(k)
      BY <1>0, <1>6, ListAt, AByte DEF DemonSteps
<1>7. CASE AtRelease(k)
      BY <1>0, <1>7, ReleaseAt, AByte
<1> QED BY <1>1, <1>2, <1>3, <1>4, <1>5, <1>6, <1>7 DEF DemonAt

(* A transfer to the programmer, whether it works or fails.                *)
LEMMA DemonSendsInv ==
  ASSUME DemonTypes, DemonInv, CourseOK, job \in Jobs \cup {None}, programmer.kind = "demon", SendTransfer
  PROVE  DemonInv' /\ DemonTypes'
<1>0. /\ stage = "talk" /\ todo # << >> /\ "get" \notin DOMAIN Head(todo)
      /\ UNCHANGED <<call, info, at, image>>
      BY DEF SendTransfer
<1>1. /\ Active /\ job # None /\ job \in Jobs /\ UNCHANGED job
      BY <1>0 DEF Active, CourseOK, call
<1>2. PICK k \in 0..12 : DemonAt(k)
      BY <1>1, DemonIsAt
<1>3. Parser /\ Head(todo) \in DemonSteps
      BY <1>0, <1>1, <1>2, DemonIsAt, ScriptHeads
<1>4. ASSUME NEW whole, Take(Head(todo), whole)
      PROVE  DemonTypes' /\ programmer' = programmer
  <2>1. DemonTypes'
        BY <1>0, <1>3, <1>4, TypesTake
  <2>2. programmer' = programmer
        BY <1>0, <1>3, <1>4, StepShapes
        DEF Take, Ignored, TakeByte, TakeNumber, TakeBlock, Command, Parse, Stray, IsByte, IsNumber, interface
  <2> QED BY <2>1, <2>2
<1>5. CASE \E whole : Alive /\ Take(Head(todo), whole) /\ Continue
  <2>1. PICK whole : Alive /\ Take(Head(todo), whole) /\ Continue
        BY <1>5
  <2>2. Sends(whole) /\ Advances
        BY <1>0, <2>1 DEF Sends, Advances, Alive, Continue, call
  <2>3. Parser' /\ \E n \in 0..12 : DemonAt(n)'
        BY <1>1, <1>2, <1>3, <2>2, SendsAdvance
  <2>4. Active'
        BY <1>1, <2>1 DEF Active, Continue
  <2> QED BY <1>1, <1>4, <2>1, <2>3, <2>4, DemonGoesOn
<1>6. CASE \E whole : Alive /\ Take(Head(todo), whole) /\ Fail /\ sendFailed' = TRUE
  <2>1. PICK whole : Alive /\ Take(Head(todo), whole) /\ Fail /\ sendFailed' = TRUE
        BY <1>6
  <2>2. Sends(whole)
        BY <1>0, <2>1 DEF Sends, Alive, call
  <2>3. Parser' /\ (phase = "blocks" => Clean')
        BY <1>1, <1>2, <1>3, <2>2, SendsAdvance
  <2> QED BY <1>0, <1>1, <1>4, <2>1, <2>3, DemonFails
<1>7. CASE Ignored /\ Fail /\ sendFailed' = TRUE
  <2>1. Parser' /\ UNCHANGED programmer /\ DemonTypes' /\ (Clean => Clean')
        BY <1>3, <1>7 DEF Ignored, interface, parser, console, answers, Parser, Chain, EndsIn, Clean, DemonTypes
  <2>2. phase = "blocks" => Clean
        BY <1>2, PastInitIs
  <2> QED BY <1>0, <1>1, <1>7, <2>1, <2>2, DemonFails
<1> QED BY <1>5, <1>6, <1>7 DEF SendTransfer

-----------------------------------------------------------------------------
(* Where a call is when it has an answer to read.                          *)
LEMMA GettingAt ==
  ASSUME NEW k \in 0..12, DemonAt(k), NEW use, Getting(use), job \in Jobs
  PROVE  \/ use = "mode" /\ AtMode(1)
         \/ use = "info" /\ k \in {1, 3, 5, 9} /\ AtProbe(k)
         \/ use = "image" /\ AtBlocks(2) /\ job.op = "read"
         \/ use = "verify" /\ AtBlocks(5) /\ Size = 6
         \/ use = "count" /\ AtList(1)
         \/ use = "list" /\ AtList(2)
<1>0. k \in Nat /\ todo # << >> /\ "get" \in DOMAIN Head(todo) /\ Head(todo).use = use
      BY DEF Getting
<1>00. ASSUME NEW c, Head(todo) = Byte(c) PROVE FALSE
      BY <1>0, <1>00 DEF Byte
<1>01. ASSUME NEW b, Head(todo) = Number(b) PROVE FALSE
      BY <1>0, <1>01 DEF Number
<1>02. ASSUME NEW w, Head(todo) = Block(w) PROVE FALSE
      BY <1>0, <1>02 DEF Block
<1>03. ASSUME NEW l, NEW u, Head(todo) = Get(l, u) PROVE use = u
      BY <1>0, <1>03 DEF Get
<1>1. CASE AtMode(k)
      BY <1>0, <1>00, <1>03, <1>1, ModeAt
<1>2. CASE AtLeave(k)
      BY <1>0, <1>00, <1>2, LeaveAt
<1>3. CASE AtProbe(k)
  <2>1. k \in {0, 1, 2, 3, 4, 5, 6, 7, 8, 9, 10, 11, 12} /\ k # 12
        BY <1>0, <1>3, ProbeAt
  <2>2. k \notin {0, 2, 4, 6, 7, 8, 10, 11}
        BY <1>0, <1>00, <1>3, ProbeAt
  <2>3. k \in {1, 3, 5, 9}
        BY <2>1, <2>2
  <2>4. Head(todo) = Get("word", "info")
        BY <1>0, <1>3, <2>3, ProbeAt
  <2> QED BY <1>3, <1>03, <2>3, <2>4
<1>4. CASE AtBlocks(k)
  <2>1. k \in {0, 1, 2, 3, 4, 5, 6} /\ k < Size /\ Size \in {3, 6}
        BY <1>0, <1>4, BlocksAt
  <2>2. k \notin {0, 3}
        BY <1>0, <1>00, <1>4, <2>1, BlocksAt
  <2>3. k \notin {1, 4}
        BY <1>0, <1>01, <1>4, <2>1, BlocksAt
  <2>4. CASE k = 2
    <3>1. job.op \in {"read", "write"}
          BY <1>4 DEF AtBlocks
    <3>2. job.op # "write"
          BY <1>0, <1>02, <1>4, <2>1, <2>4, BlocksAt
    <3>3. Head(todo) = Get("block", "image")
          BY <1>0, <1>4, <2>1, <2>4, <3>1, <3>2, BlocksAt
    <3>4. use = "image"
          BY <1>03, <3>3
    <3> QED BY <1>4, <2>4, <3>1, <3>2, <3>4
  <2>5. CASE k = 5
    <3>1. Head(todo) = Get("block", "verify")
          BY <1>0, <1>4, <2>1, <2>5, BlocksAt
    <3>2. use = "verify"
          BY <1>03, <3>1
    <3> QED BY <1>4, <2>1, <2>5, <3>2
  <2> QED BY <2>1, <2>2, <2>3, <2>4, <2>5
<1>5. CASE AtAcquire(k)
      BY <1>0, <1>00, <1>5, AcquireAt
<1>6. CASE AtList(k)
      BY <1>0, <1>00, <1>03, <1>6, ListAt
<1>7. CASE AtRelease(k)
      BY <1>0, <1>00, <1>7, ReleaseAt
<1> QED BY <1>1, <1>2, <1>3, <1>4, <1>5, <1>6, <1>7 DEF DemonAt

(* Where a call is when a function of it has finished.                     *)
LEMMA DemonFinishedAt ==
  ASSUME NEW k \in 0..12, DemonAt(k), NEW p, Finished(p), job \in Jobs
  PROVE  \/ p = "leave" /\ AtLeave(1)
         \/ p = "probe" /\ AtProbe(12)
         \/ p = "blocks" /\ AtBlocks(k) /\ k = Size
         \/ p = "acquire" /\ AtAcquire(2)
         \/ p \in {"release", "unlist"} /\ AtRelease(2)
<1>0. k \in Nat /\ todo = << >> /\ phase = p
      BY DEF Finished
<1>1. ~AtMode(k)
      BY <1>0, ModeAt
<1>2. CASE AtLeave(k)
      BY <1>0, <1>2, LeaveAt, PhaseIs
<1>3. CASE AtProbe(k)
      BY <1>0, <1>3, ProbeAt, PhaseIs
<1>4. CASE AtBlocks(k)
      BY <1>0, <1>4, BlocksAt, PhaseIs
<1>5. CASE AtAcquire(k)
      BY <1>0, <1>5, AcquireAt, PhaseIs
<1>6. ~AtList(k)
      BY <1>0, ListAt
<1>7. CASE AtRelease(k)
      BY <1>0, <1>7, ReleaseAt, PhaseIs
<1> QED BY <1>1, <1>2, <1>3, <1>4, <1>5, <1>6, <1>7 DEF DemonAt

(* A read takes one answer at most.                                        *)
LEMMA Shortened ==
  ASSUME NEW length, ReadFails(length) \/ TimesOut \/ Breaks(length) \/ Variable \/ ReadBulk(length)
  PROVE  pipe' = pipe \/ (pipe # << >> /\ pipe' = Tail(pipe))
BY DEF ReadFails, TimesOut, Breaks, IsShort, Variable, ReadBulk, Arrived

(* A read that fails, or whose answer is refused.                          *)
LEMMA ReadErrorInv ==
  ASSUME DemonInv, CourseOK, job \in Jobs \cup {None}, programmer.kind = "demon", stage = "talk",
         NEW use, Getting(use), Unmoved, UNCHANGED <<info, at, image>>,
         pipe' = pipe \/ (pipe # << >> /\ pipe' = Tail(pipe)), Fail
  PROVE  DemonInv'
<1>1. /\ Active /\ job # None /\ job \in Jobs
      /\ UNCHANGED <<programmer, job, wants, lost, inReset, acquired>>
      BY DEF Active, CourseOK, Unmoved, interface, call, parser, console
<1>2. PICK k \in 0..12 : DemonAt(k)
      BY <1>1, DemonIsAt
<1>3. Parser'
      BY <1>1, DemonIsAt, ReadKeepsParser
<1>4. phase \notin {"acquire", "unlist", "release"}
      BY <1>1, <1>2, GettingAt, PhaseIs
<1>5. phase = "blocks" => Clean'
      BY <1>1, <1>2, PastInitIs DEF Clean
<1> QED BY <1>1, <1>3, <1>4, <1>5, DemonFails

-----------------------------------------------------------------------------
(* An answer of the length that is read is a question's, or a byte.        *)
LEMMA AnswerShapes ==
  ASSUME NEW a \in AnAnswer
  PROVE  /\ a.length = "byte" => a \in Bytes /\ a \notin Closed
         /\ a.length = "word" => \E v \in {"device_id", "protocol", "firmware", "nand_id", "list"} : a = InfoWord(v)
         /\ \A v : a = InfoWord(v) => a.value = v /\ a \notin Bytes /\ (a \in Closed => v = "nand_id")
BY DEF AnAnswer, Bytes, ModeBytes, CountByte, Contents, Closed, InfoWord

(* The answers to two questions differ.                                    *)
LEMMA WordsDiffer == \A v, w : InfoWord(v) = InfoWord(w) => v = w
BY DEF InfoWord

(* What may follow an answer of one byte.                                  *)
LEMMA ByteFollows ==
  ASSUME NEW a \in Bytes, NEW b, Follows(a, b)
  PROVE  b \in Bytes \cup {InfoWord("device_id"), InfoWord("list")}
BY DEF Bytes, Follows

(* After the mode has been read, the first answer that waits is to the     *)
(* first question of probe_info, or to nothing of it.                      *)
LEMMA ModeArrives ==
  ASSUME Parser, Early, info = << >>, ~lost => EndsIn(Closed \cup ModeBytes),
         Arrived("byte"), pipe' = Tail(pipe), UNCHANGED <<wants, lost, info>>
  PROVE  Early' /\ ReaderOK(0)' /\ WriterOK(0, 0)'
<1>1. /\ pipe # << >> /\ Head(pipe) \in Bytes /\ Head(pipe) \notin Closed
      /\ pipe' # << >> => Follows(Head(pipe), Head(pipe')) /\ pipe'[Len(pipe')] = pipe[Len(pipe)]
      /\ pipe' = << >> => Head(pipe) = pipe[Len(pipe)]
      BY ChainTail, AnswerShapes DEF Arrived, Parser
<1>2. ReaderOK(0)'
      BY <1>1, ByteFollows, FirstEnds DEF ReaderOK
<1>3. WriterOK(0, 0)'
  <2>1. ~lost /\ pipe' = << >> => wants = "cmd"
        BY <1>1 DEF Parser, EndsIn
  <2> QED BY <1>1, <2>1, FirstEnds DEF WriterOK, EndsIn, Prompt
<1> QED BY <1>2, <1>3 DEF Early

(* The answer to question n + 1 makes n answers n + 1.                     *)
LEMMA InfoGrows ==
  ASSUME NEW n \in {0, 1, 2, 3}, info = First(n), NEW v, v = Questions[n + 1]
  PROVE  Append(info, v) = First(n + 1)
<1>1. n \in Nat /\ n <= 3
      OBVIOUS
<1> QED BY <1>1, FirstGrows

(* The last of n + 1 answers is that to question n + 1.                    *)
LEMMA InfoEnds ==
  ASSUME NEW n \in {0, 1, 2, 3}
  PROVE  First(n + 1)[n + 1] = Questions[n + 1]
<1>1. n + 1 \in {1, 2, 3, 4}
      OBVIOUS
<1> QED BY <1>1, LastOfFirst

(* The word that is read at question n + 1 of probe_info answers that      *)
(* question, of this or an earlier call; or it is a list of bad blocks     *)
(* taken for the first, and then no word follows that could be taken for   *)
(* the second.                                                             *)
LEMMA InfoArrives ==
  ASSUME Parser, NEW n \in {0, 1, 2, 3}, ReaderOK(n), WriterOK(n, n + 1),
         Arrived("word"), pipe' = Tail(pipe), info' = Append(info, Head(pipe).value),
         UNCHANGED <<wants, lost>>
  PROVE  ReaderOK(n + 1)' /\ WriterOK(n + 1, n + 1)'
<1>1. /\ pipe # << >> /\ Head(pipe) \in AnAnswer
      /\ pipe' # << >> => Follows(Head(pipe), Head(pipe')) /\ pipe'[Len(pipe')] = pipe[Len(pipe)]
      /\ pipe' = << >> => Head(pipe) = pipe[Len(pipe)]
      BY ChainTail DEF Arrived, Parser
<1>2. PICK v \in {"device_id", "protocol", "firmware", "nand_id", "list"} : Head(pipe) = InfoWord(v)
      BY <1>1, AnswerShapes DEF Arrived
<1>3. /\ Head(pipe).value = v /\ Head(pipe) \notin Bytes /\ (Head(pipe) \in Closed => v = "nand_id")
      BY <1>1, <1>2, AnswerShapes
<1>4. \/ v = Questions[n + 1] /\ info = First(n)
      \/ v = "list" /\ n = 0 /\ info = << >>
  <2>1. CASE n = 0
    <3>1. info = First(0) /\ Head(pipe) \in {InfoWord("device_id"), InfoWord("list")}
          BY <1>1, <1>3, <2>1 DEF ReaderOK
    <3> QED BY <1>2, <2>1, <3>1, WordsDiffer, QuestionsAre, FirstEnds
  <2>2. CASE n # 0
    <3>1. Follows(InfoWord(info[n]), Head(pipe))
          BY <1>1, <2>2 DEF ReaderOK
    <3>2. info = First(n)
      <4>1. CASE n = 1 /\ info = <<"list">>
        <5>1. Follows(InfoWord("list"), Head(pipe))
              BY <3>1, <4>1
        <5> QED BY <1>3, <5>1 DEF Follows
      <4> QED BY <4>1 DEF ReaderOK
    <3>3. Follows(InfoWord(Questions[n]), Head(pipe))
          BY <2>2, <3>1, <3>2, LastOfFirst
    <3>4. CASE n = 1
      <4>1. Follows(InfoWord("device_id"), Head(pipe))
            BY <3>3, <3>4, QuestionsAre
      <4>2. Head(pipe) = InfoWord("protocol")
            BY <1>3, <4>1 DEF Follows
      <4> QED BY <1>2, <3>2, <3>4, <4>2, WordsDiffer, QuestionsAre
    <3>5. CASE n = 2
      <4>1. Follows(InfoWord("protocol"), Head(pipe))
            BY <3>3, <3>5, QuestionsAre
      <4>2. Head(pipe) = InfoWord("firmware")
            BY <1>3, <4>1 DEF Follows
      <4> QED BY <1>2, <3>2, <3>5, <4>2, WordsDiffer, QuestionsAre
    <3>6. CASE n = 3
      <4>1. Follows(InfoWord("firmware"), Head(pipe))
            BY <3>3, <3>6, QuestionsAre
      <4>2. Head(pipe) = InfoWord("nand_id")
            BY <1>3, <4>1 DEF Follows
      <4> QED BY <1>2, <3>2, <3>6, <4>2, WordsDiffer, QuestionsAre
    <3> QED BY <2>2, <3>4, <3>5, <3>6
  <2> QED BY <2>1, <2>2
<1>5. \/ v = Questions[n + 1] /\ info' = First(n + 1)
      \/ v = "list" /\ n = 0 /\ info' = <<"list">>
  <2>1. CASE v = Questions[n + 1] /\ info = First(n)
        BY <1>3, <2>1, InfoGrows
  <2>2. CASE v = "list" /\ n = 0 /\ info = << >>
        BY <1>3, <2>2
  <2> QED BY <1>4, <2>1, <2>2
<1>6. ReaderOK(n + 1)'
  <2>1. info'[n + 1] = v
    <3>1. CASE v = "list" /\ n = 0 /\ info' = <<"list">>
      <4>1. n + 1 = 1
            BY <3>1
      <4> QED BY <3>1, <4>1
    <3>2. CASE v = Questions[n + 1] /\ info' = First(n + 1)
      <4>1. PICK m : m = n + 1
            OBVIOUS
      <4>2. First(m)[m] = Questions[m]
            BY <4>1, InfoEnds
      <4>3. info' = First(m) /\ v = Questions[m]
            BY <3>2, <4>1
      <4>4. info'[m] = v
            BY <4>2, <4>3
      <4> QED BY <4>1, <4>4
    <3> QED BY <1>5, <3>1, <3>2
  <2>2. n + 1 # 0 /\ (n = 0 => n + 1 = 1)
        OBVIOUS
  <2> QED BY <1>1, <1>2, <1>5, <2>1, <2>2 DEF ReaderOK
<1>7. WriterOK(n + 1, n + 1)'
  <2>1. SUFFICES ASSUME ~lost' PROVE /\ EndsIn(Closed \cup Prompt(n + 1))'
                                     /\ pipe' = << >> => info' = First(n + 1) /\ (wants' = "cmd" \/ n + 1 = 4)
        BY DEF WriterOK
  <2>2. EndsIn(Closed \cup Prompt(n + 1))
        BY <2>1 DEF WriterOK
  <2>3. Prompt(n + 1) = {InfoWord(Questions[n + 1])}
    <3>1. n + 1 # 0
          OBVIOUS
    <3> QED BY <3>1 DEF Prompt
  <2>4. ASSUME pipe' = << >> PROVE info' = First(n + 1) /\ (wants' = "cmd" \/ n + 1 = 4)
    <3>1. Head(pipe) \in Closed \cup {InfoWord(Questions[n + 1])}
          BY <1>1, <2>2, <2>3, <2>4 DEF EndsIn
    <3>2. v = "nand_id" \/ v = Questions[n + 1]
          BY <1>2, <1>3, <3>1, WordsDiffer
    <3>3. v = Questions[n + 1] /\ info' = First(n + 1)
      <4>1. ~(v = "list" /\ n = 0)
            BY <3>2, QuestionsAre
      <4> QED BY <1>5, <4>1
    <3>4. ASSUME wants # "cmd" PROVE n + 1 = 4
      <4>1. Head(pipe) \in Closed
            BY <1>1, <2>1, <2>4, <3>4 DEF Parser, EndsIn
      <4>2. Questions[n + 1] = "nand_id"
            BY <1>3, <3>3, <4>1
      <4>3. n # 0
            BY <4>2, QuestionsAre
      <4>4. n # 1
            BY <4>2, QuestionsAre
      <4>5. n # 2
            BY <4>2, QuestionsAre
      <4> QED BY <4>3, <4>4, <4>5
    <3> QED BY <3>3, <3>4
  <2>5. EndsIn(Closed \cup Prompt(n + 1))'
        BY <1>1, <2>2, <2>3 DEF EndsIn, Prompt
  <2> QED BY <2>4, <2>5
<1> QED BY <1>6, <1>7

-----------------------------------------------------------------------------
(* Where a call is, and what it leaves alone, when it reads.               *)
LEMMA Reading ==
  ASSUME DemonInv, CourseOK, job \in Jobs \cup {None}, programmer.kind = "demon", NEW use, Getting(use), Unmoved
  PROVE  /\ Active /\ job # None /\ job \in Jobs /\ stage = "talk" /\ Parser
         /\ UNCHANGED <<programmer, job, wants, lost, inReset, acquired, bus>>
         /\ \E k \in 0..12 : DemonAt(k)
<1>1. /\ Active /\ job # None /\ job \in Jobs /\ stage = "talk"
      /\ UNCHANGED <<programmer, job, wants, lost, inReset, acquired, bus>>
      BY DEF Active, CourseOK, Getting, Unmoved, interface, call, parser, console
<1> QED BY <1>1, DemonIsAt

(* The mode is read.                                                       *)
LEMMA ModeInInv ==
  ASSUME DemonInv, CourseOK, job \in Jobs \cup {None}, programmer.kind = "demon", ModeIn
  PROVE  DemonInv'
<1>1. Getting("mode") /\ Unmoved
      BY DEF ModeIn
<1>2. /\ Active /\ job # None /\ job \in Jobs /\ stage = "talk" /\ Parser
      /\ UNCHANGED <<programmer, job, wants, lost, inReset, acquired, bus>>
      /\ \E k \in 0..12 : DemonAt(k)
      BY <1>1, Reading
<1>3. AtMode(1)
      BY <1>1, <1>2, GettingAt
<1>4. CASE ReadError("byte")
      BY <1>1, <1>2, <1>4, Shortened, ReadErrorInv DEF ReadError
<1>5. CASE /\ Alive /\ ReadBulk("byte") /\ UNCHANGED <<info, at, image>>
           /\ Enter("probe", ProbeInfo) \/ Enter("leave", <<Byte("leave")>>)
  <2>1. Parser' /\ Arrived("byte") /\ pipe' = Tail(pipe)
        BY <1>2, <1>5, ReadKeepsParser DEF ReadBulk, Arrived
  <2>2. Early /\ info = << >> /\ Untouched /\ (~lost => EndsIn(Closed \cup ModeBytes))
        BY <1>3 DEF AtMode
  <2>3. Early' /\ ReaderOK(0)' /\ WriterOK(0, 0)' /\ Untouched'
        BY <1>2, <1>5, <2>1, <2>2, ModeArrives DEF Untouched
  <2>4. stage' = "talk" /\ Active'
        BY <1>2, <1>5 DEF Enter, Active
  <2>5. CASE Enter("probe", ProbeInfo)
    <3>1. phase' = "probe" /\ todo' = Left(ProbeInfo, 0)
          BY <2>5, ReleaseWhole DEF Enter
    <3>2. Answered(0) = 0 /\ Asked(0) = 0
          BY DEF Answered, Asked
    <3>3. AtProbe(0)'
          BY <2>3, <2>4, <3>1, <3>2 DEF AtProbe
    <3> QED BY <1>2, <2>1, <2>4, <3>3, DemonGoesOn DEF DemonAt
  <2>6. CASE Enter("leave", <<Byte("leave")>>)
    <3>1. phase' = "leave" /\ todo' = Left(Leaving, 0)
          BY <2>6, ReleaseWhole DEF Enter, Leaving
    <3>2. AtLeave(0)'
          BY <2>3, <2>4, <3>1 DEF AtLeave
    <3> QED BY <1>2, <2>1, <2>4, <3>2, DemonGoesOn DEF DemonAt
  <2> QED BY <1>5, <2>5, <2>6
<1> QED BY <1>4, <1>5 DEF ModeIn

(* An answer of probe_info is read.                                        *)
LEMMA InfoInInv ==
  ASSUME DemonInv, CourseOK, job \in Jobs \cup {None}, programmer.kind = "demon", InfoIn
  PROVE  DemonInv'
<1>1. Getting("info") /\ Unmoved
      BY DEF InfoIn
<1>2. /\ Active /\ job # None /\ job \in Jobs /\ stage = "talk" /\ Parser
      /\ UNCHANGED <<programmer, job, wants, lost, inReset, acquired, bus>>
      /\ \E k \in 0..12 : DemonAt(k)
      BY <1>1, Reading
<1>3. PICK k \in {1, 3, 5, 9} : AtProbe(k)
      BY <1>1, <1>2, GettingAt
<1>4. CASE ReadError("word")
      BY <1>1, <1>2, <1>4, Shortened, ReadErrorInv DEF ReadError
<1>5. CASE /\ Alive /\ ReadBulk("word") /\ info' = Append(info, Head(pipe).value)
           /\ Continue /\ UNCHANGED <<at, image>>
  <2>1. Parser' /\ Arrived("word") /\ pipe' = Tail(pipe)
        BY <1>2, <1>5, ReadKeepsParser DEF ReadBulk, Arrived
  <2>2. PICK n \in {0, 1, 2, 3} : /\ Answered(k) = n /\ Asked(k) = n + 1
                                  /\ Answered(k + 1) = n + 1 /\ Asked(k + 1) = n + 1
    <3>1. /\ k = 1 => Answered(k) = 0 /\ Asked(k) = 0 + 1 /\ Answered(k + 1) = 0 + 1 /\ Asked(k + 1) = 0 + 1
          /\ k = 3 => Answered(k) = 1 /\ Asked(k) = 1 + 1 /\ Answered(k + 1) = 1 + 1 /\ Asked(k + 1) = 1 + 1
          /\ k = 5 => Answered(k) = 2 /\ Asked(k) = 2 + 1 /\ Answered(k + 1) = 2 + 1 /\ Asked(k + 1) = 2 + 1
          /\ k = 9 => Answered(k) = 3 /\ Asked(k) = 3 + 1 /\ Answered(k + 1) = 3 + 1 /\ Asked(k + 1) = 3 + 1
          BY DEF Answered, Asked
    <3> QED BY <3>1
  <2>3. /\ ReaderOK(n) /\ WriterOK(n, n + 1) /\ Settled /\ bus = "present" /\ Untouched
        /\ k = 9 /\ ~lost /\ wants = "cmd" => acquired
        BY <1>3, <2>2 DEF AtProbe
  <2>4. ReaderOK(n + 1)' /\ WriterOK(n + 1, n + 1)'
        BY <1>2, <1>5, <2>1, <2>3, InfoArrives
  <2>5. /\ stage' = "talk" /\ phase' = "probe" /\ Active'
        /\ todo' = Left(ProbeInfo, k + 1)
    <3>1. Tail(todo) = Left(ProbeInfo, k + 1)
      <4>1. k \in Nat /\ k < 12
            OBVIOUS
      <4> QED BY <1>3, <4>1, ProbeAt
    <3> QED BY <1>2, <1>3, <1>5, <3>1, PhaseIs DEF Continue, Active, AtProbe
  <2>6. /\ ReaderOK(Answered(k + 1))' /\ WriterOK(Answered(k + 1), Asked(k + 1))'
        BY <2>2, <2>4
  <2>7. Settled' /\ bus' = "present" /\ Untouched'
        BY <1>2, <1>5, <2>3 DEF Settled, Untouched
  <2>8. k + 1 \in {8, 9, 10} /\ ~lost' /\ wants' = "cmd" => acquired'
        BY <1>2, <2>3
  <2>9. k + 1 \in 0..12 /\ k + 1 # 0 /\ ~(k + 1 >= 11) /\ k + 1 # 12
        OBVIOUS
  <2>10. AtProbe(k + 1)'
        BY <2>5, <2>6, <2>7, <2>8, <2>9 DEF AtProbe
  <2> QED BY <1>2, <2>1, <2>5, <2>9, <2>10, DemonGoesOn DEF DemonAt
<1> QED BY <1>4, <1>5 DEF InfoIn

(* The content of a block is read.                                         *)
LEMMA BlockInInv ==
  ASSUME DemonInv, CourseOK, job \in Jobs \cup {None}, programmer.kind = "demon", BlockIn
  PROVE  DemonInv'
<1>1. Getting("image") /\ Unmoved
      BY DEF BlockIn
<1>2. /\ Active /\ job # None /\ job \in Jobs /\ stage = "talk" /\ Parser
      /\ UNCHANGED <<programmer, job, wants, lost, inReset, acquired, bus>>
      /\ \E k \in 0..12 : DemonAt(k)
      BY <1>1, Reading
<1>3. AtBlocks(2) /\ job.op = "read"
      BY <1>1, <1>2, GettingAt
<1>4. CASE ReadError("block")
      BY <1>1, <1>2, <1>4, Shortened, ReadErrorInv DEF ReadError
<1>5. CASE /\ Alive /\ ReadBulk("block") /\ image' = Append(image, Head(pipe).value)
           /\ Continue /\ UNCHANGED <<info, at>>
  <2>1. Parser' /\ (Quiet => Quiet')
        BY <1>2, <1>5, ReadKeepsParser DEF ReadBulk, Arrived
  <2>2. AtBlocks(3)'
    <3>1. /\ Tail(todo) = Left(Transfers(at), 2 + 1) /\ 2 + 1 \in 0..Len(Transfers(at))
          BY <1>2, <1>3, BlocksAt
    <3>2. todo' = Left(Transfers(at), 3) /\ 3 \in 0..Len(Transfers(at)) /\ UNCHANGED <<stage, phase>>
          BY <1>5, <3>1 DEF Continue
    <3>3. Transfers(at)' = Transfers(at) /\ BlocksOf(job)' = BlocksOf(job)
          BY <1>2, <1>5 DEF Transfers, BlocksOf, WriteBlock, ReadBlock
    <3>4. Len(image') = at + 1
          BY <1>3, <1>5 DEF AtBlocks
    <3>5. Clean'
          BY <1>2, <1>3 DEF AtBlocks, Clean
    <3> QED BY <1>2, <1>3, <1>5, <2>1, <3>2, <3>3, <3>4, <3>5 DEF AtBlocks
  <2>3. Active'
        BY <1>2, <1>5 DEF Continue, Active
  <2> QED BY <1>2, <2>1, <2>2, <2>3, DemonGoesOn DEF DemonAt
<1> QED BY <1>4, <1>5 DEF BlockIn

-----------------------------------------------------------------------------
(* A block is read back and compared.                                      *)
LEMMA VerifyInInv ==
  ASSUME DemonInv, CourseOK, job \in Jobs \cup {None}, programmer.kind = "demon", VerifyIn
  PROVE  DemonInv'
<1>1. Getting("verify") /\ Unmoved
      BY DEF VerifyIn
<1>2. /\ Active /\ job # None /\ job \in Jobs /\ stage = "talk" /\ Parser
      /\ UNCHANGED <<programmer, job, wants, lost, inReset, acquired, bus>>
      /\ \E k \in 0..12 : DemonAt(k)
      BY <1>1, Reading
<1>3. AtBlocks(5) /\ Size = 6
      BY <1>1, <1>2, GettingAt
<1>4. CASE ReadError("block")
      BY <1>1, <1>2, <1>4, Shortened, ReadErrorInv DEF ReadError
<1>5. CASE /\ Alive /\ ReadBulk("block") /\ UNCHANGED <<info, at, image>>
           /\ Continue \/ Return("failed")
  <2>1. Parser' /\ (Quiet => Quiet')
        BY <1>2, <1>5, ReadKeepsParser DEF ReadBulk, Arrived
  <2>2. CASE Continue
    <3>1. /\ Tail(todo) = Left(Transfers(at), 5 + 1) /\ 5 + 1 \in 0..Len(Transfers(at))
          BY <1>2, <1>3, BlocksAt
    <3>2. todo' = Left(Transfers(at), 6) /\ 6 \in 0..Len(Transfers(at)) /\ UNCHANGED <<stage, phase>>
          BY <2>2, <3>1 DEF Continue
    <3>3. Transfers(at)' = Transfers(at) /\ BlocksOf(job)' = BlocksOf(job)
          BY <1>2, <1>5 DEF Transfers, BlocksOf, WriteBlock, ReadBlock
    <3>4. job.op = "write" /\ Len(image') = 0
          BY <1>3, <1>5 DEF AtBlocks, Size
    <3>5. Clean'
          BY <1>2, <1>3 DEF AtBlocks, Clean
    <3>6. AtBlocks(6)'
          BY <1>2, <1>3, <1>5, <2>1, <3>2, <3>3, <3>4, <3>5 DEF AtBlocks
    <3>7. Active'
          BY <1>2, <2>2 DEF Continue, Active
    <3> QED BY <1>2, <2>1, <3>6, <3>7, DemonGoesOn DEF DemonAt
  <2>3. CASE Return("failed")
    <3>1. Fail
          BY <1>3, <2>3, PhaseIs DEF Fail
    <3> QED BY <1>1, <1>2, <1>5, <3>1, ReadErrorInv DEF ReadBulk, Arrived
  <2> QED BY <1>5, <2>2, <2>3
<1> QED BY <1>4, <1>5 DEF VerifyIn

(* The answers of read_invalid_blocks are read.                            *)
LEMMA CountInInv ==
  ASSUME DemonInv, CourseOK, job \in Jobs \cup {None}, programmer.kind = "demon", CountIn \/ ListIn
  PROVE  DemonInv'
<1>1. PICK use \in {"count", "list"} : Getting(use) /\ Unmoved /\ UNCHANGED <<info, at, image>>
      BY DEF CountIn, ListIn
<1>2. /\ Active /\ job # None /\ job \in Jobs /\ stage = "talk" /\ Parser
      /\ UNCHANGED <<programmer, job, wants, lost, inReset, acquired, bus>>
      /\ \E k \in 0..12 : DemonAt(k)
      BY <1>1, Reading
<1>3. PICK k \in {1, 2} : AtList(k)
      BY <1>1, <1>2, GettingAt
<1>4. pipe' = pipe \/ (pipe # << >> /\ pipe' = Tail(pipe))
      BY Shortened DEF CountIn, ListIn
<1>5. Parser'
      BY <1>2, <1>4, ReadKeepsParser
<1>6. CASE Fail
      BY <1>1, <1>2, <1>4, <1>6, ReadErrorInv
<1>7. CASE Enter("list", <<Get("word", "list")>>)
  <2>1. AtList(2)'
        BY <1>1, <1>2, <1>3, <1>7 DEF AtList, Untouched, Enter
  <2>2. Active'
        BY <1>2, <1>7 DEF Enter, Active
  <2> QED BY <1>2, <1>5, <2>1, <2>2, DemonGoesOn DEF DemonAt
<1>8. CASE Enter("release", Release)
  <2>1. AtRelease(0)'
        BY <1>1, <1>2, <1>3, <1>8, ReleaseWhole DEF AtList, AtRelease, Untouched, Enter
  <2>2. Active'
        BY <1>2, <1>8 DEF Enter, Active
  <2> QED BY <1>2, <1>5, <2>1, <2>2, DemonGoesOn DEF DemonAt
<1> QED BY <1>6, <1>7, <1>8 DEF CountIn, ListIn

-----------------------------------------------------------------------------
(* From one function of a call to the next: what is left alone.            *)
LEMMA Finishing ==
  ASSUME DemonInv, CourseOK, job \in Jobs \cup {None}, programmer.kind = "demon", NEW p, Finished(p),
         UNCHANGED <<interface, call, answers, mode, parser, console, flash, info, image, sendFailed>>
  PROVE  /\ Active /\ job # None /\ job \in Jobs /\ stage = "talk" /\ Parser /\ Parser' /\ (Quiet => Quiet')
         /\ UNCHANGED <<programmer, job, wants, lost, inReset, acquired, bus, info, image, pipe>>
         /\ \E k \in 0..12 : DemonAt(k)
<1>1. /\ Active /\ job # None /\ job \in Jobs /\ stage = "talk"
      /\ UNCHANGED <<programmer, job, wants, lost, inReset, acquired, bus, info, image, pipe>>
      BY DEF Active, CourseOK, Finished, interface, call, parser, console, answers
<1>2. Parser
      BY <1>1, DemonIsAt
<1>3. Parser' /\ (Quiet => Quiet')
      BY <1>1, <1>2, ReadKeepsParser
<1> QED BY <1>1, <1>2, <1>3, DemonIsAt

(* The programmer is opened anew.                                          *)
LEMMA ReopenInv ==
  ASSUME DemonInv, CourseOK, job \in Jobs \cup {None}, programmer.kind = "demon", Reopen
  PROVE  DemonInv'
<1>1. /\ Finished("leave")
      /\ UNCHANGED <<interface, call, answers, mode, parser, console, flash, info, image, sendFailed>>
      /\ UNCHANGED at
      BY DEF Reopen, demon, client
<1>2. /\ Active /\ job # None /\ job \in Jobs /\ stage = "talk" /\ Parser /\ Parser'
      /\ UNCHANGED <<programmer, job, wants, lost, inReset, acquired, bus, info, image, pipe>>
      /\ \E k \in 0..12 : DemonAt(k)
      BY <1>1, Finishing
<1>3. AtLeave(1)
      BY <1>1, <1>2, DemonFinishedAt
<1>4. stage' = "claim" /\ phase' = "probe" /\ todo' = Left(ProbeInfo, 0)
      BY ReleaseWhole DEF Reopen
<1>5. Early' /\ ReaderOK(0)' /\ WriterOK(0, 0)' /\ Untouched'
      BY <1>1, <1>2, <1>3 DEF AtLeave, Early, ReaderOK, WriterOK, Untouched, EndsIn
<1>6. Answered(0) = 0 /\ Asked(0) = 0
      BY DEF Answered, Asked
<1>7. AtProbe(0)'
      BY <1>4, <1>5, <1>6 DEF AtProbe
<1>8. Active'
      BY <1>4 DEF Active
<1> QED BY <1>2, <1>7, <1>8, DemonGoesOn DEF DemonAt

(* At the end of probe_info all questions have been answered, and the      *)
(* console is in order.                                                    *)
LEMMA ProbeEnds ==
  ASSUME AtProbe(12)
  PROVE  info = Questions /\ Clean /\ (wants \in {"cmd", "data", "rest"}) /\ Untouched /\ Quiet
<1>1. ReaderOK(4) /\ WriterOK(4, 4) /\ Clean /\ Settled /\ Untouched
      BY DEF AtProbe, Clean, Answered, Asked
<1>2. info = Questions
      BY <1>1, FirstEnds DEF ReaderOK
<1>3. Prompt(4) \subseteq Closed
      BY QuestionsAre DEF Prompt, Closed
<1>4. Quiet
      BY <1>1, <1>3 DEF WriterOK, Quiet, EndsIn
<1> QED BY <1>1, <1>2, <1>4 DEF Settled

(* Before its first transfer the script of a block is left as a whole.     *)
LEMMA StartOfBlocks ==
  ASSUME job \in Jobs, job.op \in {"read", "write"}, NEW b \in BlocksOf(job), BlocksOf(job) \subseteq Addr
  PROVE  Left(Transfers(b), 0) = Transfers(b) /\ 0 \in 0..Len(Transfers(b))
<1>1. Transfers(b) \in Seq(DemonSteps)
      BY TransfersAre
<1> QED BY <1>1, LeftStep, LenProperties

(* What comes after init.                                                  *)
LEMMA InitializedInv ==
  ASSUME DemonInv, CourseOK, job \in Jobs \cup {None}, programmer.kind = "demon", Initialized
  PROVE  DemonInv'
<1>1. /\ Finished("probe")
      /\ UNCHANGED <<interface, call, answers, mode, parser, console, flash, info, image, sendFailed>>
      /\ UNCHANGED at
      BY DEF Initialized, demon, client
<1>2. /\ Active /\ job # None /\ job \in Jobs /\ stage = "talk" /\ Parser /\ Parser' /\ (Quiet => Quiet')
      /\ UNCHANGED <<programmer, job, wants, lost, inReset, acquired, bus, info, image, pipe>>
      /\ \E k \in 0..12 : DemonAt(k)
      BY <1>1, Finishing
<1>3. AtProbe(12)
      BY <1>1, <1>2, DemonFinishedAt
<1>4. info = Questions /\ Clean /\ Untouched /\ Quiet
      BY <1>3, ProbeEnds
<1>5. info' = Questions /\ Clean' /\ Untouched' /\ Quiet'
      BY <1>1, <1>2, <1>4 DEF Clean, Untouched, Questions
<1>6. CASE Return("ok") \/ Return("failed")
  <2>1. ~Active'
        BY <1>6 DEF Return, Active
  <2> QED BY <1>2, <1>5, <2>1, DemonEnds
<1>7. CASE /\ job.op \in {"read", "write"} /\ BlocksOf(job) \subseteq Addr /\ BlocksOf(job) # {}
           /\ Enter("blocks", Transfers(0))
  <2>1. 0 \in BlocksOf(job)
    <3>1. CASE job.op = "read"
          BY <3>1, FlashBlocksAssumption DEF BlocksOf, Addr
    <3>2. CASE job.op = "write"
      <4>1. Len(job.file) \in Nat
            BY <1>2, UsbAssumption, LenProperties DEF Job
      <4> QED BY <1>7, <3>2, <4>1 DEF BlocksOf
    <3> QED BY <1>7, <3>1, <3>2
  <2>2. todo' = Left(Transfers(0), 0) /\ 0 \in 0..Len(Transfers(0)) /\ stage' = "talk" /\ phase' = "blocks"
        BY <1>2, <1>7, <2>1, StartOfBlocks DEF Enter
  <2>3. at' = 0 /\ Len(image') = 0 /\ at = 0
        BY <1>1, <1>4, <1>5 DEF Untouched
  <2>4. Transfers(at)' = Transfers(0) /\ BlocksOf(job)' = BlocksOf(job) /\ job' = job
        BY <1>1, <1>2, <2>3 DEF Transfers, BlocksOf, WriteBlock, ReadBlock
  <2>5. AtBlocks(0)'
        BY <1>5, <1>7, <2>1, <2>2, <2>3, <2>4 DEF AtBlocks
  <2>6. Active'
        BY <2>2 DEF Active
  <2> QED BY <1>2, <2>5, <2>6, DemonGoesOn DEF DemonAt
<1>8. CASE job.op = "bad_blocks" /\ Enter("acquire", Acquire)
  <2>1. AtAcquire(0)'
        BY <1>2, <1>5, <1>8, ReleaseWhole DEF AtAcquire, Enter
  <2>2. Active'
        BY <1>2, <1>8 DEF Enter, Active
  <2> QED BY <1>2, <2>1, <2>2, DemonGoesOn DEF DemonAt
<1> QED BY <1>6, <1>7, <1>8 DEF Initialized, StartBlocks

-----------------------------------------------------------------------------
(* From one block to the next, and to the success after the last.          *)
LEMMA BlockDoneInv ==
  ASSUME DemonInv, CourseOK, job \in Jobs \cup {None}, programmer.kind = "demon", BlockDone
  PROVE  DemonInv'
<1>1. /\ Finished("blocks")
      /\ UNCHANGED <<interface, call, answers, mode, parser, console, flash, info, image, sendFailed>>
      /\ at' = at + 1
      BY DEF BlockDone
<1>2. /\ Active /\ job # None /\ job \in Jobs /\ stage = "talk" /\ Parser /\ Parser' /\ (Quiet => Quiet')
      /\ UNCHANGED <<programmer, job, wants, lost, inReset, acquired, bus, info, image, pipe>>
      /\ \E k \in 0..12 : DemonAt(k)
      BY <1>1, Finishing
<1>3. PICK k \in 0..12 : AtBlocks(k) /\ k = Size
      BY <1>1, <1>2, DemonFinishedAt
<1>4. info' = Questions /\ Clean' /\ Quiet' /\ job.op \in {"read", "write"} /\ BlocksOf(job) \subseteq Addr
      BY <1>2, <1>3 DEF Clean, AtBlocks
<1>5. CASE at + 1 \notin BlocksOf(job)
  <2>1. ~Active'
        BY <1>5 DEF BlockDone, Return, Active
  <2> QED BY <1>2, <1>4, <2>1, DemonEnds
<1>6. CASE at + 1 \in BlocksOf(job)
  <2>1. PICK b \in BlocksOf(job) : b = at + 1
        BY <1>6
  <2>2. Enter("blocks", Transfers(b))
        BY <1>6, <2>1 DEF BlockDone
  <2>3. todo' = Left(Transfers(b), 0) /\ 0 \in 0..Len(Transfers(b)) /\ stage' = "talk" /\ phase' = "blocks"
        BY <1>2, <1>4, <2>2, StartOfBlocks DEF Enter
  <2>4. Transfers(at)' = Transfers(b) /\ BlocksOf(job)' = BlocksOf(job) /\ at' = b
        BY <1>1, <1>2, <2>1 DEF Transfers, BlocksOf, WriteBlock, ReadBlock
  <2>5. Len(image') = IF job.op = "write" THEN 0 ELSE b
        BY <1>2, <1>3, <2>1 DEF AtBlocks, Size
  <2>6. AtBlocks(0)'
        BY <1>2, <1>4, <2>3, <2>4, <2>5 DEF AtBlocks
  <2>7. Active'
        BY <2>3 DEF Active
  <2> QED BY <1>2, <2>6, <2>7, DemonGoesOn DEF DemonAt
<1> QED BY <1>5, <1>6

(* The flash has been acquired for the list of bad blocks.                 *)
LEMMA ListInvalidBlocksInv ==
  ASSUME DemonInv, CourseOK, job \in Jobs \cup {None}, programmer.kind = "demon", ListInvalidBlocks
  PROVE  DemonInv'
<1>1. /\ Finished("acquire")
      /\ UNCHANGED <<interface, call, answers, mode, parser, console, flash, info, image, sendFailed>>
      /\ UNCHANGED at
      BY DEF ListInvalidBlocks, demon, client
<1>2. /\ Active /\ job # None /\ job \in Jobs /\ stage = "talk" /\ Parser /\ Parser' /\ (Quiet => Quiet')
      /\ UNCHANGED <<programmer, job, wants, lost, inReset, acquired, bus, info, image, pipe>>
      /\ \E k \in 0..12 : DemonAt(k)
      BY <1>1, Finishing
<1>3. AtAcquire(2)
      BY <1>1, <1>2, DemonFinishedAt
<1>4. phase' = "list" /\ todo' = Left(Listing, 0) /\ stage' = "talk"
      BY <1>2, ReleaseWhole DEF ListInvalidBlocks, Enter, Listing
<1>5. AtList(0)'
      BY <1>1, <1>2, <1>3, <1>4 DEF AtAcquire, AtList, Untouched
<1>6. Active'
      BY <1>4 DEF Active
<1> QED BY <1>2, <1>5, <1>6, DemonGoesOn DEF DemonAt

(* The flash has been released after the list of bad blocks.               *)
LEMMA ListDoneInv ==
  ASSUME DemonInv, CourseOK, job \in Jobs \cup {None}, programmer.kind = "demon", ListDone
  PROVE  DemonInv'
<1>1. PICK p \in {"release", "unlist"} :
        /\ Finished(p)
        /\ UNCHANGED <<interface, call, answers, mode, parser, console, flash, info, image, sendFailed>>
      BY DEF ListDone, demon, client
<1>2. /\ Active /\ job # None /\ job \in Jobs /\ stage = "talk" /\ Parser /\ Parser'
      /\ UNCHANGED <<programmer, job, wants, lost, inReset, acquired, bus, info, image, pipe>>
      /\ \E k \in 0..12 : DemonAt(k)
      BY <1>1, Finishing
<1>3. AtRelease(2)
      BY <1>1, <1>2, DemonFinishedAt
<1>4. info' = Questions /\ Clean' /\ ~Active'
      BY <1>2, <1>3 DEF AtRelease, Clean, Active, ListDone, Return
<1> QED BY <1>2, <1>4, DemonEnds

(* A call of DemoN begins at the start of get_mode.                        *)
LEMMA DemonBeginInv ==
  ASSUME DemonInv, CourseOK, NEW j \in Jobs, DemonBegin(j)
  PROVE  DemonInv'
<1>1. /\ programmer.kind = "demon" /\ j.op \in {"info", "read", "write", "bad_blocks"}
      /\ UNCHANGED <<programmer, wants, lost, inReset, acquired, pipe>>
      /\ job' = j /\ stage' = "claim" /\ phase' = "mode" /\ todo' = GetMode /\ info' = << >>
      /\ at' = 0 /\ image' = << >>
      BY DEF DemonBegin, Begin, parser, console, answers
<1>2. Parser'
      BY <1>1, ReadKeepsParser DEF DemonInv
<1>3. AtMode(0)'
      BY <1>1, ReleaseWhole DEF AtMode, Untouched
<1>4. Active'
      BY <1>1 DEF Active
<1> QED BY <1>1, <1>2, <1>3, <1>4 DEF DemonInv

(* The bootloader leaves the bus, and comes back as the firmware.          *)
LEMMA ReenumerateInv ==
  ASSUME DemonInv, CourseOK, programmer.kind = "demon", Reenumerate
  PROVE  DemonInv'
<1>0. /\ UNCHANGED <<programmer, job, lost, inReset, acquired, info, at, image, sendFailed>>
      BY DEF Reenumerate, call, console, client
<1>1. Parser
      BY DEF DemonInv
<1>2. CASE bus = "gone" /\ UNCHANGED course /\ UNCHANGED <<wants, pipe>>
  <2>1. Parser'
        BY <1>0, <1>1, <1>2 DEF Parser, Chain, Clean, EndsIn
  <2>2. UNCHANGED <<stage, phase, todo, result>>
        BY <1>2 DEF course
  <2>3. ASSUME Active PROVE DemonInv'
    <3>1. PICK k \in 0..12 : DemonAt(k)
          BY <2>3, DemonIsAt
    <3>2. bus' = "present"
          BY <1>2 DEF Reenumerate
    <3>3. DemonAt(k)'
          BY <1>0, <1>2, <2>2, <3>1, <3>2
          DEF DemonAt, AtMode, AtLeave, AtProbe, AtBlocks, AtAcquire, AtList, AtRelease, Untouched, Early, Settled,
              ReaderOK, WriterOK, EndsIn, Quiet, Clean, Transfers, BlocksOf, ReadBlock, WriteBlock
    <3>4. job # None /\ Active'
          BY <2>2, <2>3 DEF CourseOK, Active
    <3> QED BY <1>0, <2>1, <3>3, <3>4, DemonGoesOn
  <2>4. ASSUME ~Active PROVE DemonInv'
        BY <1>0, <2>1, <2>2, <2>4 DEF DemonInv, Active, PastInit, Clean, Questions
  <2> QED BY <2>3, <2>4
<1>3. CASE bus = "leaving" /\ wants' = "cmd" /\ pipe' = << >>
  <2>1. Chain(<< >>)
        BY EmptySeq DEF Chain
  <2>2. Parser'
        BY <1>0, <1>1, <1>3, <2>1 DEF Parser, Clean, EndsIn
  <2>3. CASE stage \in {"detach", "reclaim"} /\ Return("failed")
    <3>1. job # None /\ Active
          BY <2>3 DEF CourseOK, Active
    <3>2. PICK k \in 0..12 : DemonAt(k)
          BY <3>1, DemonIsAt
    <3>3. phase \in {"mode", "probe"}
          BY <2>3, <3>2 DEF DemonAt, AtMode, AtLeave, AtProbe, AtBlocks, AtAcquire, AtList, AtRelease
    <3>4. ~Active' /\ ~PastInit'
          BY <2>3, <3>3 DEF Return, Active, PastInit
    <3> QED BY <1>0, <2>2, <3>1, <3>4, DemonEnds
  <2>4. CASE UNCHANGED course
    <3>1. UNCHANGED <<stage, phase, todo, result>>
          BY <2>4 DEF course
    <3>2. ASSUME Active PROVE DemonInv'
      <4>1. PICK k \in 0..12 : DemonAt(k)
            BY <3>2, DemonIsAt
      <4>2. Early' /\ Quiet' /\ (Clean => Clean') /\ (Untouched => Untouched')
            BY <1>0, <1>3 DEF Early, Quiet, EndsIn, Clean, Untouched
      <4>3. ReaderOK(0) => ReaderOK(0)' /\ WriterOK(0, 0)'
            BY <1>0, <1>3 DEF ReaderOK, WriterOK, EndsIn
      <4>4. DemonAt(k)'
        <5>1. AtMode(k) => AtMode(k)'
              BY <1>0, <1>3, <3>1, <4>2 DEF AtMode, EndsIn
        <5>2. AtLeave(k) => AtLeave(k)'
              BY <3>1, <4>2, <4>3 DEF AtLeave
        <5>3. AtProbe(k) => AtProbe(k)'
          <6>1. SUFFICES ASSUME AtProbe(k) PROVE AtProbe(k)'
                OBVIOUS
          <6>2. k = 0
                BY <1>3, <6>1 DEF AtProbe
          <6>3. Answered(0) = 0 /\ Asked(0) = 0
                BY DEF Answered, Asked
          <6>4. AtProbe(0)'
                BY <1>0, <3>1, <4>2, <4>3, <6>1, <6>2, <6>3 DEF AtProbe
          <6> QED BY <6>2, <6>4
        <5>4. AtBlocks(k) => AtBlocks(k)'
              BY <1>0, <3>1, <4>2 DEF AtBlocks, Transfers, BlocksOf, ReadBlock, WriteBlock
        <5>5. AtAcquire(k) => AtAcquire(k)'
              BY <1>0, <3>1, <4>2 DEF AtAcquire
        <5>6. AtList(k) => AtList(k)'
              BY <1>0, <3>1, <4>2 DEF AtList
        <5>7. AtRelease(k) => AtRelease(k)'
              BY <1>0, <3>1, <4>2 DEF AtRelease
        <5> QED BY <4>1, <5>1, <5>2, <5>3, <5>4, <5>5, <5>6, <5>7 DEF DemonAt
      <4>5. job # None /\ Active'
            BY <3>1, <3>2 DEF CourseOK, Active
      <4> QED BY <1>0, <2>2, <4>4, <4>5, DemonGoesOn
    <3>3. ASSUME ~Active PROVE DemonInv'
          BY <1>0, <2>2, <3>1, <3>3 DEF DemonInv, Active, PastInit, Clean, Questions
    <3> QED BY <3>2, <3>3
  <2> QED BY <2>3, <2>4 DEF Reenumerate
<1> QED BY <1>2, <1>3 DEF Reenumerate

-----------------------------------------------------------------------------
(* Parser depends on these variables only.                                 *)
LEMMA SameParser ==
  ASSUME Parser, UNCHANGED <<pipe, wants, lost, inReset, acquired>>
  PROVE  Parser'
BY DEF Parser, Chain, Clean, EndsIn

(* A call stays at its place while the programmer is opened.               *)
LEMMA SameD ==
  ASSUME NEW k \in 0..12, DemonAt(k), UNCHANGED <<bus, job, pipe, demon>>, UNCHANGED <<phase, todo>>,
         stage' = stage \/ (stage # "talk" /\ stage' \in {"detach", "reclaim", "talk"})
  PROVE  DemonAt(k)'
<1>1. UNCHANGED <<wants, lost, inReset, acquired, info, at, image>>
      BY DEF demon, parser, console, client
<1>2. CASE stage' = stage
      BY <1>1, <1>2
      DEF DemonAt, AtMode, AtLeave, AtProbe, AtBlocks, AtAcquire, AtList, AtRelease, Untouched, Early, Settled,
          ReaderOK, WriterOK, EndsIn, Quiet, Clean, Transfers, BlocksOf, ReadBlock, WriteBlock
<1>3. CASE stage # "talk"
  <2>1. k = 0 /\ (AtMode(0) \/ AtProbe(0))
        BY <1>3 DEF DemonAt, AtMode, AtLeave, AtProbe, AtBlocks, AtAcquire, AtList, AtRelease
  <2>2. AtMode(0) => AtMode(0)'
        BY <1>1 DEF AtMode, Untouched
  <2>3. AtProbe(0) => AtProbe(0)'
        BY <1>1 DEF AtProbe, Untouched, Early, ReaderOK, WriterOK, EndsIn
  <2> QED BY <2>1, <2>2, <2>3 DEF DemonAt
<1> QED BY <1>2, <1>3

(* Opening the programmer, dropping the client or being killed keeps the   *)
(* invariant.                                                              *)
LEMMA DemonInvUsb ==
  ASSUME DemonInv, CourseOK, programmer.kind = "demon", UsbNext, UNCHANGED demon
  PROVE  DemonInv'
<1>0. /\ UNCHANGED <<programmer, bus, job, pipe>>
      /\ UNCHANGED <<wants, lost, inReset, acquired, info, sendFailed>>
      /\ Moves \/ Refuses \/ Dropped \/ Killed \/ Aside
      BY UsbSteps DEF call, answers, demon, parser, console, client
<1>1. Parser'
      BY <1>0, SameParser DEF DemonInv
<1>2. CASE Active /\ Active'
  <2>1. PICK k \in 0..12 : DemonAt(k)
        BY <1>2, DemonIsAt
  <2>2. /\ UNCHANGED <<phase, todo>>
        /\ stage' = stage \/ (stage # "talk" /\ stage' \in {"detach", "reclaim", "talk"})
        BY <1>0, <1>2 DEF Moves, Refuses, Dropped, Killed, Aside, Opening, Active, Return, course
  <2>3. DemonAt(k)' /\ job # None
        BY <1>0, <1>2, <2>1, <2>2, SameD DEF CourseOK, Active
  <2> QED BY <1>0, <1>1, <1>2, <2>3, DemonGoesOn
<1>3. CASE Active /\ ~Active'
  <2>1. job # None /\ (Refuses \/ Killed)
        BY <1>0, <1>3 DEF Moves, Dropped, Aside, Opening, Active, CourseOK, course
  <2>2. PICK k \in 0..12 : DemonAt(k)
        BY <1>3, DemonIsAt
  <2>3. CASE Killed
    <3>1. phase' = phase /\ result' = "killed"
          BY <2>3 DEF Killed
    <3>2. PastInit' => phase \in {"blocks", "acquire", "list", "unlist", "release"}
          BY <3>1 DEF PastInit
    <3>3. PastInit' => info = Questions
      <4>1. CASE phase = "unlist"
            BY <2>2, <4>1 DEF DemonAt, AtMode, AtLeave, AtProbe, AtBlocks, AtAcquire, AtList, AtRelease
      <4>2. CASE phase # "unlist"
            BY <2>2, <3>2, <4>2, PastInitIs
      <4> QED BY <4>1, <4>2
    <3> QED BY <1>0, <1>1, <1>3, <2>1, <3>1, <3>3, DemonEnds
  <2>4. CASE Refuses
    <3>1. phase \in {"mode", "probe"}
          BY <2>2, <2>4 DEF Refuses, Opening, DemonAt, AtMode, AtLeave, AtProbe, AtBlocks, AtAcquire, AtList, AtRelease
    <3>2. ~PastInit'
          BY <2>4, <3>1 DEF Refuses, Return, PastInit
    <3> QED BY <1>0, <1>1, <1>3, <2>1, <3>2, DemonEnds
  <2> QED BY <2>1, <2>3, <2>4
<1>4. CASE ~Active
  <2>1. ~Active' /\ UNCHANGED phase /\ (UNCHANGED result \/ result' = "killed")
        BY <1>0, <1>4 DEF Moves, Refuses, Dropped, Killed, Aside, Opening, Active, course
  <2>2. PastInit' => PastInit \/ FALSE
        BY <2>1 DEF PastInit
  <2> QED BY <1>0, <1>1, <1>4, <2>1, <2>2 DEF DemonInv, Clean, Questions
<1> QED BY <1>2, <1>3, <1>4

(* A step that changes nothing keeps the invariant.                        *)
LEMMA DemonInvSame ==
  ASSUME DemonInv, CourseOK, programmer.kind = "demon", UNCHANGED vars
  PROVE  DemonInv'
<1>1. /\ UNCHANGED <<programmer, bus, job, pipe, stage, phase, todo, result, demon>>
      /\ UNCHANGED <<wants, lost, inReset, acquired, info, sendFailed>>
      BY DEF vars, usb, interface, call, course, answers, demon, parser, console, client
<1>2. Parser'
      BY <1>1, SameParser DEF DemonInv
<1>3. CASE Active
  <2>1. PICK k \in 0..12 : DemonAt(k)
        BY <1>3, DemonIsAt
  <2>2. DemonAt(k)' /\ job # None /\ Active'
        BY <1>1, <1>3, <2>1, SameD DEF CourseOK, Active
  <2> QED BY <1>1, <1>2, <2>2, DemonGoesOn
<1>4. CASE ~Active
      BY <1>1, <1>2, <1>4 DEF DemonInv, Active, PastInit, Clean, Questions
<1> QED BY <1>3, <1>4

(* The client of LPC has no step in a call of DemoN.                       *)
LEMMA DemonNotLpc ==
  ASSUME DemonInv, CourseOK, job \in Jobs \cup {None}, programmer.kind = "demon", LpcNext
  PROVE  FALSE
<1>1. ~(\E j \in Jobs : LpcBegin(j))
      BY DEF LpcBegin
<1>2. /\ stage = "talk" /\ Active /\ job # None /\ job \in Jobs
  <2>1. stage = "talk"
        BY <1>1 DEF LpcNext, DeviceReset, ControlTransfer, WriteFile, AnswerIn, LpcInitialized, FlashDeinit,
                    LpcDone, Sending, Getting, Finished
  <2> QED BY <2>1 DEF Active, CourseOK
<1>3. PICK k \in 0..12 : DemonAt(k)
      BY <1>2, DemonIsAt
<1>4. ASSUME NEW field, field \in {"reset", "control", "bulk"}, Sending(field) PROVE FALSE
  <2>1. todo # << >> /\ field \in DOMAIN Head(todo)
        BY <1>4 DEF Sending
  <2>2. Head(todo) \in DemonSteps
        BY <1>2, <1>3, <2>1, ScriptHeads
  <2> QED BY <1>4, <2>1, <2>2 DEF DemonSteps, Byte, Number, Block, Get
<1>5. ASSUME NEW q \in {"version", "data_init", "data_status"}, Getting(q) PROVE FALSE
      BY <1>2, <1>3, <1>5, GettingAt
<1>6. ASSUME NEW p \in {"lpc_init", "flash_init", "flash_deinit", "xsvf"}, Finished(p) PROVE FALSE
      BY <1>2, <1>3, <1>6, DemonFinishedAt
<1> QED BY <1>1, <1>4, <1>5, <1>6 DEF LpcNext, DeviceReset, ControlTransfer, WriteFile, AnswerIn, LpcInitialized,
                                      FlashDeinit, LpcDone

(* Every step keeps the invariant of DemoN.                                *)
LEMMA DemonInvNext ==
  ASSUME DemonTypes, DemonInv, CourseOK, job \in Jobs \cup {None}, [Next]_vars
  PROVE  DemonInv'
<1>1. CASE programmer.kind # "demon"
  <2>1. UNCHANGED programmer
        BY SameProgrammer
  <2> QED BY <1>1, <2>1 DEF DemonInv
<1>2. CASE programmer.kind = "demon"
  <2>1. CASE UNCHANGED vars
        BY <1>2, <2>1, DemonInvSame
  <2>2. CASE UsbNext /\ UNCHANGED <<demon, lpc>>
        BY <1>2, <2>2, DemonInvUsb
  <2>3. CASE LpcNext
        BY <1>2, <2>3, DemonNotLpc
  <2>4. CASE DemonNext
    <3>1. CASE SendTransfer
          BY <1>2, <3>1, DemonSendsInv
    <3>2. CASE ModeIn \/ InfoIn \/ BlockIn \/ VerifyIn \/ CountIn \/ ListIn
          BY <1>2, <3>2, ModeInInv, InfoInInv, BlockInInv, VerifyInInv, CountInInv
    <3>3. CASE Reopen \/ Initialized \/ BlockDone \/ ListInvalidBlocks \/ ListDone
          BY <1>2, <3>3, ReopenInv, InitializedInv, BlockDoneInv, ListInvalidBlocksInv, ListDoneInv
    <3>4. CASE Reenumerate
          BY <1>2, <3>4, ReenumerateInv
    <3>5. CASE \E j \in Jobs : DemonBegin(j)
          BY <3>5, DemonBeginInv
    <3> QED BY <2>4, <3>1, <3>2, <3>3, <3>4, <3>5 DEF DemonNext
  <2> QED BY <2>1, <2>2, <2>3, <2>4 DEF Next
<1> QED BY <1>1, <1>2

(* The invariant of DemoN holds at first.                                  *)
LEMMA DemonInvInit == Init => DemonInv
<1>1. Init => Chain(pipe)
      BY EmptySeq DEF Init, UsbInit, Chain
<1> QED BY <1>1 DEF Init, UsbInit, DemonInit, DemonInv, Active, Parser, Clean, EndsIn

-----------------------------------------------------------------------------
(* The types of the host's side, of what a call of DemoN has transferred,  *)
(* and of what waits to be read from LPC.                                  *)
HostTypes ==
  /\ programmer \in Programmers /\ bus \in {"present", "leaving", "gone"}
  /\ owner \in {"kernel", "nobody", "other", "client"} /\ detached \in BOOLEAN /\ strayed \in BOOLEAN
  /\ job \in Jobs \cup {None} /\ calls \in 0..MaxCalls
  /\ stage \in {"idle", "claim", "detach", "reclaim", "talk", "drop"}
  /\ result \in {"none", "ok", "failed", "killed"} /\ unread \in 0..MaxUnread
ClientTypes ==
  at \in 0..FlashBlocks /\ Len(image) <= FlashBlocks /\ Len(info) <= 4 /\ sendFailed \in BOOLEAN
LpcAnswers == {InfoWord(q) : q \in {"version", "data_init", "data_status"}}
LpcPipe == programmer.kind = "lpc" => pipe \in Seq(LpcAnswers)
Types == HostTypes /\ DemonTypes /\ ClientTypes /\ LpcTypeOK /\ LpcPipe

(* Types and the invariants of the answers give TypeOK.                    *)
LEMMA TypesSuffice == Types /\ DemonInv => TypeOK
<1> SUFFICES ASSUME Types, DemonInv PROVE TypeOK
    OBVIOUS
<1>1. programmer.kind \in {"demon", "lpc"}
      BY UsbAssumption DEF Types, HostTypes, Programmer
<1>2. \A i \in 1..Len(pipe) : pipe[i].length \in DOMAIN Length
  <2>1. "byte" \in DOMAIN Length /\ "word" \in DOMAIN Length /\ "block" \in DOMAIN Length
        BY DEF Length
  <2>2. CASE programmer.kind = "demon"
    <3>1. pipe \in Seq(AnAnswer)
          BY <2>2 DEF DemonInv, Parser, Chain
    <3>2. \A a \in AnAnswer : a.length \in {"byte", "word", "block"}
          BY DEF AnAnswer, Bytes, ModeBytes, CountByte, Contents, InfoWord
    <3> QED BY <2>1, <3>1, <3>2, LenProperties
  <2>3. CASE programmer.kind = "lpc"
    <3>1. pipe \in Seq(LpcAnswers)
          BY <2>3 DEF Types, LpcPipe
    <3>2. \A a \in LpcAnswers : a.length = "word"
          BY DEF LpcAnswers, InfoWord
    <3> QED BY <2>1, <3>1, <3>2, LenProperties
  <2> QED BY <1>1, <2>2, <2>3
<1>3. UsbTypeOK
      BY <1>2 DEF Types, HostTypes, UsbTypeOK
<1>4. DemonTypeOK
      BY DEF Types, DemonTypes, ClientTypes, DemonTypeOK
<1> QED BY <1>3, <1>4 DEF Types, TypeOK

(* Types holds at first.                                                   *)
LEMMA TypesInit == Init => Types
<1> SUFFICES ASSUME Init PROVE Types
    OBVIOUS
<1>0. UsbInit /\ DemonInit /\ LpcInit
      BY DEF Init
<1>1. HostTypes
  <2>1. 0 \in 0..MaxCalls /\ 0 \in 0..MaxUnread
        BY UsbAssumption
  <2>2. owner \in {"kernel", "nobody"}
        BY <1>0 DEF UsbInit
  <2>3. /\ programmer \in Programmers /\ bus = "present" /\ detached = FALSE /\ strayed = FALSE
        /\ job = None /\ calls = 0 /\ stage = "idle" /\ result = "none" /\ unread = 0
        BY <1>0 DEF UsbInit
  <2> QED BY <2>1, <2>2, <2>3 DEF HostTypes
<1>2. DemonTypes
  <2>1. 0 \in Addr
        BY FlashBlocksAssumption DEF Addr
  <2>2. /\ mode \in {"bootloader", "firmware"} /\ wants = "cmd" /\ target = 0 /\ lost = FALSE
        /\ inReset = FALSE /\ acquired = FALSE /\ flash \in [Addr -> DataWord]
        BY <1>0 DEF DemonInit
  <2> QED BY <2>1, <2>2 DEF DemonTypes
<1>3. ClientTypes
  <2>1. 0 \in 0..FlashBlocks /\ 0 <= FlashBlocks
        BY FlashBlocksAssumption
  <2>2. info = << >> /\ at = 0 /\ image = << >> /\ sendFailed = FALSE
        BY <1>0 DEF DemonInit
  <2>3. << >> \in Seq(DataWord) /\ Len(<< >>) = 0
        BY EmptySeq
  <2>4. Len(info) = 0 /\ Len(image) = 0
        BY <2>2, <2>3
  <2>5. Len(info) <= 4
        BY <2>4
  <2>6. Len(image) <= FlashBlocks
        BY <2>1, <2>4
  <2>7. at \in 0..FlashBlocks /\ sendFailed \in BOOLEAN
        BY <2>1, <2>2
  <2> QED BY <2>5, <2>6, <2>7 DEF ClientTypes
<1>4. LpcTypeOK
      BY <1>0 DEF LpcInit, LpcTypeOK
<1>5. LpcPipe
  <2>1. << >> \in Seq(LpcAnswers)
        BY EmptySeq
  <2> QED BY <1>0, <2>1 DEF UsbInit, LpcPipe
<1> QED BY <1>1, <1>2, <1>3, <1>4, <1>5 DEF Types

Steady ==
  /\ UNCHANGED call
  /\ stage' \in {"talk", "drop", "claim"} /\ result' \in {result, "ok", "failed"}
  /\ unread' = unread \/ (unread < MaxUnread /\ unread' = unread + 1)

(* A step of a call keeps the types of the host's side.                    *)
LEMMA HostTypesSteady ==
  ASSUME HostTypes, Steady, UNCHANGED <<programmer, owner, detached, strayed>>,
         bus' = bus \/ (bus = "present" /\ bus' = "leaving")
  PROVE  HostTypes'
<1>1. unread' \in 0..MaxUnread
  BY UsbAssumption DEF HostTypes, Steady
<1>2. UNCHANGED <<job, calls>>
  BY DEF Steady, call
<1> QED BY <1>1, <1>2 DEF HostTypes, Steady

(* The beginning of a call keeps the types of the host's side.             *)
LEMMA HostTypesBegin ==
  ASSUME HostTypes, NEW j \in Jobs, NEW first, NEW transfers, Begin(j, first, transfers)
  PROVE  HostTypes'
<1>1. calls' \in 0..MaxCalls
      BY UsbAssumption DEF HostTypes, Begin
<1>2. /\ UNCHANGED <<programmer, bus, owner, strayed, unread>>
      /\ job' = j /\ stage' = "claim" /\ result' = "none" /\ detached' = FALSE
      BY DEF Begin, answers
<1> QED BY <1>1, <1>2 DEF HostTypes

(* UsbClient keeps the types of the host's side.                           *)
LEMMA HostTypesUsb ==
  ASSUME HostTypes, UsbNext
  PROVE  HostTypes'
<1> USE DEF HostTypes, interface, call, course, answers, Return, NotOpened
<1>1. CASE Claim
      BY <1>1 DEF Claim
<1>2. CASE DetachKernelDriver
      BY <1>2 DEF DetachKernelDriver
<1>3. CASE Reclaim
      BY <1>3 DEF Reclaim
<1>4. CASE Drop
      BY <1>4 DEF Drop
<1>5. CASE Kill
      BY <1>5 DEF Kill
<1>6. CASE OtherProcess
      BY <1>6 DEF OtherProcess
<1> QED BY <1>1, <1>2, <1>3, <1>4, <1>5, <1>6 DEF UsbNext

(* What the programmer does is no read.                                    *)
LEMMA TakeKeepsUnread ==
  ASSUME NEW t, NEW whole, Take(t, whole)
  PROVE  UNCHANGED unread
BY DEF Take, Ignored, TakeByte, TakeNumber, TakeBlock, Command, Parse, Stray, answers

(* A read gives up on one answer at most, and not beyond the bound.        *)
LEMMA ReadsSteady ==
  ASSUME NEW length, ReadFails(length) \/ TimesOut \/ Breaks(length) \/ Variable \/ ReadBulk(length)
  PROVE  unread' = unread \/ (unread < MaxUnread /\ unread' = unread + 1)
BY DEF ReadFails, TimesOut, Breaks, IsShort, Variable, ReadBulk

(* DemonClient keeps the types of the host's side.                         *)
LEMMA HostTypesDemon ==
  ASSUME HostTypes, DemonNext
  PROVE  HostTypes'
<1>1. ASSUME NEW j \in Jobs, DemonBegin(j) PROVE HostTypes'
      BY <1>1, HostTypesBegin DEF DemonBegin
<1>2. CASE SendTransfer
  <2>1. Talks /\ UNCHANGED call
        BY <1>2, SendTalks DEF SendTransfer
  <2>2. UNCHANGED unread
        BY <1>2, TakeKeepsUnread DEF SendTransfer, Ignored, answers
  <2>3. stage' \in {"talk", "drop"} /\ result' \in {result, "failed"}
        BY <1>2 DEF SendTransfer, Continue, Fail, Enter, Return
  <2> QED BY <2>1, <2>2, <2>3, HostTypesSteady DEF Talks, Steady
<1>3. CASE ModeIn \/ InfoIn \/ BlockIn \/ VerifyIn \/ CountIn \/ ListIn
  <2>1. stage = "talk" /\ UNCHANGED interface /\ UNCHANGED call
        BY <1>3 DEF ModeIn, InfoIn, BlockIn, VerifyIn, CountIn, ListIn, Getting, Unmoved
  <2>2. unread' = unread \/ (unread < MaxUnread /\ unread' = unread + 1)
        BY <1>3, ReadsSteady DEF ModeIn, InfoIn, BlockIn, VerifyIn, CountIn, ListIn, ReadError
  <2>3. stage' \in {"talk", "drop"} /\ result' \in {result, "failed"}
        BY <1>3, <2>1 DEF ModeIn, InfoIn, BlockIn, VerifyIn, CountIn, ListIn, ReadError,
           Continue, Fail, Enter, Return
  <2> QED BY <2>1, <2>2, <2>3, HostTypesSteady DEF Steady, interface
<1>4. CASE Reopen \/ Initialized \/ BlockDone \/ ListInvalidBlocks \/ ListDone
  <2>1. stage = "talk" /\ UNCHANGED interface /\ UNCHANGED call /\ UNCHANGED unread
        BY <1>4 DEF Reopen, Initialized, BlockDone, ListInvalidBlocks, ListDone, Finished, answers
  <2>2. stage' \in {"talk", "drop", "claim"} /\ result' \in {result, "ok", "failed"}
        BY <1>4, <2>1 DEF Reopen, Initialized, StartBlocks, BlockDone, ListInvalidBlocks, ListDone, Enter, Return
  <2> QED BY <2>1, <2>2, HostTypesSteady DEF Steady, interface
<1>5. CASE Reenumerate
      BY <1>5 DEF Reenumerate, Return, course, call, HostTypes
<1> QED BY <1>1, <1>2, <1>3, <1>4, <1>5 DEF DemonNext

(* LpcCalls keeps the types of the host's side.                            *)
LEMMA HostTypesLpc ==
  ASSUME HostTypes, LpcNext
  PROVE  HostTypes'
<1>1. ASSUME NEW j \in Jobs, LpcBegin(j) PROVE HostTypes'
      BY <1>1, HostTypesBegin DEF LpcBegin
<1>2. CASE DeviceReset \/ ControlTransfer \/ WriteFile
  <2>1. stage = "talk" /\ UNCHANGED interface /\ UNCHANGED call /\ UNCHANGED unread
        BY <1>2 DEF DeviceReset, ControlTransfer, WriteFile, Sending, Obey, answers
  <2>2. stage' \in {"talk", "drop"} /\ result' \in {result, "ok", "failed"}
        BY <1>2, <2>1 DEF DeviceReset, ControlTransfer, WriteFile, Continue, LpcFail, Return
  <2> QED BY <2>1, <2>2, HostTypesSteady DEF Steady, interface
<1>3. ASSUME NEW q, AnswerIn(q) PROVE HostTypes'
  <2>1. stage = "talk" /\ UNCHANGED interface /\ UNCHANGED call
        BY <1>3 DEF AnswerIn, Getting
  <2>2. stage' \in {"talk", "drop"} /\ result' \in {result, "ok", "failed"}
        BY <1>3, <2>1 DEF AnswerIn, Continue, LpcFail, Return
  <2>3. unread' = unread \/ (unread < MaxUnread /\ unread' = unread + 1)
        BY <1>3, ReadsSteady DEF AnswerIn
  <2> QED BY <2>1, <2>2, <2>3, HostTypesSteady DEF Steady, interface
<1>4. CASE LpcInitialized \/ FlashDeinit \/ LpcDone
  <2>1. stage = "talk" /\ UNCHANGED interface /\ UNCHANGED call /\ UNCHANGED unread
        BY <1>4 DEF LpcInitialized, FlashDeinit, LpcDone, Finished, answers
  <2>2. stage' \in {"talk", "drop"} /\ result' \in {result, "ok", "failed"}
        BY <1>4, <2>1 DEF LpcInitialized, FlashDeinit, LpcDone, Enter, Return
  <2> QED BY <2>1, <2>2, HostTypesSteady DEF Steady, interface
<1> QED BY <1>1, <1>2, <1>3, <1>4 DEF LpcNext

(* Every step keeps the types of the host's side.                          *)
LEMMA HostTypesNext ==
  ASSUME HostTypes, [Next]_vars
  PROVE  HostTypes'
<1>1. CASE UNCHANGED vars
      BY <1>1 DEF vars, usb, interface, call, course, answers, HostTypes
<1> QED BY <1>1, HostTypesUsb, HostTypesDemon, HostTypesLpc DEF Next

(* Every step keeps the types of LPC's side.                               *)
LEMMA LpcTypesNext ==
  ASSUME LpcTypeOK, [Next]_vars
  PROVE  LpcTypeOK'
<1> USE DEF LpcTypeOK
<1>1. CASE UNCHANGED lpc
      BY <1>1 DEF lpc
<1>2. ASSUME NEW j, LpcBegin(j) PROVE LpcTypeOK'
      BY <1>2 DEF LpcBegin
<1>3. CASE DeviceReset \/ WriteFile
      BY <1>3 DEF DeviceReset, ResetWorks, WriteFile
<1>4. CASE ControlTransfer
      BY <1>4 DEF ControlTransfer, Obey
<1>5. ASSUME NEW q, AnswerIn(q) PROVE LpcTypeOK'
      BY <1>5 DEF AnswerIn
<1>6. LpcInitialized \/ FlashDeinit \/ LpcDone => UNCHANGED lpc
      BY DEF LpcInitialized, FlashDeinit, LpcDone
<1> QED BY <1>1, <1>2, <1>3, <1>4, <1>5, <1>6 DEF Next, LpcNext, vars

(* What waits to be read from LPC are answers of its own.                  *)
LEMMA LpcPipeNext ==
  ASSUME LpcPipe, LpcInv, [Next]_vars
  PROVE  LpcPipe'
<1>1. UNCHANGED programmer
      BY SameProgrammer
<1>2. SUFFICES ASSUME programmer.kind = "lpc" PROVE pipe' \in Seq(LpcAnswers)
      BY <1>1 DEF LpcPipe
<1>3. pipe \in Seq(LpcAnswers)
      BY <1>2 DEF LpcPipe
<1>4. CASE UNCHANGED pipe
      BY <1>3, <1>4
<1>5. CASE pipe' = << >>
      BY <1>5, EmptySeq
<1>6. CASE pipe # << >> /\ pipe' = Tail(pipe)
      BY <1>3, <1>6, HeadTailProperties
<1>7. ASSUME NEW q \in {"version", "data_init", "data_status"}, Put("word", q) PROVE pipe' \in Seq(LpcAnswers)
  <2>1. InfoWord(q) \in LpcAnswers /\ pipe' = Append(pipe, InfoWord(q))
        BY <1>7 DEF LpcAnswers, InfoWord, Put
  <2> QED BY <1>3, <2>1, AppendProperties
<1>8. CASE UNCHANGED vars
      BY <1>4, <1>8 DEF vars, usb, answers
<1>9. CASE UsbNext
      BY <1>4, <1>9, UsbSteps DEF answers
<1>10. CASE LpcNext
  <2>1. ASSUME NEW j, LpcBegin(j) PROVE UNCHANGED pipe
        BY <2>1 DEF LpcBegin, Begin, answers
  <2>2. CASE DeviceReset
        BY <1>4, <1>5, <2>2 DEF DeviceReset, ResetWorks
  <2>3. CASE ControlTransfer
        BY <1>4, <1>7, <2>3 DEF ControlTransfer, Obey, answers
  <2>4. WriteFile \/ LpcInitialized \/ FlashDeinit \/ LpcDone => UNCHANGED pipe
        BY DEF WriteFile, LpcInitialized, FlashDeinit, LpcDone, answers
  <2>5. ASSUME NEW q, AnswerIn(q) PROVE pipe' \in Seq(LpcAnswers)
        BY <1>4, <1>6, <2>5, Shortened DEF AnswerIn
  <2> QED BY <1>4, <1>10, <2>1, <2>2, <2>3, <2>4, <2>5 DEF LpcNext
<1>11. ~DemonNext
      BY <1>2, LpcInvDemon
<1> QED BY <1>8, <1>9, <1>10, <1>11 DEF Next

(* Every step keeps the types of the programmer's state.                   *)
LEMMA DemonTypesNext ==
  ASSUME DemonTypes, DemonInv, CourseOK, LpcInv, HostTypes, [Next]_vars
  PROVE  DemonTypes'
<1>1. CASE UNCHANGED <<mode, parser, console, flash>>
      BY <1>1 DEF DemonTypes, parser, console
<1>2. CASE SendTransfer /\ programmer.kind = "demon"
      BY <1>2, DemonSendsInv DEF HostTypes
<1>3. CASE Reenumerate
      BY <1>3 DEF Reenumerate, console, DemonTypes
<1>4. UNCHANGED demon => UNCHANGED <<mode, parser, console, flash>>
      BY DEF demon
<1>5. ASSUME NEW j, DemonBegin(j) PROVE UNCHANGED <<mode, parser, console, flash>>
      BY <1>5 DEF DemonBegin
<1>6. ModeIn \/ InfoIn \/ BlockIn \/ VerifyIn \/ CountIn \/ ListIn => UNCHANGED <<mode, parser, console, flash>>
      BY DEF ModeIn, InfoIn, BlockIn, VerifyIn, CountIn, ListIn, Unmoved
<1>7. Reopen \/ Initialized \/ ListInvalidBlocks \/ ListDone => UNCHANGED demon
      BY DEF Reopen, Initialized, ListInvalidBlocks, ListDone
<1>8. BlockDone => UNCHANGED <<mode, parser, console, flash>>
      BY DEF BlockDone
<1> QED BY <1>1, <1>2, <1>3, <1>4, <1>5, <1>6, <1>7, <1>8 DEF Next, DemonNext, vars

(* No more than four answers are kept.                                     *)
LEMMA InfoIsShort ==
  ASSUME NEW i, NEW n \in {0, 1, 2, 3, 4}, i = First(n) \/ i = <<"list">>
  PROVE  Len(i) <= 4
<1>1. CASE i = First(n)
  <2>1. n \in Nat /\ n <= 4
        OBVIOUS
  <2>2. Len(First(n)) = n
        BY <2>1, FirstIs
  <2> QED BY <1>1, <2>1, <2>2
<1>2. CASE i = <<"list">>
      BY <1>2
<1> QED BY <1>1, <1>2

(* Every step keeps the amounts that a call of DemoN has transferred       *)
(* within the flash.                                                       *)
LEMMA ClientTypesNext ==
  ASSUME ClientTypes, DemonInv, CourseOK, LpcInv, HostTypes, [Next]_vars
  PROVE  ClientTypes'
<1>0. FlashBlocks \in Nat
      BY FlashBlocksAssumption
<1>1. CASE UNCHANGED <<info, at, image>> /\ sendFailed' \in {sendFailed, TRUE}
      BY <1>1 DEF ClientTypes
<1>2. programmer.kind = "demon" \/ ~DemonNext
      BY LpcInvDemon, UsbAssumption DEF HostTypes, Programmer
<1>3. ASSUME NEW j, DemonBegin(j) PROVE ClientTypes'
  <2>1. info' = << >> /\ at' = 0 /\ image' = << >> /\ sendFailed' = FALSE
        BY <1>3 DEF DemonBegin
  <2>2. << >> \in Seq(DataWord) /\ Len(<< >>) = 0
        BY EmptySeq
  <2>3. Len(info') = 0 /\ Len(image') = 0
        BY <2>1, <2>2
  <2>4. Len(info') <= 4
        BY <2>3
  <2>5. Len(image') <= FlashBlocks
        BY <1>0, <2>3
  <2>6. at' = 0 /\ sendFailed' = FALSE
        BY <2>1
  <2>7. 0 \in 0..FlashBlocks
        BY <1>0
  <2> QED BY <2>4, <2>5, <2>6, <2>7 DEF ClientTypes
<1>4. CASE SendTransfer
      BY <1>1, <1>4 DEF SendTransfer
<1>5. CASE ModeIn \/ VerifyIn \/ CountIn \/ ListIn
      BY <1>1, <1>5 DEF ModeIn, VerifyIn, CountIn, ListIn, Unmoved, ReadError
<1>6. CASE InfoIn /\ programmer.kind = "demon"
  <2>1. CASE UNCHANGED <<info, at, image>>
        BY <1>1, <1>6, <2>1 DEF InfoIn, Unmoved
  <2>2. CASE Continue /\ UNCHANGED <<at, image>>
    <3>1. DemonInv' /\ UNCHANGED <<programmer, job>> /\ stage = "talk" /\ Getting("info") /\ sendFailed' = sendFailed
          BY <1>6, InfoInInv DEF HostTypes, InfoIn, Unmoved, interface, call, Getting
    <3>2. PICK k \in {1, 3, 5, 9} : AtProbe(k)
          BY <1>6, <3>1, Reading, GettingAt DEF HostTypes, InfoIn
    <3>3. Active' /\ phase' = "probe" /\ todo' = Left(ProbeInfo, k + 1)
      <4>1. k \in Nat /\ k < 12
            OBVIOUS
      <4>2. Tail(todo) = Left(ProbeInfo, k + 1) /\ phase = "probe"
            BY <3>2, <4>1, ProbeAt, PhaseIs
      <4> QED BY <2>2, <3>1, <4>2 DEF Continue, Active
    <3>4. PICK m \in 0..12 : AtProbe(m)'
          BY <1>6, <3>1, <3>3 DEF DemonInv, AtMode, AtLeave, AtBlocks, AtAcquire, AtList, AtRelease
    <3>5. PICK n \in {0, 1, 2, 3, 4} : ReaderOK(n)'
          BY <3>4 DEF AtProbe, Answered
    <3>6. Len(info') <= 4
          BY <3>5, InfoIsShort DEF ReaderOK
    <3> QED BY <2>2, <3>1, <3>6 DEF ClientTypes
  <2> QED BY <1>6, <2>1, <2>2 DEF InfoIn, ReadError
<1>7. CASE BlockIn /\ programmer.kind = "demon"
  <2>1. CASE UNCHANGED <<info, at, image>>
        BY <1>1, <1>7, <2>1 DEF BlockIn, Unmoved
  <2>2. CASE image' = Append(image, Head(pipe).value) /\ UNCHANGED <<info, at>>
    <3>1. AtBlocks(2) /\ job.op = "read" /\ sendFailed' = sendFailed
          BY <1>7, Reading, GettingAt DEF HostTypes, BlockIn, Unmoved
    <3>2. at \in Addr /\ Len(image) = at
          BY <3>1 DEF AtBlocks
    <3>3. Len(image') = at + 1
          BY <2>2, <3>2
    <3>4. at + 1 <= FlashBlocks
          BY <1>0, <3>2 DEF Addr
    <3>5. Len(image') <= FlashBlocks
          BY <3>3, <3>4
    <3> QED BY <2>2, <3>1, <3>5 DEF ClientTypes
  <2> QED BY <1>7, <2>1, <2>2 DEF BlockIn, ReadError
<1>8. CASE BlockDone /\ programmer.kind = "demon"
  <2>1. /\ Finished("blocks") /\ at' = at + 1 /\ UNCHANGED <<info, image, sendFailed>>
        /\ UNCHANGED <<interface, call, answers, mode, parser, console, flash>>
        BY <1>8 DEF BlockDone
  <2>2. job \in Jobs /\ \E k \in 0..12 : DemonAt(k)
        BY <1>8, <2>1, Finishing DEF HostTypes
  <2>3. PICK k \in 0..12 : AtBlocks(k)
        BY <2>1, <2>2, DemonFinishedAt
  <2>4. at + 1 \in 0..FlashBlocks
        BY <1>0, <2>3 DEF AtBlocks, Addr
  <2> QED BY <2>1, <2>4 DEF ClientTypes
<1>9. UNCHANGED demon \/ Reenumerate => UNCHANGED <<info, at, image, sendFailed>>
      BY DEF demon, client, Reenumerate
<1>10. Reopen \/ Initialized \/ ListInvalidBlocks \/ ListDone => UNCHANGED demon
      BY DEF Reopen, Initialized, ListInvalidBlocks, ListDone
<1> QED BY <1>1, <1>2, <1>3, <1>4, <1>5, <1>6, <1>7, <1>8, <1>9, <1>10 DEF Next, DemonNext, vars

(* Every step keeps Types.                                                 *)
LEMMA TypesNext ==
  ASSUME Types, UInv, [Next]_vars
  PROVE  Types'
BY HostTypesNext, DemonTypesNext, ClientTypesNext, LpcTypesNext, LpcPipeNext DEF Types, UInv

-----------------------------------------------------------------------------
(* A DemoN has no flash that LPC opened, and no answers to LPC's           *)
(* questions.                                                              *)
LpcIdle == programmer.kind = "demon" => ~opened /\ ~mistaken
(* The inductive invariant.                                                *)
CallInv == Types /\ UInv /\ LpcIdle

(* Every step keeps LpcIdle.                                               *)
LEMMA LpcIdleNext ==
  ASSUME LpcIdle, DemonInv, CourseOK, HostTypes, [Next]_vars
  PROVE  LpcIdle'
<1>1. UNCHANGED programmer
      BY SameProgrammer
<1>2. CASE programmer.kind = "demon"
  <2>1. ~LpcNext
        BY <1>2, DemonNotLpc DEF HostTypes
  <2>2. UNCHANGED lpc
        BY <2>1 DEF Next, vars
  <2> QED BY <1>1, <1>2, <2>2 DEF LpcIdle, lpc
<1> QED BY <1>1, <1>2 DEF LpcIdle

(* The inductive invariant holds at first.                                 *)
LEMMA CallInvInit == Init => CallInv
<1>1. Init => LpcIdle
      BY DEF Init, LpcInit, LpcIdle
<1> QED BY <1>1, TypesInit, CourseOKInit, LpcInvInit, DemonInvInit DEF CallInv, UInv

(* The inductive invariant is inductive.                                   *)
LEMMA CallInvNext == CallInv /\ [Next]_vars => CallInv'
<1> SUFFICES ASSUME CallInv, [Next]_vars PROVE CallInv'
    OBVIOUS
<1>1. Types' /\ CourseOK' /\ LpcInv'
      BY TypesNext, CourseOKNext, LpcInvNext DEF CallInv, UInv
<1>2. DemonInv'
      BY DemonInvNext DEF CallInv, UInv, Types, HostTypes
<1>3. LpcIdle'
      BY LpcIdleNext DEF CallInv, UInv, Types
<1> QED BY <1>1, <1>2, <1>3 DEF CallInv, UInv

(* The inductive invariant always holds.                                   *)
LEMMA CallInvAlways == Spec => []CallInv
BY CallInvInit, CallInvNext, PTL DEF Spec

(* A call of DemoN that got through init has the answers to its questions. *)
LEMMA PastInitAnswered ==
  ASSUME CallInv, IsDemon, job # None, PastInit
  PROVE  info = Questions
<1>1. DemonInv /\ CourseOK /\ programmer.kind = "demon"
      BY DEF CallInv, UInv, IsDemon
<1>2. CASE Active
  <2>1. PICK k \in 0..12 : DemonAt(k)
        BY <1>1, <1>2, DemonIsAt
  <2>2. result = "none"
        BY <1>1, <1>2 DEF CourseOK
  <2>3. phase \in {"blocks", "acquire", "list", "unlist", "release"}
        BY <2>2 DEF PastInit
  <2> QED BY <2>1, <2>3 DEF DemonAt, AtMode, AtLeave, AtProbe, AtBlocks, AtAcquire, AtList, AtRelease
<1>3. CASE ~Active
      BY <1>1, <1>3 DEF DemonInv
<1> QED BY <1>2, <1>3

(* Every variable keeps its type; no call reads or writes a block more     *)
(* than the flash has, and no answer waits that the programmer does not    *)
(* give.                                                                   *)
THEOREM TypesAlwaysKept == Spec => []TypeOK
<1>1. CallInv => TypeOK
      BY TypesSuffice DEF CallInv, UInv
<1> QED BY <1>1, CallInvAlways, PTL

(* However many calls gave up on however many answers before, a call takes *)
(* for its device info the answers to its questions, in their order,       *)
(* though perhaps to those of an earlier call (demon.rs, probe_info and    *)
(* read_flash_id); and a call of LPC takes an answer for another's only    *)
(* after a device_reset of its own failed (lpc.rs).                        *)
THEOREM AnswersAlwaysTaken == Spec => []AnswersItsQuestion
<1>1. CallInv => AnswersItsQuestion
  <2> SUFFICES ASSUME CallInv PROVE AnswersItsQuestion
      OBVIOUS
  <2>1. mistaken => unreset
    <3>1. programmer.kind \in {"demon", "lpc"}
          BY UsbAssumption DEF CallInv, Types, HostTypes, Programmer
    <3> QED BY <3>1 DEF CallInv, UInv, LpcInv, LpcIdle
  <2> QED BY <2>1, PastInitAnswered DEF AnswersItsQuestion, Questions
<1> QED BY <1>1, CallInvAlways, PTL

(* However many calls were made before, one that got through init leaves   *)
(* the flash released and the console out of reset, unless it was killed   *)
(* or a transfer to the programmer failed (demon.rs, read_flash_id and     *)
(* read_invalid_blocks); and xsvf detect leaves the flash closed (lpc.rs,  *)
(* flash_deinit).                                                          *)
THEOREM AlwaysReleased == Spec => []ReleasedAfterInit
<1>1. CallInv => ReleasedAfterInit
  <2> SUFFICES ASSUME CallInv, stage = "idle", result # "killed"
               PROVE  /\ IsDemon /\ job # None /\ PastInit /\ ~sendFailed => ~inReset /\ ~acquired
                      /\ result = "ok" /\ phase = "flash_deinit" => ~opened
      BY DEF ReleasedAfterInit
  <2>1. ~Active
        BY DEF Active
  <2>2. ASSUME IsDemon, job # None, PastInit, ~sendFailed PROVE ~inReset /\ ~acquired
        BY <2>1, <2>2 DEF CallInv, UInv, DemonInv, IsDemon, Clean
  <2>3. ASSUME result = "ok", phase = "flash_deinit" PROVE ~opened
    <3>1. programmer.kind \in {"demon", "lpc"}
          BY UsbAssumption DEF CallInv, Types, HostTypes, Programmer
    <3> QED BY <2>1, <2>3, <3>1 DEF CallInv, UInv, LpcInv, LpcIdle
  <2> QED BY <2>2, <2>3
<1> QED BY <1>1, CallInvAlways, PTL

(* However many calls were made before, an xsvf write that was reported as *)
(* done has run the player on its file, or on the part of it that a cut    *)
(* transfer left (lpc.rs).                                                 *)
THEOREM XsvfAlwaysRun == Spec => []XsvfOkMeansRun
<1>1. CallInv => XsvfOkMeansRun
  <2> SUFFICES ASSUME CallInv, result = "ok", job.op = "xsvf" PROVE Whole(played)
      BY DEF XsvfOkMeansRun, Whole
  <2>1. programmer.kind \in {"demon", "lpc"}
        BY UsbAssumption DEF CallInv, Types, HostTypes, Programmer
  <2>2. job # None /\ ~Active
        BY DEF CallInv, UInv, CourseOK
  <2> QED BY <2>1, <2>2 DEF CallInv, UInv, LpcInv, DemonInv
<1> QED BY <1>1, CallInvAlways, PTL
-----------------------------------------------------------------------------
(* What a DemoN call makes of the answers left over from the calls before. *)
(* From its get_mode to the end of probe_info a call reads five answers,   *)
(* and it gets through only if the answers it reads are its own. That is   *)
(* so if at most four waited when it began.                                *)

(* The number of calls until it is four, and from then on four. A call     *)
(* that gives up leaves at most one answer more than it found, but for the *)
(* first bad-blocks call, which leaves two; so at most Few wait when one   *)
(* begins.                                                                 *)
Few == IF calls <= 4 THEN calls ELSE 4

(* At most m answers wait, counting the block that the next byte brings.   *)
Room(m) == Len(pipe) + (IF wants = "read_half" THEN 1 ELSE 0) <= m
(* A command is due, and m answers wait.                                   *)
InStep(m) == wants = "cmd" /\ Len(pipe) = m
(* An answer that is no word is the i-th to the n-th to be read: a call    *)
(* that has to read words up to there fails.                               *)
Barred(i, n) == \E b \in i..n : b <= Len(pipe) /\ pipe[b].length # "word"
(* The programmer takes commands for something else, and fewer than n      *)
(* answers wait: a call that has to read n fails.                          *)
Swallowed(n) == wants # "cmd" /\ Len(pipe) < n
(* In probe_info, n answers have been read and a questions asked.          *)
AtQuestion(n, a) == InStep(a - n) \/ Barred(1, 4 - n) \/ Swallowed(4 - n)

(* After k transfers of get_mode, after those of leave_bootloader and      *)
(* before probe_info, and after k transfers of probe_info.                 *)
ModeLag(k) ==
  IF k = 0 THEN Room(Few)
  ELSE pipe = << >> \/ Head(pipe).length # "byte" \/ Barred(2, 5) \/ Swallowed(5) \/ InStep(1)
LeaveLag == ~lost /\ Room(Few) /\ AtQuestion(0, 0)
ProbeLag(k) == ~lost /\ Room(Few + Asked(k) - Answered(k)) /\ AtQuestion(Answered(k), Asked(k))

(* After k transfers of a block the programmer is where the script is, or  *)
(* it takes what comes for the rest of a block that was cut short; which a *)
(* write that verifies notices at the next answer.                         *)
Due(k) == k = IF job.op = "read" THEN 2 ELSE 5
Wanted(k) ==
  CASE k = 1 -> (IF job.op = "read" THEN "read_num" ELSE "program_num")
    [] k = 2 /\ job.op = "write" -> "data"
    [] k = 4 -> "read_num"
    [] OTHER -> "cmd"
Following(k) ==
  /\ ~lost /\ wants = Wanted(k) /\ (wants = "data" => target = at)
  /\ pipe = IF Due(k) THEN <<[length |-> "block", value |-> flash[at]]>> ELSE << >>
CutShort(k) ==
  /\ job.op = "write" /\ job.cuts /\ pipe = << >>
  /\ lost \/ (wants = "rest" /\ target \in BlocksOf(job))
  /\ job.verify => ~lost /\ k \in {3, 4, 5}
(* The blocks transferred so far are those of the flash.                   *)
ImageSoFar == image \in Seq(DataWord) /\ \A i \in 1..Len(image) : image[i] = flash[i - 1]
Stored(b) == flash[b] = job.file[b + 1]
BlockLag(k) ==
  /\ bus = "present" /\ (Following(k) \/ CutShort(k))
  /\ job.op = "read" => ImageSoFar
  /\ job.op = "write" /\ job.verify => (\A b \in 0..(at - 1) : Stored(b)) /\ (k = 6 => Stored(at))
(* Before the list of bad blocks is asked for, and from then on.           *)
AcquireLag == bus = "present" /\ ~lost /\ InStep(0)
ListLag == bus = "present" /\ ~lost /\ wants = "cmd" /\ Len(pipe) <= 2

(* How many transfers of its function a call has made.                     *)
Total == CASE phase = "leave" -> 1 [] phase = "probe" -> 12 [] phase = "blocks" -> Size [] OTHER -> 2
Place == Total - Len(todo)
LagAt(k) ==
  /\ phase = "mode" => ModeLag(k)
  /\ phase = "leave" => LeaveLag
  /\ phase = "probe" => ProbeLag(k)
  /\ phase = "blocks" => BlockLag(k)
  /\ phase = "acquire" \/ (phase = "list" /\ k = 0) => AcquireLag
  /\ (phase = "list" /\ k > 0) \/ phase \in {"release", "unlist"} => ListLag
LagHere == \E k \in 0..12 : k = Place /\ LagAt(k)
(* What a success says.                                                    *)
OkSays ==
  result = "ok" =>
    /\ job.op # "bad_blocks" /\ ~job.cuts => InStep(0)
    /\ job.op = "read" => image = [i \in 1..FlashBlocks |-> flash[i - 1]]
    /\ phase = "blocks" /\ job.op = "write" /\ job.verify => \A b \in BlocksOf(job) : b \in Addr /\ Stored(b)
(* The invariant of calls that find at most four answers.                  *)
LagBase ==
  /\ lost => pipe = << >>
  /\ Room(Few + 1)
  /\ job # None => Few > 0
LagInv ==
  programmer.kind = "demon" =>
    /\ LagBase
    /\ Active => LagHere
    /\ ~Active /\ job # None => OkSays

(* Every call but the first four, for which it follows, begins with at     *)
(* most four answers waiting.                                              *)
FewFound == stage = "idle" /\ stage' # "idle" => calls < 4 \/ Room(4)
FewWait == [][FewFound]_vars
(* One more answer waits behind the others, of length l.                   *)
Grows(l) == \E x \in AnAnswer : x.length = l /\ pipe' = Append(pipe, x)
(* The first answer has been taken.                                        *)
Shrinks == pipe # << >> /\ pipe' = Tail(pipe)

(* The lengths and places of answers when one is added.                    *)
LEMMA GrownPipe ==
  ASSUME pipe \in Seq(AnAnswer), NEW l, Grows(l)
  PROVE  /\ Len(pipe) \in Nat /\ Len(pipe') = Len(pipe) + 1 /\ pipe' # << >>
         /\ \A b \in 1..Len(pipe) : pipe'[b] = pipe[b]
         /\ pipe'[Len(pipe) + 1].length = l
         /\ pipe = << >> => Len(pipe') = 1 /\ Head(pipe').length = l
<1>1. PICK x \in AnAnswer : x.length = l /\ pipe' = Append(pipe, x)
      BY DEF Grows
<1>2. /\ Len(pipe') = Len(pipe) + 1 /\ pipe' # << >> /\ pipe'[Len(pipe')] = x
      /\ \A b \in 1..Len(pipe) : pipe'[b] = pipe[b]
      /\ pipe = << >> => Head(pipe') = x
      BY <1>1, Appended
<1>3. Len(pipe) \in Nat /\ (pipe = << >> => Len(pipe) = 0)
      BY LenProperties, EmptySeq
<1> QED BY <1>1, <1>2, <1>3

(* The same when the first is taken.                                       *)
LEMMA ShrunkPipe ==
  ASSUME pipe \in Seq(AnAnswer), Shrinks
  PROVE  /\ Len(pipe) \in Nat /\ Len(pipe') \in Nat /\ Len(pipe') = Len(pipe) - 1
         /\ \A b \in 1..Len(pipe') : pipe'[b] = pipe[b + 1]
         /\ Head(pipe) = pipe[1] /\ Head(pipe) \in AnAnswer
         /\ pipe' = << >> <=> Len(pipe) = 1
<1>1. /\ Len(pipe) \in Nat \ {0} /\ Len(pipe') = Len(pipe) - 1 /\ pipe' \in Seq(AnAnswer)
      /\ \A b \in 1..Len(pipe') : pipe'[b] = pipe[b + 1]
      /\ Head(pipe) = pipe[1] /\ Head(pipe) \in AnAnswer
      BY Beheaded DEF Shrinks
<1>2. pipe' = << >> <=> Len(pipe') = 0
      BY <1>1, EmptySeq
<1> QED BY <1>1, <1>2

(* A bar stays where it is when answers are added, and is one place nearer *)
(* when one is taken.                                                      *)
LEMMA BarStays ==
  ASSUME pipe \in Seq(AnAnswer), pipe' = pipe \/ \E l : Grows(l),
         NEW i \in Nat, NEW n \in Nat, i > 0, Barred(i, n)
  PROVE  Barred(i, n)'
<1>1. CASE pipe' = pipe
      BY <1>1 DEF Barred
<1>2. CASE \E l : Grows(l)
  <2>1. PICK l : Grows(l)
        BY <1>2
  <2>2. /\ Len(pipe) \in Nat /\ Len(pipe') = Len(pipe) + 1
        /\ \A b \in 1..Len(pipe) : pipe'[b] = pipe[b]
        BY <2>1, GrownPipe
  <2>3. PICK b \in i..n : b <= Len(pipe) /\ pipe[b].length # "word"
        BY DEF Barred
  <2>4. b \in 1..Len(pipe)
        BY <2>2, <2>3
  <2>5. b <= Len(pipe') /\ pipe'[b].length # "word"
        BY <2>2, <2>3, <2>4
  <2> QED BY <2>5 DEF Barred
<1> QED BY <1>1, <1>2

LEMMA BarNears ==
  ASSUME pipe \in Seq(AnAnswer), Shrinks, NEW n \in Nat, Barred(2, n + 1)
  PROVE  Barred(1, n)'
<1>1. /\ Len(pipe) \in Nat /\ Len(pipe') \in Nat /\ Len(pipe') = Len(pipe) - 1
      /\ \A b \in 1..Len(pipe') : pipe'[b] = pipe[b + 1]
      BY ShrunkPipe
<1>2. PICK b \in 2..(n + 1) : b <= Len(pipe) /\ pipe[b].length # "word"
      BY DEF Barred
<1>3. PICK c \in 1..n : b = c + 1
  <2>1. b - 1 \in 1..n /\ b = (b - 1) + 1
        BY <1>2
  <2> QED BY <2>1
<1>4. c \in 1..Len(pipe') /\ c <= Len(pipe')
      BY <1>1, <1>2, <1>3
<1>5. pipe'[c].length # "word"
      BY <1>1, <1>2, <1>3, <1>4
<1> QED BY <1>4, <1>5 DEF Barred

(* What a byte does: nothing on a programmer that is lost; where a command *)
(* is due it asks for an answer, two or none; otherwise it completes the   *)
(* command to read a block, or it is swallowed.                            *)
Asking == {"mode", "device_id", "protocol", "firmware", "nand_id"}
Plain == {"leave", "reset", "acquire", "release", "deassert"}
LEMMA ByteTaken ==
  ASSUME DemonTypes, NEW c \in Asking \cup Plain, NEW whole, Take(Byte(c), whole)
  PROVE  /\ lost' = lost /\ flash' = flash
         /\ \/ lost /\ UNCHANGED <<wants, pipe>>
            \/ /\ ~lost /\ wants = "cmd" /\ wants' = "cmd"
               /\ c \in Asking /\ (c = "nand_id" => acquired) =>
                    Grows(IF c = "mode" THEN "byte" ELSE "word")
               /\ c \in Plain => pipe' = pipe
            \/ ~lost /\ wants = "read_half" /\ wants' = "cmd" /\ Grows("block")
            \/ /\ ~lost /\ wants \notin {"cmd", "read_half"} /\ wants' # "cmd" /\ pipe' = pipe
               /\ wants' = "read_half" => wants = "read_num"
<1>0. DOMAIN Byte(c) = {"byte"} /\ Byte(c).byte = c
      BY DEF Byte
<1>1. CASE lost
      BY <1>1 DEF Take, Ignored, parser, answers
<1>2. CASE ~lost /\ wants = "cmd"
  <2>1. Command(c)
        BY <1>2, TakeCommand
  <2>2. lost' = lost /\ flash' = flash /\ wants' = "cmd"
        BY <2>1 DEF Command, Asking, Plain
  <2>3. c \in Plain => pipe' = pipe
        BY <2>1 DEF Command, Plain, Answers
  <2>4. ASSUME c = "mode" PROVE Grows("byte")
    <3>1. pipe' = Append(pipe, [length |-> "byte", value |-> mode])
          BY <2>1, <2>4 DEF Command, Put
    <3>2. [length |-> "byte", value |-> mode] \in AnAnswer
          BY DEF AnAnswer, Bytes, ModeBytes, DemonTypes
    <3> QED BY <3>1, <3>2 DEF Grows
  <2>5. ASSUME c \in {"device_id", "protocol", "firmware", "nand_id"}, c = "nand_id" => acquired
        PROVE  Grows("word")
    <3>1. pipe' = Append(pipe, InfoWord(c))
          BY <2>1, <2>5 DEF Command, Answers, Put, InfoWord
    <3>2. InfoWord(c) \in AnAnswer /\ InfoWord(c).length = "word"
          BY <2>5 DEF AnAnswer, InfoWord
    <3> QED BY <3>1, <3>2 DEF Grows
  <2>6. c \in Asking /\ (c = "nand_id" => acquired) => Grows(IF c = "mode" THEN "byte" ELSE "word")
        BY <2>4, <2>5 DEF Asking
  <2> QED BY <1>2, <2>2, <2>3, <2>6
<1>3. CASE ~lost /\ wants # "cmd"
  <2>1. TakeByte(c)
        BY <1>0, <1>3 DEF Take
  <2>2. CASE wants = "read_half"
    <3>1. PICK b \in Addr : ReadOut(b) /\ Parse("cmd", b)
          BY <2>1, <2>2 DEF TakeByte
    <3>2. pipe' = Append(pipe, [length |-> "block", value |-> flash[b]]) /\ UNCHANGED <<flash, lost>>
          BY <3>1 DEF ReadOut, Put
    <3>3. [length |-> "block", value |-> flash[b]] \in AnAnswer
          BY DEF AnAnswer, Contents, DemonTypes
    <3>4. wants' = "cmd"
          BY <3>1 DEF Parse
    <3> QED BY <1>3, <2>2, <3>2, <3>3, <3>4 DEF Grows
  <2>3. CASE wants # "read_half"
    <3>1. PICK next, b : /\ Silent /\ Parse(next, b) /\ next \in {"read_half", "program_half", "data", "rest"}
                         /\ next = "read_half" => wants = "read_num"
          BY <1>3, <2>1, <2>3 DEF TakeByte, DemonTypes
    <3>2. UNCHANGED <<flash, lost, pipe>> /\ wants' = next
          BY <3>1 DEF Silent, Parse
    <3> QED BY <1>3, <2>3, <3>1, <3>2
  <2> QED BY <2>2, <2>3
<1> QED BY <1>1, <1>2, <1>3, LostIs

(* The number of answers that wait is a number.                            *)
LEMMA PipeIs == Parser => pipe \in Seq(AnAnswer) /\ Len(pipe) \in Nat /\ (pipe = << >> <=> Len(pipe) = 0)
BY EmptySeq, LenProperties DEF Parser, Chain

(* A byte adds one answer at most.                                         *)
LEMMA RoomForOne ==
  ASSUME DemonTypes, Parser, NEW c \in Asking \cup Plain, NEW whole, Take(Byte(c), whole),
         c = "nand_id" /\ ~lost /\ wants = "cmd" => acquired, NEW m \in Nat, Room(m)
  PROVE  /\ Room(m + 1)'
         /\ c \in Plain /\ wants # "read_num" => Room(m)'
<1>1. pipe \in Seq(AnAnswer) /\ Len(pipe) \in Nat
      BY PipeIs
<1>2. \A l : Grows(l) => Len(pipe') = Len(pipe) + 1
      BY <1>1, GrownPipe
<1> QED BY <1>1, <1>2, ByteTaken DEF Room, Asking, Plain

(* The question of get_mode. On a programmer that is in step and has no    *)
(* answer waiting it brings the only one; otherwise the call's own mode,   *)
(* or the block that the byte brings, waits at the fifth place at most.    *)
LEMMA ModeSent ==
  ASSUME DemonTypes, Parser, Few \in Nat, Few <= 4, Room(Few), lost => pipe = << >>, UNCHANGED Few,
         NEW whole, Take(Byte("mode"), whole)
  PROVE  ModeLag(1)' /\ Room(Few + 1)' /\ (lost' => pipe' = << >>)
<1>1. pipe \in Seq(AnAnswer) /\ Len(pipe) \in Nat /\ (pipe = << >> <=> Len(pipe) = 0)
      BY PipeIs
<1>2. "mode" \in Asking
      BY DEF Asking
<1>3. lost' = lost
      BY <1>2, ByteTaken
<1>4. Room(Few + 1)'
  <2>1. PICK m \in Nat : m = Few
        OBVIOUS
  <2>2. Room(m + 1)'
        BY <1>2, <2>1, RoomForOne
  <2> QED BY <2>1, <2>2 DEF Room
<1>5. ASSUME NEW l, l \in {"byte", "block"}, Grows(l), Len(pipe) <= 4, l = "byte" => wants' = "cmd"
      PROVE  ModeLag(1)'
  <2>1. /\ Len(pipe') = Len(pipe) + 1
        /\ pipe'[Len(pipe) + 1].length = l
        /\ pipe = << >> => Len(pipe') = 1 /\ Head(pipe').length = l
        BY <1>1, <1>5, GrownPipe
  <2>2. CASE pipe = << >>
        BY <1>5, <2>1, <2>2 DEF ModeLag, InStep
  <2>3. CASE pipe # << >>
    <3>1. Len(pipe) + 1 \in 2..5 /\ Len(pipe) + 1 <= Len(pipe')
          BY <1>1, <1>5, <2>1, <2>3
    <3>2. Barred(2, 5)'
          BY <1>5, <2>1, <3>1 DEF Barred
    <3> QED BY <3>2 DEF ModeLag
  <2> QED BY <2>2, <2>3
<1>6. ModeLag(1)'
  <2>1. CASE lost /\ UNCHANGED <<wants, pipe>>
        BY <2>1 DEF ModeLag
  <2>2. CASE wants = "cmd" /\ wants' = "cmd" /\ Grows("byte")
        BY <1>1, <1>5, <2>2 DEF Room
  <2>3. CASE wants = "read_half" /\ Grows("block")
        BY <1>1, <1>5, <2>3 DEF Room
  <2>4. CASE wants' # "cmd" /\ pipe' = pipe
        BY <1>1, <2>4 DEF ModeLag, Swallowed, Room
  <2> QED BY <1>2, <2>1, <2>2, <2>3, <2>4, ByteTaken
<1> QED BY <1>3, <1>4, <1>6, ByteTaken, <1>2

(* A question of probe_info brings the only answer on a programmer that is *)
(* in step; otherwise what is in the way of the call stays there.          *)
LEMMA QuestionSent ==
  ASSUME DemonTypes, Parser, ~lost, wants # "read_num", NEW n \in {0, 1, 2, 3}, AtQuestion(n, n),
         NEW c \in Asking \ {"mode"}, c = "nand_id" /\ wants = "cmd" => acquired,
         NEW whole, Take(Byte(c), whole)
  PROVE  ~lost' /\ AtQuestion(n, n + 1)'
<1>1. pipe \in Seq(AnAnswer) /\ Len(pipe) \in Nat
      BY PipeIs
<1>2. /\ lost' = lost
      /\ \/ wants = "cmd" /\ wants' = "cmd" /\ Grows("word")
         \/ wants = "read_half" /\ wants' = "cmd" /\ Grows("block")
         \/ wants \notin {"cmd", "read_half"} /\ wants' # "cmd" /\ pipe' = pipe
      BY ByteTaken
<1>3. ASSUME Barred(1, 4 - n) PROVE Barred(1, 4 - n)'
      BY <1>1, <1>2, <1>3, BarStays
<1>4. CASE wants = "cmd" /\ wants' = "cmd" /\ Grows("word")
  <2>1. Len(pipe') = Len(pipe) + 1
        BY <1>1, <1>4, GrownPipe
  <2> QED BY <1>1, <1>2, <1>3, <1>4, <2>1 DEF AtQuestion, InStep, Swallowed
<1>5. CASE wants = "read_half" /\ Grows("block")
  <2>1. Len(pipe') = Len(pipe) + 1 /\ pipe'[Len(pipe) + 1].length = "block"
        BY <1>1, <1>5, GrownPipe
  <2>2. CASE Swallowed(4 - n)
    <3>1. Len(pipe) + 1 \in 1..(4 - n) /\ Len(pipe) + 1 <= Len(pipe')
          BY <1>1, <2>1, <2>2 DEF Swallowed
    <3>2. Barred(1, 4 - n)'
          BY <2>1, <3>1 DEF Barred
    <3> QED BY <1>2, <3>2 DEF AtQuestion
  <2> QED BY <1>2, <1>3, <1>5, <2>2 DEF AtQuestion, InStep
<1>6. CASE wants # "cmd" /\ wants' # "cmd" /\ pipe' = pipe
      BY <1>2, <1>3, <1>6 DEF AtQuestion, InStep, Swallowed
<1> QED BY <1>2, <1>4, <1>5, <1>6

(* A command without an answer changes nothing of that.                    *)
LEMMA PlainSent ==
  ASSUME DemonTypes, Parser, ~lost, wants # "read_num", NEW n \in {0, 1, 2, 3, 4}, AtQuestion(n, n),
         NEW c \in Plain, NEW whole, Take(Byte(c), whole)
  PROVE  ~lost' /\ AtQuestion(n, n)'
<1>1. pipe \in Seq(AnAnswer) /\ Len(pipe) \in Nat
      BY PipeIs
<1>2. /\ lost' = lost
      /\ \/ wants = "cmd" /\ wants' = "cmd" /\ pipe' = pipe
         \/ wants = "read_half" /\ wants' = "cmd" /\ Grows("block")
         \/ wants \notin {"cmd", "read_half"} /\ wants' # "cmd" /\ pipe' = pipe
      BY ByteTaken DEF Asking, Plain
<1>3. ASSUME Barred(1, 4 - n) PROVE Barred(1, 4 - n)'
      BY <1>1, <1>2, <1>3, BarStays
<1>5. CASE wants = "read_half" /\ Grows("block")
  <2>1. Len(pipe') = Len(pipe) + 1 /\ pipe'[Len(pipe) + 1].length = "block"
        BY <1>1, <1>5, GrownPipe
  <2>2. CASE Swallowed(4 - n)
    <3>1. Len(pipe) + 1 \in 1..(4 - n) /\ Len(pipe) + 1 <= Len(pipe')
          BY <1>1, <2>1, <2>2 DEF Swallowed
    <3>2. Barred(1, 4 - n)'
          BY <2>1, <3>1 DEF Barred
    <3> QED BY <1>2, <3>2 DEF AtQuestion
  <2> QED BY <1>2, <1>3, <1>5, <2>2 DEF AtQuestion, InStep
<1>6. CASE (wants = "cmd" <=> wants' = "cmd") /\ pipe' = pipe
      BY <1>2, <1>3, <1>6 DEF AtQuestion, InStep, Swallowed
<1> QED BY <1>2, <1>5, <1>6

(* The mode is read: if it was there to be read, either the programmer is  *)
(* in step and nothing waits, or the call will not get through probe_info. *)
LEMMA ModeRead ==
  ASSUME Parser, Few \in Nat, Room(Few + 1), ModeLag(1), lost => pipe = << >>,
         Arrived("byte"), pipe' = Tail(pipe), UNCHANGED <<wants, lost, Few>>
  PROVE  LeaveLag'
<1>0. Shrinks
      BY DEF Arrived, Shrinks
<1>1. /\ pipe \in Seq(AnAnswer) /\ Len(pipe) \in Nat /\ pipe # << >> /\ Head(pipe).length = "byte"
      /\ Len(pipe') = Len(pipe) - 1
      BY <1>0, PipeIs, ShrunkPipe DEF Arrived
<1>2. ~lost' /\ Room(Few)'
      BY <1>1 DEF Room
<1>3. AtQuestion(0, 0)'
  <2>1. CASE Barred(2, 5)
    <3>1. Barred(1, 4)'
          BY <1>0, <1>1, <2>1, BarNears
    <3> QED BY <3>1 DEF AtQuestion
  <2>2. CASE Swallowed(5) \/ InStep(1)
        BY <1>1, <2>2 DEF AtQuestion, Swallowed, InStep
  <2> QED BY <1>1, <2>1, <2>2 DEF ModeLag
<1> QED BY <1>2, <1>3 DEF LeaveLag

(* The same for the answer to a question.                                  *)
LEMMA WordRead ==
  ASSUME Parser, ~lost, NEW n \in {0, 1, 2, 3}, AtQuestion(n, n + 1),
         Arrived("word"), pipe' = Tail(pipe), UNCHANGED <<wants, lost>>
  PROVE  ~lost' /\ AtQuestion(n + 1, n + 1)'
<1>0. Shrinks
      BY DEF Arrived, Shrinks
<1>1. /\ pipe \in Seq(AnAnswer) /\ Len(pipe) \in Nat /\ Head(pipe).length = "word" /\ Head(pipe) = pipe[1]
      /\ Len(pipe') = Len(pipe) - 1
      BY <1>0, PipeIs, ShrunkPipe DEF Arrived
<1>2. CASE Barred(1, 4 - n)
  <2>1. Barred(2, (4 - (n + 1)) + 1)
        BY <1>1, <1>2 DEF Barred
  <2>2. 4 - (n + 1) \in Nat
        OBVIOUS
  <2>3. Barred(1, 4 - (n + 1))'
        BY <1>0, <1>1, <2>1, <2>2, BarNears
  <2> QED BY <2>3 DEF AtQuestion
<1>3. CASE Swallowed(4 - n) \/ InStep((n + 1) - n)
      BY <1>1, <1>3 DEF AtQuestion, Swallowed, InStep
<1> QED BY <1>2, <1>3 DEF AtQuestion

(* After the fourth answer the programmer is in step: nothing can be in    *)
(* the way any more.                                                       *)
LEMMA ProbedIsInStep ==
  ASSUME Parser, AtQuestion(4, 4)
  PROVE  InStep(0)
BY PipeIs DEF AtQuestion, Barred, Swallowed, InStep

(* The length of what is left of a script.                                 *)
LEMMA LeftLength ==
  ASSUME NEW S, NEW s \in Seq(S), NEW n \in Nat, Len(s) <= n, n <= Len(s), NEW k \in 0..n
  PROVE  Left(s, k) \in Seq(S) /\ Len(Left(s, k)) = n - k
<1>1. Len(s) = n /\ \A i \in 1..n : s[i] \in S
      BY LenProperties
<1>2. /\ SubSeq(s, k + 1, n) \in Seq(S)
      /\ Len(SubSeq(s, k + 1, n)) = IF k + 1 <= n THEN n - (k + 1) + 1 ELSE 0
      BY <1>1, SubSeqProperties
<1> QED BY <1>1, <1>2 DEF Left

(* The scripts of DemoN and their lengths.                                 *)
LEMMA Scripts ==
  /\ GetMode \in Seq(DemonSteps) /\ Len(GetMode) <= 2 /\ 2 <= Len(GetMode)
  /\ Acquire \in Seq(DemonSteps) /\ Len(Acquire) <= 2 /\ 2 <= Len(Acquire)
  /\ Release \in Seq(DemonSteps) /\ Len(Release) <= 2 /\ 2 <= Len(Release)
  /\ Listing \in Seq(DemonSteps) /\ Len(Listing) <= 2 /\ 2 <= Len(Listing)
  /\ Leaving \in Seq(DemonSteps) /\ Len(Leaving) <= 1 /\ 1 <= Len(Leaving)
  /\ ProbeInfo \in Seq(DemonSteps) /\ Len(ProbeInfo) <= 12 /\ 12 <= Len(ProbeInfo)
<1>1. /\ Byte("device_id") \in DemonSteps /\ Byte("protocol") \in DemonSteps /\ Byte("firmware") \in DemonSteps
      /\ Byte("reset") \in DemonSteps /\ Byte("acquire") \in DemonSteps /\ Byte("nand_id") \in DemonSteps
      /\ Byte("release") \in DemonSteps /\ Byte("deassert") \in DemonSteps /\ Get("word", "info") \in DemonSteps
      /\ Byte("mode") \in DemonSteps /\ Get("byte", "mode") \in DemonSteps /\ Byte("leave") \in DemonSteps
      /\ Byte("bad_blocks") \in DemonSteps /\ Get("word", "count") \in DemonSteps
  BY DEF DemonSteps
<1>2. ProbeInfo = <<Byte("device_id"), Get("word", "info")>> \o <<Byte("protocol"), Get("word", "info")>>
                    \o <<Byte("firmware"), Get("word", "info")>>
                    \o (<<Byte("reset"), Byte("acquire")>> \o <<Byte("nand_id"), Get("word", "info")>>
                          \o <<Byte("release"), Byte("deassert")>>)
  BY DEF ProbeInfo, Question, ReadFlashId, Acquire, Release
<1>3. ProbeInfo \in Seq(DemonSteps) /\ Len(ProbeInfo) <= 12 /\ 12 <= Len(ProbeInfo)
  BY <1>1, <1>2, TwelveOfProbe
<1> QED BY <1>1, <1>3 DEF Release, Acquire, GetMode, Leaving, Listing

(* What is left to transfer says where a call is.                          *)
LEMMA PlaceAt ==
  ASSUME job \in Jobs, NEW k \in 0..12, DemonAt(k)
  PROVE  /\ phase # "list" => Place = k
         /\ phase = "list" => Place = IF k = 2 THEN 1 ELSE k
         /\ todo \in Seq(DemonSteps)
<1>0. k \in Nat
      OBVIOUS
<1>1. ASSUME NEW s, NEW n \in {1, 2, 12}, s \in Seq(DemonSteps), Len(s) <= n, n <= Len(s), todo = Left(s, k), k <= n,
             Total = n
      PROVE  Place = k /\ todo \in Seq(DemonSteps)
  <2>1. k \in 0..n /\ n \in Nat
        BY <1>1
  <2>2. Left(s, k) \in Seq(DemonSteps) /\ Len(Left(s, k)) = n - k
        BY <1>1, <2>1, LeftLength
  <2>3. Place = n - (n - k)
        BY <1>1, <2>2 DEF Place
  <2> QED BY <1>1, <2>1, <2>2, <2>3
<1>2. CASE AtMode(k)
  <2>1. phase = "mode" /\ Total = 2 /\ todo = Left(GetMode, k) /\ k <= 2
        BY <1>2 DEF AtMode, Total
  <2> QED BY <1>1, <2>1, Scripts
<1>3. CASE AtLeave(k)
  <2>1. phase = "leave" /\ Total = 1 /\ todo = Left(Leaving, k) /\ k <= 1
        BY <1>3 DEF AtLeave, Total
  <2> QED BY <1>1, <2>1, Scripts
<1>4. CASE AtProbe(k)
  <2>1. phase = "probe" /\ Total = 12 /\ todo = Left(ProbeInfo, k) /\ k <= 12
        BY <1>4 DEF AtProbe, Total
  <2> QED BY <1>1, <2>1, Scripts
<1>5. CASE AtBlocks(k)
  <2>1. /\ phase = "blocks" /\ Total = Size /\ todo = Left(Transfers(at), k) /\ k \in 0..Len(Transfers(at))
        /\ job.op \in {"read", "write"} /\ at \in BlocksOf(job) /\ BlocksOf(job) \subseteq Addr
        BY <1>5 DEF AtBlocks, Total
  <2>2. k <= Size /\ Size \in {3, 6}
        BY <1>0, <1>5, BlocksAt
  <2>3. Transfers(at) \in Seq(DemonSteps) /\ Len(Transfers(at)) <= Size /\ Size <= Len(Transfers(at))
        BY <2>1, TransfersAre DEF Size
  <2>4. PICK n \in {3, 6} : n = Size
        BY <2>2
  <2>5. PICK s : s = Transfers(at)
        OBVIOUS
  <2>6. s \in Seq(DemonSteps) /\ Len(s) <= n /\ n <= Len(s) /\ k \in 0..n /\ n \in Nat
        BY <2>2, <2>3, <2>4, <2>5
  <2>7. Left(s, k) \in Seq(DemonSteps) /\ Len(Left(s, k)) = n - k
        BY <2>6, LeftLength
  <2>8. Place = n - (n - k)
        BY <2>1, <2>4, <2>5, <2>7 DEF Place
  <2> QED BY <2>1, <2>5, <2>6, <2>7, <2>8
<1>6. CASE AtAcquire(k)
  <2>1. phase = "acquire" /\ Total = 2 /\ todo = Left(Acquire, k) /\ k <= 2
        BY <1>6 DEF AtAcquire, Total
  <2> QED BY <1>1, <2>1, Scripts
<1>7. CASE AtList(k)
  <2>1. CASE k < 2
    <3>1. phase = "list" /\ Total = 2 /\ todo = Left(Listing, k) /\ k <= 2
          BY <1>7, <2>1 DEF AtList, Total
    <3> QED BY <1>1, <2>1, <3>1, Scripts
  <2>2. CASE k = 2
    <3>1. phase = "list" /\ Total = 2 /\ todo = <<Get("word", "list")>>
          BY <1>7, <2>2 DEF AtList, Total
    <3>2. Get("word", "list") \in DemonSteps
          BY DEF DemonSteps
    <3> QED BY <2>2, <3>1, <3>2 DEF Place
  <2> QED BY <1>7, <2>1, <2>2 DEF AtList
<1>8. CASE AtRelease(k)
  <2>1. phase \in {"release", "unlist"} /\ Total = 2 /\ todo = Left(Release, k) /\ k <= 2
        BY <1>8 DEF AtRelease, Total
  <2> QED BY <1>1, <2>1, Scripts
<1> QED BY <1>2, <1>3, <1>4, <1>5, <1>6, <1>7, <1>8 DEF DemonAt

(* A transfer takes a call one place on.                                   *)
LEMMA PlaceAdvances ==
  ASSUME todo \in Seq(DemonSteps), todo # << >>, todo' = Tail(todo), UNCHANGED <<phase, job>>
  PROVE  Place' = Place + 1
<1>1. Len(todo') = Len(todo) - 1 /\ Len(todo) \in Nat
      BY Beheaded
<1>2. Total' = Total /\ Total \in {1, 2, 3, 6, 12}
      BY DEF Total, Size
<1> QED BY <1>1, <1>2 DEF Place

(* What the invariant says of a call that is worked on, it says of its     *)
(* place.                                                                  *)
LEMMA LagIsAt ==
  ASSUME job \in Jobs, NEW k \in 0..12, DemonAt(k), LagHere
  PROVE  LagAt(k)
<1>1. PICK n \in 0..12 : n = Place /\ LagAt(n)
      BY DEF LagHere
<1>2. CASE phase = "list"
  <2>1. k > 0 <=> n > 0
        BY <1>1, <1>2, PlaceAt
  <2>2. k = 0 <=> n = 0
        BY <2>1
  <2> QED BY <1>1, <1>2, <2>1, <2>2 DEF LagAt
<1>3. CASE phase # "list"
      BY <1>1, <1>3, PlaceAt
<1> QED BY <1>2, <1>3

(* What a transfer of the loop over the blocks does to a programmer that   *)
(* is in the middle of the loop.                                           *)
LEMMA LostTaken ==
  ASSUME lost, NEW t, NEW whole, Take(t, whole)
  PROVE  UNCHANGED <<lost, wants, target, pipe, flash, bus>>
BY DEF Take, Ignored, interface, parser, answers

LEMMA StartTaken ==
  ASSUME ~lost, NEW c \in {"read", "program"}, NEW whole, Take(Byte(c), whole), wants \in {"cmd", "rest"}
  PROVE  /\ UNCHANGED <<lost, target, pipe, flash, bus>>
         /\ wants = "cmd" => wants' = IF c = "read" THEN "read_num" ELSE "program_num"
         /\ wants = "rest" => wants' = "rest"
<1>0. DOMAIN Byte(c) = {"byte"} /\ Byte(c).byte = c
      BY DEF Byte
<1>1. TakeByte(c)
      BY <1>0 DEF Take
<1>2. CASE wants = "cmd"
      BY <1>1, <1>2 DEF TakeByte, Command, Answers
<1>3. CASE wants = "rest"
      BY <1>1, <1>3 DEF TakeByte, Silent, Parse, interface
<1> QED BY <1>2, <1>3

LEMMA NumberTaken ==
  ASSUME ~lost, NEW b, NEW whole, Take(Number(b), whole), wants \in {"read_num", "program_num", "rest"}
  PROVE  /\ UNCHANGED <<lost, flash, bus>>
         /\ wants = "read_num" =>
              /\ wants' = "cmd" /\ target' = b
              /\ pipe' = Append(pipe, [length |-> "block", value |-> flash[b]])
         /\ wants = "program_num" => wants' = "data" /\ target' = b /\ pipe' = pipe
         /\ wants = "rest" => wants' = "rest" /\ target' = target /\ pipe' = pipe
<1>0. DOMAIN Number(b) = {"number"} /\ Number(b).number = b
      BY DEF Number
<1>1. TakeNumber(b)
      BY <1>0 DEF Take
<1>2. CASE wants = "read_num"
      BY <1>1, <1>2 DEF TakeNumber, ReadOut, Put, Parse, interface
<1>3. CASE wants \in {"program_num", "rest"}
      BY <1>1, <1>3 DEF TakeNumber, Silent, Parse, interface
<1> QED BY <1>2, <1>3

LEMMA BlockTaken ==
  ASSUME ~lost, NEW v, NEW whole \in BOOLEAN, Take(Block(v), whole), wants \in {"data", "rest"}
  PROVE  /\ UNCHANGED <<target, pipe, bus>>
         /\ wants = "data" /\ ~whole => wants' = "rest" /\ flash' = flash /\ ~lost'
         /\ wants = "rest" \/ whole =>
              wants' = "cmd" /\ (\E w \in DataWord : flash' = [flash EXCEPT ![target] = w]) /\ (lost' <=> wants = "rest")
<1>0. DOMAIN Block(v) = {"block"}
      BY DEF Block
<1>1. TakeBlock(whole)
      BY <1>0 DEF Take
<1>2. CASE wants = "data" /\ whole
      BY <1>1, <1>2 DEF TakeBlock, Program, Parse, interface
<1>3. CASE wants = "data" /\ ~whole
      BY <1>1, <1>3 DEF TakeBlock, Silent, Parse, interface
<1>4. CASE wants = "rest"
      BY <1>1, <1>4 DEF TakeBlock, Program, Parse, interface
<1> QED BY <1>2, <1>3, <1>4

(* A transfer of a block to a programmer that follows the script: it       *)
(* follows on, or takes what comes for the rest of a block that was cut.   *)
Programs(b) == \E w \in DataWord : flash' = [flash EXCEPT ![b] = w]
LEMMA FollowingSent ==
  ASSUME DemonTypes, job \in Jobs, NEW k \in Nat, AtBlocks(k), Following(k), bus = "present",
         NEW whole \in BOOLEAN, Sends(whole)
  PROVE  /\ ~lost' /\ bus' = "present" /\ Len(pipe') <= 1 /\ wants' # "read_half"
         /\ k + 1 # 6
         /\ \/ Following(k + 1)'
            \/ ~whole /\ k = 2 /\ job.op = "write" /\ pipe' = << >> /\ wants' = "rest" /\ target' = at
         /\ flash' = flash \/ (job.op = "write" /\ k = 2 /\ Programs(at))
<1>1. /\ k \in {0, 1, 2, 3, 4, 5} /\ k < Size /\ Take(Head(todo), whole) /\ "get" \notin DOMAIN Head(todo)
      /\ UNCHANGED <<job, at>> /\ job.op \in {"read", "write"}
      /\ k > 2 => job.op = "write"
      BY BlocksAt DEF Sends, AtBlocks, Size
<1>2. ~lost /\ wants = Wanted(k)
      BY DEF Following
<1>3. CASE k \in {0, 3}
  <2>1. PICK c \in {"read", "program"} : Head(todo) = Byte(c) /\ (c = "read" <=> job.op = "read" \/ k = 3)
        BY <1>1, <1>3, BlocksAt
  <2>2. wants = "cmd" /\ pipe = << >>
        BY <1>1, <1>2, <1>3 DEF Wanted, Following, Due
  <2>3. /\ UNCHANGED <<lost, target, pipe, flash, bus>>
        /\ wants' = IF c = "read" THEN "read_num" ELSE "program_num"
        BY <1>1, <1>2, <2>1, <2>2, StartTaken
  <2>4. Following(k + 1)'
        BY <1>1, <1>2, <1>3, <2>1, <2>2, <2>3 DEF Following, Wanted, Due
  <2> QED BY <1>1, <1>2, <1>3, <2>2, <2>3, <2>4, EmptySeq
<1>4. CASE k \in {1, 4}
  <2>1. Head(todo) = Number(at)
        BY <1>1, <1>4, BlocksAt
  <2>2. wants = (IF k = 4 \/ job.op = "read" THEN "read_num" ELSE "program_num") /\ pipe = << >>
        BY <1>1, <1>2, <1>4 DEF Wanted, Following, Due
  <2>3. UNCHANGED <<lost, flash, bus>>
        BY <1>1, <1>2, <2>1, <2>2, NumberTaken
  <2>4. CASE k = 4 \/ job.op = "read"
    <3>1. /\ wants' = "cmd" /\ target' = at
          /\ pipe' = <<[length |-> "block", value |-> flash[at]]>>
          BY <1>1, <1>2, <2>1, <2>2, <2>4, NumberTaken
    <3>2. Following(k + 1)'
          BY <1>1, <1>2, <1>4, <2>3, <2>4, <3>1 DEF Following, Wanted, Due
    <3>3. Len(pipe') <= 1
          BY <3>1
    <3> QED BY <1>1, <1>2, <1>4, <2>3, <3>1, <3>2, <3>3
  <2>5. CASE k = 1 /\ job.op = "write"
    <3>1. wants' = "data" /\ target' = at /\ pipe' = << >>
          BY <1>1, <1>2, <2>1, <2>2, <2>5, NumberTaken
    <3>2. Following(k + 1)'
          BY <1>1, <1>2, <2>3, <2>5, <3>1 DEF Following, Wanted, Due
    <3> QED BY <1>1, <1>2, <2>3, <2>5, <3>1, <3>2, EmptySeq
  <2> QED BY <1>1, <1>4, <2>4, <2>5
<1>5. CASE k = 2
  <2>1. job.op = "write"
        BY <1>1, <1>5, BlocksAt DEF Get
  <2>2. PICK v : Head(todo) = Block(v)
        BY <1>5, <2>1, BlocksAt
  <2>3. wants = "data" /\ target = at /\ pipe = << >>
        BY <1>2, <1>5, <2>1 DEF Wanted, Following, Due
  <2>4. CASE whole
    <3>1. UNCHANGED <<target, pipe, bus>> /\ wants' = "cmd" /\ Programs(at) /\ ~lost'
          BY <1>1, <1>2, <2>2, <2>3, <2>4, BlockTaken DEF Programs
    <3>2. Following(k + 1)'
          BY <1>1, <1>5, <2>1, <2>3, <3>1 DEF Following, Wanted, Due
    <3> QED BY <1>1, <1>5, <2>1, <2>3, <3>1, <3>2, EmptySeq
  <2>5. CASE ~whole
    <3>1. UNCHANGED <<target, pipe, bus>> /\ wants' = "rest" /\ flash' = flash /\ ~lost'
          BY <1>1, <1>2, <2>2, <2>3, <2>5, BlockTaken
    <3> QED BY <1>1, <1>5, <2>1, <2>3, <2>5, <3>1, EmptySeq
  <2> QED BY <2>4, <2>5
<1>6. k # 5
      BY <1>1, BlocksAt DEF Get
<1> QED BY <1>1, <1>3, <1>4, <1>5, <1>6

(* A transfer of a block after one that was cut short: it is swallowed, or *)
(* completes that one.                                                     *)
LEMMA CutShortSent ==
  ASSUME DemonTypes, Parser, job \in Jobs, NEW k \in Nat, AtBlocks(k), CutShort(k), bus = "present",
         NEW whole \in BOOLEAN, Sends(whole)
  PROVE  /\ lost' => lost \/ (job.cuts /\ ~job.verify)
         /\ bus' = "present" /\ pipe' = << >> /\ wants' # "read_half" /\ k + 1 # 6
         /\ CutShort(k + 1)'
         /\ flash' = flash \/ (~job.verify /\ \E b \in BlocksOf(job) : Programs(b))
<1>1. /\ k \in {0, 1, 2, 3, 4, 5} /\ k < Size /\ Take(Head(todo), whole) /\ "get" \notin DOMAIN Head(todo)
      /\ UNCHANGED <<job, at>>
      /\ k > 2 => job.verify
      BY BlocksAt DEF Sends, AtBlocks, Size
<1>2. job.op = "write" /\ job.cuts /\ pipe = << >> /\ (job.verify => ~lost /\ k \in {3, 4})
  <2>1. k # 5
        BY <1>1, BlocksAt DEF Get
  <2> QED BY <2>1 DEF CutShort
<1>3. BlocksOf(job)' = BlocksOf(job)
      BY <1>1 DEF BlocksOf
<1>4. CASE lost
  <2>1. UNCHANGED <<lost, wants, target, pipe, flash, bus>>
        BY <1>1, <1>4, LostTaken
  <2>2. wants = "cmd"
        BY <1>4 DEF Parser
  <2>3. k + 1 # 6
        BY <1>1, <1>2, <1>4
  <2>4. CutShort(k + 1)'
        BY <1>1, <1>2, <1>4, <2>1 DEF CutShort
  <2> QED BY <1>2, <1>4, <2>1, <2>2, <2>3, <2>4
<1>5. CASE ~lost
  <2>1. wants = "rest" /\ target \in BlocksOf(job)
        BY <1>5 DEF CutShort
  <2>2. CASE k \in {0, 1, 3, 4}
    <3>1. (\E c \in {"read", "program"} : Head(todo) = Byte(c)) \/ Head(todo) = Number(at)
          BY <1>1, <2>2, BlocksAt
    <3>2. UNCHANGED <<lost, target, pipe, flash, bus>> /\ wants' = "rest"
          BY <1>1, <1>5, <2>1, <3>1, StartTaken, NumberTaken
    <3>3. CutShort(k + 1)'
          BY <1>1, <1>2, <1>3, <1>5, <2>1, <2>2, <3>2 DEF CutShort
    <3> QED BY <1>2, <1>5, <2>2, <3>2, <3>3
  <2>3. CASE k = 2
    <3>1. PICK v : Head(todo) = Block(v)
          BY <1>1, <1>2, <2>3, BlocksAt
    <3>2. UNCHANGED <<target, pipe, bus>> /\ wants' = "cmd" /\ Programs(target) /\ lost'
          BY <1>1, <1>5, <2>1, <3>1, BlockTaken DEF Programs
    <3>3. CutShort(k + 1)'
          BY <1>1, <1>2, <2>3, <3>2 DEF CutShort
    <3> QED BY <1>2, <2>1, <2>3, <3>2, <3>3
  <2> QED BY <1>1, <1>2, <2>2, <2>3
<1> QED BY <1>4, <1>5

(* A transfer in the loop over the blocks, wherever the programmer is.     *)
LEMMA BlockSent ==
  ASSUME DemonTypes, Parser, job \in Jobs, NEW k \in Nat, AtBlocks(k), BlockLag(k),
         NEW whole \in BOOLEAN, Sends(whole)
  PROVE  /\ lost' => lost \/ (job.cuts /\ ~job.verify)
         /\ lost' => pipe' = << >>
         /\ Len(pipe') <= 1 /\ wants' # "read_half"
         /\ whole \/ job.cuts => BlockLag(k + 1)'
         /\ flash' = flash \/ (job.op = "write" /\ \E b \in BlocksOf(job) : Programs(b))
<1>1. /\ UNCHANGED <<job, at, image>> /\ bus = "present" /\ BlocksOf(job)' = BlocksOf(job)
      BY DEF Sends, BlocksOf
<1>2. /\ job.op = "read" => ImageSoFar
      /\ job.op = "write" /\ job.verify => \A b \in 0..(at - 1) : Stored(b)
      BY DEF BlockLag
<1>3. at \in BlocksOf(job) /\ at \in Addr /\ at \in Nat /\ 0..(at - 1) \subseteq Addr
      BY FlashBlocksAssumption DEF AtBlocks, Addr
<1>4. ASSUME bus' = "present", Following(k + 1)' \/ CutShort(k + 1)', k + 1 # 6,
             flash' = flash \/ (job.op = "write" /\ (job.verify => Programs(at)))
      PROVE  BlockLag(k + 1)'
  <2>1. job'.op = "read" => ImageSoFar'
    <3>1. SUFFICES ASSUME job.op = "read" PROVE ImageSoFar'
          BY <1>1
    <3> QED BY <1>1, <1>2, <1>4, <3>1 DEF ImageSoFar
  <2>2. ASSUME job.op = "write", job.verify, NEW b \in 0..(at - 1) PROVE Stored(b)'
    <3>1. Stored(b) /\ b # at /\ b \in Addr
          BY <1>2, <1>3, <2>2
    <3>2. flash'[b] = flash[b]
          BY <1>4, <2>2, <3>1 DEF Programs, DemonTypes
    <3> QED BY <1>1, <3>1, <3>2 DEF Stored
  <2>3. job'.op = "write" /\ job'.verify => \A b \in 0..(at' - 1) : Stored(b)'
        BY <1>1, <2>2
  <2> QED BY <1>4, <2>1, <2>3 DEF BlockLag
<1>5. CASE Following(k)
  <2>1. /\ ~lost' /\ bus' = "present" /\ Len(pipe') <= 1 /\ wants' # "read_half"
        /\ k + 1 # 6
        /\ \/ Following(k + 1)'
           \/ ~whole /\ k = 2 /\ job.op = "write" /\ pipe' = << >> /\ wants' = "rest" /\ target' = at
        /\ flash' = flash \/ (job.op = "write" /\ k = 2 /\ Programs(at))
        BY <1>1, <1>5, FollowingSent
  <2>2. ASSUME whole \/ job.cuts PROVE Following(k + 1)' \/ CutShort(k + 1)'
        BY <1>1, <1>3, <2>1, <2>2 DEF CutShort
  <2> QED BY <1>3, <1>4, <2>1, <2>2
<1>6. CASE CutShort(k)
  <2>1. /\ lost' => lost \/ (job.cuts /\ ~job.verify)
        /\ bus' = "present" /\ pipe' = << >> /\ wants' # "read_half" /\ k + 1 # 6
        /\ CutShort(k + 1)'
        /\ flash' = flash \/ (~job.verify /\ \E b \in BlocksOf(job) : Programs(b))
        BY <1>1, <1>6, CutShortSent
  <2>2. job.op = "write"
        BY <1>6 DEF CutShort
  <2>3. Len(pipe') <= 1
        BY <2>1, EmptySeq
  <2> QED BY <1>4, <2>1, <2>2, <2>3
<1> QED BY <1>5, <1>6 DEF BlockLag

(* A command of the other functions, on a programmer that is in step.      *)
LEMMA InStepSent ==
  ASSUME DemonTypes, Parser, ~lost, wants = "cmd", NEW c \in Plain, NEW whole, Take(Byte(c), whole),
         bus = "present", c # "leave"
  PROVE  ~lost' /\ wants' = "cmd" /\ pipe' = pipe /\ bus' = "present" /\ flash' = flash
<1>1. Command(c)
      BY TakeCommand
<1> QED BY <1>1 DEF Command, Plain, Answers

(* The two answers of bad_blocks, when nothing waits before them.          *)
LEMMA TwoAnswers ==
  ASSUME NEW S, NEW a \in S, NEW b \in S
  PROVE  Len(<< >> \o <<a, b>>) = 2
OBVIOUS

(* The question of read_invalid_blocks, on a programmer that is in step    *)
(* and has no answer waiting.                                              *)
LEMMA ListSent ==
  ASSUME DemonTypes, Parser, AcquireLag, NEW whole, Take(Byte("bad_blocks"), whole)
  PROVE  ListLag' /\ flash' = flash
<1>1. Command("bad_blocks")
      BY TakeCommand DEF AcquireLag, InStep
<1>2. pipe = << >>
      BY EmptySeq, PipeIs DEF AcquireLag, InStep
<1>3. Len(pipe') = 2
  <2>1. pipe' = << >> \o <<[length |-> "byte", value |-> "count"], [length |-> "word", value |-> "list"]>>
        BY <1>1, <1>2 DEF Command, Answers
  <2> QED BY <2>1, TwoAnswers
<1> QED BY <1>1, <1>3 DEF Command, Answers, ListLag, AcquireLag, InStep

(* The places of the script of probe_info: questions, answers, commands.   *)
LEMMA ProbeCounts ==
  /\ Answered(0) = 0 /\ Asked(0) = 0 /\ Answered(1) = 0 /\ Asked(1) = 1
  /\ Answered(2) = 1 /\ Asked(2) = 1 /\ Answered(3) = 1 /\ Asked(3) = 2
  /\ Answered(4) = 2 /\ Asked(4) = 2 /\ Answered(5) = 2 /\ Asked(5) = 3
  /\ Answered(6) = 3 /\ Asked(6) = 3 /\ Answered(7) = 3 /\ Asked(7) = 3
  /\ Answered(8) = 3 /\ Asked(8) = 3 /\ Answered(9) = 3 /\ Asked(9) = 4
  /\ Answered(10) = 4 /\ Asked(10) = 4 /\ Answered(11) = 4 /\ Asked(11) = 4
  /\ Answered(12) = 4 /\ Asked(12) = 4
BY DEF Answered, Asked

(* A question or a command of probe_info.                                  *)
LEMMA ProbeSent ==
  ASSUME DemonTypes, Parser, Few \in Nat, NEW k \in Nat, AtProbe(k), ProbeLag(k),
         NEW whole, Sends(whole), UNCHANGED Few
  PROVE  ~lost' /\ Room(Few + 1)' /\ ProbeLag(k + 1)' /\ flash' = flash
<1>1. /\ k \in {0, 2, 4, 6, 7, 8, 10, 11} /\ Take(Head(todo), whole)
      BY ProbeAt DEF Sends, Get
<1>2. /\ ~lost /\ wants # "read_num"
      /\ k = 8 /\ wants = "cmd" => acquired
      BY DEF AtProbe, ProbeLag, Early, Settled
<1>3. ASSUME NEW n \in {0, 1, 2, 3, 4}, Answered(k) = n, Asked(k) = n, NEW c \in Asking \cup Plain,
             Head(todo) = Byte(c), c \in Asking => Asked(k + 1) = n + 1 /\ n < 4 /\ c # "mode" /\ (c = "nand_id" => k = 8),
             c \in Plain => Asked(k + 1) = n, Answered(k + 1) = n
      PROVE  ~lost' /\ Room(Few + 1)' /\ ProbeLag(k + 1)' /\ flash' = flash
  <2>1. /\ AtQuestion(n, n) /\ Take(Byte(c), whole) /\ flash' = flash
        BY <1>1, <1>3, ByteTaken DEF ProbeLag
  <2>2. PICK m \in Nat : m = Few
        OBVIOUS
  <2>3. Room(m)
        BY <1>3, <2>2 DEF ProbeLag, Room
  <2>4. Room(m + 1)' /\ (c \in Plain => Room(m)')
        BY <1>2, <1>3, <2>1, <2>2, <2>3, RoomForOne DEF Plain
  <2>5. CASE c \in Asking
    <3>1. ~lost' /\ AtQuestion(n, n + 1)'
          BY <1>2, <1>3, <2>1, <2>5, QuestionSent
    <3> QED BY <1>3, <2>1, <2>2, <2>4, <2>5, <3>1 DEF ProbeLag, Room
  <2>6. CASE c \in Plain
    <3>1. ~lost' /\ AtQuestion(n, n)'
          BY <1>2, <1>3, <2>1, <2>6, PlainSent
    <3> QED BY <1>3, <2>1, <2>2, <2>4, <2>6, <3>1 DEF ProbeLag, Room
  <2> QED BY <2>5, <2>6
<1>4. CASE k \in {0, 2, 4, 8}
  <2>1. PICK c \in {"device_id", "protocol", "firmware", "nand_id"} : Head(todo) = Byte(c) /\ (c = "nand_id" => k = 8)
        BY <1>4, ProbeAt
  <2>2. c \in Asking /\ c \notin Plain
        BY DEF Asking, Plain
  <2>3. PICK n \in {0, 1, 2, 3} : Answered(k) = n /\ Asked(k) = n /\ Answered(k + 1) = n /\ Asked(k + 1) = n + 1
    <3>1. /\ k = 0 => Answered(k) = 0 /\ Asked(k) = 0 /\ Answered(k + 1) = 0 /\ Asked(k + 1) = 0 + 1
          /\ k = 2 => Answered(k) = 1 /\ Asked(k) = 1 /\ Answered(k + 1) = 1 /\ Asked(k + 1) = 1 + 1
          /\ k = 4 => Answered(k) = 2 /\ Asked(k) = 2 /\ Answered(k + 1) = 2 /\ Asked(k + 1) = 2 + 1
          /\ k = 8 => Answered(k) = 3 /\ Asked(k) = 3 /\ Answered(k + 1) = 3 /\ Asked(k + 1) = 3 + 1
          BY DEF Answered, Asked
    <3> QED BY <1>4, <3>1
  <2> QED BY <1>3, <2>1, <2>2, <2>3
<1>5. CASE k \in {6, 7, 10, 11}
  <2>1. PICK c \in {"reset", "acquire", "release", "deassert"} : Head(todo) = Byte(c)
        BY <1>5, ProbeAt
  <2>2. c \in Plain /\ c \notin Asking
        BY DEF Asking, Plain
  <2>3. PICK n \in {3, 4} : Answered(k) = n /\ Asked(k) = n /\ Answered(k + 1) = n /\ Asked(k + 1) = n
    <3>1. /\ k \in {6, 7} => Answered(k) = 3 /\ Asked(k) = 3 /\ Answered(k + 1) = 3 /\ Asked(k + 1) = 3
          /\ k \in {10, 11} => Answered(k) = 4 /\ Asked(k) = 4 /\ Answered(k + 1) = 4 /\ Asked(k + 1) = 4
          BY DEF Answered, Asked
    <3> QED BY <1>5, <3>1
  <2> QED BY <1>3, <2>1, <2>2, <2>3
<1> QED BY <1>1, <1>4, <1>5

(* What a transfer does to the programmer, whatever the call does next.    *)
(* Only in the loop over the blocks, and only after a block of an          *)
(* unverified write was cut short, does the programmer get lost.           *)
LEMMA LagSends ==
  ASSUME DemonTypes, Parser, job \in Jobs, Few \in Nat, Few <= 4, Few > 0, Room(Few + 1), lost => pipe = << >>,
         NEW k \in 0..12, DemonAt(k), LagAt(k), NEW whole \in BOOLEAN, Sends(whole), UNCHANGED Few
  PROVE  /\ lost' => pipe' = << >>
         /\ Room(Few + 1)'
         /\ lost' => lost \/ (job.cuts /\ ~job.verify)
         /\ flash' = flash \/ (phase = "blocks" /\ job.op = "write" /\ \E b \in BlocksOf(job) : Programs(b))
         /\ UNCHANGED phase /\ (whole \/ job.cuts) => LagAt(k + 1)'
         /\ phase = "list" => k = 0
<1>0. /\ k \in Nat /\ todo # << >> /\ "get" \notin DOMAIN Head(todo) /\ Take(Head(todo), whole)
      /\ bus = "present" /\ UNCHANGED <<job, info, at, image>>
      BY DEF Sends
<1>1. CASE AtMode(k)
  <2>1. k = 0 /\ Head(todo) = Byte("mode") /\ phase = "mode"
        BY <1>0, <1>1, ModeAt, PhaseIs DEF Get
  <2>2. Room(Few)
        BY <2>1 DEF LagAt, ModeLag
  <2>3. ModeLag(1)' /\ Room(Few + 1)' /\ (lost' => pipe' = << >>)
        BY <1>0, <2>1, <2>2, ModeSent
  <2>4. "mode" \in Asking
        BY DEF Asking
  <2>5. lost' = lost /\ flash' = flash
        BY <1>0, <2>1, <2>4, ByteTaken
  <2>6. UNCHANGED phase => LagAt(k + 1)'
        BY <2>1, <2>3 DEF LagAt
  <2> QED BY <2>1, <2>3, <2>5, <2>6
<1>2. CASE AtLeave(k)
  <2>1. k = 0 /\ Head(todo) = Byte("leave") /\ phase = "leave" /\ wants # "read_num"
        BY <1>0, <1>2, LeaveAt, PhaseIs DEF AtLeave, Early
  <2>2. ~lost /\ AtQuestion(0, 0) /\ Room(Few)
        BY <2>1 DEF LagAt, LeaveLag
  <2>3. "leave" \in Plain
        BY DEF Plain
  <2>4. ~lost' /\ AtQuestion(0, 0)'
        BY <1>0, <2>1, <2>2, <2>3, PlainSent
  <2>5. PICK m \in Nat : m = Few
        OBVIOUS
  <2>6. Room(m)' /\ flash' = flash
        BY <1>0, <2>1, <2>2, <2>3, <2>5, RoomForOne, ByteTaken
  <2>7. LeaveLag' /\ Room(Few + 1)'
        BY <2>4, <2>5, <2>6 DEF LeaveLag, Room
  <2>8. UNCHANGED phase => LagAt(k + 1)'
        BY <2>1, <2>7 DEF LagAt
  <2> QED BY <2>1, <2>4, <2>6, <2>7, <2>8
<1>3. CASE AtProbe(k)
  <2>1. phase = "probe" /\ ProbeLag(k)
        BY <1>0, <1>3, PhaseIs DEF LagAt
  <2>2. ~lost' /\ Room(Few + 1)' /\ ProbeLag(k + 1)' /\ flash' = flash
        BY <1>0, <1>3, <2>1, ProbeSent
  <2>3. UNCHANGED phase => LagAt(k + 1)'
        BY <2>1, <2>2 DEF LagAt
  <2> QED BY <2>1, <2>2, <2>3
<1>4. CASE AtBlocks(k)
  <2>1. phase = "blocks" /\ BlockLag(k)
        BY <1>0, <1>4, PhaseIs DEF LagAt
  <2>2. /\ lost' => lost \/ (job.cuts /\ ~job.verify)
        /\ lost' => pipe' = << >>
        /\ Len(pipe') <= 1 /\ wants' # "read_half"
        /\ whole \/ job.cuts => BlockLag(k + 1)'
        /\ flash' = flash \/ (job.op = "write" /\ \E b \in BlocksOf(job) : Programs(b))
        BY <1>0, <1>4, <2>1, BlockSent
  <2>3. Parser'
        BY <1>0, <1>4, BlocksSends
  <2>4. Len(pipe') \in Nat
        BY <2>3, LenProperties DEF Parser, Chain
  <2>5. Room(Few + 1)'
        BY <2>2, <2>4 DEF Room
  <2>6. UNCHANGED phase /\ (whole \/ job.cuts) => LagAt(k + 1)'
        BY <2>1, <2>2 DEF LagAt
  <2> QED BY <2>1, <2>2, <2>5, <2>6
<1>5. CASE AtAcquire(k)
  <2>1. phase = "acquire" /\ AcquireLag
        BY <1>0, <1>5, PhaseIs DEF LagAt
  <2>2. PICK c \in {"reset", "acquire"} : Head(todo) = Byte(c)
        BY <1>0, <1>5, AcquireAt
  <2>3. c \in Plain /\ c # "leave"
        BY DEF Plain
  <2>4. ~lost' /\ wants' = "cmd" /\ pipe' = pipe /\ bus' = "present" /\ flash' = flash
        BY <1>0, <2>1, <2>2, <2>3, InStepSent DEF AcquireLag, InStep
  <2>5. AcquireLag' /\ Room(Few + 1)'
        BY <2>1, <2>4 DEF AcquireLag, InStep, Room
  <2>6. UNCHANGED phase => LagAt(k + 1)'
        BY <2>1, <2>5 DEF LagAt
  <2> QED BY <2>1, <2>4, <2>5, <2>6
<1>6. CASE AtList(k)
  <2>1. phase = "list" /\ k = 0 /\ Head(todo) = Byte("bad_blocks")
        BY <1>0, <1>6, ListAt, PhaseIs DEF Get
  <2>2. AcquireLag
        BY <2>1 DEF LagAt
  <2>3. ListLag' /\ flash' = flash
        BY <1>0, <2>1, <2>2, ListSent
  <2>4. Parser'
        BY <1>0, <1>6, ListSends
  <2>5. Len(pipe') \in Nat
        BY <2>4, LenProperties DEF Parser, Chain
  <2>6. Room(Few + 1)' /\ ~lost'
        BY <2>3, <2>5 DEF Room, ListLag
  <2>7. UNCHANGED phase => LagAt(k + 1)'
        BY <2>1, <2>3 DEF LagAt
  <2> QED BY <2>1, <2>3, <2>6, <2>7
<1>7. CASE AtRelease(k)
  <2>1. phase \in {"release", "unlist"} /\ ListLag
        BY <1>0, <1>7, PhaseIs DEF LagAt
  <2>2. PICK c \in {"release", "deassert"} : Head(todo) = Byte(c)
        BY <1>0, <1>7, ReleaseAt
  <2>3. c \in Plain /\ c # "leave"
        BY DEF Plain
  <2>4. ~lost' /\ wants' = "cmd" /\ pipe' = pipe /\ bus' = "present" /\ flash' = flash
        BY <1>0, <2>1, <2>2, <2>3, InStepSent DEF ListLag
  <2>5. Len(pipe) \in Nat
        BY PipeIs
  <2>6. ListLag' /\ Room(Few + 1)'
        BY <2>1, <2>4, <2>5 DEF ListLag, Room
  <2>7. UNCHANGED phase => LagAt(k + 1)'
        BY <2>1, <2>6 DEF LagAt
  <2> QED BY <2>1, <2>4, <2>6, <2>7
<1> QED BY <1>1, <1>2, <1>3, <1>4, <1>5, <1>6, <1>7 DEF DemonAt

-----------------------------------------------------------------------------
(* A call of DemoN that is worked on.                                      *)
LagCall ==
  /\ DemonTypes /\ DemonInv /\ CourseOK /\ job \in Jobs \cup {None} /\ calls \in Nat /\ LagInv
  /\ programmer.kind = "demon" /\ Active

(* What is known of it.                                                    *)
LEMMA LagKnown ==
  ASSUME LagCall
  PROVE  /\ job # None /\ job \in Jobs /\ Few > 0 /\ LagBase /\ Parser /\ result = "none"
         /\ Few \in Nat /\ Few <= 4
         /\ \E k \in 0..12 : DemonAt(k)
         /\ \A k \in 0..12 : DemonAt(k) => LagAt(k) /\ (phase # "list" => Place = k)
<1>0. job # None /\ job \in Jobs /\ result = "none"
      BY DEF LagCall, CourseOK, Active
<1>1. LagBase /\ Few > 0 /\ LagHere
      BY <1>0 DEF LagCall, LagInv, LagBase
<1>2. Parser /\ \E k \in 0..12 : DemonAt(k)
      BY DemonIsAt DEF LagCall
<1>3. ASSUME NEW k \in 0..12, DemonAt(k) PROVE LagAt(k) /\ (phase # "list" => Place = k)
      BY <1>0, <1>1, <1>3, LagIsAt, PlaceAt
<1>4. Few \in Nat /\ Few <= 4
      BY DEF LagCall, Few
<1> QED BY <1>0, <1>1, <1>2, <1>3, <1>4

(* A call that goes on, and one that ends.                                 *)
LEMMA LagGoesOn ==
  ASSUME LagBase', Active', NEW k \in 0..12, k = Place', LagAt(k)'
  PROVE  LagInv'
BY DEF LagInv, LagHere

LEMMA LagFails ==
  ASSUME LagBase', ~Active', result' # "ok"
  PROVE  LagInv'
BY DEF LagInv, OkSays

(* A read takes one answer at most, which leaves room.                     *)
LEMMA LagBaseReads ==
  ASSUME Parser, Few \in Nat, LagBase, pipe' = pipe \/ (pipe # << >> /\ pipe' = Tail(pipe)), UNCHANGED <<wants, lost, Few, job>>
  PROVE  LagBase' /\ Len(pipe') <= Len(pipe) /\ Len(pipe') \in Nat /\ Len(pipe) \in Nat
<1>1. pipe \in Seq(AnAnswer) /\ Len(pipe) \in Nat
      BY PipeIs
<1>2. CASE pipe' = pipe
      BY <1>1, <1>2 DEF LagBase, Room
<1>3. CASE pipe # << >> /\ pipe' = Tail(pipe)
  <2>1. Len(pipe') \in Nat /\ Len(pipe') = Len(pipe) - 1
        BY <1>1, <1>3, ShrunkPipe DEF Shrinks
  <2>2. ~lost
        BY <1>3 DEF LagBase
  <2>3. Room(Few + 1)'
        BY <1>1, <2>1 DEF LagBase, Room
  <2> QED BY <1>1, <2>1, <2>2, <2>3 DEF LagBase
<1> QED BY <1>2, <1>3

(* An error ends the call, or makes it release the flash.                  *)
LEMMA LagDrops ==
  ASSUME LagCall, Fail, LagBase', phase = "list" => ListLag', stage = "talk", UNCHANGED job
  PROVE  LagInv'
<1>1. CASE phase = "list"
  <2>1. phase' = "unlist" /\ todo' = Release /\ stage' = "talk"
        BY <1>1 DEF Fail, Enter
  <2>2. Place' = 0
    <3>1. Total' = 2
          BY <2>1 DEF Total
    <3>2. Len(todo') = 2
          BY <2>1 DEF Release
    <3> QED BY <3>1, <3>2 DEF Place
  <2>3. LagAt(0)' /\ Active'
        BY <1>1, <2>1 DEF LagAt, Active
  <2> QED BY <2>2, <2>3, LagGoesOn
<1>2. CASE phase # "list"
  <2>1. result' = "failed" /\ stage' = "drop"
        BY <1>2 DEF Fail, Return
  <2> QED BY <2>1, LagFails DEF Active
<1> QED BY <1>1, <1>2

(* A transfer to the programmer, whether it works or fails.                *)
LEMMA LagSendTransfer ==
  ASSUME LagCall, SendTransfer
  PROVE  /\ LagInv'
         /\ lost' => lost \/ (job.cuts /\ ~job.verify)
         /\ flash' = flash \/ (phase = "blocks" /\ job.op = "write" /\ \E b \in BlocksOf(job) : Programs(b))
<1>1. /\ stage = "talk" /\ todo # << >> /\ "get" \notin DOMAIN Head(todo)
      /\ UNCHANGED <<job, Few, info, at, image>>
      BY DEF SendTransfer, call, Few
<1>2. /\ job # None /\ job \in Jobs /\ Few > 0 /\ LagBase /\ Parser /\ Few \in Nat /\ Few <= 4 /\ DemonTypes
      BY LagKnown DEF LagCall
<1>3. PICK k \in 0..12 : DemonAt(k)
      BY LagKnown
<1>4. LagAt(k) /\ (phase # "list" => Place = k)
      BY <1>3, LagKnown
<1>5. ASSUME NEW whole \in BOOLEAN, Alive, Take(Head(todo), whole)
      PROVE  /\ LagBase' /\ (lost' => lost \/ (job.cuts /\ ~job.verify))
             /\ flash' = flash \/ (phase = "blocks" /\ job.op = "write" /\ \E b \in BlocksOf(job) : Programs(b))
             /\ UNCHANGED phase /\ (whole \/ job.cuts) => LagAt(k + 1)'
             /\ phase = "list" => k = 0
  <2>1. Sends(whole)
        BY <1>1, <1>5 DEF Sends, Alive
  <2>2. lost => pipe = << >>
        BY <1>2 DEF LagBase
  <2>3. Room(Few + 1)
        BY <1>2 DEF LagBase
  <2>4. /\ lost' => pipe' = << >>
        /\ Room(Few + 1)'
        /\ lost' => lost \/ (job.cuts /\ ~job.verify)
        /\ flash' = flash \/ (phase = "blocks" /\ job.op = "write" /\ \E b \in BlocksOf(job) : Programs(b))
        /\ UNCHANGED phase /\ (whole \/ job.cuts) => LagAt(k + 1)'
        /\ phase = "list" => k = 0
        BY <1>1, <1>2, <1>3, <1>4, <2>1, <2>2, <2>3, LagSends
  <2>5. LagBase'
        BY <1>1, <1>2, <2>4 DEF LagBase
  <2> QED BY <2>4, <2>5
<1>6. CASE \E whole \in (IF job.cuts THEN BOOLEAN ELSE {TRUE}) : Alive /\ Take(Head(todo), whole) /\ Continue
  <2>1. PICK whole \in BOOLEAN : Alive /\ Take(Head(todo), whole) /\ Continue /\ (whole \/ job.cuts)
        BY <1>6
  <2>2. /\ LagBase' /\ (lost' => lost \/ (job.cuts /\ ~job.verify))
        /\ flash' = flash \/ (phase = "blocks" /\ job.op = "write" /\ \E b \in BlocksOf(job) : Programs(b))
        /\ UNCHANGED phase /\ (whole \/ job.cuts) => LagAt(k + 1)'
        /\ phase = "list" => k = 0
        BY <1>5, <2>1
  <2>3. UNCHANGED <<stage, phase>> /\ todo' = Tail(todo)
        BY <2>1 DEF Continue
  <2>4. todo \in Seq(DemonSteps)
        BY <1>2, <1>3, PlaceAt
  <2>5. Place' = Place + 1
        BY <1>1, <2>3, <2>4, PlaceAdvances
  <2>6. Place = k
        BY <1>2, <1>3, <1>4, <2>2, PlaceAt
  <2>7. Place <= 11
    <3>1. Len(todo) \in Nat /\ Len(todo) # 0
          BY <1>1, <2>4, EmptySeq, LenProperties
    <3>2. Total \in {1, 2, 3, 6, 12}
          BY DEF Total, Size
    <3> QED BY <3>1, <3>2 DEF Place
  <2>8. PICK n \in 0..12 : n = k + 1
        BY <2>6, <2>7
  <2>9. LagAt(n)'
        BY <2>1, <2>2, <2>3, <2>8
  <2>10. Active'
        BY <2>3 DEF LagCall, Active
  <2> QED BY <2>2, <2>5, <2>6, <2>8, <2>9, <2>10, LagGoesOn
<1>7. CASE \E whole \in BOOLEAN : Alive /\ Take(Head(todo), whole) /\ Fail
  <2>1. PICK whole \in BOOLEAN : Alive /\ Take(Head(todo), whole) /\ Fail
        BY <1>7
  <2>2. /\ LagBase' /\ (lost' => lost \/ (job.cuts /\ ~job.verify))
        /\ flash' = flash \/ (phase = "blocks" /\ job.op = "write" /\ \E b \in BlocksOf(job) : Programs(b))
        BY <1>5, <2>1
  <2>3. phase = "list" => ListLag'
    <3>1. SUFFICES ASSUME phase = "list" PROVE ListLag'
          OBVIOUS
    <3>2. AtList(k)
          BY <1>3, <3>1 DEF DemonAt, AtMode, AtLeave, AtProbe, AtBlocks, AtAcquire, AtRelease
    <3>3. k \in Nat
          OBVIOUS
    <3>4. k = 0 /\ Head(todo) = Byte("bad_blocks")
          BY <1>1, <3>2, <3>3, ListAt DEF Get
    <3>5. AcquireLag
          BY <1>4, <3>1, <3>4 DEF LagAt
    <3> QED BY <1>2, <2>1, <3>4, <3>5, ListSent
  <2> QED BY <1>1, <2>1, <2>2, <2>3, LagDrops
<1>8. CASE Ignored /\ Fail
  <2>1. UNCHANGED <<wants, lost, pipe, bus, flash>>
        BY <1>8 DEF Ignored, interface, parser, answers
  <2>2. LagBase'
        BY <1>1, <1>2, <2>1 DEF LagBase, Room
  <2>3. phase = "list" => ListLag'
    <3>1. AcquireLag \/ ListLag => ListLag'
          BY <2>1 DEF AcquireLag, ListLag, InStep
    <3>2. k > 0 \/ k = 0
          OBVIOUS
    <3> QED BY <1>4, <3>1, <3>2 DEF LagAt
  <2> QED BY <1>1, <1>8, <2>1, <2>2, <2>3, LagDrops
<1> QED BY <1>6, <1>7, <1>8 DEF SendTransfer

-----------------------------------------------------------------------------
(* A read that fails, or whose answer is refused.                          *)
LEMMA LagReadError ==
  ASSUME LagCall, NEW use, Getting(use), Unmoved, UNCHANGED <<info, at, image>>,
         pipe' = pipe \/ (pipe # << >> /\ pipe' = Tail(pipe)), Fail
  PROVE  LagInv'
<1>1. /\ UNCHANGED <<bus, wants, lost, Few, job>> /\ stage = "talk"
      BY DEF Unmoved, interface, parser, call, Getting, Few
<1>2. job # None /\ job \in Jobs /\ LagBase /\ Parser /\ Few \in Nat
      BY LagKnown DEF LagCall
<1>3. LagBase' /\ Len(pipe') <= Len(pipe) /\ Len(pipe') \in Nat /\ Len(pipe) \in Nat
      BY <1>1, <1>2, LagBaseReads
<1>4. ASSUME phase = "list" PROVE ListLag'
  <2>1. PICK k \in 0..12 : DemonAt(k) /\ LagAt(k)
        BY LagKnown
  <2>2. AtList(1) \/ AtList(2)
        BY <1>2, <1>4, <2>1, GettingAt, PhaseIs
  <2>3. PICK n \in {1, 2} : AtList(n)
        BY <2>2
  <2>4. n \in 0..12 /\ DemonAt(n)
        BY <2>3 DEF DemonAt
  <2>5. LagAt(n) /\ n > 0
        BY <2>4, LagKnown
  <2>6. ListLag
        BY <1>4, <2>5 DEF LagAt
  <2> QED BY <1>1, <1>3, <2>6 DEF ListLag
<1> QED BY <1>1, <1>3, <1>4, LagDrops

(* A length with two bounds.                                               *)
LEMMA OfLength ==
  ASSUME NEW S, NEW s \in Seq(S), NEW n \in Nat, Len(s) <= n, n <= Len(s)
  PROVE  Len(s) = n
BY LenProperties

(* The lengths of the scripts a call begins with, and its place there.     *)
LEMMA FirstPlace ==
  /\ phase' = "mode" /\ todo' = GetMode => Place' = 0
  /\ phase' = "leave" /\ todo' = <<Byte("leave")>> => Place' = 0
  /\ phase' = "probe" /\ todo' = ProbeInfo => Place' = 0
  /\ phase' = "acquire" /\ todo' = Acquire => Place' = 0
  /\ phase' = "list" /\ todo' = Listing => Place' = 0
  /\ phase' = "list" /\ todo' = <<Get("word", "list")>> => Place' = 1
  /\ phase' = "release" /\ todo' = Release => Place' = 0
<1>1. Len(ProbeInfo) = 12
      BY Scripts, OfLength
<1>2. phase' = "probe" /\ todo' = ProbeInfo => Place' = 0
      BY <1>1 DEF Place, Total
<1>3. phase' = "leave" /\ todo' = <<Byte("leave")>> => Place' = 0
      BY DEF Place, Total
<1>4. /\ phase' = "mode" /\ todo' = GetMode => Place' = 0
      /\ phase' = "acquire" /\ todo' = Acquire => Place' = 0
      BY DEF Place, Total, GetMode, Acquire
<1>5. phase' = "list" /\ todo' = Listing => Place' = 0
      BY DEF Place, Total, Listing
<1>6. phase' = "list" /\ todo' = <<Get("word", "list")>> => Place' = 1
      BY DEF Place, Total
<1>7. phase' = "release" /\ todo' = Release => Place' = 0
      BY DEF Place, Total, Release
<1> QED BY <1>2, <1>3, <1>4, <1>5, <1>6, <1>7

(* The mode is read.                                                       *)
LEMMA LagModeIn ==
  ASSUME LagCall, ModeIn
  PROVE  LagInv'
<1>1. Getting("mode") /\ Unmoved
      BY DEF ModeIn
<1>2. /\ UNCHANGED <<bus, wants, lost, Few, job>> /\ stage = "talk"
      BY <1>1 DEF Unmoved, interface, parser, call, Getting, Few
<1>3. job # None /\ job \in Jobs /\ LagBase /\ Parser /\ Few \in Nat
      BY LagKnown DEF LagCall
<1>4. CASE ReadError("byte")
      BY <1>1, <1>4, Shortened, LagReadError DEF ReadError
<1>5. CASE ReadBulk("byte") /\ (Enter("probe", ProbeInfo) \/ Enter("leave", <<Byte("leave")>>))
  <2>1. AtMode(1)
    <3>1. PICK k \in 0..12 : DemonAt(k)
          BY LagKnown
    <3> QED BY <1>1, <1>3, <3>1, GettingAt
  <2>2. ModeLag(1)
    <3>1. 1 \in 0..12 /\ DemonAt(1) /\ phase = "mode"
          BY <2>1 DEF DemonAt, AtMode
    <3>2. LagAt(1)
          BY <3>1, LagKnown
    <3> QED BY <3>1, <3>2 DEF LagAt
  <2>3. pipe # << >> /\ Arrived("byte") /\ pipe' = Tail(pipe)
        BY <1>5 DEF ReadBulk, Arrived
  <2>4. LeaveLag'
        BY <1>2, <1>3, <2>2, <2>3, ModeRead DEF LagBase
  <2>5. LagBase'
        BY <1>2, <1>3, <2>3, LagBaseReads
  <2>6. Active'
        BY <1>2, <1>5 DEF Active, Enter
  <2>7. LagAt(0)' /\ Place' = 0
    <3>1. CASE Enter("probe", ProbeInfo)
      <4>1. phase' = "probe" /\ todo' = ProbeInfo
            BY <3>1 DEF Enter
      <4>2. ProbeLag(0)'
            BY <1>2, <1>3, <2>4, ProbeCounts DEF LeaveLag, ProbeLag, Room
      <4>3. Place' = 0
            BY <4>1, FirstPlace
      <4> QED BY <4>1, <4>2, <4>3 DEF LagAt
    <3>2. CASE Enter("leave", <<Byte("leave")>>)
      <4>1. phase' = "leave" /\ todo' = <<Byte("leave")>>
            BY <3>2 DEF Enter
      <4>2. Place' = 0
            BY <4>1, FirstPlace
      <4> QED BY <2>4, <4>1, <4>2 DEF LagAt
    <3> QED BY <1>5, <3>1, <3>2
  <2> QED BY <2>5, <2>6, <2>7, LagGoesOn
<1> QED BY <1>4, <1>5 DEF ModeIn

(* An answer of probe_info is read.                                        *)
LEMMA LagInfoIn ==
  ASSUME LagCall, InfoIn
  PROVE  LagInv'
<1>1. Getting("info") /\ Unmoved
      BY DEF InfoIn
<1>2. /\ UNCHANGED <<bus, wants, lost, Few, job>> /\ stage = "talk" /\ todo # << >>
      BY <1>1 DEF Unmoved, interface, parser, call, Getting, Few
<1>3. job # None /\ job \in Jobs /\ LagBase /\ Parser /\ Few \in Nat
      BY LagKnown DEF LagCall
<1>4. CASE ReadError("word")
      BY <1>1, <1>4, Shortened, LagReadError DEF ReadError
<1>5. CASE ReadBulk("word") /\ Continue
  <2>1. PICK k \in {1, 3, 5, 9} : AtProbe(k)
    <3>1. PICK k \in 0..12 : DemonAt(k)
          BY LagKnown
    <3> QED BY <1>1, <1>3, <3>1, GettingAt
  <2>2. ProbeLag(k) /\ Place = k /\ phase = "probe" /\ todo \in Seq(DemonSteps)
    <3>1. k \in 0..12 /\ DemonAt(k) /\ phase = "probe"
          BY <2>1 DEF DemonAt, AtProbe
    <3>2. LagAt(k) /\ Place = k
          BY <3>1, LagKnown
    <3>3. todo \in Seq(DemonSteps)
          BY <1>3, <3>1, PlaceAt
    <3> QED BY <3>1, <3>2, <3>3 DEF LagAt
  <2>3. pipe # << >> /\ Arrived("word") /\ pipe' = Tail(pipe)
        BY <1>5 DEF ReadBulk, Arrived
  <2>4. PICK n \in {0, 1, 2, 3} : /\ Answered(k) = n /\ Asked(k) = n + 1
                                  /\ Answered(k + 1) = n + 1 /\ Asked(k + 1) = n + 1
    <3>1. /\ k = 1 => Answered(k) = 0 /\ Asked(k) = 0 + 1 /\ Answered(k + 1) = 0 + 1 /\ Asked(k + 1) = 0 + 1
          /\ k = 3 => Answered(k) = 1 /\ Asked(k) = 1 + 1 /\ Answered(k + 1) = 1 + 1 /\ Asked(k + 1) = 1 + 1
          /\ k = 5 => Answered(k) = 2 /\ Asked(k) = 2 + 1 /\ Answered(k + 1) = 2 + 1 /\ Asked(k + 1) = 2 + 1
          /\ k = 9 => Answered(k) = 3 /\ Asked(k) = 3 + 1 /\ Answered(k + 1) = 3 + 1 /\ Asked(k + 1) = 3 + 1
          BY DEF Answered, Asked
    <3> QED BY <3>1
  <2>5. ~lost' /\ AtQuestion(n + 1, n + 1)'
        BY <1>2, <1>3, <2>2, <2>3, <2>4, WordRead DEF ProbeLag
  <2>6. LagBase' /\ Len(pipe') = Len(pipe) - 1 /\ Len(pipe) \in Nat
    <3>1. pipe \in Seq(AnAnswer)
          BY <1>3, PipeIs
    <3> QED BY <1>2, <1>3, <2>3, <3>1, LagBaseReads, ShrunkPipe DEF Shrinks
  <2>7. Room(Few)'
        BY <1>2, <1>3, <2>6 DEF LagBase, Room
  <2>8. ProbeLag(k + 1)'
        BY <1>2, <1>3, <2>4, <2>5, <2>7 DEF ProbeLag, Room
  <2>9. Place' = k + 1
        BY <1>2, <1>5, <2>2, PlaceAdvances DEF Continue
  <2>10. LagAt(k + 1)' /\ Active'
        BY <1>2, <1>5, <2>2, <2>8 DEF LagAt, Active, Continue
  <2> QED BY <2>6, <2>9, <2>10, LagGoesOn
<1> QED BY <1>4, <1>5 DEF InfoIn

(* A block is read: the one that was asked for.                            *)
LEMMA LagBlockIn ==
  ASSUME LagCall, BlockIn
  PROVE  LagInv'
<1>1. Getting("image") /\ Unmoved
      BY DEF BlockIn
<1>2. /\ UNCHANGED <<bus, wants, lost, target, flash, Few, job>> /\ stage = "talk" /\ todo # << >>
      BY <1>1 DEF Unmoved, interface, parser, call, Getting, Few
<1>3. job # None /\ job \in Jobs /\ LagBase /\ Parser /\ Few \in Nat /\ DemonTypes
      BY LagKnown DEF LagCall
<1>4. CASE ReadError("block")
      BY <1>1, <1>4, Shortened, LagReadError DEF ReadError
<1>5. CASE /\ ReadBulk("block") /\ image' = Append(image, Head(pipe).value)
           /\ Continue /\ UNCHANGED <<info, at>>
  <2>1. AtBlocks(2) /\ job.op = "read" /\ 2 \in 0..12 /\ DemonAt(2) /\ phase = "blocks"
    <3>1. PICK k \in 0..12 : DemonAt(k)
          BY LagKnown
    <3>2. AtBlocks(2) /\ job.op = "read"
          BY <1>1, <1>3, <3>1, GettingAt
    <3> QED BY <3>2 DEF DemonAt, AtBlocks
  <2>2. BlockLag(2) /\ Place = 2 /\ todo \in Seq(DemonSteps)
    <3>1. LagAt(2) /\ Place = 2
          BY <2>1, LagKnown
    <3> QED BY <1>3, <2>1, <3>1, PlaceAt DEF LagAt
  <2>3. bus = "present" /\ Following(2) /\ ImageSoFar
        BY <2>1, <2>2 DEF BlockLag, CutShort
  <2>4. ~lost /\ wants = "cmd" /\ pipe = <<[length |-> "block", value |-> flash[at]]>>
        BY <2>1, <2>3 DEF Following, Wanted, Due
  <2>5. pipe' = << >> /\ Head(pipe).value = flash[at]
        BY <1>5, <2>4 DEF ReadBulk
  <2>6. Following(3)'
        BY <1>2, <2>1, <2>4, <2>5 DEF Following, Wanted, Due
  <2>7. flash[at] \in DataWord /\ at \in Nat /\ Len(image) = at
        BY <1>3, <2>1, FlashBlocksAssumption DEF AtBlocks, Addr, DemonTypes
  <2>8. ImageSoFar'
    <3>1. image \in Seq(DataWord) /\ image' = Append(image, flash[at])
          BY <1>5, <2>3, <2>5 DEF ImageSoFar
    <3>2. /\ image' \in Seq(DataWord) /\ Len(image') = at + 1 /\ image'[at + 1] = flash[at]
          /\ \A i \in 1..at : image'[i] = image[i]
          BY <2>7, <3>1, AppendProperties
    <3>3. ASSUME NEW i \in 1..(at + 1) PROVE image'[i] = flash[i - 1]
      <4>1. CASE i = at + 1
            BY <2>7, <3>2, <4>1
      <4>2. CASE i # at + 1
            BY <2>3, <2>7, <3>2, <4>2 DEF ImageSoFar
      <4> QED BY <4>1, <4>2
    <3> QED BY <1>2, <3>2, <3>3 DEF ImageSoFar
  <2>9. BlockLag(3)'
        BY <1>2, <2>1, <2>3, <2>6, <2>8 DEF BlockLag
  <2>10. Place' = 3
        BY <1>2, <1>5, <2>2, PlaceAdvances DEF Continue
  <2>11. LagAt(3)' /\ Active'
        BY <1>2, <1>5, <2>1, <2>9 DEF LagAt, Active, Continue
  <2>12. LagBase'
        BY <1>2, <1>3, <1>5, LagBaseReads DEF ReadBulk, Arrived
  <2> QED BY <2>10, <2>11, <2>12, LagGoesOn
<1> QED BY <1>4, <1>5 DEF BlockIn

(* A block is read back and compared: the one that was written.            *)
LEMMA LagVerifyIn ==
  ASSUME LagCall, VerifyIn
  PROVE  LagInv'
<1>1. Getting("verify") /\ Unmoved
      BY DEF VerifyIn
<1>2. /\ UNCHANGED <<bus, wants, lost, target, flash, Few, job>> /\ stage = "talk" /\ todo # << >>
      BY <1>1 DEF Unmoved, interface, parser, call, Getting, Few
<1>3. job # None /\ job \in Jobs /\ LagBase /\ Parser /\ Few \in Nat
      BY LagKnown DEF LagCall
<1>4. CASE ReadError("block")
      BY <1>1, <1>4, Shortened, LagReadError DEF ReadError
<1>5. CASE /\ ReadBulk("block") /\ UNCHANGED <<info, at, image>>
           /\ IF Head(pipe).value = job.file[at + 1] THEN Continue ELSE Return("failed")
  <2>1. /\ AtBlocks(5) /\ job.op = "write" /\ job.verify /\ 5 \in 0..12 /\ DemonAt(5) /\ phase = "blocks"
    <3>1. PICK k \in 0..12 : DemonAt(k)
          BY LagKnown
    <3>2. AtBlocks(5) /\ Size = 6
          BY <1>1, <1>3, <3>1, GettingAt
    <3> QED BY <3>2 DEF DemonAt, AtBlocks, Size
  <2>2. BlockLag(5) /\ Place = 5 /\ todo \in Seq(DemonSteps)
    <3>1. LagAt(5) /\ Place = 5
          BY <2>1, LagKnown
    <3> QED BY <1>3, <2>1, <3>1, PlaceAt DEF LagAt
  <2>3. pipe # << >> /\ pipe' = Tail(pipe)
        BY <1>5 DEF ReadBulk, Arrived
  <2>4. bus = "present" /\ Following(5)
        BY <2>2, <2>3 DEF BlockLag, CutShort
  <2>5. ~lost /\ wants = "cmd" /\ pipe = <<[length |-> "block", value |-> flash[at]]>>
        BY <2>1, <2>4 DEF Following, Wanted, Due
  <2>6. pipe' = << >> /\ Head(pipe).value = flash[at]
        BY <2>3, <2>5
  <2>7. LagBase'
        BY <1>2, <1>3, <2>3, LagBaseReads
  <2>8. CASE Head(pipe).value = job.file[at + 1] /\ Continue
    <3>1. Following(6)'
          BY <1>2, <1>5, <2>1, <2>5, <2>6 DEF Following, Wanted, Due
    <3>2. Stored(at)' /\ (\A b \in 0..(at - 1) : Stored(b)')
          BY <1>2, <1>5, <2>1, <2>2, <2>6, <2>8 DEF Stored, BlockLag
    <3>3. BlockLag(6)'
          BY <1>2, <1>5, <2>1, <2>4, <3>1, <3>2 DEF BlockLag
    <3>4. Place' = 6
          BY <1>2, <2>2, <2>8, PlaceAdvances DEF Continue
    <3>5. LagAt(6)' /\ Active'
          BY <1>2, <2>1, <2>8, <3>3 DEF LagAt, Active, Continue
    <3> QED BY <2>7, <3>4, <3>5, LagGoesOn
  <2>9. CASE Return("failed")
        BY <2>7, <2>9, LagFails DEF Return, Active
  <2> QED BY <1>5, <2>8, <2>9
<1> QED BY <1>4, <1>5 DEF VerifyIn

(* The answers of read_invalid_blocks are read.                            *)
LEMMA LagCountIn ==
  ASSUME LagCall, CountIn \/ ListIn
  PROVE  LagInv'
<1>1. PICK use \in {"count", "list"} : Getting(use) /\ Unmoved /\ UNCHANGED <<info, at, image>>
      BY DEF CountIn, ListIn
<1>2. /\ UNCHANGED <<bus, wants, lost, Few, job>> /\ stage = "talk"
      BY <1>1 DEF Unmoved, interface, parser, call, Getting, Few
<1>3. job # None /\ job \in Jobs /\ LagBase /\ Parser /\ Few \in Nat
      BY LagKnown DEF LagCall
<1>4. pipe' = pipe \/ (pipe # << >> /\ pipe' = Tail(pipe))
      BY Shortened DEF CountIn, ListIn
<1>5. CASE Fail
      BY <1>1, <1>4, <1>5, LagReadError
<1>6. CASE Enter("list", <<Get("word", "list")>>) \/ Enter("release", Release)
  <2>1. LagBase' /\ Len(pipe') <= Len(pipe) /\ Len(pipe') \in Nat /\ Len(pipe) \in Nat
        BY <1>2, <1>3, <1>4, LagBaseReads
  <2>2. PICK n \in {1, 2} : AtList(n)
    <3>1. PICK k \in 0..12 : DemonAt(k)
          BY LagKnown
    <3> QED BY <1>1, <1>3, <3>1, GettingAt
  <2>3. n \in 0..12 /\ DemonAt(n) /\ phase = "list"
        BY <2>2 DEF DemonAt, AtList
  <2>4. ListLag
        BY <2>3, LagKnown DEF LagAt
  <2>5. ListLag'
        BY <1>2, <2>1, <2>4 DEF ListLag
  <2>6. Active'
        BY <1>2, <1>6 DEF Active, Enter
  <2>7. CASE Enter("list", <<Get("word", "list")>>)
    <3>1. phase' = "list" /\ todo' = <<Get("word", "list")>>
          BY <2>7 DEF Enter
    <3>2. Place' = 1 /\ LagAt(1)'
          BY <2>5, <3>1, FirstPlace DEF LagAt
    <3> QED BY <2>1, <2>6, <3>2, LagGoesOn
  <2>8. CASE Enter("release", Release)
    <3>1. phase' = "release" /\ todo' = Release
          BY <2>8 DEF Enter
    <3>2. Place' = 0 /\ LagAt(0)'
          BY <2>5, <3>1, FirstPlace DEF LagAt
    <3> QED BY <2>1, <2>6, <3>2, LagGoesOn
  <2> QED BY <1>6, <2>7, <2>8
<1> QED BY <1>5, <1>6 DEF CountIn, ListIn

-----------------------------------------------------------------------------
(* From one function of a call to the next: nothing changes for the        *)
(* programmer.                                                             *)
LEMMA LagFinishing ==
  ASSUME LagCall, NEW p, Finished(p), UNCHANGED <<interface, call, answers, mode, parser, console, flash, info, image>>
  PROVE  /\ UNCHANGED <<bus, wants, lost, target, pipe, flash, Few, job, image>> /\ stage = "talk" /\ phase = p
         /\ job # None /\ job \in Jobs /\ LagBase /\ LagBase' /\ Parser /\ Few \in Nat /\ DemonTypes
         /\ \E k \in 0..12 : DemonAt(k)
<1>1. UNCHANGED <<bus, wants, lost, target, pipe, flash, Few, job, image>> /\ stage = "talk" /\ phase = p
      BY DEF interface, call, answers, parser, Finished, Few
<1>2. /\ job # None /\ job \in Jobs /\ LagBase /\ Parser /\ Few \in Nat /\ DemonTypes
      /\ \E k \in 0..12 : DemonAt(k)
      BY LagKnown DEF LagCall
<1>3. LagBase'
      BY <1>1, <1>2 DEF LagBase, Room
<1> QED BY <1>1, <1>2, <1>3

(* The programmer is opened anew.                                          *)
LEMMA LagReopen ==
  ASSUME LagCall, Reopen
  PROVE  LagInv'
<1>1. Finished("leave") /\ UNCHANGED <<interface, call, answers, mode, parser, console, flash, info, image>>
      BY DEF Reopen, demon, client
<1>2. /\ UNCHANGED <<wants, lost, pipe, Few>> /\ phase = "leave" /\ LagBase' /\ Few \in Nat /\ job \in Jobs
      /\ \E k \in 0..12 : DemonAt(k)
      BY <1>1, LagFinishing
<1>3. PICK k \in 0..12 : DemonAt(k) /\ LagAt(k)
      BY LagKnown
<1>4. LeaveLag
      BY <1>2, <1>3 DEF LagAt
<1>5. ProbeLag(0)'
  <2>1. ~lost /\ Room(Few) /\ AtQuestion(0, 0)
        BY <1>4 DEF LeaveLag
  <2>2. Room(Few)'
        BY <1>2, <2>1 DEF Room
  <2>3. AtQuestion(0, 0)'
        BY <1>2, <2>1 DEF AtQuestion, InStep, Barred, Swallowed
  <2>4. Few' + 0 - 0 = Few' /\ ~lost'
        BY <1>2, <2>1
  <2> QED BY <2>2, <2>3, <2>4, ProbeCounts DEF ProbeLag
<1>6. stage' = "claim" /\ phase' = "probe" /\ todo' = ProbeInfo
      BY DEF Reopen
<1>7. LagAt(0)' /\ Place' = 0 /\ Active'
      BY <1>5, <1>6, FirstPlace DEF LagAt, Active
<1> QED BY <1>2, <1>7, LagGoesOn

(* What comes after init, by which the programmer is in step.              *)
LEMMA LagInitialized ==
  ASSUME LagCall, Initialized
  PROVE  LagInv'
<1>1. /\ Finished("probe") /\ UNCHANGED <<interface, call, answers, mode, parser, console, flash, info, image>>
      /\ UNCHANGED at
      BY DEF Initialized, demon, client
<1>2. /\ UNCHANGED <<bus, wants, lost, target, pipe, flash, Few, job, image>> /\ stage = "talk" /\ phase = "probe"
      /\ job # None /\ job \in Jobs /\ LagBase' /\ Parser /\ Few \in Nat
      /\ \E k \in 0..12 : DemonAt(k)
      BY <1>1, LagFinishing
<1>3. AtProbe(12)
      BY <1>1, <1>2, DemonFinishedAt
<1>4. ProbeLag(12) /\ bus = "present" /\ Untouched
  <2>1. 12 \in 0..12 /\ DemonAt(12)
        BY <1>3 DEF DemonAt
  <2>2. LagAt(12)
        BY <2>1, LagKnown
  <2> QED BY <1>2, <1>3, <2>2 DEF LagAt, AtProbe
<1>5. ~lost /\ InStep(0) /\ pipe = << >> /\ wants = "cmd"
  <2>1. ~lost /\ AtQuestion(4, 4)
        BY <1>4, ProbeCounts DEF ProbeLag
  <2>2. InStep(0)
        BY <1>2, <2>1, ProbedIsInStep
  <2> QED BY <1>2, <2>1, <2>2, PipeIs DEF InStep
<1>6. InStep(0)'
      BY <1>2, <1>5 DEF InStep
<1>7. CASE Return("failed")
      BY <1>2, <1>7, LagFails DEF Return, Active
<1>8. CASE Return("ok") /\ (job.op = "info" \/ BlocksOf(job) = {})
  <2>1. job.op # "read"
    <3>1. 0 \in Addr
          BY FlashBlocksAssumption DEF Addr
    <3> QED BY <1>8, <3>1 DEF BlocksOf
  <2>2. OkSays'
        BY <1>2, <1>6, <1>8, <2>1 DEF OkSays, Return
  <2> QED BY <1>2, <1>8, <2>2 DEF LagInv, Return, Active
<1>9. CASE /\ job.op \in {"read", "write"} /\ BlocksOf(job) \subseteq Addr /\ BlocksOf(job) # {}
           /\ Enter("blocks", Transfers(0))
  <2>1. phase' = "blocks" /\ todo' = Transfers(0) /\ stage' = "talk" /\ at' = 0 /\ image' = << >>
        BY <1>1, <1>2, <1>4, <1>9 DEF Enter, Untouched
  <2>2. 0 \in BlocksOf(job)
    <3>1. CASE job.op = "read"
          BY <3>1, FlashBlocksAssumption DEF BlocksOf, Addr
    <3>2. CASE job.op = "write"
      <4>1. job.file \in Seq(DataWord) /\ Len(job.file) \in Nat
            BY <1>2, UsbAssumption, LenProperties DEF Job
      <4> QED BY <1>9, <3>2, <4>1 DEF BlocksOf
    <3> QED BY <1>9, <3>1, <3>2
  <2>3. Place' = 0
    <3>1. Transfers(0) \in Seq(DemonSteps) /\ Len(Transfers(0)) <= Size /\ Size <= Len(Transfers(0)) /\ Size \in Nat
          BY <1>2, <1>9, <2>2, TransfersAre DEF Size
    <3>2. Len(Transfers(0)) = Size
          BY <3>1, OfLength
    <3>3. Total' = Size /\ Len(todo') = Size
          BY <1>2, <2>1, <3>2 DEF Total, Size
    <3> QED BY <3>1, <3>3 DEF Place
  <2>4. Following(0)'
        BY <1>2, <1>5 DEF Following, Wanted, Due
  <2>5. ImageSoFar'
        BY <2>1, EmptySeq DEF ImageSoFar
  <2>6. BlockLag(0)'
        BY <1>2, <1>4, <2>1, <2>4, <2>5 DEF BlockLag
  <2>7. LagAt(0)' /\ Active'
        BY <2>1, <2>6 DEF LagAt, Active
  <2> QED BY <1>2, <2>3, <2>7, LagGoesOn
<1>10. CASE Enter("acquire", Acquire)
  <2>1. phase' = "acquire" /\ todo' = Acquire /\ stage' = "talk"
        BY <1>2, <1>10 DEF Enter
  <2>2. AcquireLag'
        BY <1>2, <1>4, <1>5, <1>6 DEF AcquireLag
  <2>3. LagAt(0)' /\ Active' /\ Place' = 0
        BY <2>1, <2>2, FirstPlace DEF LagAt, Active
  <2> QED BY <1>2, <2>3, LagGoesOn
<1> QED BY <1>7, <1>8, <1>9, <1>10 DEF Initialized, StartBlocks

(* The loop goes on to the next block, or is done.                         *)
LEMMA LagBlockDone ==
  ASSUME LagCall, BlockDone
  PROVE  LagInv'
<1>1. Finished("blocks") /\ UNCHANGED <<interface, call, answers, mode, parser, console, flash, info, image>>
      BY DEF BlockDone
<1>2. /\ UNCHANGED <<bus, wants, lost, target, pipe, flash, Few, job, image>> /\ stage = "talk" /\ phase = "blocks"
      /\ job # None /\ job \in Jobs /\ LagBase' /\ Parser /\ Few \in Nat /\ DemonTypes
      /\ \E k \in 0..12 : DemonAt(k)
      BY <1>1, LagFinishing
<1>3. PICK k \in 0..12 : AtBlocks(k) /\ k = Size /\ BlockLag(k)
  <2>1. PICK k \in 0..12 : DemonAt(k)
        BY <1>2
  <2>2. AtBlocks(k) /\ k = Size
        BY <1>1, <1>2, <2>1, DemonFinishedAt, PhaseIs
  <2>3. BlockLag(k)
        BY <1>2, <2>1, LagKnown DEF LagAt
  <2> QED BY <2>2, <2>3
<1>4. /\ job.op \in {"read", "write"} /\ at \in BlocksOf(job) /\ BlocksOf(job) \subseteq Addr /\ at \in Nat
      /\ k = IF job.op = "write" /\ job.verify THEN 6 ELSE 3
      /\ job.op = "read" => Len(image) = at + 1
      BY <1>3, FlashBlocksAssumption DEF AtBlocks, Addr, Size
<1>5. bus = "present" /\ (Following(k) \/ CutShort(k)) /\ (job.op = "read" => ImageSoFar)
      BY <1>3 DEF BlockLag
<1>6. ASSUME Following(k) PROVE ~lost /\ wants = "cmd" /\ pipe = << >>
      BY <1>4, <1>6 DEF Following, Wanted, Due
<1>7. ASSUME CutShort(k) PROVE job.op = "write" /\ ~job.verify /\ job.cuts
      BY <1>4, <1>7 DEF CutShort
<1>8. job.op = "write" /\ job.verify => \A b \in 0..at : Stored(b)
      BY <1>3, <1>4 DEF BlockLag
<1>9. BlocksOf(job)' = BlocksOf(job) /\ at' = at + 1
      BY <1>2 DEF BlocksOf, BlockDone
<1>10. CASE at + 1 \in BlocksOf(job) /\ Enter("blocks", Transfers(at + 1))
  <2>1. PICK b \in BlocksOf(job) : b = at + 1
        BY <1>10
  <2>2. phase' = "blocks" /\ todo' = Transfers(b) /\ stage' = "talk"
        BY <1>2, <1>10, <2>1 DEF Enter
  <2>3. Place' = 0
    <3>1. Transfers(b) \in Seq(DemonSteps) /\ Len(Transfers(b)) <= Size /\ Size <= Len(Transfers(b)) /\ Size \in Nat
          BY <1>2, <1>4, TransfersAre DEF Size
    <3>2. Len(Transfers(b)) = Size
          BY <3>1, OfLength
    <3>3. Total' = Size /\ Len(todo') = Size
          BY <1>2, <2>2, <3>2 DEF Total, Size
    <3> QED BY <3>1, <3>3 DEF Place
  <2>4. Following(0)' \/ CutShort(0)'
    <3>1. CASE Following(k)
          BY <1>2, <1>6, <3>1 DEF Following, Wanted, Due
    <3>2. CASE CutShort(k)
          BY <1>2, <1>7, <1>9, <3>2 DEF CutShort
    <3> QED BY <1>5, <3>1, <3>2
  <2>5. job'.op = "read" => ImageSoFar'
        BY <1>2, <1>5 DEF ImageSoFar
  <2>6. job'.op = "write" /\ job'.verify => \A c \in 0..(at' - 1) : Stored(c)'
        BY <1>2, <1>4, <1>8, <1>9 DEF Stored
  <2>7. BlockLag(0)'
        BY <1>2, <1>5, <2>4, <2>5, <2>6 DEF BlockLag
  <2>8. LagAt(0)' /\ Active'
        BY <2>2, <2>7 DEF LagAt, Active
  <2> QED BY <1>2, <2>3, <2>8, LagGoesOn
<1>11. CASE at + 1 \notin BlocksOf(job) /\ Return("ok")
  <2>1. ~job'.cuts => InStep(0)'
        BY <1>2, <1>5, <1>6, <1>7, EmptySeq DEF InStep
  <2>2. ASSUME job.op = "read" PROVE image' = [i \in 1..FlashBlocks |-> flash'[i - 1]]
    <3>1. at + 1 = FlashBlocks
          BY <1>4, <1>11, <2>2, FlashBlocksAssumption DEF BlocksOf, Addr
    <3>2. image \in Seq(DataWord) /\ Len(image) = FlashBlocks /\ \A i \in 1..Len(image) : image[i] = flash[i - 1]
          BY <1>4, <1>5, <2>2, <3>1 DEF ImageSoFar
    <3>3. image = [i \in 1..FlashBlocks |-> image[i]]
          BY <3>2, LenProperties
    <3>4. image = [i \in 1..FlashBlocks |-> flash[i - 1]]
          BY <3>2, <3>3
    <3> QED BY <1>2, <3>4
  <2>3. ASSUME job.op = "write", job.verify, NEW b \in BlocksOf(job) PROVE b \in Addr /\ Stored(b)'
    <3>1. job.file \in Seq(DataWord) /\ Len(job.file) \in Nat
          BY <1>2, UsbAssumption, LenProperties DEF Job
    <3>2. b \in 0..at
          BY <1>4, <1>11, <2>3, <3>1 DEF BlocksOf
    <3>3. Stored(b)'
          BY <1>2, <1>8, <2>3, <3>2 DEF Stored
    <3> QED BY <1>4, <2>3, <3>3
  <2>4. OkSays'
        BY <1>2, <1>9, <2>1, <2>2, <2>3 DEF OkSays
  <2> QED BY <1>2, <1>11, <2>4 DEF LagInv, Return, Active
<1> QED BY <1>10, <1>11 DEF BlockDone

(* The flash has been acquired for the list of bad blocks, or released     *)
(* after it.                                                               *)
LEMMA LagListing ==
  ASSUME LagCall, ListInvalidBlocks \/ ListDone
  PROVE  LagInv'
<1>1. PICK p \in {"acquire", "release", "unlist"} :
        Finished(p) /\ UNCHANGED <<interface, call, answers, mode, parser, console, flash, info, image>>
        /\ (p = "acquire" => Enter("list", Listing)) /\ (p # "acquire" => Return("ok") \/ Return("failed"))
      BY DEF ListInvalidBlocks, ListDone, demon, client, Listing
<1>2. /\ UNCHANGED <<bus, wants, lost, target, pipe, flash, Few, job, image>> /\ stage = "talk" /\ phase = p
      /\ job # None /\ job \in Jobs /\ LagBase' /\ Parser /\ Few \in Nat
      /\ \E k \in 0..12 : DemonAt(k)
      BY <1>1, LagFinishing
<1>3. PICK k \in 0..12 : DemonAt(k) /\ LagAt(k)
      BY LagKnown
<1>4. CASE p = "acquire"
  <2>1. AcquireLag
        BY <1>2, <1>3, <1>4 DEF LagAt
  <2>2. phase' = "list" /\ todo' = Listing /\ stage' = "talk" /\ AcquireLag'
        BY <1>1, <1>2, <1>4, <2>1 DEF Enter, AcquireLag, InStep
  <2>3. LagAt(0)' /\ Place' = 0 /\ Active'
        BY <2>2, FirstPlace DEF LagAt, Active
  <2> QED BY <1>2, <2>3, LagGoesOn
<1>5. CASE p # "acquire"
  <2>1. job.op = "bad_blocks"
        BY <1>1, <1>2, <1>3, <1>5, DemonFinishedAt DEF AtRelease
  <2>2. OkSays'
        BY <1>2, <2>1 DEF OkSays
  <2> QED BY <1>1, <1>2, <1>5, <2>2 DEF LagInv, Return, Active
<1> QED BY <1>4, <1>5

-----------------------------------------------------------------------------
(* A call begins: each call before has left one answer at most, and the    *)
(* first of bad_blocks two; from the fifth call on FewFound is needed.     *)
LEMMA LagBegins ==
  ASSUME LagInv, NEW j \in Jobs, DemonBegin(j), calls \in Nat, FewFound
  PROVE  LagInv'
<1>1. /\ programmer.kind = "demon" /\ UNCHANGED <<programmer, wants, lost, pipe>> /\ calls' = calls + 1
      /\ stage = "idle" /\ stage' = "claim" /\ phase' = "mode" /\ todo' = GetMode
      BY DEF DemonBegin, Begin, parser, answers
<1>2. calls < 4 \/ Room(4)
      BY <1>1 DEF FewFound
<1>3. LagBase
      BY <1>1 DEF LagInv
<1>4. PICK m \in Nat : m = Few' /\ m > 0
      BY <1>1 DEF Few
<1>5. Room(m)' /\ Room(m + 1)'
  <2>1. PICK n : n = Len(pipe) + (IF wants = "read_half" THEN 1 ELSE 0)
        OBVIOUS
  <2>2. n <= m
    <3>1. CASE calls < 4
          BY <1>1, <1>3, <1>4, <2>1, <3>1 DEF LagBase, Room, Few
    <3>2. CASE calls >= 4 /\ Room(4)
          BY <1>1, <1>4, <2>1, <3>2 DEF Room, Few
    <3> QED BY <1>2, <3>1, <3>2
  <2>3. n = Len(pipe') + (IF wants' = "read_half" THEN 1 ELSE 0)
        BY <1>1, <2>1
  <2> QED BY <2>2, <2>3 DEF Room
<1>6. LagBase'
      BY <1>1, <1>3, <1>4, <1>5 DEF LagBase, Room
<1>7. ModeLag(0)'
      BY <1>1, <1>4, <1>5 DEF ModeLag, Room
<1>8. LagAt(0)' /\ Place' = 0 /\ Active'
      BY <1>1, <1>7, FirstPlace DEF LagAt, Active
<1> QED BY <1>6, <1>8, LagGoesOn

(* What the invariant says of a place depends on these variables only.     *)
LEMMA LagSame ==
  ASSUME NEW k \in 0..12, LagAt(k),
         UNCHANGED <<phase, wants, lost, target, pipe, flash, Few, job, at, image>>, bus' = bus \/ bus' = "present"
  PROVE  LagAt(k)'
<1> USE DEF Room, InStep, Barred, Swallowed, AtQuestion
<1>1. ModeLag(k) => ModeLag(k)'
      BY DEF ModeLag
<1>2. LeaveLag => LeaveLag'
      BY DEF LeaveLag
<1>3. ProbeLag(k) => ProbeLag(k)'
      BY DEF ProbeLag
<1>4. BlockLag(k) => BlockLag(k)'
      BY DEF BlockLag, Following, Wanted, Due, CutShort, BlocksOf, ImageSoFar, Stored
<1>5. (AcquireLag => AcquireLag') /\ (ListLag => ListLag')
      BY DEF AcquireLag, ListLag
<1> QED BY <1>1, <1>2, <1>3, <1>4, <1>5 DEF LagAt

(* A step in which the call stays at its place, or gives up.               *)
LEMMA LagRests ==
  ASSUME LagInv, programmer.kind = "demon", CourseOK,
         UNCHANGED <<programmer, wants, lost, target, pipe, flash, calls, job, at, image>>,
         bus' = bus \/ bus' = "present",
         \/ UNCHANGED <<phase, todo>> /\ (Active <=> Active') /\ result' \in {result, "killed"}
         \/ ~Active' /\ result' # "ok"
  PROVE  LagInv'
<1>2. LagBase'
      BY DEF LagInv, LagBase, Room, Few
<1>3. CASE ~Active' /\ result' # "ok"
      BY <1>2, <1>3, LagFails
<1>4. CASE UNCHANGED <<phase, todo>> /\ Active /\ Active'
  <2>1. PICK k \in 0..12 : k = Place /\ LagAt(k)
        BY <1>4 DEF LagInv, LagHere
  <2>2. LagAt(k)'
        BY <1>4, <2>1, LagSame DEF Few
  <2>3. Place' = Place
        BY <1>4 DEF Place, Total, Size
  <2> QED BY <1>2, <1>4, <2>1, <2>2, <2>3, LagGoesOn
<1>5. CASE UNCHANGED phase /\ ~Active /\ ~Active' /\ result' = result
  <2>1. job # None => OkSays
        BY <1>5 DEF LagInv
  <2>2. OkSays => OkSays'
        BY <1>5 DEF OkSays, InStep, Stored, BlocksOf
  <2> QED BY <1>2, <1>5, <2>1, <2>2 DEF LagInv
<1>6. CASE ~Active' /\ result' = "killed"
      BY <1>2, <1>6, LagFails
<1> QED BY <1>3, <1>4, <1>5, <1>6

(* The bootloader leaves the bus, and comes back as the firmware. All its  *)
(* answers are gone.                                                       *)
LEMMA LagReenumerate ==
  ASSUME DemonTypes, DemonInv, CourseOK, job \in Jobs \cup {None}, calls \in Nat, LagInv,
         programmer.kind = "demon", Reenumerate
  PROVE  LagInv'
<1>0. UNCHANGED <<programmer, job, calls, lost, target, flash, info, at, image>>
      BY DEF Reenumerate, call, console, client
<1>1. CASE bus' = "present" /\ UNCHANGED <<wants, pipe, course>>
  <2>1. UNCHANGED <<phase, todo, stage, result>>
        BY <1>1 DEF course
  <2> QED BY <1>0, <1>1, <2>1, LagRests DEF Active
<1>2. CASE bus = "leaving" /\ wants' = "cmd" /\ pipe' = << >>
  <2>2. Len(pipe') = 0
        BY <1>2, EmptySeq
  <2>3. LagBase'
        BY <1>0, <1>2, <2>2 DEF LagInv, LagBase, Room, Few
  <2>4. CASE Return("failed")
        BY <2>3, <2>4, LagFails DEF Return, Active
  <2>5. CASE UNCHANGED course
    <3>1. UNCHANGED <<phase, todo, stage, result>>
          BY <2>5 DEF course
    <3>2. CASE ~Active
      <4>1. job # None => OkSays
            BY <3>2 DEF LagInv
      <4>2. OkSays => OkSays'
            BY <1>0, <1>2, <2>2, <3>1 DEF OkSays, InStep, Stored, BlocksOf
      <4> QED BY <1>0, <2>3, <3>1, <3>2, <4>1, <4>2 DEF LagInv, Active
    <3>3. CASE Active
      <4>1. LagCall
            BY <3>3 DEF LagCall
      <4>2. PICK k \in 0..12 : DemonAt(k)
            BY <4>1, LagKnown
      <4>3. LagAt(k)
            BY <4>1, <4>2, LagKnown
      <4>4. job \in Jobs
            BY <4>1, LagKnown
      <4>5. PICK n \in 0..12 : n = Place
            BY <3>3 DEF LagInv, LagHere
      <4>6. Place' = n
            BY <1>0, <3>1, <4>5 DEF Place, Total, Size
      <4>7. InStep(0)'
            BY <1>2, <2>2 DEF InStep
      <4>8. CASE AtMode(k)
        <5>1. phase = "mode"
              BY <4>8 DEF AtMode
        <5>2. ModeLag(n)'
              BY <1>0, <1>2, <2>2 DEF ModeLag, Room, Few
        <5>3. LagAt(n)'
              BY <3>1, <5>1, <5>2 DEF LagAt
        <5> QED BY <2>3, <3>1, <3>3, <4>5, <4>6, <5>3, LagGoesOn DEF Active
      <4>9. CASE AtLeave(k)
        <5>1. phase = "leave"
              BY <4>9 DEF AtLeave
        <5>2. LeaveLag
              BY <4>3, <5>1 DEF LagAt
        <5>3. LeaveLag'
              BY <1>0, <1>2, <2>2, <4>7, <5>2 DEF LeaveLag, Room, AtQuestion, Few
        <5>4. LagAt(n)'
              BY <3>1, <5>1, <5>3 DEF LagAt
        <5> QED BY <2>3, <3>1, <3>3, <4>5, <4>6, <5>4, LagGoesOn DEF Active
      <4>10. CASE AtProbe(k)
        <5>1. phase = "probe" /\ k = 0
              BY <1>2, <4>10 DEF AtProbe
        <5>2. ProbeLag(0) /\ n = 0
              BY <4>1, <4>2, <4>3, <4>5, <5>1, LagKnown DEF LagAt
        <5>3. ProbeLag(0)'
              BY <1>0, <1>2, <2>2, <4>7, <5>2, ProbeCounts DEF ProbeLag, Room, AtQuestion, Few
        <5>4. LagAt(0)'
              BY <3>1, <5>1, <5>3 DEF LagAt
        <5> QED BY <2>3, <3>1, <3>3, <4>5, <4>6, <5>2, <5>4, LagGoesOn DEF Active
      <4>11. phase \notin {"blocks", "acquire", "list", "release", "unlist"}
        <5>1. k > 0 \/ k = 0
              OBVIOUS
        <5> QED BY <1>2, <4>3, <5>1 DEF LagAt, BlockLag, AcquireLag, ListLag
      <4> QED BY <4>2, <4>8, <4>9, <4>10, <4>11 DEF DemonAt, AtBlocks, AtAcquire, AtList, AtRelease
    <3> QED BY <3>2, <3>3
  <2> QED BY <1>2, <2>4, <2>5 DEF Reenumerate
<1> QED BY <1>1, <1>2 DEF Reenumerate

(* Opening the programmer, dropping the client or being killed.            *)
LEMMA LagUsb ==
  ASSUME LagInv, programmer.kind = "demon", CourseOK, UsbNext, UNCHANGED demon
  PROVE  LagInv'
<1>1. /\ UNCHANGED <<programmer, bus, job, calls, pipe>>
      /\ UNCHANGED <<wants, lost, target, flash, at, image>>
      /\ Moves \/ Refuses \/ Dropped \/ Killed \/ Aside
      BY UsbSteps DEF call, answers, demon, parser, client
<1>2. \/ UNCHANGED <<phase, todo>> /\ (Active <=> Active') /\ result' \in {result, "killed"}
      \/ ~Active' /\ result' # "ok"
      BY <1>1 DEF Moves, Refuses, Dropped, Killed, Aside, Opening, Active, Return, course
<1> QED BY <1>1, <1>2, LagRests

-----------------------------------------------------------------------------
(* Every step keeps the invariant, if no call begins with more answers.    *)
LEMMA LagNext ==
  ASSUME CallInv, LagInv, [Next]_vars, [FewFound]_vars
  PROVE  LagInv'
<1>0. DemonTypes /\ DemonInv /\ CourseOK /\ job \in Jobs \cup {None} /\ calls \in Nat
      BY UsbAssumption DEF CallInv, UInv, Types, HostTypes
<1>1. UNCHANGED programmer
      BY SameProgrammer
<1>2. SUFFICES ASSUME programmer.kind = "demon" PROVE LagInv'
      BY <1>1 DEF LagInv
<1>3. CASE UNCHANGED vars
  <2>1. UNCHANGED <<programmer, bus, wants, lost, target, pipe, flash, calls, job, at, image, phase, todo, stage, result>>
        BY <1>3 DEF vars, usb, interface, call, course, answers, demon, parser, client
  <2> QED BY <1>0, <1>2, <2>1, LagRests DEF Active
<1>4. CASE UsbNext /\ UNCHANGED <<demon, lpc>>
      BY <1>0, <1>2, <1>4, LagUsb
<1>5. CASE LpcNext
      BY <1>0, <1>2, <1>5, DemonNotLpc
<1>6. CASE DemonNext
  <2>1. CASE \E j \in Jobs : DemonBegin(j)
    <3>1. FewFound
      <4>1. calls' = calls + 1
            BY <2>1 DEF DemonBegin, Begin
      <4>2. vars' # vars
            BY <1>0, <4>1 DEF vars, usb, call
      <4> QED BY <4>2
    <3> QED BY <1>0, <2>1, <3>1, LagBegins
  <2>2. CASE Reenumerate
        BY <1>0, <1>2, <2>2, LagReenumerate
  <2>3. CASE \/ SendTransfer \/ ModeIn \/ Reopen \/ InfoIn \/ Initialized \/ BlockIn \/ VerifyIn \/ BlockDone
             \/ ListInvalidBlocks \/ CountIn \/ ListIn \/ ListDone
    <3>1. stage = "talk"
          BY <2>3 DEF SendTransfer, ModeIn, Reopen, InfoIn, Initialized, BlockIn, VerifyIn, BlockDone,
                      ListInvalidBlocks, CountIn, ListIn, ListDone, Getting, Finished, Unmoved
    <3>3. LagCall
          BY <1>0, <1>2, <3>1 DEF LagCall, Active
    <3>4. CASE SendTransfer
          BY <3>3, <3>4, LagSendTransfer
    <3>5. CASE ModeIn \/ InfoIn \/ BlockIn \/ VerifyIn \/ CountIn \/ ListIn
          BY <3>3, <3>5, LagModeIn, LagInfoIn, LagBlockIn, LagVerifyIn, LagCountIn
    <3>6. CASE Reopen \/ Initialized \/ BlockDone \/ ListInvalidBlocks \/ ListDone
          BY <3>3, <3>6, LagReopen, LagInitialized, LagBlockDone, LagListing
    <3> QED BY <2>3, <3>4, <3>5, <3>6
  <2> QED BY <1>6, <2>1, <2>2, <2>3 DEF DemonNext
<1> QED BY <1>3, <1>4, <1>5, <1>6 DEF Next

(* The invariant holds at first.                                           *)
LEMMA LagInit == Init => LagInv
BY EmptySeq DEF Init, UsbInit, DemonInit, LagInv, LagBase, Room, Few, Active

(* The invariant always holds.                                             *)
LEMMA LagAlways == Spec /\ FewWait => [](CallInv /\ LagInv)
<1>1. Init => CallInv /\ LagInv
      BY CallInvInit, LagInit
<1>2. CallInv /\ LagInv /\ [Next]_vars /\ [FewFound]_vars => (CallInv /\ LagInv)'
      BY CallInvNext, LagNext
<1> QED BY <1>1, <1>2, PTL DEF Spec, FewWait

-----------------------------------------------------------------------------
(* What calls on a DemoN promise as long as none begins with more than     *)
(* four answers waiting, as the first four never do.                       *)

(* A success has read whatever was left behind, and left nothing.          *)
LEMMA IdleOk ==
  ASSUME CallInv, LagInv, IsDemon, stage = "idle" \/ ~Active, result = "ok"
  PROVE  job # None /\ OkSays /\ ~Active /\ Parser
<1>1. ~Active /\ job # None
      BY DEF CallInv, UInv, CourseOK, Active
<1> QED BY <1>1 DEF CallInv, UInv, LagInv, IsDemon, DemonInv

(* What leaves the idle stage is a new call.                               *)
LEMMA BeginsCounts ==
  ASSUME [Next]_vars, stage = "idle", stage' # "idle"
  PROVE  calls' = calls + 1
<1>1. ~UNCHANGED vars
      BY DEF vars, usb, call, course
<1>2. CASE UsbNext
  <2>1. Moves \/ Refuses \/ Dropped \/ Killed \/ Aside
        BY <1>2, UsbSteps
  <2> QED BY <2>1 DEF Moves, Refuses, Dropped, Killed, Aside, Opening, course
<1>3. CASE DemonNext
  <2>1. CASE \E j \in Jobs : DemonBegin(j)
        BY <2>1 DEF DemonBegin, Begin
  <2>2. ~Reenumerate
        BY DEF Reenumerate, Return, course
  <2>3. stage # "talk"
        OBVIOUS
  <2> QED BY <1>3, <2>1, <2>2, <2>3 DEF DemonNext, SendTransfer, ModeIn, Reopen, InfoIn, Initialized, BlockIn,
             VerifyIn, BlockDone, ListInvalidBlocks, CountIn, ListIn, ListDone, Getting, Finished
<1>4. CASE LpcNext
  <2>1. CASE \E j \in Jobs : LpcBegin(j)
        BY <2>1 DEF LpcBegin, Begin
  <2>2. stage # "talk"
        OBVIOUS
  <2> QED BY <1>4, <2>1, <2>2 DEF LpcNext, DeviceReset, ControlTransfer, WriteFile, AnswerIn, LpcInitialized,
             FlashDeinit, LpcDone, Sending, Getting, Finished
<1> QED BY <1>1, <1>2, <1>3, <1>4 DEF Next

(* The first four calls find no more.                                      *)
THEOREM FirstCallsFindFew == Spec /\ [](calls <= 4) => FewWait
<1>1. CallInv /\ [Next]_vars /\ (calls <= 4)' => [FewFound]_vars
  <2>1. SUFFICES ASSUME CallInv, [Next]_vars, calls' <= 4, stage = "idle", stage' # "idle"
                 PROVE  calls < 4
        BY DEF FewFound
  <2>2. calls \in Nat
        BY <2>1, UsbAssumption DEF CallInv, UInv, Types, HostTypes
  <2>3. calls' = calls + 1
        BY <2>1, BeginsCounts
  <2> QED BY <2>1, <2>2, <2>3
<1> QED BY <1>1, CallInvAlways, PTL DEF Spec, FewWait

(* OkLeavesNothing holds for calls that find few answers: a call that got  *)
(* through init has read all that waited, and gives up unless the          *)
(* programmer takes commands again.  With five answers waiting it may      *)
(* succeed on answers of the calls before.                                 *)
THEOREM LeavesNothing == Spec /\ FewWait => []OkLeavesNothing
<1>1. CallInv /\ LagInv => OkLeavesNothing
  <2>1. SUFFICES ASSUME CallInv, LagInv, stage = "idle", result = "ok", IsDemon,
                        job.op # "bad_blocks", ~job.cuts
                 PROVE  pipe = << >> /\ wants = "cmd"
        BY DEF OkLeavesNothing
  <2>2. OkSays /\ Parser
        BY <2>1, IdleOk
  <2>3. InStep(0)
        BY <2>1, <2>2 DEF OkSays
  <2> QED BY <2>2, <2>3, PipeIs DEF InStep
<1> QED BY <1>1, LagAlways, PTL

(* OkReadMatches holds for calls that find few answers: every block that a *)
(* read takes for the one it asked for is that block, although answers     *)
(* carry neither a block number nor a tag.                                 *)
THEOREM ReadsMatch == Spec /\ FewWait => []OkReadMatches
<1>1. CallInv /\ LagInv => OkReadMatches
  <2>1. SUFFICES ASSUME CallInv, LagInv, IsDemon, result = "ok", job.op = "read"
                 PROVE  image = [i \in 1..FlashBlocks |-> flash[i - 1]]
        BY DEF OkReadMatches
  <2>2. ~Active
        BY <2>1 DEF CallInv, UInv, CourseOK
  <2>3. OkSays
        BY <2>1, <2>2, IdleOk
  <2> QED BY <2>1, <2>3 DEF OkSays
<1> QED BY <1>1, LagAlways, PTL

-----------------------------------------------------------------------------
(* Only a transfer to the programmer changes the flash, or has the content *)
(* of a block taken for commands; and it does the first in a write, to a   *)
(* block of the file.                                                      *)
LEMMA OnlySends ==
  ASSUME CallInv, [Next]_vars, ~(programmer.kind = "demon" /\ SendTransfer)
  PROVE  UNCHANGED <<lost, flash>>
<1>1. CASE UNCHANGED vars
      BY <1>1 DEF vars, demon, parser
<1>2. CASE UNCHANGED demon
      BY <1>2 DEF demon, parser
<1>3. CASE DemonNext
  <2>1. CASE \E j \in Jobs : DemonBegin(j)
        BY <2>1 DEF DemonBegin, parser
  <2>2. CASE ModeIn \/ InfoIn \/ BlockIn \/ VerifyIn \/ CountIn \/ ListIn
        BY <2>2 DEF ModeIn, InfoIn, BlockIn, VerifyIn, CountIn, ListIn, Unmoved, parser
  <2>3. CASE Reopen \/ Initialized \/ BlockDone \/ ListInvalidBlocks \/ ListDone
        BY <2>3 DEF Reopen, Initialized, BlockDone, ListInvalidBlocks, ListDone, demon, parser
  <2>4. CASE Reenumerate
        BY <2>4 DEF Reenumerate
  <2> QED BY <1>3, <2>1, <2>2, <2>3, <2>4 DEF DemonNext
<1> QED BY <1>1, <1>2, <1>3 DEF Next

(* A transfer to a DemoN is made at a place where LagSendTransfer says     *)
(* what it does.                                                           *)
LEMMA SendsAtLagCall ==
  ASSUME CallInv, LagInv, programmer.kind = "demon", SendTransfer
  PROVE  LagCall
<1>1. DemonTypes /\ DemonInv /\ CourseOK /\ job \in Jobs \cup {None} /\ calls \in Nat
      BY UsbAssumption DEF CallInv, UInv, Types, HostTypes
<1>2. Active
      BY DEF SendTransfer, Active
<1> QED BY <1>1, <1>2 DEF LagCall

(* BlocksAreNotCommands holds for calls that find few answers: what a call *)
(* that stopped in a block left the programmer to wait for is not what the *)
(* next call sends in its blocks, as that call does not get there.         *)
THEOREM BlocksNotTaken == Spec /\ FewWait => BlocksAreNotCommands
<1>1. CallInv /\ LagInv /\ [Next]_vars => [lost' => lost \/ (job.cuts /\ ~job.verify)]_vars
  <2>1. SUFFICES ASSUME CallInv, LagInv, [Next]_vars, lost'
                 PROVE  lost \/ (job.cuts /\ ~job.verify)
        OBVIOUS
  <2>2. CASE programmer.kind = "demon" /\ SendTransfer
        BY <2>1, <2>2, SendsAtLagCall, LagSendTransfer
  <2>3. CASE ~(programmer.kind = "demon" /\ SendTransfer)
        BY <2>1, <2>3, OnlySends
  <2> QED BY <2>2, <2>3
<1> QED BY <1>1, LagAlways, PTL DEF Spec, BlocksAreNotCommands

-----------------------------------------------------------------------------
(* The steps of the calls are steps of FlashTransfer.                      *)
Trusted == phase = "blocks" /\ job.verify
Verdict ==
  CASE job = None                                  -> "none"
    [] job # None /\ stage # "idle"                  -> "busy"
    [] job # None /\ stage = "idle" /\ result = "ok" -> "ok"
    [] OTHER                                       -> "failed"

(* The outcome of a call, before a step and after it.                      *)
LEMMA VerdictIs ==
  /\ job = None => Verdict = "none"
  /\ job # None /\ stage # "idle" => Verdict = "busy"
  /\ job # None /\ stage = "idle" /\ result = "ok" => Verdict = "ok"
  /\ job # None /\ stage = "idle" /\ result # "ok" => Verdict = "failed"
BY DEF Verdict

LEMMA VerdictIsNext ==
  /\ job' = None => Verdict' = "none"
  /\ job' # None /\ stage' # "idle" => Verdict' = "busy"
  /\ job' # None /\ stage' = "idle" /\ result' = "ok" => Verdict' = "ok"
  /\ job' # None /\ stage' = "idle" /\ result' # "ok" => Verdict' = "failed"
BY DEF Verdict

(* What is planned, and whether success speaks for it, changes only when   *)
(* the loop over the blocks begins.                                        *)
LEMMA PlanStays ==
  ASSUME UNCHANGED <<programmer, job>>, phase' = phase \/ (phase # "blocks" /\ phase' # "blocks")
  PROVE  Plan' = Plan /\ Trusted' = Trusted
<1>1. Plan' = Plan
      BY DEF Plan, IsDemon, BlocksOf
<1>2. Trusted' = Trusted
      BY DEF Trusted
<1> QED BY <1>1, <1>2

(* When nothing is planned, and when success speaks for nothing.           *)
LEMMA NothingPlanned ==
  /\ ~IsDemon \/ phase # "blocks" \/ job.op # "write" => Plan = << >>
  /\ IsDemon /\ phase = "blocks" /\ job.op = "write" => Plan = [b \in BlocksOf(job) |-> job.file[b + 1]]
  /\ phase # "blocks" => Trusted = FALSE
  /\ DOMAIN << >> = {}
<1>1. DOMAIN << >> = {}
      BY EmptySeq, LenProperties
<1> QED BY <1>1 DEF Plan, Trusted

(* Most steps are stutters.                                                *)
LEMMA StutterMaps ==
  ASSUME UNCHANGED <<programmer, job, flash>>, phase' = phase \/ (phase # "blocks" /\ phase' # "blocks"),
         \/ stage # "idle" /\ stage' # "idle"
         \/ UNCHANGED <<stage, result>>
  PROVE  UNCHANGED Transfer!vars
<1>1. Plan' = Plan /\ Trusted' = Trusted
      BY PlanStays
<1>2. Verdict' = Verdict
      BY DEF Verdict
<1> QED BY <1>1, <1>2 DEF Transfer!vars, Trusted, Verdict

(* The initial states are initial states of FlashTransfer.                 *)
LEMMA InitMaps == Init => Transfer!Init
<1> SUFFICES ASSUME Init PROVE Transfer!Init
    OBVIOUS
<1>1. Plan = << >> /\ Trusted = FALSE
      BY NothingPlanned DEF Init, UsbInit
<1>2. Verdict = "none"
      BY VerdictIs DEF Init, UsbInit
<1>3. flash \in [Addr -> DataWord]
      BY DEF Init, DemonInit
<1> QED BY <1>1, <1>2, <1>3 DEF Transfer!Init, Transfer!NoPlan, Trusted, Verdict

(* A call begins with nothing planned.                                     *)
LEMMA BeginMaps ==
  ASSUME NEW j \in Jobs, NEW first, NEW transfers, Begin(j, first, transfers), first # "blocks", UNCHANGED flash
  PROVE  Transfer!Begin
<1>1. stage = "idle" /\ job' # None /\ stage' # "idle" /\ phase' # "blocks"
      BY UsbAssumption DEF Begin
<1>2. Verdict # "busy" /\ Verdict' = "busy"
      BY <1>1, VerdictIs, VerdictIsNext
<1>3. Plan' = << >> /\ Trusted' = FALSE
  <2>1. Plan' = << >>
        BY <1>1 DEF Plan
  <2>2. Trusted' = FALSE
        BY <1>1 DEF Trusted
  <2> QED BY <2>1, <2>2
<1> QED BY <1>2, <1>3 DEF Transfer!Begin, Transfer!NoPlan, Trusted, Verdict

(* A call is given up.                                                     *)
LEMMA FailMaps ==
  ASSUME job # None, stage # "idle", stage' = "idle", result' # "ok", UNCHANGED <<programmer, job, flash, phase>>
  PROVE  Transfer!Fail
<1>1. Verdict = "busy" /\ Verdict' = "failed"
      BY VerdictIs, VerdictIsNext
<1>2. Plan' = Plan /\ Trusted' = Trusted
      BY PlanStays
<1> QED BY <1>1, <1>2 DEF Transfer!Fail, Trusted, Verdict

(* The client of a call that is done is dropped.                           *)
LEMMA SucceedMaps ==
  ASSUME CallInv, LagInv, job # None, stage = "drop", stage' = "idle", result = "ok",
         UNCHANGED <<programmer, job, flash, phase, result>>
  PROVE  Transfer!Succeed
<1>1. Verdict = "busy" /\ Verdict' = "ok"
      BY VerdictIs, VerdictIsNext
<1>2. Plan' = Plan /\ Trusted' = Trusted
      BY PlanStays
<1>3. ASSUME Trusted, NEW b \in DOMAIN Plan
      PROVE  b \in Addr /\ flash[b] = Plan[b]
  <2>1. IsDemon /\ phase = "blocks" /\ job.op = "write" /\ job.verify
        BY <1>3, NothingPlanned DEF Trusted
  <2>2. Plan = [a \in BlocksOf(job) |-> job.file[a + 1]]
        BY <2>1, NothingPlanned
  <2>3. b \in BlocksOf(job) /\ Plan[b] = job.file[b + 1]
        BY <1>3, <2>2
  <2>4. OkSays
        BY <2>1, IdleOk DEF Active
  <2> QED BY <2>1, <2>3, <2>4 DEF OkSays, Stored
<1> QED BY <1>1, <1>2, <1>3 DEF Transfer!Succeed, Trusted, Verdict

(* The loop over the blocks begins.                                        *)
LEMMA PlanMaps ==
  ASSUME job # None, job \in Jobs, stage # "idle", stage' # "idle", phase # "blocks",
         BlocksOf(job) \subseteq Addr, UNCHANGED <<programmer, job, flash>>
  PROVE  Transfer!Plan
<1>1. Verdict = "busy" /\ Verdict' = "busy"
      BY VerdictIs, VerdictIsNext
<1>2. Plan = << >>
      BY NothingPlanned
<1>3. DOMAIN Plan' \subseteq Nat /\ \A b \in DOMAIN Plan' : Plan'[b] \in DataWord
  <2>1. CASE IsDemon' /\ phase' = "blocks" /\ job'.op = "write"
    <3>1. Plan' = [b \in BlocksOf(job) |-> job.file[b + 1]]
          BY <2>1 DEF Plan, BlocksOf
    <3>2. DOMAIN Plan' = BlocksOf(job) /\ \A b \in BlocksOf(job) : Plan'[b] = job.file[b + 1]
          BY <3>1
    <3>3. job.file \in Seq(DataWord) /\ Len(job.file) \in Nat
          BY UsbAssumption, LenProperties DEF Job
    <3>4. ASSUME NEW b \in BlocksOf(job) PROVE job.file[b + 1] \in DataWord
      <4>1. b + 1 \in 1..Len(job.file)
            BY <2>1, <3>3 DEF BlocksOf
      <4> QED BY <3>3, <4>1, LenProperties
    <3>5. Addr \subseteq Nat
          BY DEF Addr
    <3> QED BY <3>2, <3>4, <3>5
  <2>2. CASE ~(IsDemon' /\ phase' = "blocks" /\ job'.op = "write")
    <3>1. Plan' = << >>
          BY <2>2 DEF Plan
    <3> QED BY <3>1, NothingPlanned
  <2> QED BY <2>1, <2>2
<1>4. Trusted' \in BOOLEAN
      BY UsbAssumption DEF Trusted, Job
<1> QED BY <1>1, <1>2, <1>3, <1>4 DEF Transfer!Plan, Transfer!NoPlan, Trusted, Verdict

(* A block is programmed: one of the file, in the loop over its blocks.    *)
LEMMA SendMaps ==
  ASSUME CallInv, LagInv, programmer.kind = "demon", SendTransfer
  PROVE  [Transfer!Next]_(Transfer!vars)
<1>1. LagCall
      BY SendsAtLagCall
<1>2. job # None /\ job \in Jobs /\ stage = "talk"
      BY <1>1, LagKnown DEF SendTransfer
<1>3. /\ UNCHANGED job /\ stage' # "idle"
      /\ phase' = phase \/ (phase # "blocks" /\ phase' # "blocks")
      BY <1>2 DEF SendTransfer, call, Continue, Fail, Enter, Return
<1>4. UNCHANGED programmer
      BY SendTalks DEF Talks
<1>5. flash' = flash \/ (phase = "blocks" /\ job.op = "write" /\ \E b \in BlocksOf(job) : Programs(b))
      BY <1>1, LagSendTransfer
<1>6. CASE flash' = flash
      BY <1>2, <1>3, <1>4, <1>6, StutterMaps
<1>7. ASSUME phase = "blocks", job.op = "write", NEW b \in BlocksOf(job), Programs(b)
      PROVE  Transfer!Next
  <2>1. PICK k \in 0..12 : DemonAt(k)
        BY <1>1, LagKnown
  <2>2. BlocksOf(job) \subseteq Addr
        BY <1>7, <2>1 DEF DemonAt, AtMode, AtLeave, AtProbe, AtBlocks, AtAcquire, AtList, AtRelease
  <2>3. Plan' = Plan /\ Trusted' = Trusted
        BY <1>3, <1>4, PlanStays
  <2>4. Verdict = "busy" /\ Verdict' = "busy"
        BY <1>2, <1>3, VerdictIs, VerdictIsNext
  <2>5. b \in DOMAIN Plan
    <3>1. Plan = [a \in BlocksOf(job) |-> job.file[a + 1]]
          BY <1>7, NothingPlanned DEF IsDemon
    <3> QED BY <1>7, <3>1
  <2>6. \E w \in DataWord : flash' = [flash EXCEPT ![b] = w]
        BY <1>7 DEF Programs
  <2>7. Transfer!Program(b)
        BY <2>3, <2>4, <2>5, <2>6 DEF Transfer!Program, Trusted, Verdict
  <2> QED BY <1>7, <2>2, <2>7 DEF Transfer!Next
<1> QED BY <1>5, <1>6, <1>7

(* There are two kinds of programmers.                                     *)
LEMMA KindIs == CallInv => programmer.kind \in {"demon", "lpc"}
BY UsbAssumption DEF CallInv, Types, HostTypes, Programmer

(* The other steps of the client of DemoN.                                 *)
LEMMA DemonMaps ==
  ASSUME CallInv, DemonNext, ~(programmer.kind = "demon" /\ SendTransfer), UNCHANGED <<programmer, flash>>
  PROVE  [Transfer!Next]_(Transfer!vars)
<1>1. CASE \E j \in Jobs : DemonBegin(j)
      BY <1>1, BeginMaps DEF DemonBegin, Transfer!Next
<1>2. CASE Reenumerate
  <2>1. /\ UNCHANGED <<job, phase>>
        /\ (stage # "idle" /\ stage' # "idle") \/ UNCHANGED <<stage, result>>
        BY <1>2 DEF Reenumerate, Return, course, call
  <2> QED BY <2>1, StutterMaps
<1>3. CASE Initialized
  <2>1. stage = "talk" /\ phase = "probe" /\ UNCHANGED job
        BY <1>3 DEF Initialized, Finished, call
  <2>2. job # None /\ job \in Jobs
        BY <2>1 DEF CallInv, UInv, CourseOK, Types, HostTypes
  <2>3. CASE StartBlocks
    <3>1. BlocksOf(job) \subseteq Addr /\ stage' # "idle"
          BY <2>1, <2>3 DEF StartBlocks, Return, Enter
    <3> QED BY <2>1, <2>2, <3>1, PlanMaps DEF Transfer!Next
  <2>4. CASE Return("ok") \/ Return("failed") \/ Enter("acquire", Acquire)
    <3>1. stage' # "idle" /\ phase' # "blocks"
          BY <2>1, <2>4 DEF Return, Enter
    <3> QED BY <2>1, <3>1, StutterMaps
  <2> QED BY <1>3, <2>3, <2>4 DEF Initialized
<1>4. CASE ModeIn \/ InfoIn \/ BlockIn \/ VerifyIn \/ CountIn \/ ListIn
  <2>1. stage = "talk" /\ UNCHANGED job
        BY <1>4 DEF ModeIn, InfoIn, BlockIn, VerifyIn, CountIn, ListIn, Unmoved, Getting, call
  <2>2. stage' # "idle"
        BY <1>4, <2>1 DEF ModeIn, InfoIn, BlockIn, VerifyIn, CountIn, ListIn, ReadError, Fail, Enter, Continue, Return
  <2>3. phase' = phase \/ (phase # "blocks" /\ phase' # "blocks")
    <3>1. CASE InfoIn \/ BlockIn \/ VerifyIn
          BY <3>1 DEF InfoIn, BlockIn, VerifyIn, ReadError, Fail, Enter, Continue, Return
    <3>2. CASE ModeIn \/ CountIn \/ ListIn
      <4>1. phase # "blocks"
        <5>0. programmer.kind = "demon"
              BY KindIs, LpcInvDemon DEF CallInv, UInv
        <5>1. Active /\ job # None /\ job \in Jobs /\ DemonInv /\ DemonTypes /\ CourseOK
              BY <2>1 DEF CallInv, UInv, CourseOK, Types, HostTypes, Active
        <5>2. PICK k \in 0..12 : DemonAt(k)
              BY <5>0, <5>1, DemonIsAt
        <5>3. PICK use \in {"mode", "count", "list"} : Getting(use)
              BY <3>2 DEF ModeIn, CountIn, ListIn
        <5>4. AtMode(1) \/ AtList(1) \/ AtList(2)
              BY <5>1, <5>2, <5>3, GettingAt
        <5> QED BY <5>4 DEF AtMode, AtList
      <4> QED BY <3>2, <4>1 DEF ModeIn, CountIn, ListIn, ReadError, Fail, Enter, Continue, Return
    <3> QED BY <1>4, <3>1, <3>2
  <2> QED BY <2>1, <2>2, <2>3, StutterMaps
<1>5. CASE Reopen \/ BlockDone \/ ListInvalidBlocks \/ ListDone
  <2>1. stage = "talk" /\ UNCHANGED job /\ stage' # "idle"
        BY <1>5 DEF Reopen, BlockDone, ListInvalidBlocks, ListDone, Finished, call, Enter, Return
  <2>2. phase' = phase \/ (phase # "blocks" /\ phase' # "blocks")
        BY <1>5 DEF Reopen, BlockDone, ListInvalidBlocks, ListDone, Finished, Enter, Return
  <2> QED BY <2>1, <2>2, StutterMaps
<1> QED BY <1>1, <1>2, <1>3, <1>4, <1>5 DEF DemonNext

(* A call of LPC plans nothing.                                            *)
LEMMA LpcMaps ==
  ASSUME CallInv, LpcNext, UNCHANGED <<programmer, flash>>
  PROVE  [Transfer!Next]_(Transfer!vars)
<1>1. CASE \E j \in Jobs : LpcBegin(j)
      BY <1>1, BeginMaps DEF LpcBegin, Transfer!Next
<1>2. CASE ~\E j \in Jobs : LpcBegin(j)
  <2>1. stage = "talk" /\ UNCHANGED job /\ stage' # "idle" /\ phase' \in {phase, "flash_init", "xsvf", "flash_deinit"}
        BY <1>2 DEF LpcNext, DeviceReset, ControlTransfer, WriteFile, AnswerIn, LpcInitialized, FlashDeinit, LpcDone,
                    Sending, Getting, Finished, LpcFail, Return, Enter, Continue, call
  <2>2. phase # "blocks"
    <3>1. programmer.kind = "lpc"
          BY KindIs, DemonNotLpc DEF CallInv, UInv, Types, HostTypes
    <3> QED BY <2>1, <3>1, LpcHead DEF CallInv, UInv
  <2> QED BY <2>1, <2>2, StutterMaps
<1> QED BY <1>1, <1>2

(* The client is opened, dropped or killed.                                *)
LEMMA UsbMaps ==
  ASSUME CallInv, LagInv, UsbNext, UNCHANGED flash
  PROVE  [Transfer!Next]_(Transfer!vars)
<1>1. /\ UNCHANGED <<programmer, job>>
      /\ Moves \/ Refuses \/ Dropped \/ Killed \/ Aside
      BY UsbSteps DEF call
<1>2. stage # "idle" => job # None
      BY DEF CallInv, UInv, CourseOK
<1>3. CASE Moves \/ Refuses \/ Aside
  <2>1. UNCHANGED phase /\ ((stage # "idle" /\ stage' # "idle") \/ UNCHANGED <<stage, result>>)
        BY <1>3 DEF Moves, Refuses, Aside, Opening, Return, course
  <2> QED BY <1>1, <2>1, StutterMaps
<1>4. CASE Killed
      BY <1>1, <1>2, <1>4, FailMaps DEF Killed, Transfer!Next
<1>5. CASE Dropped /\ result = "ok"
      BY <1>1, <1>2, <1>5, SucceedMaps DEF Dropped, Transfer!Next
<1>6. CASE Dropped /\ result # "ok"
      BY <1>1, <1>2, <1>6, FailMaps DEF Dropped, Transfer!Next
<1> QED BY <1>1, <1>3, <1>4, <1>5, <1>6

(* Every step is one of FlashTransfer.                                     *)
LEMMA StepMaps ==
  ASSUME CallInv, LagInv, [Next]_vars
  PROVE  [Transfer!Next]_(Transfer!vars)
<1>1. UNCHANGED programmer
      BY SameProgrammer
<1>2. CASE programmer.kind = "demon" /\ SendTransfer
      BY <1>2, SendMaps
<1>3. CASE ~(programmer.kind = "demon" /\ SendTransfer)
  <2>1. UNCHANGED flash
        BY <1>3, OnlySends
  <2>2. CASE UNCHANGED vars
    <3>1. UNCHANGED <<job, phase, stage, result>>
          BY <2>2 DEF vars, usb, call, course
    <3> QED BY <1>1, <2>1, <3>1, StutterMaps
  <2> QED BY <1>1, <1>3, <2>1, <2>2, UsbMaps, DemonMaps, LpcMaps DEF Next
<1> QED BY <1>2, <1>3

(* ImplementsTransfer holds for calls that find few answers, whatever else *)
(* the calls before left behind and wherever they stopped: only planned    *)
(* blocks are programmed, nothing after a success, and a verified success  *)
(* is true.                                                                *)
THEOREM TransferImplemented == Spec /\ FewWait => ImplementsTransfer
<1>1. CallInv /\ LagInv /\ [Next]_vars => [Transfer!Next]_(Transfer!vars)
      BY StepMaps
<1> QED BY <1>1, LagAlways, InitMaps, PTL DEF Spec, ImplementsTransfer, Transfer!Spec
=============================================================================
