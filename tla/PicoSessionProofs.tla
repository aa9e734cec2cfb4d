-------------------------- MODULE PicoSessionProofs --------------------------
(***************************************************************************)
(* Proofs about PicoSession, for every device size, word set, set of calls *)
(* and faults, with and without late replies.                              *)
(***************************************************************************)
EXTENDS PicoSession, RangesProofs, SequenceTheorems, TLAPS

-----------------------------------------------------------------------------
(* Typing.  A transfer stays within its plan because the loop body is      *)
(* entered only while a block is left, and a write's plan within its file. *)

InLoop  == {"load", "program", "status", "fetch", "ret", "data"}
PreLoop == {"hello", "version", "stop", "workaround", "nand", "config", "emmc", "init",
            "initd", "detect", "detected", "csd", "plan"}

LoopOK ==
  /\ pc \in InLoop => done < blocks
  /\ pc \in {"load", "program", "status"} => call.op = "write"
  /\ pc \in PreLoop => done = 0
  /\ call # None /\ call.op = "write" => blocks <= Len(call.file)

TypeInv == TypeOK /\ LoopOK

LEMMA LabelsAre ==
  /\ Sending = {"hello", "nand", "emmc", "initd", "detected", "program", "fetch"}
  /\ Awaiting = {"version", "config", "init", "detect", "csd", "status", "ret", "data"}
BY DEF Sending, Awaiting, Queries

LEMMA QueryCases ==
  ASSUME NEW q \in Queries
  PROVE  /\ q[1] \in PreLoop /\ q[3] \in PreLoop /\ q[2] \in Commands
         /\ q[3] \in Awaiting
BY LabelsAre DEF Queries, PreLoop, Commands

LEMMA LabelsPartition ==
  PcLabels = {"idle", "finish", "unwind"} \cup PreLoop \cup InLoop
BY LabelsAre DEF PcLabels, PreLoop, InLoop

LEMMA SendType ==
  ASSUME inbox \in Seq(Frame), NEW cmd \in Commands, NEW lba \in U32, NEW data \in Word,
         Send(cmd, lba, data)
  PROVE  inbox' \in Seq(Frame)
BY DEF Send, Frame

LEMMA ReceiveType ==
  ASSUME replies \in Seq(Word), Receive
  PROVE  Answer \in Word /\ replies' \in Seq(Word)
BY DEF Receive, Answer

LEMMA ReplyType ==
  ASSUME replies \in Seq(Word), NEW v \in Word, NEW w \in Word,
         Reply(<<w>>) \/ Reply(<<v, w>>)
  PROVE  replies' \in Seq(Word)
<1>1. <<w>> \in Seq(Word) /\ <<v, w>> \in Seq(Word)
  OBVIOUS
<1> QED BY <1>1, ConcatProperties DEF Reply

(* What TypeInv says of the request at work. *)
LEMMA CallType ==
  ASSUME TypeInv, pc # "idle"
  PROVE  /\ call \in Calls /\ call # None
         /\ call.op \in {"read", "write"} /\ call.media \in Media /\ call.start \in U32
         /\ call.count \in OptU32 /\ call.verify \in BOOLEAN /\ call.inputLen \in Nat
         /\ call.file \in Seq(DataWord) /\ Len(call.file) = call.inputLen \div BlockBytes
<1>1. call \in Calls /\ call # None
  BY NoCallAssumption DEF TypeInv, TypeOK
<1>2. call \in Call
  BY <1>1, CallsAssumption
<1> QED BY <1>1, <1>2, CallsAssumption DEF Call

LEMMA LbaType ==
  ASSUME TypeInv, pc # "idle"
  PROVE  Lba \in U32
<1>1. call.start \in Nat /\ done \in Nat /\ U32Max \in Nat
  BY CallType, U32MaxAssumption DEF TypeInv, TypeOK, U32
<1>2. (call.start + done) % (U32Max + 1) \in 0..U32Max
  BY <1>1
<1> QED BY <1>2 DEF Lba, U32

LEMMA FailType ==
  ASSUME TypeInv, Fail, pc # "idle", replies' \in Seq(Word)
  PROVE  TypeInv'
<1>1. pc' \in {"idle", "unwind"}
  BY DEF Fail
<1> QED
  BY <1>1, LabelsPartition DEF Fail, TypeInv, TypeOK, LoopOK, InLoop, PreLoop, request, planned, copied, device


LEMMA PlanType ==
  ASSUME TypeInv, pc = "plan", PlanOf(call) # None
  PROVE  /\ PlanOf(call) \in U32
         /\ call.op = "write" => PlanOf(call) <= Len(call.file)
<1>1. total \in OptU32
  BY DEF TypeInv, TypeOK
<1>2. CASE call.op = "read"
  BY <1>1, <1>2, CallType, PlanReadSafe DEF PlanOf
<1>3. CASE call.op = "write"
  BY <1>1, <1>3, CallType, SizeAssumption, PlanWriteSafe DEF PlanOf
<1> QED BY <1>2, <1>3, CallType

LEMMA TypeInit == Init => TypeInv
<1> SUFFICES ASSUME Init PROVE TypeInv
  OBVIOUS
<1>1. inbox \in Seq(Frame) /\ replies \in Seq(Word) /\ out \in Seq(Word)
  BY EmptySeq DEF Init
<1>2. blocks \in U32 /\ done \in 0..blocks /\ total \in OptU32 /\ calls \in 0..MaxCalls
  BY U32MaxAssumption, SizeAssumption DEF Init, U32, OptU32
<1> QED
  BY <1>1, <1>2, LabelsPartition DEF Init, TypeInv, TypeOK, LoopOK, InLoop, PreLoop

LEMMA TypeStep == TypeInv /\ [Next]_vars => TypeInv'
<1> SUFFICES ASSUME TypeInv, [Next]_vars PROVE TypeInv'
  OBVIOUS
<1> USE DEF request, planned, copied, device
<1>1. ASSUME NEW c \in Calls, Connect(c) PROVE TypeInv'
  <2>1. c # None /\ Len(c.file) \in Nat
    BY CallsAssumption, NoCallAssumption DEF Call
  <2>2. /\ replies' \in Seq(Word) /\ out' \in Seq(Word)
        /\ calls' \in 0..MaxCalls /\ done' \in 0..blocks'
    <3>1. replies' \in Seq(Word) /\ out' \in Seq(Word)
      BY <1>1, EmptySeq DEF TypeInv, TypeOK, Connect
    <3> QED BY <1>1, <3>1, SizeAssumption DEF TypeInv, TypeOK, Connect
  <2>3. 0 \in U32 /\ None \in OptU32
    BY U32MaxAssumption DEF U32, OptU32
  <2>4. LoopOK'
    BY <1>1, <2>1 DEF Connect, LoopOK, InLoop, PreLoop
  <2>5. pc' \in PcLabels
    BY <1>1, LabelsPartition DEF Connect, PreLoop
  <2> QED
    BY <1>1, <2>1, <2>2, <2>3, <2>4, <2>5 DEF Connect, TypeInv, TypeOK
<1>2. ASSUME NEW q \in Queries, Query(q) PROVE TypeInv'
  <2>1. inbox' \in Seq(Frame)
    BY <1>2, QueryCases, SendType, WordAssumption, U32MaxAssumption DEF Query, TypeInv, TypeOK, U32
  <2> QED
    BY <1>2, <2>1, QueryCases, LabelsPartition
    DEF Query, TypeInv, TypeOK, LoopOK, InLoop, PreLoop
<1>3. CASE SendFails
  BY <1>3, FailType, LabelsAre DEF SendFails, TypeInv, TypeOK
<1>4. CASE Timeout
  BY <1>4, FailType, LabelsAre DEF Timeout, TypeInv, TypeOK
<1>5. ASSUME NEW cmd \in {"STOP_SMC", "SET_SMC_WORKAROUND", "START_SMC"}, SendOrIgnore(cmd)
      PROVE  inbox' \in Seq(Frame) /\ sent' \subseteq {"STOP_SMC", "START_SMC"}
  <2>1. Zero \in Word /\ 0 \in U32 /\ cmd \in Commands
    BY WordAssumption, U32MaxAssumption DEF U32, Commands
  <2> QED BY <1>5, <2>1, SendType DEF SendOrIgnore, TypeInv, TypeOK
<1>6. CASE VersionReply
  BY <1>6, ReceiveType, LabelsPartition DEF VersionReply, TypeInv, TypeOK, LoopOK, InLoop, PreLoop
<1>7. CASE StopSmc
  BY <1>5, <1>7, LabelsPartition DEF StopSmc, TypeInv, TypeOK, LoopOK, InLoop, PreLoop
<1>8. CASE SetSmcWorkaround
  <2>1. call.media \in Media
    BY <1>8, CallType DEF SetSmcWorkaround
  <2> QED
    BY <1>5, <1>8, <2>1, LabelsPartition
    DEF SetSmcWorkaround, TypeInv, TypeOK, LoopOK, InLoop, PreLoop, Media
<1>9. CASE LeaveStopped
  BY <1>9, LabelsPartition DEF LeaveStopped, TypeInv, TypeOK, LoopOK, InLoop, PreLoop
<1>10. CASE StartSmc
  BY <1>5, <1>10, LabelsPartition DEF StartSmc, TypeInv, TypeOK, LoopOK, InLoop, PreLoop
<1>11. CASE Die
  BY <1>11, LabelsPartition DEF Die, TypeInv, TypeOK, LoopOK, InLoop, PreLoop
<1>12. CASE ConfigReply
  <2>1. replies' \in Seq(Word) /\ total' \in OptU32
    BY <1>12, ReceiveType, WordAssumption DEF ConfigReply, TypeInv, TypeOK
  <2> QED
    BY <1>12, <2>1, LabelsPartition DEF ConfigReply, TypeInv, TypeOK, LoopOK, InLoop, PreLoop
<1>13. CASE InitReply
  <2>1. replies' \in Seq(Word)
    BY <1>13, ReceiveType DEF InitReply, TypeInv, TypeOK
  <2> QED
    BY <1>13, <2>1, FailType, LabelsPartition
    DEF InitReply, TypeInv, TypeOK, LoopOK, InLoop, PreLoop
<1>14. CASE DetectReply
  <2>1. replies' \in Seq(Word)
    BY <1>14, ReceiveType DEF DetectReply, TypeInv, TypeOK
  <2> QED
    BY <1>14, <2>1, FailType, LabelsPartition
    DEF DetectReply, TypeInv, TypeOK, LoopOK, InLoop, PreLoop
<1>15. CASE CsdReply
  <2>1. replies' \in Seq(Word) /\ total' \in OptU32
    BY <1>15, ReceiveType, WordAssumption DEF CsdReply, TypeInv, TypeOK, OptU32
  <2> QED
    BY <1>15, <2>1, LabelsPartition DEF CsdReply, TypeInv, TypeOK, LoopOK, InLoop, PreLoop
<1>16. CASE MakePlan
  <2>1. CASE Fail
    BY <1>16, <2>1, FailType DEF MakePlan, TypeInv, TypeOK
  <2>2. CASE ~Fail
    <3>1. /\ blocks' \in U32
          /\ call.op = "write" => blocks' <= Len(call.file)
      BY <1>16, <2>2, PlanType DEF MakePlan
    <3>2. done = 0 /\ done \in 0..blocks'
      BY <1>16, <3>1, U32MaxAssumption DEF MakePlan, TypeInv, LoopOK, PreLoop, U32
    <3>3. blocks' # 0 => done < blocks'
      BY <3>1, <3>2, U32MaxAssumption DEF U32
    <3> QED
      BY <1>16, <2>2, <3>1, <3>2, <3>3, CallType, LabelsPartition
      DEF MakePlan, LoopHead, TypeInv, TypeOK, LoopOK, InLoop, PreLoop
  <2> QED BY <2>1, <2>2
<1>17. CASE LoadBlock
  <2>1. CASE Fail
    BY <1>17, <2>1, FailType DEF LoadBlock, TypeInv, TypeOK
  <2>2. CASE ~Fail
    BY <1>17, <2>2, LabelsPartition DEF LoadBlock, TypeInv, TypeOK, LoopOK, InLoop, PreLoop
  <2> QED BY <2>1, <2>2
<1>18. CASE ProgramBlock
  <2>1. call.file[done + 1] \in Word
    <3>1. done + 1 \in 1..Len(call.file)
      BY <1>18, CallType, U32MaxAssumption DEF ProgramBlock, TypeInv, TypeOK, LoopOK, InLoop, U32
    <3> QED BY <1>18, <3>1, CallType, WordAssumption DEF ProgramBlock
  <2>2. WriteCmd(call.media) \in Commands
    BY DEF WriteCmd, Commands
  <2>3. inbox' \in Seq(Frame)
    BY <1>18, <2>1, <2>2, LbaType, SendType DEF ProgramBlock, TypeInv, TypeOK
  <2> QED
    BY <1>18, <2>3, LabelsPartition DEF ProgramBlock, TypeInv, TypeOK, LoopOK, InLoop, PreLoop
<1>19. ASSUME BlockDone, done < blocks, UNCHANGED <<call, blocks>>, call.op \in {"read", "write"}
       PROVE  /\ done' \in 0..blocks'
              /\ pc' \in {"finish", "fetch", "load"}
              /\ pc' = "load" => call.op = "write"
              /\ pc' \in InLoop => done' < blocks'
  <2>1. done \in Nat /\ blocks \in Nat
    BY U32MaxAssumption DEF TypeInv, TypeOK, U32
  <2> QED BY <1>19, <2>1 DEF BlockDone, LoopHead, InLoop
<1>20. CASE StatusReply
  <2>1. replies' \in Seq(Word)
    BY <1>20, ReceiveType DEF StatusReply, TypeInv, TypeOK
  <2>2. CASE Fail
    BY <1>20, <2>1, <2>2, FailType DEF StatusReply
  <2>3. CASE ~Fail /\ call.verify
    BY <1>20, <2>1, <2>3, LabelsPartition DEF StatusReply, TypeInv, TypeOK, LoopOK, InLoop, PreLoop
  <2>4. CASE ~Fail /\ ~call.verify
    <3>1. done < blocks /\ call.op \in {"read", "write"}
      BY <1>20, CallType DEF StatusReply, TypeInv, LoopOK, InLoop
    <3>2. BlockDone /\ UNCHANGED <<call, blocks>>
      BY <1>20, <2>4 DEF StatusReply
    <3> QED
      BY <1>19, <1>20, <2>1, <2>4, <3>1, <3>2, LabelsPartition
      DEF StatusReply, TypeInv, TypeOK, LoopOK, InLoop, PreLoop
  <2> QED BY <2>2, <2>3, <2>4
<1>21. CASE FetchBlock
  <2>1. ReadCmd(call.media) \in Commands /\ Zero \in Word
    BY WordAssumption DEF ReadCmd, Commands
  <2>2. inbox' \in Seq(Frame)
    BY <1>21, <2>1, LbaType, SendType DEF FetchBlock, TypeInv, TypeOK
  <2> QED
    BY <1>21, <2>2, LabelsPartition DEF FetchBlock, TypeInv, TypeOK, LoopOK, InLoop, PreLoop
<1>22. CASE RetReply
  <2>1. replies' \in Seq(Word)
    BY <1>22, ReceiveType DEF RetReply, TypeInv, TypeOK
  <2>2. CASE Fail
    BY <1>22, <2>1, <2>2, FailType DEF RetReply
  <2>3. CASE ~Fail
    BY <1>22, <2>1, <2>3, LabelsPartition DEF RetReply, TypeInv, TypeOK, LoopOK, InLoop, PreLoop
  <2> QED BY <2>2, <2>3
<1>23. CASE DataReply
  <2>1. replies' \in Seq(Word) /\ Answer \in Word
    BY <1>23, ReceiveType DEF DataReply, TypeInv, TypeOK
  <2>2. CASE Fail
    BY <1>23, <2>1, <2>2, FailType DEF DataReply
  <2>3. CASE ~Fail
    <3>1. done < blocks /\ call.op \in {"read", "write"}
      BY <1>23, CallType DEF DataReply, TypeInv, LoopOK, InLoop
    <3>2. BlockDone /\ UNCHANGED <<call, blocks>>
      BY <1>23, <2>3 DEF DataReply
    <3>3. out' \in Seq(Word)
      <4>1. out' = out \/ out' = Append(out, Answer)
        BY <1>23, <2>3 DEF DataReply
      <4>2. out \in Seq(Word)
        BY DEF TypeInv, TypeOK
      <4> QED BY <2>1, <4>1, <4>2, AppendProperties
    <3>4. UNCHANGED <<calls, total, keepStopped, result, sent, inbox, device>>
      BY <1>23, <2>3 DEF DataReply
    <3>5. /\ done' \in 0..blocks' /\ pc' \in {"finish", "fetch", "load"}
          /\ pc' = "load" => call.op = "write"
          /\ pc' \in InLoop => done' < blocks'
      BY <1>19, <3>1, <3>2
    <3>6. LoopOK'
      BY <3>2, <3>5 DEF TypeInv, LoopOK, PreLoop
    <3>7. pc' \in PcLabels /\ call \in Calls /\ call # None
      BY <1>23, <3>5, CallType, LabelsPartition DEF DataReply, InLoop
    <3> QED
      BY <2>1, <3>2, <3>3, <3>4, <3>5, <3>6, <3>7 DEF TypeInv, TypeOK
  <2> QED BY <2>2, <2>3
<1>24. CASE Finish
  <2>1. CASE Fail
    BY <1>24, <2>1, FailType DEF Finish, TypeInv, TypeOK
  <2>2. CASE ~Fail
    BY <1>24, <2>2, LabelsPartition DEF Finish, TypeInv, TypeOK, LoopOK, InLoop, PreLoop
  <2> QED BY <2>1, <2>2
<1>25. CASE Handle
  <2> DEFINE f == Head(inbox)
  <2>1. f \in Frame /\ inbox' \in Seq(Frame)
    BY <1>25 DEF Handle, TypeInv, TypeOK
  <2>2. replies \in Seq(Word) /\ Zero \in Word /\ ErrWord \in Word
    BY WordAssumption DEF TypeInv, TypeOK
  <2>3. /\ replies' \in Seq(Word) /\ flash' \in [Addr -> DataWord] /\ medium' \in Media
        /\ smc' \in {"running", "stopped"} /\ tainted' \subseteq Addr
    <3>1. CASE SmcCommand(f)
      BY <3>1 DEF SmcCommand, TypeInv, TypeOK
    <3>2. CASE Inquiry(f)
      <4>1. PICK w \in Word : Reply(<<w>>)
        BY <3>2, WordAssumption DEF Inquiry
      <4>2. replies' \in Seq(Word)
        BY <2>2, <4>1, ReplyType
      <4> QED BY <3>2, <4>2 DEF Inquiry, TypeInv, TypeOK
    <3>3. CASE ReadFlash(f)
      <4>1. f.lba \in Addr => flash[f.lba] \in Word
        BY WordAssumption DEF TypeInv, TypeOK
      <4>2. \/ f.lba \in Addr /\ Reply(<<Zero, flash[f.lba]>>)
            \/ Reply(<<ErrWord>>)
        BY <3>3 DEF ReadFlash
      <4>3. replies' \in Seq(Word)
        BY <2>2, <4>1, <4>2, ReplyType
      <4> QED BY <3>3, <4>3 DEF ReadFlash, TypeInv, TypeOK
    <3>4. CASE WriteFlash(f)
      <4>1. PICK w \in Word : Reply(<<w>>)
        BY <3>4, WordAssumption DEF WriteFlash
      <4>2. replies' \in Seq(Word)
        BY <2>2, <4>1, ReplyType
      <4> QED BY <3>4, <4>2 DEF WriteFlash, TypeInv, TypeOK
    <3> QED BY <1>25, <3>1, <3>2, <3>3, <3>4 DEF Handle
  <2> QED
    BY <1>25, <2>1, <2>3 DEF Handle, hostVars, TypeInv, TypeOK, LoopOK
<1>26. CASE UNCHANGED vars
  BY <1>26 DEF vars, hostVars, TypeInv, TypeOK, LoopOK
<1> QED
  BY <1>1, <1>2, <1>3, <1>4, <1>6, <1>7, <1>8, <1>9, <1>10, <1>11, <1>12, <1>13, <1>14, <1>15,
     <1>16, <1>17, <1>18, <1>20, <1>21, <1>22, <1>23, <1>24, <1>25, <1>26 DEF Next, HostStep

(* Every state of every behaviour is well typed, and a transfer never      *)
(* counts more blocks than it planned.                                     *)
THEOREM TypeCorrect == Spec => []TypeOK
<1>1. Init => TypeInv
  BY TypeInit
<1>2. TypeInv /\ [Next]_vars => TypeInv'
  BY TypeStep
<1>3. TypeInv => TypeOK
  BY DEF TypeInv
<1> QED BY <1>1, <1>2, <1>3, PTL DEF Spec

-----------------------------------------------------------------------------
(* The console's SMC.  A STOP_SMC that is on the line, or was handled,     *)
(* holds the console as long as no START_SMC follows, and START_SMC is     *)
(* sent only as the last thing of a call that does not have to hold it.    *)

SmcInv ==
  /\ "STOP_SMC" \in sent /\ "START_SMC" \notin sent => StaysStopped
  /\ "START_SMC" \in sent => pc = "idle" /\ (result = "ok" \/ ~keepStopped)
  /\ pc = "unwind" => result \in {"ok", "err"}

LEMMA SendKeepsStopped ==
  ASSUME inbox \in Seq(Frame), StaysStopped, UNCHANGED smc,
         NEW cmd, NEW lba, NEW data, cmd # "START_SMC", Send(cmd, lba, data)
  PROVE  StaysStopped'
<1> DEFINE frame == [cmd |-> cmd, lba |-> lba, data |-> data]
<1>1. /\ Len(inbox') = Len(inbox) + 1
      /\ \A j \in 1..Len(inbox) : inbox'[j] = inbox[j]
      /\ inbox'[Len(inbox) + 1] = frame
      /\ Len(inbox) \in Nat
  BY AppendProperties DEF Send
<1>2. ASSUME NEW i \in 1..(Len(inbox) + 1), StoppedFrom(i) PROVE StoppedFrom(i)'
  <2>1. ASSUME NEW j \in i..(Len(inbox) + 1) PROVE inbox'[j].cmd # "START_SMC"
    BY <1>1, <1>2 DEF StoppedFrom
  <2> QED BY <1>1, <2>1 DEF StoppedFrom
<1>3. CASE smc = "stopped" /\ StoppedFrom(1)
  <2>1. StoppedFrom(1)'
    BY <1>1, <1>2, <1>3
  <2> QED BY <1>3, <2>1 DEF StaysStopped
<1>4. CASE \E i \in 1..Len(inbox) : inbox[i].cmd = "STOP_SMC" /\ StoppedFrom(i)
  <2>1. PICK i \in 1..Len(inbox) : inbox[i].cmd = "STOP_SMC" /\ StoppedFrom(i)
    BY <1>4
  <2>2. i \in 1..Len(inbox') /\ inbox'[i].cmd = "STOP_SMC" /\ StoppedFrom(i)'
    BY <1>1, <1>2, <2>1
  <2> QED BY <2>2 DEF StaysStopped
<1> QED BY <1>3, <1>4 DEF StaysStopped

LEMMA StopHolds ==
  ASSUME inbox \in Seq(Frame), Send("STOP_SMC", 0, Zero)
  PROVE  StaysStopped'
<1>1. PICK n \in Nat : n = Len(inbox) + 1
  OBVIOUS
<1>2. n \in 1..Len(inbox') /\ Len(inbox') = n /\ inbox'[n].cmd = "STOP_SMC"
  BY <1>1, AppendProperties DEF Send
<1>3. StoppedFrom(n)'
  BY <1>2 DEF StoppedFrom
<1> QED BY <1>2, <1>3 DEF StaysStopped

LEMMA HandleKeepsStopped ==
  ASSUME inbox \in Seq(Frame), StaysStopped, Handle
  PROVE  StaysStopped'
<1>1. /\ inbox # << >> /\ Len(inbox) \in Nat /\ Len(inbox) > 0
      /\ Len(inbox') = Len(inbox) - 1
      /\ \A j \in 1..(Len(inbox) - 1) : inbox'[j] = inbox[j + 1]
      /\ Head(inbox) = inbox[1]
  BY HeadTailProperties, EmptySeq DEF Handle
<1>2. /\ inbox[1].cmd = "STOP_SMC" => smc' = "stopped"
      /\ inbox[1].cmd # "START_SMC" /\ smc = "stopped" => smc' = "stopped"
  <2> DEFINE f == inbox[1]
  <2>1. SmcCommand(f) \/ Inquiry(f) \/ ReadFlash(f) \/ WriteFlash(f)
    BY <1>1 DEF Handle
  <2>2. CASE SmcCommand(f)
    BY <2>2 DEF SmcCommand
  <2>3. CASE Inquiry(f)
    BY <2>3 DEF Inquiry, device
  <2>4. CASE ReadFlash(f)
    BY <2>4 DEF ReadFlash, ReadCmd, device
  <2>5. CASE WriteFlash(f)
    BY <2>5 DEF WriteFlash, WriteCmd
  <2> QED BY <2>1, <2>2, <2>3, <2>4, <2>5
<1>3. ASSUME NEW i \in 1..Len(inbox), StoppedFrom(i)
      PROVE  /\ StoppedFrom(1)' \/ i > 1
             /\ i > 1 => StoppedFrom(i - 1)'
  <2>1. ASSUME NEW k \in 1..Len(inbox), NEW j \in k..Len(inbox'), k + 1 >= i
        PROVE  inbox'[j].cmd # "START_SMC"
    <3>1. j + 1 \in i..Len(inbox) /\ j \in 1..(Len(inbox) - 1)
      BY <1>1, <2>1
    <3> QED BY <1>1, <1>3, <3>1 DEF StoppedFrom
  <2>2. i > 1 => i - 1 \in 1..Len(inbox)
    BY <1>1
  <2>3. 1 \in 1..Len(inbox)
    BY <1>1
  <2>4. CASE i = 1
    BY <2>1, <2>3, <2>4 DEF StoppedFrom
  <2>5. CASE i > 1
    BY <2>1, <2>2, <2>5 DEF StoppedFrom
  <2> QED BY <1>1, <2>4, <2>5
<1>4. CASE smc = "stopped" /\ StoppedFrom(1)
  <2>1. 1 \in 1..Len(inbox) /\ inbox[1].cmd # "START_SMC"
    BY <1>1, <1>4 DEF StoppedFrom
  <2> QED BY <1>2, <1>3, <1>4, <2>1 DEF StaysStopped
<1>5. CASE \E i \in 1..Len(inbox) : inbox[i].cmd = "STOP_SMC" /\ StoppedFrom(i)
  <2>1. PICK i \in 1..Len(inbox) : inbox[i].cmd = "STOP_SMC" /\ StoppedFrom(i)
    BY <1>5
  <2>2. CASE i = 1
    <3>1. smc' = "stopped" /\ StoppedFrom(1)'
      BY <1>2, <1>3, <2>1, <2>2
    <3> QED BY <3>1 DEF StaysStopped
  <2>3. CASE i > 1
    <3>1. i - 1 \in 1..Len(inbox') /\ inbox'[i - 1] = inbox[i]
      BY <1>1, <2>3
    <3> QED BY <1>3, <2>1, <2>3, <3>1 DEF StaysStopped
  <2> QED BY <1>1, <2>2, <2>3
<1> QED BY <1>4, <1>5 DEF StaysStopped

LEMMA SmcInit == Init => SmcInv
BY DEF Init, SmcInv

LEMMA SmcStep == TypeInv /\ SmcInv /\ [Next]_vars => SmcInv'
<1> SUFFICES ASSUME TypeInv, SmcInv, [Next]_vars PROVE SmcInv'
  OBVIOUS
<1> USE DEF request, planned, copied, device
<1>1. inbox \in Seq(Frame) /\ sent \subseteq {"STOP_SMC", "START_SMC"}
  BY DEF TypeInv, TypeOK
<1>2. ASSUME StaysStopped, UNCHANGED <<inbox, smc>> PROVE StaysStopped'
  BY <1>2 DEF StaysStopped, StoppedFrom
<1>3. ASSUME Fail, pc # "idle" PROVE SmcInv'
  BY <1>2, <1>3 DEF Fail, SmcInv
<1>4. ASSUME NEW c \in Calls, Connect(c) PROVE SmcInv'
  BY <1>4 DEF Connect, SmcInv
<1>5. ASSUME NEW q \in Queries, Query(q) PROVE SmcInv'
  <2>1. q[2] # "START_SMC" /\ q[1] # "idle" /\ q[3] # "unwind"
    BY DEF Queries
  <2>2. StaysStopped => StaysStopped'
    BY <1>1, <1>5, <2>1, SendKeepsStopped DEF Query
  <2> QED BY <1>5, <2>1, <2>2 DEF Query, SmcInv
<1>6. CASE SendFails \/ Timeout
  BY <1>3, <1>6, LabelsAre DEF SendFails, Timeout
<1>7. CASE VersionReply \/ ConfigReply \/ CsdReply
  BY <1>2, <1>7 DEF VersionReply, ConfigReply, CsdReply, SmcInv
<1>8. CASE StopSmc
  <2>1. CASE Send("STOP_SMC", 0, Zero)
    BY <1>1, <1>8, <2>1, StopHolds DEF StopSmc, SmcInv, SendOrIgnore
  <2>2. CASE UNCHANGED <<inbox, sent>>
    BY <1>2, <1>8, <2>2 DEF StopSmc, SmcInv
  <2> QED BY <1>8, <2>1, <2>2 DEF StopSmc, SendOrIgnore
<1>9. CASE SetSmcWorkaround
  <2>1. StaysStopped => StaysStopped'
    BY <1>1, <1>2, <1>9, SendKeepsStopped DEF SetSmcWorkaround, SendOrIgnore
  <2>2. sent' = sent /\ pc' \in Media
    BY <1>9, CallType DEF SetSmcWorkaround, SendOrIgnore
  <2> QED BY <1>9, <2>1, <2>2 DEF SetSmcWorkaround, SmcInv, Media
<1>10. CASE LeaveStopped
  BY <1>2, <1>10 DEF LeaveStopped, SmcInv
<1>11. CASE StartSmc
  <2>1. CASE Send("START_SMC", 0, Zero) /\ "START_SMC" \in sent'
    BY <1>11, <2>1 DEF StartSmc, MustStayStopped, SmcInv
  <2>2. CASE UNCHANGED <<inbox, sent>>
    BY <1>2, <1>11, <2>2 DEF StartSmc, SmcInv
  <2> QED BY <1>11, <2>1, <2>2 DEF StartSmc, SendOrIgnore
<1>12. CASE Die
  BY <1>2, <1>12 DEF Die, SmcInv
<1>13. CASE InitReply \/ DetectReply \/ RetReply
  BY <1>2, <1>3, <1>13 DEF InitReply, DetectReply, RetReply, SmcInv
<1>14. CASE MakePlan \/ LoadBlock
  BY <1>2, <1>3, <1>14 DEF MakePlan, LoadBlock, LoopHead, SmcInv
<1>15. CASE ProgramBlock \/ FetchBlock
  <2>1. StaysStopped => StaysStopped'
    BY <1>1, <1>15, SendKeepsStopped DEF ProgramBlock, FetchBlock, ReadCmd, WriteCmd
  <2> QED BY <1>15, <2>1 DEF ProgramBlock, FetchBlock, SmcInv
<1>16. CASE StatusReply \/ DataReply
  <2>1. CASE Fail
    BY <1>3, <1>16, <2>1 DEF StatusReply, DataReply
  <2>2. CASE ~Fail
    BY <1>2, <1>16, <2>2 DEF StatusReply, DataReply, BlockDone, LoopHead, SmcInv
  <2> QED BY <2>1, <2>2
<1>17. CASE Finish
  BY <1>2, <1>3, <1>17 DEF Finish, SmcInv
<1>18. CASE Handle
  <2>1. StaysStopped => StaysStopped'
    BY <1>1, <1>18, HandleKeepsStopped
  <2> QED BY <1>18, <2>1 DEF Handle, hostVars, SmcInv
<1>19. CASE UNCHANGED vars
  BY <1>2, <1>19 DEF vars, hostVars, SmcInv
<1> QED
  BY <1>4, <1>5, <1>6, <1>7, <1>8, <1>9, <1>10, <1>11, <1>12, <1>13, <1>14, <1>15, <1>16, <1>17,
     <1>18, <1>19 DEF Next, HostStep

(* A console on which a write has begun is held until that write is done   *)
(* or the next call begins, whatever fails, times out or dies, and         *)
(* whatever earlier calls have left on the line.                           *)
THEOREM PartialImageHeldAlways == Spec => []PartialImageHeld
<1>1. Init => TypeInv /\ SmcInv
  BY TypeInit, SmcInit
<1>2. TypeInv /\ SmcInv /\ [Next]_vars => TypeInv' /\ SmcInv'
  BY TypeStep, SmcStep
<1>3. SmcInv => PartialImageHeld
  BY DEF SmcInv, PartialImageHeld
<1> QED BY <1>1, <1>2, <1>3, PTL DEF Spec

-----------------------------------------------------------------------------
(* On a line that accepts every command STOP_SMC has been sent before any  *)
(* block is moved, and SmcInv tells that it still holds.                   *)

BeforeStop == {"idle", "hello", "version", "stop", "unwind"}
StopSent   == pc \notin BeforeStop => "STOP_SMC" \in sent

LEMMA StopSentStep ==
  ASSUME "send" \notin Faults
  PROVE  TypeInv /\ StopSent /\ [Next]_vars => StopSent'
<1> SUFFICES ASSUME TypeInv, StopSent, [Next]_vars PROVE StopSent'
  OBVIOUS
<1> USE DEF StopSent, BeforeStop
<1>1. ASSUME Fail PROVE StopSent'
  BY <1>1 DEF Fail
<1>2. ASSUME NEW c \in Calls, Connect(c) PROVE StopSent'
  BY <1>2 DEF Connect
<1>3. ASSUME NEW q \in Queries, Query(q) PROVE StopSent'
  BY <1>3 DEF Query, Queries
<1>4. CASE SendFails \/ Timeout
  BY <1>1, <1>4 DEF SendFails, Timeout
<1>5. CASE VersionReply \/ StopSmc \/ LeaveStopped \/ StartSmc \/ Die
  BY <1>5 DEF VersionReply, StopSmc, LeaveStopped, StartSmc, Die, SendOrIgnore
<1>6. CASE SetSmcWorkaround
  BY <1>6 DEF SetSmcWorkaround, SendOrIgnore
<1>7. CASE ConfigReply \/ InitReply \/ DetectReply \/ CsdReply
  BY <1>1, <1>7 DEF ConfigReply, InitReply, DetectReply, CsdReply
<1>8. CASE MakePlan \/ LoadBlock \/ ProgramBlock \/ FetchBlock \/ RetReply \/ Finish
  BY <1>1, <1>8 DEF MakePlan, LoadBlock, ProgramBlock, FetchBlock, RetReply, Finish
<1>9. CASE StatusReply \/ DataReply
  BY <1>1, <1>9 DEF StatusReply, DataReply
<1>10. CASE Handle \/ UNCHANGED vars
  BY <1>10 DEF Handle, hostVars, vars
<1> QED
  BY <1>2, <1>3, <1>4, <1>5, <1>6, <1>7, <1>8, <1>9, <1>10 DEF Next, HostStep

(* While blocks are moved the console is stopped, or will be before the    *)
(* programmer gets to the first block, provided that STOP_SMC was sent:    *)
(* its failure is the one way around it.                                   *)
THEOREM StoppedUnlessSendFails ==
  ASSUME "send" \notin Faults
  PROVE  Spec => []StoppedDuringTransfer
<1>1. Init => TypeInv /\ SmcInv /\ StopSent
  BY TypeInit, SmcInit DEF Init, StopSent, BeforeStop
<1>2. TypeInv /\ SmcInv /\ StopSent /\ [Next]_vars => TypeInv' /\ SmcInv' /\ StopSent'
  BY TypeStep, SmcStep, StopSentStep
<1>3. SmcInv /\ StopSent => StoppedDuringTransfer
  BY DEF SmcInv, StopSent, BeforeStop, StoppedDuringTransfer
<1> QED BY <1>1, <1>2, <1>3, PTL DEF Spec

-----------------------------------------------------------------------------
(* What an outcome "ok" says about the content of flash and output, and    *)
(* that the writes implement FlashTransfer, when nothing of a call         *)
(* outlives it on the line.  Two interlocking facts carry the proof: the   *)
(* line holds only the question the host waits for, or its answer, and     *)
(* what is counted as done is on the flash.                                *)

SmcCmds   == {"STOP_SMC", "SET_SMC_WORKAROUND", "START_SMC"}
WriteCmds == {"WRITE_FLASH", "EMMC_WRITE"}
Inquiries == {"GET_VERSION", "GET_FLASH_CONFIG", "EMMC_INIT", "EMMC_DETECT", "EMMC_GET_EXT_CSD"}

Inquiring == {"version", "config", "init", "detect", "csd"}
Moving    == InLoop \cup {"finish"}
Speaking  == (PreLoop \cup Moving) \ Awaiting

(* What is on the line: at most commands that get no answer; a question    *)
(* after them; or nothing but the answer to it.                            *)
SmcOnly == \A i \in 1..Len(inbox) : inbox[i].cmd \in SmcCmds
Quiet   == SmcOnly /\ replies = << >>
Asked(frame) ==
  /\ replies = << >> /\ inbox # << >> /\ inbox[Len(inbox)] = frame
  /\ \A i \in 1..(Len(inbox) - 1) : inbox[i].cmd \in SmcCmds
Answered(words) == inbox = << >> /\ replies = words

CourseOK ==
  /\ call = None => result = "none" /\ inbox = << >>
  /\ pc \notin {"idle", "unwind"} => result = "none"
  /\ pc = "idle" /\ call # None => result # "none"
  /\ pc = "unwind" => result # "none"
  /\ pc \in PreLoop => blocks = 0 /\ out = << >>
  /\ pc \in InLoop => RangeOk(call.start, blocks, total)
  /\ pc = "finish" => done = blocks
  /\ result = "ok" => done = blocks /\ SmcOnly

QueryFrame(cmd)       == [cmd |-> cmd, lba |-> 0, data |-> Zero]
BlockFrame(cmd, word) == [cmd |-> cmd, lba |-> Lba, data |-> word]
NextWord == call.file[done + 1]
Stored   == Lba \in Addr /\ (call.media \notin SilentMedia => flash[Lba] = NextWord)

InquiryOK ==
  pc \in Inquiring => \/ \E cmd \in Inquiries : Asked(QueryFrame(cmd))
                      \/ \E w \in Word : Answered(<<w>>)
StatusOK ==
  pc = "status" => \/ Asked(BlockFrame(WriteCmd(call.media), NextWord))
                   \/ \E w \in Word : Answered(<<w>>) /\ (w = Zero => Stored)
RetOK ==
  pc = "ret" => \/ Asked(BlockFrame(ReadCmd(call.media), Zero))
                \/ Lba \in Addr /\ Answered(<<Zero, flash[Lba]>>)
                \/ Answered(<<ErrWord>>)
DataOK == pc = "data" => Lba \in Addr /\ Answered(<<flash[Lba]>>)
LineOK == (pc \in Speaking => Quiet) /\ InquiryOK /\ StatusOK /\ RetOK /\ DataOK

(* A write on the line belongs to the plan of the call, given up or not.   *)
WritesPlanned ==
  \A i \in 1..Len(inbox) :
    inbox[i].cmd \in WriteCmds => /\ call # None /\ call.op = "write"
                                  /\ inbox[i].lba \in WriteRange

Copied      == pc \in Moving \/ result = "ok"
AllOnMedium == \A i \in 0..(done - 1) : call.start + i \in Addr
Image(n)    == [i \in 1..n |-> flash[call.start + i - 1]]
ContentOK ==
  /\ Copied /\ call.op = "write" /\ Trusted =>
       AllOnMedium /\ \A i \in 0..(done - 1) : flash[call.start + i] = call.file[i + 1]
  /\ Copied /\ call.op = "read" => AllOnMedium /\ out = Image(done)

Rest == CourseOK /\ LineOK /\ WritesPlanned /\ ContentOK
Inv  == TypeInv /\ Rest

-----------------------------------------------------------------------------
(* Labels and commands. *)
LEMMA Pcs ==
  /\ Inquiring \subseteq PreLoop
  /\ Speaking = {"hello", "stop", "workaround", "nand", "emmc", "initd", "detected", "plan",
                 "load", "program", "fetch", "finish"}
  /\ \A q \in Queries : q[1] \in Speaking \cap PreLoop /\ q[3] \in Inquiring /\ q[2] \in Inquiries
BY LabelsAre DEF Inquiring, PreLoop, Speaking, Moving, InLoop, Queries, Inquiries

LEMMA CmdsDiffer ==
  ASSUME NEW m \in Media
  PROVE  /\ WriteCmd(m) \in WriteCmds /\ WriteCmd(m) \notin SmcCmds \cup Inquiries
         /\ ReadCmd(m) \notin SmcCmds \cup Inquiries \cup WriteCmds
         /\ \A n \in Media : ReadCmd(m) # WriteCmd(n)
         /\ \A n \in Media : ReadCmd(m) = ReadCmd(n) \/ WriteCmd(m) = WriteCmd(n) => m = n
BY DEF Media, WriteCmd, ReadCmd, WriteCmds, SmcCmds, Inquiries

LEMMA InquiriesDiffer == Inquiries \cap (SmcCmds \cup WriteCmds) = {} /\ WriteCmds \cap SmcCmds = {}
BY DEF SmcCmds, WriteCmds, Inquiries

LEMMA InboxType ==
  ASSUME TypeInv
  PROVE  inbox \in Seq(Frame) /\ replies \in Seq(Word) /\ flash \in [Addr -> DataWord]
BY DEF TypeInv, TypeOK

(* In the loop the block is one of the plan, and its number did not wrap. *)
LEMMA LbaIs ==
  ASSUME TypeInv, CourseOK, pc \in InLoop
  PROVE  /\ Lba = call.start + done /\ Lba \in WriteRange
         /\ call # None /\ call.start \in Nat /\ done \in Nat /\ blocks \in Nat
         /\ done + 1 <= blocks /\ result = "none"
<1>1. pc # "idle" /\ done < blocks /\ RangeOk(call.start, blocks, total) /\ result = "none"
  BY DEF TypeInv, LoopOK, CourseOK, InLoop
<1>2. call # None /\ call.start \in U32 /\ blocks \in U32 /\ total \in OptU32
  BY <1>1, CallType DEF TypeInv, TypeOK
<1>3. /\ call.start \in Nat /\ done \in Nat /\ blocks \in Nat /\ done + 1 <= blocks
      /\ done \in 0..(blocks - 1)
  BY <1>1, <1>2, U32MaxAssumption DEF TypeInv, TypeOK, U32
<1>4. Lba = call.start + done
  BY <1>1, <1>2, <1>3, RangeOkNoWrap DEF Lba
<1> QED BY <1>1, <1>2, <1>3, <1>4 DEF WriteRange

-----------------------------------------------------------------------------
(* What the host's sending does to the line. *)
LEMMA SentIs ==
  ASSUME inbox \in Seq(Frame), NEW cmd, NEW lba, NEW data, Send(cmd, lba, data)
  PROVE  /\ Len(inbox) \in Nat /\ Len(inbox') = Len(inbox) + 1 /\ inbox' # << >>
         /\ \A i \in 1..Len(inbox) : inbox'[i] = inbox[i]
         /\ inbox'[Len(inbox) + 1] = [cmd |-> cmd, lba |-> lba, data |-> data]
BY AppendProperties DEF Send

LEMMA SendAsks ==
  ASSUME inbox \in Seq(Frame), Quiet, UNCHANGED replies,
         NEW cmd, NEW lba, NEW data, Send(cmd, lba, data)
  PROVE  /\ replies' = << >> /\ inbox' # << >>
         /\ inbox'[Len(inbox')] = [cmd |-> cmd, lba |-> lba, data |-> data]
         /\ \A i \in 1..(Len(inbox') - 1) : inbox'[i].cmd \in SmcCmds
BY SentIs DEF Quiet, SmcOnly

LEMMA SmcSent ==
  ASSUME inbox \in Seq(Frame), SmcOnly, NEW cmd \in SmcCmds, SendOrIgnore(cmd)
  PROVE  SmcOnly'
<1>1. CASE Send(cmd, 0, Zero)
  <2>1. ASSUME NEW i \in 1..(Len(inbox) + 1) PROVE inbox'[i].cmd \in SmcCmds
    <3>1. CASE i \in 1..Len(inbox)
      BY <1>1, <3>1, SentIs DEF SmcOnly
    <3>2. CASE i = Len(inbox) + 1
      <4>1. inbox'[i] = QueryFrame(cmd)
        BY <1>1, <3>2, SentIs DEF QueryFrame
      <4> QED BY <4>1 DEF QueryFrame
    <3> QED BY <1>1, <3>1, <3>2, SentIs
  <2> QED BY <1>1, <2>1, SentIs DEF SmcOnly
<1>2. CASE UNCHANGED inbox
  BY <1>2 DEF SmcOnly
<1> QED BY <1>1, <1>2 DEF SendOrIgnore

LEMMA SentPlanned ==
  ASSUME inbox \in Seq(Frame), WritesPlanned, UNCHANGED <<call, blocks>>,
         NEW cmd, NEW lba, NEW data, Send(cmd, lba, data),
         cmd \in WriteCmds => call # None /\ call.op = "write" /\ lba \in WriteRange
  PROVE  WritesPlanned'
<1>1. WriteRange' = WriteRange
  BY DEF WriteRange
<1>2. ASSUME NEW i \in 1..(Len(inbox) + 1), inbox'[i].cmd \in WriteCmds
      PROVE  call # None /\ call.op = "write" /\ inbox'[i].lba \in WriteRange
  <2>1. CASE i \in 1..Len(inbox)
    BY <1>2, <2>1, SentIs DEF WritesPlanned
  <2>2. CASE i = Len(inbox) + 1
    <3>1. inbox'[i] = [cmd |-> cmd, lba |-> lba, data |-> data]
      BY <2>2, SentIs
    <3>2. inbox'[i].cmd = cmd /\ inbox'[i].lba = lba
      BY <3>1
    <3> QED BY <1>2, <3>2
  <2> QED BY <2>1, <2>2, SentIs
<1> QED BY <1>1, <1>2, SentIs DEF WritesPlanned

LEMMA SmcSentPlanned ==
  ASSUME inbox \in Seq(Frame), WritesPlanned, UNCHANGED <<call, blocks>>,
         NEW cmd \in SmcCmds, SendOrIgnore(cmd)
  PROVE  WritesPlanned'
<1>1. CASE Send(cmd, 0, Zero)
  BY <1>1, SentPlanned, InquiriesDiffer
<1>2. CASE UNCHANGED inbox
  BY <1>2 DEF WritesPlanned, WriteRange
<1> QED BY <1>1, <1>2 DEF SendOrIgnore

(* Reading an answer. *)
LEMMA ReceivedIs ==
  ASSUME Receive
  PROVE  /\ \A w : replies = <<w>> => Answer = w /\ replies' = << >>
         /\ \A v, w : replies = <<v, w>> => Answer = v /\ replies' = <<w>>
<1>1. ASSUME NEW w PROVE Head(<<w>>) = w /\ Tail(<<w>>) = << >>
  <2>1. <<w>> \in Seq({w}) /\ Len(<<w>>) = 1
    OBVIOUS
  <2>2. Tail(<<w>>) \in Seq({w}) /\ Len(Tail(<<w>>)) = 0
    BY <2>1, HeadTailProperties, EmptySeq
  <2> QED BY <2>2, EmptySeq
<1>2. ASSUME NEW v, NEW w PROVE Head(<<v, w>>) = v /\ Tail(<<v, w>>) = <<w>>
  OBVIOUS
<1> QED BY <1>1, <1>2 DEF Receive, Answer

-----------------------------------------------------------------------------
(* What the programmer's handling does to the line. *)
LEMMA HandledIs ==
  ASSUME TypeInv, Handle
  PROVE  /\ Len(inbox) \in Nat \ {0} /\ Len(inbox') = Len(inbox) - 1
         /\ inbox' \in Seq(Frame) /\ inbox # << >>
         /\ \A i \in 1..(Len(inbox) - 1) : inbox'[i] = inbox[i + 1]
         /\ Head(inbox) = inbox[1] /\ inbox[1] \in Frame
BY InboxType, HeadTailProperties, EmptySeq DEF Handle

LEMMA HandledKind ==
  ASSUME TypeInv, Handle, NEW f, f = inbox[1]
  PROVE  /\ f.cmd \in SmcCmds => SmcCommand(f)
         /\ f.cmd \in Inquiries => Inquiry(f)
         /\ \A m \in Media : f.cmd = ReadCmd(m) => ReadFlash(f)
         /\ \A m \in Media : f.cmd = WriteCmd(m) => WriteFlash(f)
         /\ f.cmd \notin WriteCmds => UNCHANGED <<medium, flash, tainted>>
         /\ f.cmd \in SmcCmds => UNCHANGED replies
<1>1. SmcCommand(f) \/ Inquiry(f) \/ ReadFlash(f) \/ WriteFlash(f)
  BY HandledIs DEF Handle
<1>2. /\ SmcCommand(f) => f.cmd \in SmcCmds /\ UNCHANGED <<replies, medium, flash, tainted>>
      /\ Inquiry(f) => f.cmd \in Inquiries /\ UNCHANGED <<medium, flash, tainted>>
  BY DEF SmcCommand, Inquiry, SmcCmds, Inquiries, device
<1>3. /\ ReadFlash(f) => f.cmd \in {ReadCmd(m) : m \in Media} /\ UNCHANGED <<medium, flash, tainted>>
      /\ WriteFlash(f) => f.cmd \in {WriteCmd(m) : m \in Media}
  BY DEF ReadFlash, WriteFlash, device
<1> QED BY <1>1, <1>2, <1>3, CmdsDiffer, InquiriesDiffer

LEMMA SmcHandled ==
  ASSUME TypeInv, SmcOnly, Handle
  PROVE  SmcOnly' /\ UNCHANGED <<replies, medium, flash, tainted>>
<1>1. inbox[1].cmd \in SmcCmds
  BY HandledIs DEF SmcOnly
<1>2. UNCHANGED <<replies, medium, flash, tainted>>
  BY <1>1, HandledKind, InquiriesDiffer
<1>3. ASSUME NEW i \in 1..(Len(inbox) - 1) PROVE inbox'[i].cmd \in SmcCmds
  BY <1>3, HandledIs DEF SmcOnly
<1> QED BY <1>2, <1>3, HandledIs DEF SmcOnly

(* The question comes nearer, or it is what is answered. *)
LEMMA AskedHandled ==
  ASSUME TypeInv, NEW frame, Asked(frame), Handle
  PROVE  \/ /\ inbox' # << >> /\ inbox'[Len(inbox')] = frame
            /\ \A i \in 1..(Len(inbox') - 1) : inbox'[i].cmd \in SmcCmds
            /\ replies' = << >> /\ UNCHANGED <<medium, flash, tainted>>
         \/ inbox[1] = frame /\ inbox' = << >> /\ replies = << >>
<1>1. CASE Len(inbox) = 1
  <2>1. inbox' = << >>
    BY <1>1, HandledIs, EmptySeq
  <2> QED BY <1>1, <2>1 DEF Asked
<1>2. CASE Len(inbox) # 1
  <2>1. inbox[1].cmd \in SmcCmds
    BY <1>2, HandledIs DEF Asked
  <2>2. UNCHANGED <<replies, medium, flash, tainted>>
    BY <2>1, HandledKind, InquiriesDiffer
  <2>3. inbox' # << >> /\ inbox'[Len(inbox')] = frame
    BY <1>2, HandledIs, EmptySeq DEF Asked
  <2>4. ASSUME NEW i \in 1..(Len(inbox') - 1) PROVE inbox'[i].cmd \in SmcCmds
    BY <2>4, HandledIs DEF Asked
  <2> QED BY <2>2, <2>3, <2>4 DEF Asked
<1> QED BY <1>1, <1>2

LEMMA HandledPlanned ==
  ASSUME TypeInv, WritesPlanned, Handle
  PROVE  WritesPlanned'
<1>1. UNCHANGED <<call, blocks>>
  BY DEF Handle, hostVars, request, planned
<1>2. WriteRange' = WriteRange
  BY <1>1 DEF WriteRange
<1>3. ASSUME NEW i \in 1..(Len(inbox) - 1), inbox'[i].cmd \in WriteCmds
      PROVE  call # None /\ call.op = "write" /\ inbox'[i].lba \in WriteRange
  <2>1. i + 1 \in 1..Len(inbox) /\ inbox'[i] = inbox[i + 1]
    BY HandledIs
  <2> QED BY <1>3, <2>1 DEF WritesPlanned
<1> QED BY <1>1, <1>2, <1>3, HandledIs DEF WritesPlanned

-----------------------------------------------------------------------------
(* What a step leaves as it was. *)
LEMMA QuietLine ==
  ASSUME pc' \in Speaking, Quiet'
  PROVE  LineOK'
BY Pcs DEF LineOK, InquiryOK, StatusOK, RetOK, DataOK, Inquiring

LEMMA ClosedLine ==
  ASSUME pc' \in {"idle", "unwind"}
  PROVE  LineOK'
BY Pcs DEF LineOK, InquiryOK, StatusOK, RetOK, DataOK, Inquiring

LEMMA PlannedSame ==
  ASSUME WritesPlanned, UNCHANGED <<call, blocks, inbox>>
  PROVE  WritesPlanned'
BY DEF WritesPlanned, WriteRange

LEMMA ContentSame ==
  ASSUME ContentOK, UNCHANGED <<call, done, out, flash>>, Copied' => Copied
  PROVE  ContentOK'
BY DEF ContentOK, AllOnMedium, Image, Trusted

LEMMA QuietSame ==
  ASSUME Quiet, UNCHANGED <<inbox, replies>>
  PROVE  Quiet'
BY DEF Quiet, SmcOnly

(* A call that fails, or dies, says nothing about any content. *)
LEMMA FailRest ==
  ASSUME Inv, Fail, pc \notin {"idle", "unwind"}
  PROVE  Rest'
<1> USE DEF Fail, request, planned, copied, device
<1>1. call # None
  BY DEF Inv, TypeInv, TypeOK
<1>2. pc' \in {"idle", "unwind"} /\ result' = "err"
  OBVIOUS
<1>3. CourseOK'
  BY <1>1, <1>2 DEF CourseOK, PreLoop, InLoop
<1>4. LineOK' /\ WritesPlanned'
  BY <1>2, ClosedLine, PlannedSame DEF Inv, Rest
<1>5. ContentOK'
  BY <1>2 DEF ContentOK, Copied, Moving, InLoop
<1> QED BY <1>3, <1>4, <1>5 DEF Rest

LEMMA DieRest ==
  ASSUME Inv, Die
  PROVE  Rest'
<1> USE DEF Die, request, planned, copied, device
<1>1. call # None /\ pc' = "idle" /\ result' # "none" /\ (result' = "ok" => result = "ok")
  BY DEF Inv, TypeInv, TypeOK
<1>2. CourseOK'
  BY <1>1 DEF Inv, Rest, CourseOK, PreLoop, InLoop, SmcOnly
<1>3. LineOK' /\ WritesPlanned'
  BY <1>1, ClosedLine, PlannedSame DEF Inv, Rest
<1>4. ContentOK'
  BY <1>1, ContentSame DEF Inv, Rest, Copied, Moving, InLoop
<1> QED BY <1>2, <1>3, <1>4 DEF Rest

LEMMA ConnectRest ==
  ASSUME ~LateReplies, Inv, NEW c \in Calls, Connect(c)
  PROVE  Rest'
<1> USE DEF Connect, device
<1>1. c # None /\ inbox = << >> /\ inbox' = << >> /\ replies' = << >>
  BY NoCallAssumption
<1>2. SmcOnly' /\ Quiet'
  BY <1>1 DEF SmcOnly, Quiet
<1>3. CourseOK'
  BY <1>1, <1>2 DEF CourseOK, InLoop
<1>4. LineOK'
  BY <1>2, QuietLine, Pcs
<1>5. WritesPlanned' /\ ContentOK'
  BY <1>1 DEF WritesPlanned, ContentOK, Copied, Moving, InLoop
<1> QED BY <1>3, <1>4, <1>5 DEF Rest

(* Before the plan nothing is counted, so a call only has to keep the line *)
(* in order.                                                               *)
LEMMA SetupRest ==
  ASSUME Inv, pc \in PreLoop, pc' \in PreLoop, LineOK', WritesPlanned',
         UNCHANGED <<call, blocks, copied, result>>
  PROVE  Rest'
<1> USE DEF copied
<1>1. pc \notin {"idle", "unwind"} /\ pc' \notin {"idle", "unwind"} \cup Moving
  BY DEF PreLoop, Moving, InLoop
<1>2. call # None /\ result = "none"
  BY <1>1 DEF Inv, Rest, CourseOK, TypeInv, TypeOK
<1>3. CourseOK'
  BY <1>1, <1>2 DEF Inv, Rest, CourseOK, Moving
<1>4. ContentOK'
  BY <1>1, <1>2 DEF ContentOK, Copied
<1> QED BY <1>3, <1>4 DEF Rest

LEMMA QueryRest ==
  ASSUME Inv, NEW q \in Queries, Query(q)
  PROVE  Rest'
<1> USE DEF Query, request, planned
<1>1. q[1] \in Speaking \cap PreLoop /\ q[3] \in Inquiring /\ q[3] \in PreLoop /\ q[2] \in Inquiries
  BY Pcs
<1>2. inbox \in Seq(Frame) /\ Quiet
  BY <1>1, InboxType DEF Inv, Rest, LineOK
<1>3. PICK cmd \in Inquiries : cmd = q[2]
  BY <1>1
<1>4. Asked(QueryFrame(cmd))'
  BY <1>2, <1>3, SendAsks DEF Asked, QueryFrame
<1>5. LineOK'
  BY <1>1, <1>3, <1>4, Pcs DEF LineOK, InquiryOK, StatusOK, RetOK, DataOK, Inquiring
<1>6. WritesPlanned'
  BY <1>2, <1>3, SentPlanned, InquiriesDiffer DEF Inv, Rest
<1> QED BY <1>1, <1>5, <1>6, SetupRest

LEMMA SmcSentRest ==
  ASSUME Inv, StopSmc \/ SetSmcWorkaround
  PROVE  Rest'
<1> USE DEF StopSmc, SetSmcWorkaround, request, planned
<1>1. PICK cmd \in SmcCmds : SendOrIgnore(cmd)
  BY DEF SmcCmds
<1>2. inbox \in Seq(Frame) /\ Quiet
  BY Pcs, InboxType DEF Inv, Rest, LineOK
<1>3. Quiet'
  BY <1>1, <1>2, SmcSent DEF Quiet
<1>4. pc \in PreLoop /\ pc' \in PreLoop /\ pc' \in Speaking
  BY CallType, Pcs DEF Inv, Media, PreLoop
<1>5. LineOK' /\ WritesPlanned'
  BY <1>1, <1>2, <1>3, <1>4, QuietLine, SmcSentPlanned DEF Inv, Rest
<1> QED BY <1>4, <1>5, SetupRest

LEMMA InquiryAnsweredRest ==
  ASSUME Inv, pc \in Inquiring, Receive, pc' \in Speaking \cap PreLoop,
         UNCHANGED <<call, blocks, copied, result, inbox>>
  PROVE  Rest'
<1>1. replies # << >>
  BY DEF Receive
<1>2. PICK w \in Word : Answered(<<w>>)
  BY <1>1 DEF Inv, Rest, LineOK, InquiryOK, Asked
<1>3. inbox' = << >> /\ replies' = << >>
  BY <1>2, ReceivedIs DEF Answered
<1>4. Quiet'
  BY <1>3 DEF Quiet, SmcOnly
<1>5. LineOK' /\ WritesPlanned'
  BY <1>4, QuietLine, PlannedSame DEF Inv, Rest
<1> QED BY <1>5, SetupRest, Pcs

LEMMA SetupReplyRest ==
  ASSUME Inv, VersionReply \/ ConfigReply \/ CsdReply \/ InitReply \/ DetectReply
  PROVE  Rest'
<1>1. pc \in Inquiring /\ pc \notin {"idle", "unwind"}
  BY DEF VersionReply, ConfigReply, CsdReply, InitReply, DetectReply, Inquiring
<1>2. CASE Fail
  BY <1>1, <1>2, FailRest
<1>3. CASE ~Fail
  <2>1. Receive /\ UNCHANGED <<call, blocks, copied, result, inbox>>
    BY <1>3 DEF VersionReply, ConfigReply, CsdReply, InitReply, DetectReply, request, planned
  <2>2. pc' \in Speaking \cap PreLoop
    BY <1>3, Pcs DEF VersionReply, ConfigReply, CsdReply, InitReply, DetectReply, PreLoop
  <2> QED BY <1>1, <2>1, <2>2, InquiryAnsweredRest
<1> QED BY <1>2, <1>3

-----------------------------------------------------------------------------
(* The plan, and the end of a call. *)
LEMMA PlanRangeOk ==
  ASSUME Inv, pc = "plan", PlanOf(call) # None
  PROVE  RangeOk(call.start, PlanOf(call), total)
<1>1. total \in OptU32 /\ pc # "idle"
  BY DEF Inv, TypeInv, TypeOK
<1>2. CASE call.op = "read"
  BY <1>1, <1>2, CallType, PlanReadSafe DEF Inv, PlanOf
<1>3. CASE call.op = "write"
  BY <1>1, <1>3, CallType, SizeAssumption, PlanWriteSafe DEF Inv, PlanOf
<1> QED BY <1>1, <1>2, <1>3, CallType DEF Inv

LEMMA MakePlanRest ==
  ASSUME Inv, MakePlan
  PROVE  Rest'
<1>1. CASE Fail
  BY <1>1, FailRest DEF MakePlan
<1>2. CASE ~Fail
  <2> USE DEF MakePlan, request, copied, device
  <2>1. /\ pc = "plan" /\ PlanOf(call) # None /\ blocks' = PlanOf(call)
        /\ pc' = IF blocks' = 0 THEN "finish" ELSE LoopHead
        /\ UNCHANGED <<call, total, done, out, result, inbox, replies, flash>>
    BY <1>2
  <2>2. pc' \in {"finish", "fetch", "load"} /\ (pc' = "finish" => blocks' = 0)
    BY <2>1 DEF LoopHead
  <2>3. /\ Quiet /\ done = 0 /\ out = << >> /\ result = "none" /\ call # None
        /\ RangeOk(call.start, blocks', total)
    BY <2>1, PlanRangeOk, Pcs
       DEF Inv, TypeInv, TypeOK, LoopOK, Rest, CourseOK, LineOK, PreLoop
  <2>4. CourseOK'
    BY <2>1, <2>2, <2>3 DEF CourseOK, PreLoop
  <2>5. LineOK'
    BY <2>1, <2>2, <2>3, QuietSame, QuietLine, Pcs
  <2>6. WritesPlanned'
    BY <2>1, <2>3, InquiriesDiffer DEF WritesPlanned, Quiet, SmcOnly
  <2>7. AllOnMedium' /\ out' = Image(done)'
    BY <2>1, <2>3 DEF AllOnMedium, Image
  <2>8. \A i \in 0..(done' - 1) : flash'[call'.start + i] = call'.file[i + 1]
    BY <2>1, <2>3
  <2>9. ContentOK'
    BY <2>7, <2>8 DEF ContentOK
  <2> QED BY <2>4, <2>5, <2>6, <2>9 DEF Rest
<1> QED BY <1>1, <1>2

LEMMA FinishRest ==
  ASSUME Inv, Finish
  PROVE  Rest'
<1>1. CASE Fail
  BY <1>1, FailRest DEF Finish
<1>2. CASE ~Fail
  <2> USE DEF Finish, request, planned, copied
  <2>1. /\ pc = "finish" /\ pc' = "unwind" /\ result' = "ok"
        /\ UNCHANGED <<call, blocks, done, out, inbox, replies, flash>>
    BY <1>2
  <2>2. Quiet /\ done = blocks /\ call # None
    BY <2>1, Pcs DEF Inv, TypeInv, TypeOK, Rest, CourseOK, LineOK
  <2>3. SmcOnly'
    BY <2>1, <2>2 DEF Quiet, SmcOnly
  <2>4. CourseOK'
    BY <2>1, <2>2, <2>3 DEF CourseOK, PreLoop, InLoop
  <2>5. LineOK' /\ WritesPlanned'
    BY <2>1, ClosedLine, PlannedSame DEF Inv, Rest
  <2>6. ContentOK'
    BY <2>1, ContentSame DEF Inv, Rest, Copied, Moving
  <2> QED BY <2>4, <2>5, <2>6 DEF Rest
<1> QED BY <1>1, <1>2

LEMMA UnwindRest ==
  ASSUME Inv, LeaveStopped \/ StartSmc
  PROVE  Rest'
<1> USE DEF LeaveStopped, StartSmc, request, planned, copied, device
<1>1. /\ pc = "unwind" /\ pc' = "idle"
      /\ UNCHANGED <<call, blocks, done, out, result, flash>>
  OBVIOUS
<1>2. inbox \in Seq(Frame) /\ call # None /\ result # "none" /\ WritesPlanned
  BY <1>1, InboxType DEF Inv, TypeInv, TypeOK, Rest, CourseOK
<1>3. SmcOnly => SmcOnly'
  BY <1>2, SmcSent DEF SmcCmds, SmcOnly
<1>4. WritesPlanned'
  BY <1>1, <1>2, SmcSentPlanned, PlannedSame DEF SmcCmds
<1>5. CourseOK'
  BY <1>1, <1>2, <1>3 DEF Inv, Rest, CourseOK, PreLoop, InLoop
<1>6. LineOK'
  BY <1>1, ClosedLine
<1>7. ContentOK'
  BY <1>1, ContentSame DEF Inv, Rest, Copied, Moving, InLoop
<1> QED BY <1>4, <1>5, <1>6, <1>7 DEF Rest

-----------------------------------------------------------------------------
(* The loop. *)
LEMMA LoopSame ==
  ASSUME Inv, pc \in InLoop, pc' \in InLoop,
         UNCHANGED <<call, planned, copied, result, flash>>
  PROVE  CourseOK' /\ ContentOK'
<1> USE DEF planned, copied
<1>1. call # None /\ result = "none"
  BY LbaIs DEF Inv, Rest
<1>2. CourseOK'
  BY <1>1 DEF Inv, Rest, CourseOK, InLoop, PreLoop
<1>3. ContentOK'
  BY ContentSame DEF Inv, Rest, Copied, Moving
<1> QED BY <1>2, <1>3

LEMMA LoadBlockRest ==
  ASSUME Inv, LoadBlock
  PROVE  Rest'
<1>1. CASE Fail
  BY <1>1, FailRest DEF LoadBlock
<1>2. CASE ~Fail
  <2>1. /\ pc = "load" /\ pc' = "program"
        /\ UNCHANGED <<call, planned, copied, result, flash, blocks, inbox, replies>>
    BY <1>2 DEF LoadBlock, request, device, planned
  <2>2. Quiet
    BY <2>1, Pcs DEF Inv, Rest, LineOK
  <2>3. LineOK' /\ WritesPlanned'
    BY <2>1, <2>2, QuietSame, QuietLine, Pcs, PlannedSame DEF Inv, Rest
  <2> QED BY <2>1, <2>3, LoopSame DEF InLoop, Rest
<1> QED BY <1>1, <1>2

LEMMA ProgramBlockRest ==
  ASSUME Inv, ProgramBlock
  PROVE  Rest'
<1>1. /\ pc = "program" /\ pc' = "status"
      /\ Send(WriteCmd(call.media), Lba, NextWord)
      /\ UNCHANGED <<call, planned, copied, result, flash, blocks, done, replies>>
  BY DEF ProgramBlock, request, device, planned, copied, NextWord
<1>2. Quiet /\ inbox \in Seq(Frame)
  BY <1>1, InboxType, Pcs DEF Inv, Rest, LineOK
<1>3. call # None /\ call.op = "write" /\ Lba \in WriteRange
  BY <1>1, LbaIs DEF Inv, Rest, TypeInv, LoopOK, InLoop
<1>4. PICK frame : frame = BlockFrame(WriteCmd(call.media), NextWord)
  OBVIOUS
<1>5. Asked(frame)'
  BY <1>1, <1>2, <1>4, SendAsks DEF Asked, BlockFrame
<1>6. BlockFrame(WriteCmd(call.media), NextWord)' = frame
  BY <1>1, <1>4 DEF BlockFrame, NextWord, Lba, WriteCmd
<1>7. LineOK'
  BY <1>1, <1>5, <1>6, Pcs DEF LineOK, InquiryOK, StatusOK, RetOK, DataOK, Inquiring
<1>8. WritesPlanned'
  BY <1>1, <1>2, <1>3, SentPlanned DEF Inv, Rest
<1> QED BY <1>1, <1>7, <1>8, LoopSame DEF InLoop, Rest

LEMMA FetchBlockRest ==
  ASSUME Inv, FetchBlock
  PROVE  Rest'
<1>1. /\ pc = "fetch" /\ pc' = "ret"
      /\ Send(ReadCmd(call.media), Lba, Zero)
      /\ UNCHANGED <<call, planned, copied, result, flash, blocks, done, replies>>
  BY DEF FetchBlock, request, device, planned, copied
<1>2. Quiet /\ inbox \in Seq(Frame)
  BY <1>1, InboxType, Pcs DEF Inv, Rest, LineOK
<1>3. PICK frame : frame = BlockFrame(ReadCmd(call.media), Zero)
  OBVIOUS
<1>4. Asked(frame)'
  BY <1>1, <1>2, <1>3, SendAsks DEF Asked, BlockFrame
<1>5. BlockFrame(ReadCmd(call.media), Zero)' = frame
  BY <1>1, <1>3 DEF BlockFrame, Lba, ReadCmd
<1>6. LineOK'
  BY <1>1, <1>4, <1>5, Pcs DEF LineOK, InquiryOK, StatusOK, RetOK, DataOK, Inquiring
<1>7. ReadCmd(call.media) \notin WriteCmds
  BY DEF ReadCmd, WriteCmds
<1>8. WritesPlanned'
  BY <1>1, <1>2, <1>7, SentPlanned DEF Inv, Rest
<1> QED BY <1>1, <1>6, <1>8, LoopSame DEF InLoop, Rest

(* A block more is counted, and the line is quiet. *)
LEMMA BlockDoneIs ==
  ASSUME Inv, pc \in InLoop, BlockDone, UNCHANGED <<call, planned, result, inbox, flash>>,
         inbox = << >>, replies' = << >>
  PROVE  /\ done' = done + 1 /\ pc' \in {"finish", "fetch", "load"}
         /\ CourseOK' /\ LineOK' /\ WritesPlanned'
<1> USE DEF planned
<1>1. pc' = (IF done' = blocks THEN "finish" ELSE LoopHead) /\ done' = done + 1
  BY DEF BlockDone
<1>2. pc' \in {"finish", "fetch", "load"} /\ (pc' = "finish" => done' = blocks)
  BY <1>1 DEF LoopHead
<1>3. call # None /\ result = "none" /\ RangeOk(call.start, blocks, total)
  BY LbaIs DEF Inv, Rest, CourseOK
<1>4. CourseOK'
  BY <1>2, <1>3 DEF CourseOK, PreLoop
<1>5. Quiet'
  BY DEF Quiet, SmcOnly
<1>6. LineOK' /\ WritesPlanned'
  BY <1>2, <1>5, Pcs, QuietLine, PlannedSame DEF Inv, Rest
<1> QED BY <1>1, <1>2, <1>4, <1>6

LEMMA WrittenBlockCounts ==
  ASSUME Inv, pc \in InLoop, call.op = "write", BlockDone,
         UNCHANGED <<call, planned, result, inbox, flash>>, inbox = << >>, replies' = << >>,
         Lba \in Addr, Trusted => flash[Lba] = NextWord
  PROVE  Rest'
<1>1. done' = done + 1 /\ CourseOK' /\ LineOK' /\ WritesPlanned'
  BY BlockDoneIs
<1>2. Lba = call.start + done /\ call.start \in Nat /\ done \in Nat
  BY LbaIs DEF Inv, Rest
<1>3. ASSUME Trusted, NEW i \in 0..done
      PROVE  call.start + i \in Addr /\ flash[call.start + i] = call.file[i + 1]
  <2>1. CASE i \in 0..(done - 1)
    BY <1>3, <2>1 DEF Inv, Rest, ContentOK, AllOnMedium, Copied, Moving
  <2>2. CASE i = done
    BY <1>2, <1>3, <2>2 DEF NextWord
  <2> QED BY <1>2, <2>1, <2>2
<1>4. 0..(done' - 1) = 0..done
  BY <1>1, <1>2
<1>5. ContentOK'
  BY <1>3, <1>4 DEF ContentOK, AllOnMedium, Trusted
<1> QED BY <1>1, <1>5 DEF Rest

LEMMA ReadBlockCounts ==
  ASSUME Inv, pc \in InLoop, call.op = "read", BlockDone,
         UNCHANGED <<call, planned, result, inbox, flash>>, inbox = << >>, replies' = << >>,
         Lba \in Addr, out' = Append(out, flash[Lba])
  PROVE  Rest'
<1>1. done' = done + 1 /\ CourseOK' /\ LineOK' /\ WritesPlanned'
  BY BlockDoneIs
<1>2. Lba = call.start + done /\ call.start \in Nat /\ done \in Nat
  BY LbaIs DEF Inv, Rest
<1>3. AllOnMedium /\ out = Image(done) /\ out \in Seq(Word)
  BY DEF Inv, Rest, ContentOK, Copied, Moving, TypeInv, TypeOK
<1>4. flash[call.start + done] \in Word
  BY <1>2, InboxType, WordAssumption DEF Inv
<1>5. out' = [i \in 1..(done + 1) |-> flash[call.start + i - 1]]
  BY <1>2, <1>3, <1>4, ImageGrows DEF Image
<1>6. AllOnMedium'
  <2>1. ASSUME NEW i \in 0..(done' - 1) PROVE call.start + i \in Addr
    <3>1. i \in 0..(done - 1) \/ i = done
      BY <1>1, <1>2
    <3> QED BY <1>2, <1>3, <3>1 DEF AllOnMedium
  <2> QED BY <2>1 DEF AllOnMedium
<1>7. ContentOK'
  BY <1>1, <1>5, <1>6 DEF ContentOK, Image
<1> QED BY <1>1, <1>7 DEF Rest

LEMMA StatusReplyRest ==
  ASSUME Inv, StatusReply
  PROVE  Rest'
<1>1. CASE Fail
  BY <1>1, FailRest DEF StatusReply
<1>2. CASE ~Fail
  <2>1. /\ pc = "status" /\ Receive /\ Answer = Zero
        /\ IF call.verify THEN pc' = "fetch" /\ UNCHANGED done ELSE BlockDone
        /\ UNCHANGED <<call, planned, out, result, inbox, flash>>
    BY <1>2 DEF StatusReply, request, device
  <2>2. PICK w \in Word : Answered(<<w>>) /\ (w = Zero => Stored)
    BY <2>1 DEF Inv, Rest, LineOK, StatusOK, Asked, Receive
  <2>3. inbox = << >> /\ replies' = << >> /\ Stored
    BY <2>1, <2>2, ReceivedIs DEF Answered
  <2>4. pc \in InLoop /\ call.op = "write"
    BY <2>1 DEF Inv, TypeInv, LoopOK, InLoop
  <2>5. CASE call.verify
    <3>1. pc' = "fetch" /\ UNCHANGED <<call, planned, copied, result, inbox, flash>>
      BY <2>1, <2>5 DEF copied
    <3>2. Quiet'
      BY <2>3, <3>1 DEF Quiet, SmcOnly
    <3>3. LineOK' /\ WritesPlanned'
      BY <3>1, <3>2, QuietLine, Pcs, PlannedSame DEF Inv, Rest, planned
    <3> QED BY <2>4, <3>1, <3>3, LoopSame DEF InLoop, Rest
  <2>6. CASE ~call.verify
    <3>1. BlockDone /\ Lba \in Addr /\ (Trusted => flash[Lba] = NextWord)
      BY <2>1, <2>3, <2>6 DEF Stored, Trusted
    <3> QED BY <2>1, <2>3, <2>4, <3>1, WrittenBlockCounts
  <2> QED BY <2>5, <2>6
<1> QED BY <1>1, <1>2

LEMMA RetReplyRest ==
  ASSUME Inv, RetReply
  PROVE  Rest'
<1>1. CASE Fail
  BY <1>1, FailRest DEF RetReply
<1>2. CASE ~Fail
  <2>1. /\ pc = "ret" /\ Receive /\ Answer = Zero /\ pc' = "data"
        /\ UNCHANGED <<call, planned, copied, done, blocks, result, inbox, flash>>
    BY <1>2 DEF RetReply, request, device, copied, planned
  <2>2. Answered(<<ErrWord>>) => FALSE
    BY <2>1, ReceivedIs, WordAssumption DEF Answered
  <2>3. Lba \in Addr /\ Answered(<<Zero, flash[Lba]>>)
    BY <2>1, <2>2 DEF Inv, Rest, LineOK, RetOK, Asked, Receive
  <2>4. PICK w : w = flash[Lba]
    OBVIOUS
  <2>5. inbox' = << >> /\ replies' = <<w>>
    BY <2>1, <2>3, <2>4, ReceivedIs DEF Answered
  <2>6. Lba' = Lba
    BY <2>1 DEF Lba
  <2>7. DataOK'
    BY <2>1, <2>3, <2>4, <2>5, <2>6 DEF DataOK, Answered
  <2>8. LineOK'
    BY <2>1, <2>7, Pcs DEF LineOK, InquiryOK, StatusOK, RetOK, Inquiring
  <2>9. WritesPlanned'
    BY <2>1, PlannedSame DEF Inv, Rest
  <2> QED BY <2>1, <2>8, <2>9, LoopSame DEF InLoop, Rest
<1> QED BY <1>1, <1>2

LEMMA DataReplyRest ==
  ASSUME Inv, DataReply
  PROVE  Rest'
<1>1. CASE Fail
  BY <1>1, FailRest DEF DataReply
<1>2. CASE ~Fail
  <2>1. /\ pc = "data" /\ Receive /\ BlockDone
        /\ UNCHANGED <<call, planned, result, inbox, flash>>
        /\ \/ call.op = "read" /\ out' = Append(out, Answer)
           \/ call.op = "write" /\ Answer = NextWord
    BY <1>2 DEF DataReply, request, device, NextWord
  <2>2. Lba \in Addr /\ Answered(<<flash[Lba]>>)
    BY <2>1 DEF Inv, Rest, LineOK, DataOK
  <2>3. inbox = << >> /\ Answer = flash[Lba] /\ replies' = << >>
    BY <2>1, <2>2, ReceivedIs DEF Answered
  <2>4. pc \in InLoop
    BY <2>1 DEF InLoop
  <2>5. CASE call.op = "read"
    BY <2>1, <2>2, <2>3, <2>4, <2>5, ReadBlockCounts
  <2>6. CASE call.op = "write"
    BY <2>1, <2>2, <2>3, <2>4, <2>6, WrittenBlockCounts
  <2> QED BY <2>1, <2>5, <2>6
<1> QED BY <1>1, <1>2

-----------------------------------------------------------------------------
(* The programmer's handling of a command, by what the host is waiting for.*)
LEMMA HandledSame ==
  ASSUME Inv, Handle
  PROVE  /\ UNCHANGED <<pc, call, total, blocks, done, out, result, Lba, NextWord>>
         /\ call # None /\ CourseOK' /\ WritesPlanned'
<1>1. UNCHANGED <<pc, call, total, blocks, done, out, result>>
  BY DEF Handle, hostVars, request, planned, copied
<1>2. UNCHANGED <<Lba, NextWord>>
  BY <1>1 DEF Lba, NextWord
<1>3. call # None
  BY HandledIs DEF Inv, Rest, CourseOK
<1>4. SmcOnly => SmcOnly'
  BY SmcHandled DEF Inv
<1>5. CourseOK'
  BY <1>1, <1>3, <1>4 DEF Inv, Rest, CourseOK
<1> QED BY <1>1, <1>2, <1>3, <1>5, HandledPlanned DEF Inv, Rest

LEMMA HandledUnasked ==
  ASSUME Inv, Handle, SmcOnly, pc \in Speaking \cup {"idle", "unwind"}
  PROVE  Rest'
<1>1. SmcOnly' /\ UNCHANGED <<replies, flash>>
  BY SmcHandled DEF Inv
<1>2. LineOK'
  <2>1. CASE pc \in Speaking
    BY <1>1, <2>1, HandledSame, QuietLine DEF Inv, Rest, LineOK, Quiet
  <2>2. CASE pc \in {"idle", "unwind"}
    BY <2>2, HandledSame, ClosedLine
  <2> QED BY <2>1, <2>2
<1>3. ContentOK'
  BY <1>1, HandledSame, ContentSame DEF Inv, Rest, Copied
<1> QED BY <1>2, <1>3, HandledSame DEF Rest

LEMMA HandledClosed ==
  ASSUME Inv, Handle, pc \in {"idle", "unwind"}, ~SmcOnly
  PROVE  Rest'
<1>1. result # "ok" /\ pc \notin Moving
  BY DEF Inv, Rest, CourseOK, Moving, InLoop
<1>2. ContentOK'
  BY <1>1, HandledSame DEF ContentOK, Copied
<1> QED BY <1>2, HandledSame, ClosedLine DEF Rest

LEMMA HandledInquiry ==
  ASSUME Inv, Handle, pc \in Inquiring
  PROVE  Rest'
<1>1. PICK cmd \in Inquiries : Asked(QueryFrame(cmd))
  BY HandledIs DEF Inv, Rest, LineOK, InquiryOK, Answered
<1>2. PICK frame : frame = QueryFrame(cmd)
  OBVIOUS
<1>3. InquiryOK' /\ UNCHANGED flash
  <2>1. CASE /\ inbox' # << >> /\ inbox'[Len(inbox')] = frame
             /\ \A i \in 1..(Len(inbox') - 1) : inbox'[i].cmd \in SmcCmds
             /\ replies' = << >> /\ UNCHANGED <<medium, flash, tainted>>
    <3>1. Asked(QueryFrame(cmd))'
      BY <1>2, <2>1 DEF Asked, QueryFrame
    <3> QED BY <2>1, <3>1 DEF InquiryOK
  <2>2. CASE inbox[1] = frame /\ inbox' = << >> /\ replies = << >>
    <3>1. Inquiry(frame) /\ UNCHANGED flash
      BY <1>1, <1>2, <2>2, HandledKind, InquiriesDiffer DEF QueryFrame, Inv
    <3>2. PICK w \in Word : Reply(<<w>>)
      BY <3>1, WordAssumption DEF Inquiry
    <3>3. replies' = <<w>>
      BY <2>2, <3>2 DEF Reply
    <3>4. Answered(<<w>>)'
      BY <2>2, <3>3 DEF Answered
    <3> QED BY <3>1, <3>4 DEF InquiryOK
  <2> QED BY <1>1, <1>2, <2>1, <2>2, AskedHandled DEF Inv
<1>4. LineOK'
  BY <1>3, HandledSame, Pcs DEF LineOK, StatusOK, RetOK, DataOK, Inquiring
<1>5. ContentOK'
  BY <1>3, HandledSame, ContentSame DEF Inv, Rest, Copied
<1> QED BY <1>4, <1>5, HandledSame DEF Rest

LEMMA HandledRead ==
  ASSUME Inv, Handle, pc = "ret"
  PROVE  Rest'
<1>1. Asked(BlockFrame(ReadCmd(call.media), Zero))
  BY HandledIs DEF Inv, Rest, LineOK, RetOK, Answered
<1>2. PICK frame : frame = BlockFrame(ReadCmd(call.media), Zero)
  OBVIOUS
<1>3. call.media \in Media /\ frame.cmd = ReadCmd(call.media) /\ frame.lba = Lba
  BY <1>2, CallType DEF Inv, BlockFrame
<1>4. BlockFrame(ReadCmd(call.media), Zero)' = frame
  BY <1>2, HandledSame DEF BlockFrame, ReadCmd
<1>5. RetOK' /\ UNCHANGED flash
  <2>1. CASE /\ inbox' # << >> /\ inbox'[Len(inbox')] = frame
             /\ \A i \in 1..(Len(inbox') - 1) : inbox'[i].cmd \in SmcCmds
             /\ replies' = << >> /\ UNCHANGED <<medium, flash, tainted>>
    <3>1. Asked(frame)'
      BY <2>1 DEF Asked
    <3> QED BY <1>4, <2>1, <3>1 DEF RetOK
  <2>2. CASE inbox[1] = frame /\ inbox' = << >> /\ replies = << >>
    <3>1. ReadFlash(frame) /\ UNCHANGED flash
      BY <1>3, <2>2, HandledKind, CmdsDiffer DEF Inv
    <3>2. \/ Lba \in Addr /\ Reply(<<Zero, flash[Lba]>>)
          \/ Reply(<<ErrWord>>)
      BY <1>3, <3>1 DEF ReadFlash
    <3>3. CASE Lba \in Addr /\ Reply(<<Zero, flash[Lba]>>)
      <4>1. PICK w : w = flash[Lba]
        OBVIOUS
      <4>2. replies' = <<Zero, w>>
        BY <2>2, <3>3, <4>1 DEF Reply
      <4>3. Lba' \in Addr /\ flash'[Lba'] = w
        BY <3>1, <3>3, <4>1, HandledSame
      <4> QED BY <2>2, <3>1, <4>2, <4>3 DEF RetOK, Answered
    <3>4. CASE Reply(<<ErrWord>>)
      <4>1. replies' = <<ErrWord>>
        BY <2>2, <3>4 DEF Reply
      <4> QED BY <2>2, <3>1, <4>1 DEF RetOK, Answered
    <3> QED BY <3>2, <3>3, <3>4
  <2> QED BY <1>1, <1>2, <2>1, <2>2, AskedHandled DEF Inv
<1>6. LineOK'
  BY <1>5, HandledSame, Pcs DEF LineOK, InquiryOK, StatusOK, DataOK, Inquiring
<1>7. ContentOK'
  BY <1>5, HandledSame, ContentSame DEF Inv, Rest, Copied
<1> QED BY <1>6, <1>7, HandledSame DEF Rest

(* Programming the block at hand touches none of those already counted.    *)
LEMMA HandledWrite ==
  ASSUME Inv, Handle, pc = "status"
  PROVE  Rest'
<1>1. Asked(BlockFrame(WriteCmd(call.media), NextWord))
  BY HandledIs DEF Inv, Rest, LineOK, StatusOK, Answered
<1>2. PICK frame : frame = BlockFrame(WriteCmd(call.media), NextWord)
  OBVIOUS
<1>3. /\ call.media \in Media /\ call.op = "write" /\ pc \in InLoop
      /\ frame.cmd = WriteCmd(call.media) /\ frame.lba = Lba /\ frame.data = NextWord
  BY <1>2, CallType DEF Inv, TypeInv, LoopOK, BlockFrame, InLoop
<1>4. BlockFrame(WriteCmd(call.media), NextWord)' = frame
  BY <1>2, HandledSame DEF BlockFrame, WriteCmd
<1>5. CASE /\ inbox' # << >> /\ inbox'[Len(inbox')] = frame
           /\ \A i \in 1..(Len(inbox') - 1) : inbox'[i].cmd \in SmcCmds
           /\ replies' = << >> /\ UNCHANGED <<medium, flash, tainted>>
  <2>1. Asked(frame)'
    BY <1>5 DEF Asked
  <2>2. LineOK'
    BY <1>4, <2>1, HandledSame, Pcs DEF LineOK, InquiryOK, StatusOK, RetOK, DataOK, Inquiring
  <2>3. ContentOK'
    BY <1>5, HandledSame, ContentSame DEF Inv, Rest, Copied
  <2> QED BY <2>2, <2>3, HandledSame DEF Rest
<1>6. CASE inbox[1] = frame /\ inbox' = << >> /\ replies = << >>
  <2>1. WriteFlash(frame)
    BY <1>3, <1>6, HandledKind DEF Inv
  <2> DEFINE Told(w) == /\ replies' = <<w>>
                        /\ w = Zero => /\ Lba \in Addr
                                       /\ call.media \notin SilentMedia => flash'[Lba] = NextWord
  <2>2. /\ \E w \in Word : Told(w)
        /\ flash' = flash \/ \E w \in DataWord : flash' = [flash EXCEPT ![Lba] = w]
    <3>1. CASE frame.cmd = WriteCmd(medium) /\ frame.lba \in Addr
      <4>1. medium = call.media
        BY <1>3, <3>1, CmdsDiffer DEF Inv, TypeInv, TypeOK
      <4>2. PICK w \in DataWord, ok \in BOOLEAN :
              /\ ok /\ w # frame.data => medium \in SilentMedia
              /\ flash' = [flash EXCEPT ![frame.lba] = w]
              /\ Reply(<<IF ok THEN Zero ELSE ErrWord>>)
        BY <2>1, <3>1 DEF WriteFlash
      <4>3. flash'[Lba] = w
        BY <1>3, <3>1, <4>2, InboxType DEF Inv
      <4>4. PICK a \in Word : a = IF ok THEN Zero ELSE ErrWord
        BY WordAssumption
      <4>5. replies' = <<a>>
        BY <1>6, <4>2, <4>4 DEF Reply
      <4>6. a = Zero => ok
        BY <4>4, WordAssumption
      <4> QED BY <1>3, <3>1, <4>1, <4>2, <4>3, <4>5, <4>6
    <3>2. CASE ~(frame.cmd = WriteCmd(medium) /\ frame.lba \in Addr)
      <4>1. Reply(<<ErrWord>>) /\ flash' = flash
        BY <2>1, <3>2 DEF WriteFlash
      <4>2. replies' = <<ErrWord>>
        BY <1>6, <4>1 DEF Reply
      <4> QED BY <4>1, <4>2, WordAssumption
    <3> QED BY <3>1, <3>2
  <2>3. LineOK'
    <3> HIDE DEF Told
    <3>0. PICK w \in Word : Told(w)
      BY <2>2
    <3>1. /\ replies' = <<w>>
          /\ w = Zero => /\ Lba \in Addr
                         /\ call.media \notin SilentMedia => flash'[Lba] = NextWord
      BY <3>0 DEF Told
    <3>2. Answered(<<w>>)' /\ (w = Zero => Stored')
      BY <1>6, <3>1, HandledSame DEF Answered, Stored
    <3>3. StatusOK'
      BY <3>2 DEF StatusOK
    <3> QED BY <3>3, HandledSame, Pcs DEF LineOK, InquiryOK, RetOK, DataOK, Inquiring
  <2>4. ContentOK'
    <3>1. Lba = call.start + done /\ call.start \in Nat /\ done \in Nat
      BY <1>3, LbaIs DEF Inv, Rest
    <3>2. ASSUME Trusted, NEW i \in 0..(done - 1)
          PROVE  call.start + i \in Addr /\ flash'[call.start + i] = call.file[i + 1]
      <4>1. call.start + i \in Addr /\ flash[call.start + i] = call.file[i + 1]
        BY <1>3, <3>2 DEF Inv, Rest, ContentOK, AllOnMedium, Copied, Moving
      <4>2. call.start + i # Lba
        BY <3>1
      <4> QED BY <2>2, <4>1, <4>2, InboxType DEF Inv
    <3> QED BY <1>3, <3>2, HandledSame DEF ContentOK, AllOnMedium, Trusted
  <2> QED BY <2>3, <2>4, HandledSame DEF Rest
<1> QED BY <1>1, <1>2, <1>5, <1>6, AskedHandled DEF Inv

LEMMA HandleRest ==
  ASSUME Inv, Handle
  PROVE  Rest'
<1>1. pc \in {"idle", "unwind"} \cup Speaking \cup Inquiring \cup {"status", "ret", "data"}
  BY LabelsPartition, Pcs DEF Inv, TypeInv, TypeOK, PreLoop, InLoop, Inquiring
<1>2. pc # "data"
  BY HandledIs DEF Inv, Rest, LineOK, DataOK, Answered
<1>3. CASE pc \in Speaking
  BY <1>3, HandledUnasked DEF Inv, Rest, LineOK, Quiet
<1> QED BY <1>1, <1>2, <1>3, HandledUnasked, HandledClosed, HandledInquiry, HandledRead, HandledWrite

-----------------------------------------------------------------------------
LEMMA InvInit == Init => Inv
<1> SUFFICES ASSUME Init PROVE Inv
  OBVIOUS
<1>1. CourseOK /\ WritesPlanned
  BY DEF Init, CourseOK, WritesPlanned, PreLoop, InLoop
<1>2. LineOK /\ ContentOK
  BY Pcs DEF Init, LineOK, InquiryOK, StatusOK, RetOK, DataOK, Inquiring, ContentOK, Copied,
             Moving, InLoop
<1> QED BY <1>1, <1>2, TypeInit DEF Inv, Rest

LEMMA InvStep ==
  ASSUME ~LateReplies
  PROVE  Inv /\ [Next]_vars => Inv'
<1> SUFFICES ASSUME Inv, [Next]_vars PROVE Inv'
  OBVIOUS
<1> SUFFICES Rest'
  BY TypeStep DEF Inv
<1>1. CASE SendFails \/ Timeout
  BY <1>1, FailRest, LabelsAre DEF SendFails, Timeout
<1>2. CASE UNCHANGED vars
  <2>1. UNCHANGED <<pc, call, total, blocks, done, out, result, inbox, replies, flash>>
    BY <1>2 DEF vars, hostVars, request, planned, copied, device
  <2>2. CourseOK'
    BY <2>1 DEF Inv, Rest, CourseOK, SmcOnly
  <2>3. LineOK'
    BY <2>1 DEF Inv, Rest, LineOK, Quiet, SmcOnly, InquiryOK, StatusOK, RetOK, DataOK, Asked,
                Answered, BlockFrame, NextWord, Stored, Lba, QueryFrame
  <2>4. ContentOK'
    BY <2>1, ContentSame DEF Inv, Rest, Copied
  <2> QED BY <2>1, <2>2, <2>3, <2>4, PlannedSame DEF Inv, Rest
<1>3. CASE \E c \in Calls : Connect(c)
  BY <1>3, ConnectRest
<1>4. CASE \E q \in Queries : Query(q)
  BY <1>4, QueryRest
<1> QED
  BY <1>1, <1>2, <1>3, <1>4, SmcSentRest, SetupReplyRest, UnwindRest, DieRest, MakePlanRest,
     LoadBlockRest, ProgramBlockRest, StatusReplyRest, FetchBlockRest, RetReplyRest,
     DataReplyRest, FinishRest, HandleRest DEF Next, HostStep

LEMMA InvAlways ==
  ASSUME ~LateReplies
  PROVE  Spec => []Inv
BY InvInit, InvStep, PTL DEF Spec

LEMMA OnMedium ==
  ASSUME Inv, result = "ok", AllOnMedium
  PROVE  done = blocks /\ WriteRange \subseteq Addr
BY DEF Inv, Rest, CourseOK, AllOnMedium, WriteRange

(* A write that reports success has left exactly its input on the flash,   *)
(* for every medium, plan and fault: no status is taken for another        *)
(* block's, no block is skipped, and what a silently corrupting medium     *)
(* stored is caught by --verify.                                           *)
THEOREM OkWriteAlwaysMatches ==
  ASSUME ~LateReplies
  PROVE  Spec => []OkWriteMatches
<1>1. Inv => OkWriteMatches
  BY OnMedium DEF Inv, Rest, ContentOK, Copied, OkWriteMatches
<1> QED BY <1>1, InvAlways, PTL

(* The output of a read that reports success is the flash, block for       *)
(* block.                                                                  *)
THEOREM OkReadAlwaysMatches ==
  ASSUME ~LateReplies
  PROVE  Spec => []OkReadMatches
<1>1. Inv => OkReadMatches
  BY OnMedium DEF Inv, Rest, ContentOK, Copied, OkReadMatches, Image
<1> QED BY <1>1, InvAlways, PTL

-----------------------------------------------------------------------------
(* The refinement of FlashTransfer: planning is its Plan, the programmer's *)
(* handling of a write its Program, whenever that happens.                 *)
LEMMA VerdictIs ==
  /\ call = None => Verdict = "none"
  /\ call # None /\ result = "none" => Verdict = "busy"
  /\ call # None /\ result = "ok" => Verdict = "ok"
  /\ call # None /\ result \in {"err", "died"} => Verdict = "failed"
BY DEF Verdict

LEMMA VerdictIsNext ==
  /\ call' = None => Verdict' = "none"
  /\ call' # None /\ result' = "none" => Verdict' = "busy"
  /\ call' # None /\ result' = "ok" => Verdict' = "ok"
  /\ call' # None /\ result' \in {"err", "died"} => Verdict' = "failed"
BY DEF Verdict

LEMMA TargetIs ==
  ASSUME call # None, call.op = "write"
  PROVE  /\ DOMAIN Target = WriteRange
         /\ \A a \in WriteRange : Target[a] = call.file[a - call.start + 1]
BY DEF Target

LEMMA NoBlocksNoTarget ==
  /\ blocks = 0 => Target = << >>
  /\ blocks' = 0 => Target' = << >>
<1>1. ASSUME blocks = 0 PROVE Target = << >>
  <2>1. WriteRange = {}
    BY <1>1 DEF WriteRange
  <2> QED BY <2>1 DEF Target
<1>2. ASSUME blocks' = 0 PROVE Target' = << >>
  <2>1. WriteRange' = {}
    BY <1>2 DEF WriteRange
  <2> QED BY <2>1 DEF Target
<1> QED BY <1>1, <1>2

LEMMA PlanSame ==
  ASSUME UNCHANGED <<call, blocks>>
  PROVE  Target' = Target /\ Trusted' = Trusted
BY DEF Target, Trusted, WriteRange

LEMMA StutterMaps ==
  ASSUME UNCHANGED <<call, blocks, flash, result>>
  PROVE  UNCHANGED Transfer!vars
<1>1. Verdict' = Verdict
  BY DEF Verdict
<1> QED BY <1>1, PlanSame DEF Transfer!vars

LEMMA FailMaps ==
  ASSUME call # None, result = "none", result' \in {"err", "died"}, UNCHANGED <<call, blocks, flash>>
  PROVE  Transfer!Fail
BY VerdictIs, VerdictIsNext, PlanSame DEF Transfer!Fail

LEMMA InitMaps == Init => Transfer!Init
<1> SUFFICES ASSUME Init PROVE Transfer!Init
  OBVIOUS
<1>1. Target = << >> /\ Trusted = FALSE
  BY DEF Init, Target, Trusted
<1>2. Verdict = "none" /\ flash \in [Addr -> DataWord]
  BY VerdictIs DEF Init
<1> QED BY <1>1, <1>2 DEF Transfer!Init, Transfer!NoPlan

LEMMA ConnectMaps ==
  ASSUME Inv, NEW c \in Calls, Connect(c)
  PROVE  Transfer!Begin
<1>1. Verdict # "busy"
  BY VerdictIs DEF Connect, Inv, Rest, CourseOK, TypeInv, TypeOK
<1>2. Verdict' = "busy"
  BY VerdictIsNext, NoCallAssumption DEF Connect
<1>3. Target' = << >> /\ Trusted' \in BOOLEAN
  BY NoBlocksNoTarget DEF Connect, Trusted
<1> QED BY <1>1, <1>2, <1>3 DEF Connect, device, Transfer!Begin, Transfer!NoPlan

LEMMA IndexInFile ==
  ASSUME NEW start \in Nat, NEW n \in Nat, NEW len \in Nat, n <= len, NEW i \in 0..(n - 1)
  PROVE  start + i \in Nat /\ (start + i) - start + 1 = i + 1 /\ i + 1 \in 1..len
OBVIOUS

LEMMA MakePlanMaps ==
  ASSUME Inv, MakePlan, ~Fail, call.op = "write"
  PROVE  Transfer!Plan
<1>1. /\ pc = "plan" /\ PlanOf(call) # None /\ blocks' = PlanOf(call)
      /\ UNCHANGED <<call, result, flash>>
  BY DEF MakePlan, request, device
<1>2. call # None /\ result = "none" /\ blocks = 0
  BY <1>1 DEF Inv, TypeInv, TypeOK, Rest, CourseOK, PreLoop
<1>3. Verdict = "busy" /\ Verdict' = "busy" /\ Target = << >>
  BY <1>1, <1>2, VerdictIs, VerdictIsNext, NoBlocksNoTarget
<1>4. /\ call.start \in Nat /\ call.file \in Seq(DataWord)
      /\ blocks' \in Nat /\ blocks' <= Len(call.file)
  BY <1>1, CallType, PlanType, U32MaxAssumption DEF Inv, U32
<1>5. ASSUME NEW a \in WriteRange'
      PROVE  a \in Nat /\ call.file[a - call.start + 1] \in DataWord
  <2>1. PICK i \in 0..(blocks' - 1) : a = call.start + i
    BY <1>1, <1>5 DEF WriteRange
  <2>2. Len(call.file) \in Nat
    BY <1>4
  <2>3. a - call.start + 1 = i + 1 /\ i + 1 \in 1..Len(call.file) /\ a \in Nat
    BY <1>4, <2>1, <2>2, IndexInFile
  <2> QED BY <1>4, <2>3
<1>6. Target' = [a \in WriteRange' |-> call.file[a - call.start + 1]]
  BY <1>1, <1>2 DEF Target
<1>7. DOMAIN Target' \subseteq Nat /\ \A a \in DOMAIN Target' : Target'[a] \in DataWord
  BY <1>5, <1>6
<1>8. Trusted' \in BOOLEAN
  BY DEF Trusted
<1> QED BY <1>1, <1>3, <1>7, <1>8 DEF Transfer!Plan, Transfer!NoPlan

LEMMA FinishMaps ==
  ASSUME Inv, Inv', Finish, ~Fail
  PROVE  Transfer!Succeed
<1>1. pc = "finish" /\ result' = "ok" /\ UNCHANGED <<call, blocks, flash>>
  BY DEF Finish, request, planned
<1>2. call # None /\ result = "none"
  BY <1>1 DEF Inv, TypeInv, TypeOK, Rest, CourseOK
<1>3. Verdict = "busy" /\ Verdict' = "ok" /\ Target' = Target /\ Trusted' = Trusted
  BY <1>1, <1>2, VerdictIs, VerdictIsNext, PlanSame
<1>4. ASSUME Trusted, NEW a \in DOMAIN Target
      PROVE  a \in Addr /\ flash[a] = Target[a]
  <2>1. CASE call.op = "write"
    <3>1. a \in WriteRange /\ Target[a] = call.file[a - call.start + 1]
      BY <1>2, <2>1, TargetIs
    <3>2. PICK i \in 0..(blocks - 1) : a = call.start + i
      BY <3>1 DEF WriteRange
    <3>3. call.start \in Nat /\ blocks \in Nat
      BY <1>1, CallType, U32MaxAssumption DEF Inv, TypeInv, TypeOK, U32
    <3>4. a - call.start + 1 = i + 1
      BY <3>2, <3>3
    <3>5. call.start + i \in Addr /\ flash[call.start + i] = call.file[i + 1]
      BY <1>1, <1>4, <2>1, <3>2 DEF Inv, Rest, CourseOK, ContentOK, AllOnMedium, Copied, Moving
    <3> QED BY <3>1, <3>2, <3>4, <3>5
  <2>2. CASE call.op # "write"
    <3>1. Target = << >>
      BY <2>2 DEF Target
    <3>2. DOMAIN Target = {}
      BY <3>1
    <3> QED BY <1>4, <3>2
  <2> QED BY <2>1, <2>2
<1> QED BY <1>1, <1>3, <1>4 DEF Transfer!Succeed

LEMMA HandleMaps ==
  ASSUME Inv, Handle, flash' # flash
  PROVE  \E a \in Addr : Transfer!Program(a)
<1>1. PICK f : f = inbox[1]
  OBVIOUS
<1>2. f.cmd \in WriteCmds /\ WriteFlash(f)
  BY <1>1, HandledKind DEF Inv, WriteCmds, WriteCmd, Media
<1>3. f.lba \in Addr /\ \E w \in DataWord : flash' = [flash EXCEPT ![f.lba] = w]
  BY <1>2 DEF WriteFlash
<1>4. call # None /\ call.op = "write" /\ f.lba \in WriteRange
  BY <1>1, <1>2, HandledIs DEF Inv, Rest, WritesPlanned
<1>5. result # "ok"
  <2>1. f.cmd \notin SmcCmds
    BY <1>2, InquiriesDiffer
  <2> QED BY <1>1, <2>1, HandledIs DEF Inv, Rest, CourseOK, SmcOnly
<1>6. Verdict # "ok" /\ Verdict' = Verdict /\ Target' = Target /\ Trusted' = Trusted
  <2>1. UNCHANGED <<call, blocks, result>>
    BY HandledSame
  <2>2. result \in {"none", "err", "died"}
    BY <1>5 DEF Inv, TypeInv, TypeOK
  <2> QED BY <1>4, <2>1, <2>2, VerdictIs, VerdictIsNext, PlanSame
<1>7. f.lba \in DOMAIN Target
  BY <1>4, TargetIs
<1> QED BY <1>3, <1>6, <1>7 DEF Transfer!Program

LEMMA StepMaps == Inv /\ Inv' /\ [Next]_vars => [Transfer!Next]_(Transfer!vars)
<1> SUFFICES ASSUME Inv, Inv', [Next]_vars PROVE [Transfer!Next]_(Transfer!vars)
  OBVIOUS
<1> DEFINE Same == UNCHANGED <<call, blocks, flash, result>>
<1>1. ASSUME Same PROVE UNCHANGED Transfer!vars
  BY <1>1, StutterMaps
<1>2. ASSUME Fail, pc \notin {"idle", "unwind"} PROVE Transfer!Next
  <2>1. call # None /\ result = "none"
    BY <1>2 DEF Inv, TypeInv, TypeOK, Rest, CourseOK
  <2>2. result' = "err" /\ UNCHANGED <<call, blocks, flash>>
    BY <1>2 DEF Fail, request, planned, device
  <2> QED BY <2>1, <2>2, FailMaps DEF Transfer!Next
<1>3. CASE \E c \in Calls : Connect(c)
  BY <1>3, ConnectMaps DEF Transfer!Next
<1>4. CASE (\E q \in Queries : Query(q)) \/ UNCHANGED vars
  BY <1>1, <1>4 DEF Query, vars, hostVars, request, planned, device
<1>5. CASE SendFails \/ Timeout
  BY <1>2, <1>5, LabelsAre DEF SendFails, Timeout
<1>6. CASE \/ VersionReply \/ StopSmc \/ SetSmcWorkaround \/ LeaveStopped \/ StartSmc
           \/ ConfigReply \/ CsdReply \/ ProgramBlock \/ FetchBlock
  BY <1>1, <1>6 DEF VersionReply, StopSmc, SetSmcWorkaround, LeaveStopped, StartSmc, ConfigReply,
                    CsdReply, ProgramBlock, FetchBlock, request, planned, device
<1>7. CASE InitReply \/ DetectReply \/ LoadBlock \/ StatusReply \/ RetReply \/ DataReply
  <2>1. CASE Fail
    BY <1>2, <1>7, <2>1 DEF InitReply, DetectReply, LoadBlock, StatusReply, RetReply, DataReply
  <2>2. CASE ~Fail
    BY <1>1, <1>7, <2>2
       DEF InitReply, DetectReply, LoadBlock, StatusReply, RetReply, DataReply, request, planned,
           device
  <2> QED BY <2>1, <2>2
<1>8. CASE MakePlan
  <2>1. CASE Fail
    BY <1>2, <1>8, <2>1 DEF MakePlan
  <2>2. CASE ~Fail /\ call.op = "write"
    BY <1>8, <2>2, MakePlanMaps DEF Transfer!Next
  <2>3. CASE ~Fail /\ call.op # "write"
    <3>1. UNCHANGED <<call, flash, result>>
      BY <1>8, <2>3 DEF MakePlan, request, device
    <3>2. UNCHANGED <<Target, Trusted, Verdict>>
      BY <2>3, <3>1 DEF Target, Trusted, Verdict
    <3> QED BY <3>1, <3>2 DEF Transfer!vars
  <2> QED BY <2>1, <2>2, <2>3
<1>9. CASE Finish
  <2>1. CASE Fail
    BY <1>2, <1>9, <2>1 DEF Finish
  <2>2. CASE ~Fail
    BY <1>9, <2>2, FinishMaps DEF Transfer!Next
  <2> QED BY <2>1, <2>2
<1>10. CASE Die
  <2>1. call # None /\ UNCHANGED <<call, blocks, flash>>
    BY <1>10 DEF Die, Inv, TypeInv, TypeOK, request, planned, device
  <2>2. CASE result = "none"
    BY <1>10, <2>1, <2>2, FailMaps DEF Die, Transfer!Next
  <2>3. CASE result # "none"
    BY <1>1, <1>10, <2>1, <2>3 DEF Die
  <2> QED BY <2>2, <2>3
<1>11. CASE Handle
  <2>1. CASE flash' = flash
    BY <1>1, <1>11, <2>1, HandledSame
  <2>2. CASE flash' # flash
    BY <1>11, <2>2, HandleMaps DEF Transfer!Next
  <2> QED BY <2>1, <2>2
<1> QED BY <1>3, <1>4, <1>5, <1>6, <1>7, <1>8, <1>9, <1>10, <1>11 DEF Next, HostStep

(* pico_write keeps the promise of a transfer, step by step: only planned  *)
(* blocks are ever programmed, also by a write command still on the line   *)
(* when the call was given up or the process died, nothing is programmed   *)
(* once success was reported, and success speaks for the content.          *)
THEOREM TransferImplemented ==
  ASSUME ~LateReplies
  PROVE  Spec => ImplementsTransfer
<1>1. Spec => []Inv
  BY InvAlways
<1>2. Inv /\ Inv' /\ [Next]_vars => [Transfer!Next]_(Transfer!vars)
  BY StepMaps
<1> QED BY <1>1, <1>2, InitMaps, PTL DEF Spec, ImplementsTransfer, Transfer!Spec
=============================================================================
