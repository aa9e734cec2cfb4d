-------------------------- MODULE LpcServerProofs --------------------------
(***************************************************************************)
(* Proofs about LpcServer, for every number of clients, size and content   *)
(* of the flash, set of requests and set of faults.                        *)
(***************************************************************************)
EXTENDS LpcServer, SequenceTheorems, TLAPS

Messages == [kind : {"word"}, value : {"ok", "error"}] \cup [kind : {"block"}, value : DataWord]
Blocks   == [lba : Nat, data : DataWord, whole : BOOLEAN]
Working  == {"read", "read_in", "write", "write_out", "exec", "status", "status_in", "answer"}
Opening  == {"reset", "version", "version_in", "init", "init_in"}

(* What the server has at each point: a client, a request, and before each *)
(* bulk read at least one answer in the pipe.                              *)
CourseOK ==
  /\ pc # "accept" => conn \in Clients
  /\ pc \in Working => req \in Requests
  /\ pc \in {"read", "read_in"} => req.cmd = "read"
  /\ pc \in {"write", "write_out", "exec"} => req.cmd = "write" /\ geom
  /\ pc \in {"write_out", "exec"} => latch \in Blocks
  /\ pc \in {"status", "status_in"} => req.cmd = "read" \/ (req.cmd = "write" /\ geom)
  /\ pc = "answer" => resp \in DataWord \cup {"ok", "failed"}
  /\ pc \in {"version_in", "init_in", "read_in", "status_in"} => pipe # << >>
  /\ pc \in Opening => ~geom
  /\ conn # None => state[conn] # "new"
  /\ \A i \in 1..Len(queue) : state[queue[i]] # "new"

TypeInv == TypeOK /\ CourseOK

(* A careful client has at most one frame on its way, and none while the   *)
(* server works on one.                                                    *)
Waits(c) == Len(answers[c]) < sent[c]
TurnOK ==
  /\ \A c \in Clients : inbound[c] # << >> => Len(inbound[c]) = 1 /\ Waits(c)
  /\ pc \in Working => inbound[conn] = << >> /\ Waits(conn)

(* A client whose request failed sends nothing more. *)
Gone(c) == inbound[c] = << >> /\ ~(state[c] = "open" /\ Satisfied(c))

(* The block in question, if the programmer reports success and a block to *)
(* be written was sent whole.                                              *)
Done ==
  status = "ok" =>
    /\ req.cmd = "read" => req.lba \in Addr /\ buf = flash[req.lba]
    /\ req.cmd = "write" /\ latch.whole => req.lba \in Addr /\ flash[req.lba] = req.data

(* A connection that has the geometry begins with the pipe empty, and what *)
(* is in it later is the answer to the command in progress, until a        *)
(* request fails.                                                          *)
OpeningOK ==
  /\ pc \in {"version", "init"} => pipe = << >>
  /\ pc \in {"version_in", "init_in"} => \E a \in Messages : pipe = <<a>>
FrameOK ==
  geom =>
    /\ pc = "frame" => pipe = << >> \/ Gone(conn)
    /\ pc = "answer" /\ resp # "failed" => pipe = << >>
CommandOK ==
  geom =>
    /\ pc \in {"read", "write", "write_out", "exec", "status"} => pipe = << >>
    /\ pc \in {"write_out", "exec"} => latch.lba = req.lba /\ latch.data = req.data
    /\ pc = "read_in" => \E w \in DataWord :
         /\ pipe = <<[kind |-> "block", value |-> w]>>
         /\ status = "ok" => req.lba \in Addr /\ w = flash[req.lba]
    /\ pc = "status_in" => pipe = <<[kind |-> "word", value |-> status]>>
    /\ pc \in {"status", "status_in"} => Done

CareInv == TurnOK /\ OpeningOK /\ FrameOK /\ CommandOK /\ WriteAnswerHonest /\ ReadAnswerHonest

-----------------------------------------------------------------------------
LEMMA RequestType ==
  ASSUME NEW r \in Requests
  PROVE  r.lba \in Nat /\ r.data \in DataWord /\ r \in Request
BY ServerAssumption DEF Request

LEMMA PipePut ==
  ASSUME TypeOK, NEW a \in Messages, Put(a)
  PROVE  pipe' \in Seq(Messages) /\ pipe' # << >> /\ (pipe = << >> => pipe' = <<a>>)
<1>1. pipe \in Seq(Messages) /\ pipe' = Append(pipe, a)
  BY DEF TypeOK, Messages, Put
<1>2. pipe' \in Seq(Messages) /\ pipe' # << >>
  BY <1>1, AppendProperties
<1>3. pipe = << >> => pipe' = <<a>>
  BY <1>1
<1> QED BY <1>2, <1>3

LEMMA PipeTail ==
  ASSUME TypeOK, pipe # << >>
  PROVE  Head(pipe) \in Messages /\ Tail(pipe) \in Seq(Messages)
<1>1. pipe \in Seq(Messages)
  BY DEF TypeOK, Messages
<1> QED BY <1>1, HeadTailProperties

LEMMA OneMessage ==
  ASSUME NEW a
  PROVE  Head(<<a>>) = a /\ Tail(<<a>>) = << >>
OBVIOUS

LEMMA ReadFailsType ==
  ASSUME TypeOK, pipe # << >>, NEW kind, ReadFails(kind)
  PROVE  pipe' \in Seq(Messages)
<1>1. pipe \in Seq(Messages)
  BY DEF TypeOK, Messages
<1> QED BY <1>1, PipeTail DEF ReadFails

(* The first frame of the client is taken. *)
LEMMA TakeFrameType ==
  ASSUME TypeInv, pc = "frame", inbound[conn] # << >>, TakeFrame
  PROVE  /\ conn \in Clients /\ Head(inbound[conn]) \in Requests
         /\ inbound' \in [Clients -> Seq(Requests)]
         /\ \A c \in Clients : c # conn => inbound'[c] = inbound[c]
         /\ TurnOK => Waits(conn) /\ inbound'[conn] = << >>
<1>1. conn \in Clients /\ inbound \in [Clients -> Seq(Requests)]
  BY DEF TypeInv, TypeOK, CourseOK
<1>2. inbound[conn] \in Seq(Requests)
  BY <1>1
<1>3. /\ Head(inbound[conn]) \in Requests /\ Tail(inbound[conn]) \in Seq(Requests)
      /\ Len(Tail(inbound[conn])) = Len(inbound[conn]) - 1
  BY <1>2, HeadTailProperties
<1>4. inbound' = [inbound EXCEPT ![conn] = Tail(inbound[conn])]
  BY DEF TakeFrame
<1>5. /\ inbound' \in [Clients -> Seq(Requests)] /\ inbound'[conn] = Tail(inbound[conn])
      /\ \A c \in Clients : c # conn => inbound'[c] = inbound[c]
  BY <1>1, <1>3, <1>4
<1>6. ASSUME TurnOK PROVE Waits(conn) /\ inbound'[conn] = << >>
  <2>1. Len(inbound[conn]) = 1 /\ Waits(conn)
    BY <1>1, <1>6 DEF TurnOK
  <2>2. Len(Tail(inbound[conn])) = 0
    BY <1>3, <2>1
  <2> QED BY <1>3, <1>5, <2>1, <2>2, EmptySeq
<1> QED BY <1>1, <1>3, <1>5, <1>6

-----------------------------------------------------------------------------
(* Types and course.  First the three ways in which a step may end early.  *)
LEMMA NoGeometryType ==
  ASSUME TypeInv, pc \in Opening, pipe' \in Seq(Messages), NoGeometry
  PROVE  TypeInv'
<1>1. /\ pc' = "frame" /\ conn \in Clients
      /\ UNCHANGED <<queue, conn, req, resp, geom, cached, buf, state, sent, inbound, answers,
                     latch, status, flash>>
  BY DEF NoGeometry, served, lpc, clients, TypeInv, CourseOK, Opening
<1>2. TypeOK'
  BY <1>1 DEF TypeInv, TypeOK, Pcs, Messages
<1>3. CourseOK'
  BY <1>1 DEF TypeInv, CourseOK, Working, Opening
<1> QED BY <1>2, <1>3 DEF TypeInv

LEMMA FailedType ==
  ASSUME TypeInv, pc \in Working, Failed,
         pipe' \in Seq(Messages), status' \in {"ok", "error"}, flash' \in [Addr -> DataWord]
  PROVE  TypeInv'
<1>1. /\ pc' = "answer" /\ resp' = "failed" /\ conn \in Clients /\ req \in Requests
      /\ UNCHANGED <<queue, conn, req, geom, cached, buf, state, sent, inbound, answers, latch>>
  BY DEF Failed, lpc, clients, TypeInv, CourseOK, Working
<1>2. TypeOK'
  BY <1>1 DEF TypeInv, TypeOK, Pcs, Messages
<1>3. CourseOK'
  BY <1>1 DEF TypeInv, CourseOK, Working, Opening
<1> QED BY <1>2, <1>3 DEF TypeInv

LEMMA EndConnectionType ==
  ASSUME TypeInv, EndConnection, req' = req, inbound' \in [Clients -> Seq(Requests)]
  PROVE  TypeInv'
<1>1. /\ pc' = "accept"
      /\ UNCHANGED <<queue, conn, req, resp, geom, cached, buf, state, sent, answers,
                     pipe, latch, status, flash>>
  BY DEF EndConnection, lpc, device
<1>2. TypeOK'
  BY <1>1 DEF TypeInv, TypeOK, Pcs
<1>3. CourseOK'
  BY <1>1 DEF TypeInv, CourseOK, Working, Opening
<1> QED BY <1>2, <1>3 DEF TypeInv

LEMMA PipeType ==
  ASSUME TypeOK
  PROVE  pipe \in Seq(Messages) /\ << >> \in Seq(Messages)
BY EmptySeq DEF TypeOK, Messages

LEMMA WordType == Word \in Messages
BY DEF Word, Messages

LEMMA ConnectType ==
  ASSUME TypeInv, NEW c \in Clients, Connect(c)
  PROVE  TypeInv'
<1>1. /\ state[c] = "new" /\ state' = [state EXCEPT ![c] = "open"] /\ queue' = Append(queue, c)
      /\ UNCHANGED <<pc, conn, req, resp, geom, cached, buf, sent, inbound, answers,
                     pipe, latch, status, flash>>
  BY DEF Connect, served, lpc, device
<1>2. /\ state' \in [Clients -> {"new", "open", "closed"}]
      /\ \A b \in Clients : state'[b] = IF b = c THEN "open" ELSE state[b]
  BY <1>1 DEF TypeInv, TypeOK
<1>3. /\ queue \in Seq(Clients) /\ queue' \in Seq(Clients) /\ Len(queue) \in Nat
      /\ Len(queue') = Len(queue) + 1 /\ queue'[Len(queue) + 1] = c
      /\ \A i \in 1..Len(queue) : queue'[i] = queue[i] /\ queue[i] \in Clients
  BY <1>1, AppendProperties DEF TypeInv, TypeOK
<1>4. TypeOK'
  BY <1>1, <1>2, <1>3 DEF TypeInv, TypeOK
<1>5. ASSUME NEW i \in 1..Len(queue') PROVE state'[queue'[i]] # "new"
  <2>1. CASE i = Len(queue) + 1
    BY <1>2, <1>3, <2>1
  <2>2. CASE i # Len(queue) + 1
    <3>1. i \in 1..Len(queue)
      BY <1>3, <2>2
    <3>2. queue'[i] = queue[i] /\ queue[i] \in Clients /\ state[queue[i]] # "new"
      BY <1>3, <3>1 DEF TypeInv, CourseOK
    <3> QED BY <1>2, <3>2
  <2> QED BY <2>1, <2>2
<1>6. conn' # None => state'[conn'] # "new"
  BY <1>1, <1>2 DEF TypeInv, TypeOK, CourseOK
<1>7. CourseOK'
  BY <1>1, <1>5, <1>6 DEF TypeInv, CourseOK
<1> QED BY <1>4, <1>7 DEF TypeInv

LEMMA SendRequestType ==
  ASSUME TypeInv, NEW c \in Clients, NEW r \in Requests, SendRequest(c, r)
  PROVE  TypeInv'
<1>1. /\ sent[c] < MaxRequests /\ sent' = [sent EXCEPT ![c] = sent[c] + 1]
      /\ inbound' = [inbound EXCEPT ![c] = Append(inbound[c], r)]
      /\ UNCHANGED <<pc, queue, conn, req, resp, geom, cached, buf, state, answers,
                     pipe, latch, status, flash>>
  BY DEF SendRequest, server, served, lpc, device
<1>2. sent' \in [Clients -> 0..MaxRequests]
  <2>1. sent[c] + 1 \in 0..MaxRequests
    BY <1>1, ServerAssumption DEF TypeInv, TypeOK
  <2> QED BY <1>1, <2>1 DEF TypeInv, TypeOK
<1>3. inbound' \in [Clients -> Seq(Requests)]
  <2>1. Append(inbound[c], r) \in Seq(Requests)
    BY AppendProperties DEF TypeInv, TypeOK
  <2> QED BY <1>1, <2>1 DEF TypeInv, TypeOK
<1>4. TypeOK'
  BY <1>1, <1>2, <1>3 DEF TypeInv, TypeOK
<1>5. CourseOK'
  BY <1>1 DEF TypeInv, CourseOK
<1> QED BY <1>4, <1>5 DEF TypeInv

LEMMA CloseType ==
  ASSUME TypeInv, NEW c \in Clients, Close(c)
  PROVE  TypeInv'
<1>1. /\ state' = [state EXCEPT ![c] = "closed"]
      /\ UNCHANGED <<pc, queue, conn, req, resp, geom, cached, buf, sent, inbound, answers,
                     pipe, latch, status, flash>>
  BY DEF Close, server, served, lpc, device
<1>2. /\ state' \in [Clients -> {"new", "open", "closed"}]
      /\ \A b \in Clients : state'[b] = IF b = c THEN "closed" ELSE state[b]
  BY <1>1 DEF TypeInv, TypeOK
<1>3. TypeOK'
  BY <1>1, <1>2 DEF TypeInv, TypeOK
<1>4. ASSUME NEW i \in 1..Len(queue) PROVE state'[queue[i]] # "new"
  <2>1. queue \in Seq(Clients) /\ state[queue[i]] # "new"
    BY DEF TypeInv, TypeOK, CourseOK
  <2>2. queue[i] \in Clients
    BY <2>1
  <2> QED BY <1>2, <2>1, <2>2
<1>5. conn' # None => state'[conn'] # "new"
  BY <1>1, <1>2 DEF TypeInv, TypeOK, CourseOK
<1>6. CourseOK'
  BY <1>1, <1>4, <1>5 DEF TypeInv, CourseOK
<1> QED BY <1>3, <1>6 DEF TypeInv

LEMMA AcceptType == TypeInv /\ Accept => TypeInv'
<1> SUFFICES ASSUME TypeInv, Accept PROVE TypeInv'
  OBVIOUS
<1>1. /\ queue # << >> /\ conn' = Head(queue) /\ queue' = Tail(queue)
      /\ pc' = "reset" /\ geom' = FALSE
      /\ UNCHANGED <<req, resp, cached, buf, state, sent, inbound, answers,
                     pipe, latch, status, flash>>
  BY DEF Accept, clients, device
<1>2. /\ queue \in Seq(Clients) /\ Head(queue) \in Clients /\ Tail(queue) \in Seq(Clients)
      /\ Head(queue) = queue[1] /\ Len(queue) \in Nat /\ Len(queue) >= 1
      /\ Len(Tail(queue)) = Len(queue) - 1
      /\ \A i \in 1..Len(Tail(queue)) : Tail(queue)[i] = queue[i + 1]
  BY <1>1, HeadTailProperties, EmptySeq DEF TypeInv, TypeOK
<1>3. TypeOK'
  BY <1>1, <1>2 DEF TypeInv, TypeOK, Pcs
<1>4. state'[conn'] # "new"
  BY <1>1, <1>2 DEF TypeInv, CourseOK
<1>5. ASSUME NEW i \in 1..Len(queue') PROVE state'[queue'[i]] # "new"
  <2>1. i + 1 \in 1..Len(queue) /\ queue'[i] = queue[i + 1]
    BY <1>1, <1>2
  <2> QED BY <1>1, <2>1 DEF TypeInv, CourseOK
<1>6. CourseOK'
  BY <1>1, <1>2, <1>4, <1>5 DEF CourseOK, Working
<1> QED BY <1>3, <1>6 DEF TypeInv

(* The steps that open a connection. *)
LEMMA OpeningType == TypeInv /\ (DeviceReset \/ Ask \/ VersionIn \/ ConfigIn) => TypeInv'
<1>1. ASSUME TypeInv, DeviceReset PROVE TypeInv'
  <2>1. pc = "reset" /\ pc \in Opening /\ pipe \in Seq(Messages) /\ << >> \in Seq(Messages)
    BY <1>1, PipeType DEF DeviceReset, Opening, TypeInv
  <2>2. CASE /\ pc' = "version" /\ pipe' = << >>
             /\ UNCHANGED <<queue, served, lpc, clients, latch, status, flash>>
    <3>1. UNCHANGED <<queue, conn, req, resp, geom, cached, buf, state, sent, inbound, answers,
                      latch, status, flash>>
      BY <2>2 DEF served, lpc, clients
    <3>2. TypeOK'
      BY <1>1, <2>1, <2>2, <3>1 DEF TypeInv, TypeOK, Pcs, Messages
    <3>3. CourseOK'
      BY <1>1, <2>1, <2>2, <3>1 DEF TypeInv, CourseOK, Working, Opening
    <3> QED BY <3>2, <3>3 DEF TypeInv
  <2>3. CASE pipe' \in {pipe, << >>} /\ NoGeometry
    BY <1>1, <2>1, <2>3, NoGeometryType
  <2> QED BY <1>1, <2>2, <2>3 DEF DeviceReset
<1>2. ASSUME TypeInv, Ask PROVE TypeInv'
  <2>1. pc \in {"version", "init"} /\ pc \in Opening /\ pipe \in Seq(Messages)
    BY <1>2, PipeType DEF Ask, Opening, TypeInv
  <2>2. CASE /\ pc' = IF pc = "version" THEN "version_in" ELSE "init_in"
             /\ Put(Word)
             /\ UNCHANGED <<queue, served, lpc, clients, latch, status, flash>>
    <3>1. UNCHANGED <<queue, conn, req, resp, geom, cached, buf, state, sent, inbound, answers,
                      latch, status, flash>>
      BY <2>2 DEF served, lpc, clients
    <3>2. pipe' \in Seq(Messages) /\ pipe' # << >>
      BY <1>2, <2>2, PipePut, WordType DEF TypeInv
    <3>3. pc' \in {"version_in", "init_in"}
      BY <2>2
    <3>4. TypeOK'
      BY <1>2, <3>1, <3>2, <3>3 DEF TypeInv, TypeOK, Pcs, Messages
    <3>5. CourseOK'
      BY <1>2, <2>1, <3>1, <3>2, <3>3 DEF TypeInv, CourseOK, Working, Opening
    <3> QED BY <3>4, <3>5 DEF TypeInv
  <2>3. CASE (Put(Word) \/ UNCHANGED pipe) /\ NoGeometry
    <3>1. pipe' \in Seq(Messages)
      BY <1>2, <2>1, <2>3, PipePut, WordType DEF TypeInv
    <3> QED BY <1>2, <2>1, <2>3, <3>1, NoGeometryType
  <2> QED BY <1>2, <2>2, <2>3 DEF Ask
<1>3. ASSUME TypeInv, VersionIn PROVE TypeInv'
  <2>1. pc = "version_in" /\ pc \in Opening /\ pipe # << >> /\ Tail(pipe) \in Seq(Messages)
    BY <1>3, PipeTail DEF VersionIn, Opening, TypeInv, CourseOK
  <2>2. CASE /\ ReadU32
             /\ IF cached THEN pc' = "frame" /\ geom' = TRUE ELSE pc' = "init" /\ UNCHANGED geom
             /\ UNCHANGED <<queue, served, cached, buf, clients, latch, status, flash>>
    <3>1. /\ pipe' \in Seq(Messages) /\ (pc' = "frame" \/ (pc' = "init" /\ geom' = geom))
          /\ geom' \in BOOLEAN
          /\ UNCHANGED <<queue, conn, req, resp, cached, buf, state, sent, inbound, answers,
                         latch, status, flash>>
      BY <1>3, <2>1, <2>2 DEF ReadU32, served, clients, TypeInv, TypeOK
    <3>2. TypeOK'
      BY <1>3, <3>1 DEF TypeInv, TypeOK, Pcs, Messages
    <3>3. CourseOK'
      BY <1>3, <2>1, <3>1 DEF TypeInv, CourseOK, Working, Opening
    <3> QED BY <3>2, <3>3 DEF TypeInv
  <2>3. CASE ReadFails("word") /\ NoGeometry
    BY <1>3, <2>1, <2>3, NoGeometryType, ReadFailsType DEF TypeInv
  <2> QED BY <1>3, <2>2, <2>3 DEF VersionIn
<1>4. ASSUME TypeInv, ConfigIn PROVE TypeInv'
  <2>1. pc = "init_in" /\ pc \in Opening /\ pipe # << >> /\ Tail(pipe) \in Seq(Messages)
    BY <1>4, PipeTail DEF ConfigIn, Opening, TypeInv, CourseOK
  <2>2. CASE /\ ReadU32
             /\ pc' = "frame" /\ geom' = TRUE /\ cached' = TRUE
             /\ UNCHANGED <<queue, served, buf, clients, latch, status, flash>>
    <3>1. /\ pipe' \in Seq(Messages) /\ pc' = "frame" /\ geom' = TRUE /\ cached' = TRUE
          /\ UNCHANGED <<queue, conn, req, resp, buf, state, sent, inbound, answers,
                         latch, status, flash>>
      BY <2>1, <2>2 DEF ReadU32, served, clients
    <3>2. TypeOK'
      BY <1>4, <3>1 DEF TypeInv, TypeOK, Pcs, Messages
    <3>3. CourseOK'
      BY <1>4, <2>1, <3>1 DEF TypeInv, CourseOK, Working, Opening
    <3> QED BY <3>2, <3>3 DEF TypeInv
  <2>3. CASE (ReadU32 \/ ReadFails("word")) /\ NoGeometry
    <3>1. pipe' \in Seq(Messages)
      BY <1>4, <2>1, <2>3, ReadFailsType DEF ReadU32, TypeInv
    <3> QED BY <1>4, <2>1, <2>3, <3>1, NoGeometryType
  <2> QED BY <1>4, <2>2, <2>3 DEF ConfigIn
<1> QED BY <1>1, <1>2, <1>3, <1>4

(* The steps between two commands. *)
LEMMA HandleType == TypeInv /\ (EndOfStream \/ BadFrame \/ IgnoreFrame \/ Answer) => TypeInv'
<1>1. ASSUME TypeInv, EndOfStream PROVE TypeInv'
  <2>1. inbound' \in [Clients -> Seq(Requests)] /\ req' = req
    BY <1>1 DEF EndOfStream, TypeInv, TypeOK
  <2> QED BY <1>1, <2>1, EndConnectionType DEF EndOfStream
<1>2. ASSUME TypeInv, BadFrame PROVE TypeInv'
  BY <1>2, TakeFrameType, EndConnectionType DEF BadFrame
<1>3. ASSUME TypeInv, IgnoreFrame PROVE TypeInv'
  <2>1. /\ inbound' \in [Clients -> Seq(Requests)]
        /\ UNCHANGED <<pc, queue, conn, req, resp, geom, cached, buf, state, sent, answers,
                       pipe, latch, status, flash>>
    BY <1>3, TakeFrameType DEF IgnoreFrame, server, served, lpc, device
  <2>2. TypeOK'
    BY <1>3, <2>1 DEF TypeInv, TypeOK
  <2>3. CourseOK'
    BY <1>3, <2>1 DEF TypeInv, CourseOK
  <2> QED BY <2>2, <2>3 DEF TypeInv
<1>4. ASSUME TypeInv, Answer PROVE TypeInv'
  <2>1. /\ pc = "answer" /\ conn \in Clients /\ resp \in DataWord \cup {"ok", "failed"}
        /\ answers[conn] \in Seq(DataWord \cup {"ok", "failed"})
    BY <1>4 DEF Answer, TypeInv, TypeOK, CourseOK
  <2>2. CASE /\ pc' = "frame"
             /\ answers' = IF state[conn] = "open" THEN [answers EXCEPT ![conn] = Append(@, resp)]
                           ELSE answers
             /\ UNCHANGED <<queue, served, lpc, state, sent, inbound, device>>
    <3>1. UNCHANGED <<queue, conn, req, resp, geom, cached, buf, state, sent, inbound,
                      pipe, latch, status, flash>>
      BY <2>2 DEF served, lpc, device
    <3>2. answers' \in [Clients -> Seq(DataWord \cup {"ok", "failed"})]
      <4>1. Append(answers[conn], resp) \in Seq(DataWord \cup {"ok", "failed"})
        BY <2>1, AppendProperties
      <4> QED BY <1>4, <2>1, <2>2, <4>1 DEF TypeInv, TypeOK
    <3>3. TypeOK'
      BY <1>4, <2>2, <3>1, <3>2 DEF TypeInv, TypeOK, Pcs
    <3>4. CourseOK'
      BY <1>4, <2>1, <2>2, <3>1 DEF TypeInv, CourseOK, Working, Opening
    <3> QED BY <3>3, <3>4 DEF TypeInv
  <2>3. CASE EndConnection /\ UNCHANGED <<req, inbound>>
    <3>1. inbound' \in [Clients -> Seq(Requests)] /\ req' = req
      BY <1>4, <2>3 DEF TypeInv, TypeOK
    <3> QED BY <1>4, <2>3, <3>1, EndConnectionType
  <2> QED BY <1>4, <2>2, <2>3 DEF Answer
<1> QED BY <1>1, <1>2, <1>3, <1>4

LEMMA DispatchType == TypeInv /\ Dispatch => TypeInv'
<1> SUFFICES ASSUME TypeInv, Dispatch PROVE TypeInv'
  OBVIOUS
<1>1. PICK r \in Requests :
        /\ req' = r /\ r = Head(inbound[conn])
        /\ \/ pc' = "answer" /\ resp' \in {"ok", "failed"}
           \/ r.cmd = "read" /\ pc' = "read" /\ resp' = None
           \/ r.cmd = "write" /\ geom /\ pc' = "write" /\ resp' = None
  BY TakeFrameType DEF Dispatch
<1>2. /\ pc = "frame" /\ conn \in Clients /\ inbound' \in [Clients -> Seq(Requests)]
      /\ UNCHANGED <<queue, conn, geom, cached, buf, state, sent, answers,
                     pipe, latch, status, flash>>
  BY TakeFrameType DEF Dispatch, lpc, device
<1>3. TypeOK'
  BY <1>1, <1>2 DEF TypeInv, TypeOK, Pcs
<1>4. CourseOK'
  BY <1>1, <1>2 DEF TypeInv, CourseOK, Working, Opening
<1> QED BY <1>3, <1>4 DEF TypeInv

LEMMA DeviceReadType ==
  ASSUME TypeOK, NEW lba, DeviceRead(lba)
  PROVE  /\ pipe' \in Seq(Messages) /\ pipe' # << >> /\ status' \in {"ok", "error"} /\ flash' = flash
<1>1. PICK w \in DataWord, ok \in BOOLEAN :
        /\ Put([kind |-> "block", value |-> w]) /\ flash' = flash
        /\ status' = IF ok THEN "ok" ELSE "error"
  BY DEF DeviceRead
<1>2. [kind |-> "block", value |-> w] \in Messages
  BY DEF Messages
<1> QED BY <1>1, <1>2, PipePut

LEMMA DeviceProgramType ==
  ASSUME TypeOK, NEW block, DeviceProgram(block)
  PROVE  status' \in {"ok", "error"} /\ flash' \in [Addr -> DataWord]
BY DEF DeviceProgram, TypeOK

LEMMA DeviceTakesType ==
  ASSUME TypeOK, NEW block, DeviceTakes(block)
  PROVE  status' \in {"ok", "error"} /\ flash' \in [Addr -> DataWord]
BY DeviceProgramType DEF DeviceTakes, TypeOK

LEMMA ReadType == TypeInv /\ (DataRead \/ BlockIn) => TypeInv'
<1>1. ASSUME TypeInv, DataRead PROVE TypeInv'
  <2>1. /\ pc = "read" /\ pc \in Working /\ pipe \in Seq(Messages) /\ status \in {"ok", "error"}
        /\ conn \in Clients /\ req \in Requests /\ req.cmd = "read"
    BY <1>1, PipeType DEF DataRead, Working, TypeInv, TypeOK, CourseOK
  <2>2. CASE /\ pc' = "read_in" /\ DeviceRead(req.lba)
             /\ UNCHANGED <<queue, served, lpc, clients, latch>>
    <3>1. UNCHANGED <<queue, conn, req, resp, geom, cached, buf, state, sent, inbound, answers, latch>>
      BY <2>2 DEF served, lpc, clients
    <3>2. /\ pipe' \in Seq(Messages) /\ pipe' # << >> /\ status' \in {"ok", "error"}
          /\ flash' = flash
      BY <1>1, <2>2, DeviceReadType DEF TypeInv
    <3>3. TypeOK'
      BY <1>1, <2>2, <3>1, <3>2 DEF TypeInv, TypeOK, Pcs, Messages
    <3>4. CourseOK'
      BY <1>1, <2>1, <2>2, <3>1, <3>2 DEF TypeInv, CourseOK, Working, Opening
    <3> QED BY <3>3, <3>4 DEF TypeInv
  <2>3. CASE Failed /\ (DeviceRead(req.lba) \/ UNCHANGED <<pipe, status, flash>>)
    <3>1. /\ pipe' \in Seq(Messages) /\ status' \in {"ok", "error"}
          /\ flash' \in [Addr -> DataWord]
      BY <1>1, <2>1, <2>3, DeviceReadType DEF TypeInv, TypeOK
    <3> QED BY <1>1, <2>1, <2>3, <3>1, FailedType
  <2> QED BY <1>1, <2>2, <2>3 DEF DataRead
<1>2. ASSUME TypeInv, BlockIn PROVE TypeInv'
  <2>1. /\ pc = "read_in" /\ pc \in Working /\ pipe # << >> /\ status \in {"ok", "error"}
        /\ conn \in Clients /\ req \in Requests /\ req.cmd = "read"
        /\ Head(pipe) \in Messages /\ Tail(pipe) \in Seq(Messages)
    BY <1>2, PipeTail DEF BlockIn, Working, TypeInv, TypeOK, CourseOK
  <2>2. CASE /\ pipe' = Tail(pipe) /\ pc' = "status"
             /\ buf' = IF Head(pipe).kind = "block" THEN Head(pipe).value ELSE None
             /\ UNCHANGED <<queue, served, geom, cached, clients, latch, status, flash>>
    <3>1. UNCHANGED <<queue, conn, req, resp, geom, cached, state, sent, inbound, answers,
                      latch, status, flash>>
      BY <2>2 DEF served, clients
    <3>2. buf' \in DataWord \cup {None}
      BY <2>1, <2>2 DEF Messages
    <3>3. TypeOK'
      BY <1>2, <2>1, <2>2, <3>1, <3>2 DEF TypeInv, TypeOK, Pcs, Messages
    <3>4. CourseOK'
      BY <1>2, <2>1, <2>2, <3>1 DEF TypeInv, CourseOK, Working, Opening
    <3> QED BY <3>3, <3>4 DEF TypeInv
  <2>3. CASE ReadFails("block") /\ Failed /\ UNCHANGED <<status, flash>>
    BY <1>2, <2>1, <2>3, FailedType, ReadFailsType DEF TypeInv, TypeOK
  <2> QED BY <1>2, <2>2, <2>3 DEF BlockIn
<1> QED BY <1>1, <1>2

LEMMA CutType ==
  ASSUME TypeInv, pc \in {"write_out", "exec"}
  PROVE  /\ latch \in Blocks /\ Cut(latch) \in Blocks
         /\ Cut(latch).lba = latch.lba /\ Cut(latch).data = latch.data
<1>1. latch \in Blocks
  BY DEF TypeInv, CourseOK
<1> QED BY <1>1 DEF Cut, Blocks

LEMMA WriteType == TypeInv /\ (DataWrite \/ WriteOut \/ DataExec) => TypeInv'
<1>1. ASSUME TypeInv, DataWrite PROVE TypeInv'
  <2>1. /\ pc = "write" /\ pc \in Working /\ pipe \in Seq(Messages) /\ status \in {"ok", "error"}
        /\ conn \in Clients /\ req \in Requests /\ req.cmd = "write" /\ geom
    BY <1>1, PipeType DEF DataWrite, Working, TypeInv, TypeOK, CourseOK
  <2>2. CASE /\ pc' = "write_out"
             /\ latch' = [lba |-> req.lba, data |-> req.data, whole |-> TRUE]
             /\ UNCHANGED <<queue, served, lpc, clients, pipe, status, flash>>
    <3>1. UNCHANGED <<queue, conn, req, resp, geom, cached, buf, state, sent, inbound, answers,
                      pipe, status, flash>>
      BY <2>2 DEF served, lpc, clients
    <3>2. latch' \in Blocks
      BY <2>1, <2>2, RequestType DEF Blocks
    <3>3. TypeOK'
      BY <1>1, <2>2, <3>1, <3>2 DEF TypeInv, TypeOK, Pcs, Blocks
    <3>4. CourseOK'
      BY <1>1, <2>1, <2>2, <3>1, <3>2 DEF TypeInv, CourseOK, Working, Opening
    <3> QED BY <3>3, <3>4 DEF TypeInv
  <2>3. CASE Failed /\ UNCHANGED <<pipe, status, flash>>
    BY <1>1, <2>1, <2>3, FailedType DEF TypeInv, TypeOK
  <2> QED BY <1>1, <2>2, <2>3 DEF DataWrite
<1>2. ASSUME TypeInv, WriteOut \/ DataExec PROVE TypeInv'
  <2>1. /\ pc \in {"write_out", "exec"} /\ pc \in Working
        /\ pipe \in Seq(Messages) /\ status \in {"ok", "error"}
        /\ conn \in Clients /\ req \in Requests /\ req.cmd = "write" /\ geom
    BY <1>2, PipeType DEF WriteOut, DataExec, Working, TypeInv, TypeOK, CourseOK
  <2>2. CASE /\ WriteBulk \/ latch' = latch
             /\ \/ pc' \in {"exec", "status"} /\ DeviceTakes(latch')
                \/ pc' = "status" /\ DeviceProgram(latch)
             /\ UNCHANGED <<queue, served, lpc, clients, pipe>>
    <3>1. UNCHANGED <<queue, conn, req, resp, geom, cached, buf, state, sent, inbound, answers, pipe>>
      BY <2>2 DEF served, lpc, clients
    <3>2. status' \in {"ok", "error"} /\ flash' \in [Addr -> DataWord] /\ pc' \in {"exec", "status"}
      BY <1>2, <2>2, DeviceProgramType, DeviceTakesType DEF TypeInv
    <3>3. latch' \in Blocks
      BY <1>2, <2>1, <2>2, CutType DEF WriteBulk
    <3>4. TypeOK'
      BY <1>2, <3>1, <3>2, <3>3 DEF TypeInv, TypeOK, Pcs, Blocks
    <3>5. CourseOK'
      BY <1>2, <2>1, <2>2, <3>1, <3>2, <3>3 DEF TypeInv, CourseOK, Working, Opening
    <3> QED BY <3>4, <3>5 DEF TypeInv
  <2>3. CASE /\ Failed /\ UNCHANGED pipe
             /\ \/ DeviceTakes(Cut(latch)) \/ DeviceProgram(latch)
                \/ UNCHANGED <<status, flash>>
    <3>1. status' \in {"ok", "error"} /\ flash' \in [Addr -> DataWord]
      BY <1>2, <2>3, DeviceProgramType, DeviceTakesType DEF TypeInv, TypeOK
    <3> QED BY <1>2, <2>1, <2>3, <3>1, FailedType
  <2> QED BY <1>2, <2>2, <2>3 DEF WriteOut, DataExec
<1> QED BY <1>1, <1>2

LEMMA StatusType == TypeInv /\ (DataStatus \/ StatusIn) => TypeInv'
<1>1. ASSUME TypeInv, DataStatus PROVE TypeInv'
  <2>1. /\ pc = "status" /\ pc \in Working /\ pipe \in Seq(Messages) /\ status \in {"ok", "error"}
        /\ conn \in Clients /\ req \in Requests /\ (req.cmd = "read" \/ (req.cmd = "write" /\ geom))
    BY <1>1, PipeType DEF DataStatus, Working, TypeInv, TypeOK, CourseOK
  <2>2. CASE /\ pc' = "status_in" /\ Put([kind |-> "word", value |-> status])
             /\ UNCHANGED <<queue, served, lpc, clients, latch, status, flash>>
    <3>1. UNCHANGED <<queue, conn, req, resp, geom, cached, buf, state, sent, inbound, answers,
                      latch, status, flash>>
      BY <2>2 DEF served, lpc, clients
    <3>2. pipe' \in Seq(Messages) /\ pipe' # << >>
      BY <1>1, <2>1, <2>2, PipePut DEF Messages, TypeInv
    <3>3. TypeOK'
      BY <1>1, <2>2, <3>1, <3>2 DEF TypeInv, TypeOK, Pcs, Messages
    <3>4. CourseOK'
      BY <1>1, <2>1, <2>2, <3>1, <3>2 DEF TypeInv, CourseOK, Working, Opening
    <3> QED BY <3>3, <3>4 DEF TypeInv
  <2>3. CASE /\ Failed /\ UNCHANGED <<status, flash>>
             /\ Put([kind |-> "word", value |-> status]) \/ UNCHANGED pipe
    <3>1. [kind |-> "word", value |-> status] \in Messages
      BY <2>1 DEF Messages
    <3>2. pipe' \in Seq(Messages)
      BY <1>1, <2>1, <2>3, <3>1, PipePut DEF TypeInv
    <3> QED BY <1>1, <2>1, <2>3, <3>2, FailedType DEF TypeInv, TypeOK
  <2> QED BY <1>1, <2>2, <2>3 DEF DataStatus
<1>2. ASSUME TypeInv, StatusIn PROVE TypeInv'
  <2>1. /\ pc = "status_in" /\ pc \in Working /\ pipe # << >> /\ status \in {"ok", "error"}
        /\ conn \in Clients /\ req \in Requests /\ Tail(pipe) \in Seq(Messages)
        /\ req.cmd = "read" \/ req.cmd = "write"
    BY <1>2, PipeTail DEF StatusIn, Working, TypeInv, TypeOK, CourseOK
  <2>2. CASE /\ ReadU32
             /\ resp' = Outcome(Head(pipe).value) /\ pc' = "answer"
             /\ UNCHANGED <<queue, conn, req, lpc, clients, latch, status, flash>>
    <3>1. /\ pipe' = Tail(pipe)
          /\ UNCHANGED <<queue, conn, req, geom, cached, buf, state, sent, inbound, answers,
                         latch, status, flash>>
      BY <2>2 DEF ReadU32, lpc, clients
    <3>2. resp' \in DataWord \cup {"ok", "failed"}
      <4>1. buf \in DataWord \cup {None}
        BY <1>2 DEF TypeInv, TypeOK
      <4> QED BY <2>2, <4>1 DEF Outcome
    <3>3. TypeOK'
      BY <1>2, <2>1, <2>2, <3>1, <3>2 DEF TypeInv, TypeOK, Pcs, Messages
    <3>4. CourseOK'
      BY <1>2, <2>1, <2>2, <3>1, <3>2 DEF TypeInv, CourseOK, Working, Opening
    <3> QED BY <3>3, <3>4 DEF TypeInv
  <2>3. CASE ReadFails("word") /\ Failed /\ UNCHANGED <<status, flash>>
    BY <1>2, <2>1, <2>3, FailedType, ReadFailsType DEF TypeInv, TypeOK
  <2> QED BY <1>2, <2>2, <2>3 DEF StatusIn
<1> QED BY <1>1, <1>2

LEMMA TypeInit == Init => TypeInv
<1> SUFFICES ASSUME Init PROVE TypeInv
  OBVIOUS
<1>1. /\ queue \in Seq(Clients) /\ inbound \in [Clients -> Seq(Requests)]
      /\ answers \in [Clients -> Seq(DataWord \cup {"ok", "failed"})]
  BY EmptySeq DEF Init
<1>2. Len(queue) = 0 /\ 1..Len(queue) = {}
  BY EmptySeq DEF Init
<1>3. pipe \in Seq([kind : {"word"}, value : {"ok", "error"}] \cup [kind : {"block"}, value : DataWord])
  BY EmptySeq DEF Init
<1>4. sent \in [Clients -> 0..MaxRequests] /\ state \in [Clients -> {"new", "open", "closed"}]
  BY ServerAssumption DEF Init
<1>5. TypeOK
  BY <1>1, <1>3, <1>4 DEF Init, TypeOK, Pcs
<1>6. CourseOK
  BY <1>2 DEF Init, CourseOK, Working, Opening
<1> QED BY <1>5, <1>6 DEF TypeInv

LEMMA TypeUnchanged == TypeInv /\ UNCHANGED vars => TypeInv'
<1> SUFFICES ASSUME TypeInv, UNCHANGED vars PROVE TypeInv'
  OBVIOUS
<1>1. UNCHANGED <<pc, queue, conn, req, resp, geom, cached, buf, state, sent, inbound, answers,
                  pipe, latch, status, flash>>
  BY DEF vars, server, served, lpc, clients, device
<1>2. TypeOK'
  BY <1>1 DEF TypeInv, TypeOK
<1>3. CourseOK'
  BY <1>1 DEF TypeInv, CourseOK
<1> QED BY <1>2, <1>3 DEF TypeInv

LEMMA TypeStep == TypeInv /\ [Next]_vars => TypeInv'
<1>1. TypeInv /\ Serve => TypeInv'
  BY AcceptType, OpeningType, HandleType, DispatchType, ReadType, WriteType, StatusType DEF Serve
<1>2. TypeInv /\ (\E c \in Clients : Connect(c) \/ Close(c) \/ \E r \in Requests : SendRequest(c, r))
        => TypeInv'
  BY ConnectType, CloseType, SendRequestType
<1> QED BY <1>1, <1>2, TypeUnchanged DEF Next

LEMMA TypeAlways == Spec => []TypeInv
BY TypeInit, TypeStep, PTL DEF Spec

(* The variables have their types: what the server puts into requests,     *)
(* answers and blocks stays of its kind, whatever it finds in the pipe,    *)
(* because each bulk read has an answer there to take.                     *)
THEOREM TypesKept == Spec => []TypeOK
<1>1. TypeInv => TypeOK
  BY DEF TypeInv
<1> QED BY <1>1, TypeAlways, PTL

-----------------------------------------------------------------------------
(* The pipe and the answers, for clients that are careful. *)

LEMMA SameClients ==
  ASSUME UNCHANGED <<state, sent, inbound, answers>>
  PROVE  \A c : (Waits(c)' <=> Waits(c)) /\ (Gone(c)' <=> Gone(c))
BY DEF Waits, Gone, Satisfied

LEMMA NoGeometryCare ==
  ASSUME TypeInv, CareInv, pc \in Opening, NoGeometry
  PROVE  CareInv'
<1>1. /\ pc' = "frame" /\ ~geom' /\ UNCHANGED <<state, sent, inbound, answers>>
  BY DEF NoGeometry, lpc, clients, TypeInv, CourseOK
<1>2. TurnOK'
  BY <1>1, SameClients DEF CareInv, TurnOK, Working
<1>3. OpeningOK' /\ FrameOK' /\ CommandOK' /\ WriteAnswerHonest' /\ ReadAnswerHonest'
  BY <1>1 DEF OpeningOK, FrameOK, CommandOK, WriteAnswerHonest, ReadAnswerHonest
<1> QED BY <1>2, <1>3 DEF CareInv

LEMMA FailedCare ==
  ASSUME TypeInv, CareInv, pc \in Working, Failed
  PROVE  CareInv'
<1>1. /\ pc' = "answer" /\ resp' = "failed" /\ UNCHANGED <<conn, state, sent, inbound, answers>>
  BY DEF Failed, clients
<1>2. TurnOK'
  BY <1>1, SameClients DEF CareInv, TurnOK
<1>3. OpeningOK' /\ FrameOK' /\ CommandOK' /\ WriteAnswerHonest' /\ ReadAnswerHonest'
  BY <1>1 DEF OpeningOK, FrameOK, CommandOK, WriteAnswerHonest, ReadAnswerHonest
<1> QED BY <1>2, <1>3 DEF CareInv

(* Nothing is in progress between connections. *)
LEMMA AcceptingCare ==
  ASSUME TurnOK', pc' \in {"accept", "reset"}, pc' = "reset" => ~geom'
  PROVE  CareInv'
BY DEF CareInv, OpeningOK, FrameOK, CommandOK, WriteAnswerHonest, ReadAnswerHonest

LEMMA AcceptCare == CareInv /\ Accept => CareInv'
<1> SUFFICES ASSUME CareInv, Accept PROVE CareInv'
  OBVIOUS
<1>1. pc' = "reset" /\ ~geom' /\ UNCHANGED <<state, sent, inbound, answers>>
  BY DEF Accept, clients
<1>2. TurnOK'
  BY <1>1, SameClients DEF CareInv, TurnOK, Working
<1> QED BY <1>1, <1>2, AcceptingCare

LEMMA OpeningCare ==
  TypeInv /\ CareInv /\ (DeviceReset \/ Ask \/ VersionIn \/ ConfigIn) => CareInv'
<1>1. ASSUME TypeInv, CareInv, DeviceReset PROVE CareInv'
  <2>1. pc \in Opening /\ ~geom
    BY <1>1 DEF DeviceReset, Opening, TypeInv, CourseOK
  <2>2. CASE /\ pc' = "version" /\ pipe' = << >>
             /\ UNCHANGED <<queue, served, lpc, clients, latch, status, flash>>
    <3>1. ~geom' /\ UNCHANGED <<state, sent, inbound, answers>>
      BY <2>1, <2>2 DEF lpc, clients
    <3>2. TurnOK'
      BY <1>1, <2>2, <3>1, SameClients DEF CareInv, TurnOK, Working
    <3>3. OpeningOK' /\ FrameOK' /\ CommandOK' /\ WriteAnswerHonest' /\ ReadAnswerHonest'
      BY <2>2, <3>1 DEF OpeningOK, FrameOK, CommandOK, WriteAnswerHonest, ReadAnswerHonest
    <3> QED BY <3>2, <3>3 DEF CareInv
  <2> QED BY <1>1, <2>1, <2>2, NoGeometryCare DEF DeviceReset
<1>2. ASSUME TypeInv, CareInv, Ask PROVE CareInv'
  <2>1. pc \in Opening /\ ~geom /\ pipe = << >>
    BY <1>2 DEF Ask, Opening, TypeInv, CourseOK, CareInv, OpeningOK
  <2>2. CASE /\ pc' = IF pc = "version" THEN "version_in" ELSE "init_in"
             /\ Put(Word)
             /\ UNCHANGED <<queue, served, lpc, clients, latch, status, flash>>
    <3>1. ~geom' /\ UNCHANGED <<state, sent, inbound, answers>> /\ pc' \in {"version_in", "init_in"}
      BY <2>1, <2>2 DEF lpc, clients
    <3>2. PICK a \in Messages : a = Word
      BY WordType
    <3>3. pipe' = <<a>>
      BY <1>2, <2>1, <2>2, <3>2, PipePut DEF TypeInv
    <3>4. TurnOK'
      BY <1>2, <3>1, SameClients DEF CareInv, TurnOK, Working
    <3>5. OpeningOK'
      BY <3>1, <3>3 DEF OpeningOK
    <3>6. FrameOK' /\ CommandOK' /\ WriteAnswerHonest' /\ ReadAnswerHonest'
      BY <3>1 DEF FrameOK, CommandOK, WriteAnswerHonest, ReadAnswerHonest
    <3> QED BY <3>4, <3>5, <3>6 DEF CareInv
  <2> QED BY <1>2, <2>1, <2>2, NoGeometryCare DEF Ask
<1>3. ASSUME TypeInv, CareInv, VersionIn \/ ConfigIn PROVE CareInv'
  <2>1. pc \in {"version_in", "init_in"} /\ pc \in Opening
    BY <1>3 DEF VersionIn, ConfigIn, Opening
  <2>2. PICK a \in Messages : pipe = <<a>>
    BY <1>3, <2>1 DEF CareInv, OpeningOK
  <2>3. CASE ReadU32 /\ pc' \in {"frame", "init"} /\ UNCHANGED <<conn, clients>>
    <3>1. pipe' = << >> /\ UNCHANGED <<conn, state, sent, inbound, answers>>
      BY <2>2, <2>3, OneMessage DEF ReadU32, clients
    <3>2. TurnOK'
      BY <1>3, <2>3, <3>1, SameClients DEF CareInv, TurnOK, Working
    <3>3. OpeningOK' /\ FrameOK' /\ CommandOK' /\ WriteAnswerHonest' /\ ReadAnswerHonest'
      BY <2>3, <3>1 DEF OpeningOK, FrameOK, CommandOK, WriteAnswerHonest, ReadAnswerHonest
    <3> QED BY <3>2, <3>3 DEF CareInv
  <2>4. CASE NoGeometry
    BY <1>3, <2>1, <2>4, NoGeometryCare
  <2> QED BY <1>3, <2>3, <2>4 DEF VersionIn, ConfigIn, served
<1> QED BY <1>1, <1>2, <1>3

LEMMA HandleCare ==
  TypeInv /\ CareInv /\ (EndOfStream \/ BadFrame \/ IgnoreFrame) => CareInv'
<1>1. ASSUME TypeInv, CareInv, EndOfStream PROVE CareInv'
  <2>1. pc' = "accept" /\ UNCHANGED <<state, sent, inbound, answers>>
    BY <1>1 DEF EndOfStream, EndConnection
  <2>2. TurnOK'
    BY <1>1, <2>1, SameClients DEF CareInv, TurnOK, Working
  <2> QED BY <2>1, <2>2, AcceptingCare
<1>2. ASSUME TypeInv, CareInv, BadFrame PROVE CareInv'
  <2>1. /\ pc' = "accept" /\ UNCHANGED <<state, sent, answers>>
        /\ inbound'[conn] = << >> /\ \A c \in Clients : c # conn => inbound'[c] = inbound[c]
    BY <1>2, TakeFrameType DEF BadFrame, EndConnection, CareInv
  <2>2. TurnOK'
    BY <1>2, <2>1 DEF CareInv, TurnOK, Waits, Working
  <2> QED BY <2>1, <2>2, AcceptingCare
<1>3. ASSUME TypeInv, CareInv, IgnoreFrame PROVE CareInv'
  <2>1. /\ pc = "frame" /\ inbound[conn] # << >> /\ Waits(conn) /\ conn \in Clients
        /\ inbound'[conn] = << >> /\ \A c \in Clients : c # conn => inbound'[c] = inbound[c]
        /\ UNCHANGED <<pc, conn, geom, state, sent, answers, pipe>>
    BY <1>3, TakeFrameType DEF IgnoreFrame, CareInv, server, served, lpc, device
  <2>2. geom => pipe = << >>
    BY <1>3, <2>1 DEF CareInv, FrameOK, Gone
  <2>3. TurnOK'
    BY <1>3, <2>1 DEF CareInv, TurnOK, Waits, Working
  <2>4. OpeningOK' /\ FrameOK' /\ CommandOK' /\ WriteAnswerHonest' /\ ReadAnswerHonest'
    BY <2>1, <2>2 DEF OpeningOK, FrameOK, CommandOK, WriteAnswerHonest, ReadAnswerHonest
  <2> QED BY <2>3, <2>4 DEF CareInv
<1> QED BY <1>1, <1>2, <1>3

(* A command begins with the pipe empty: a client whose request failed     *)
(* has sent no other.                                                      *)
LEMMA DispatchCare == TypeInv /\ CareInv /\ Dispatch => CareInv'
<1> SUFFICES ASSUME TypeInv, CareInv, Dispatch PROVE CareInv'
  OBVIOUS
<1>1. /\ pc = "frame" /\ inbound[conn] # << >> /\ Waits(conn) /\ conn \in Clients
      /\ inbound'[conn] = << >> /\ \A c \in Clients : c # conn => inbound'[c] = inbound[c]
      /\ UNCHANGED <<conn, geom, state, sent, answers, pipe>>
  BY TakeFrameType DEF Dispatch, CareInv, lpc, device
<1>2. \/ pc' = "answer" /\ (resp' = "failed" \/ req'.cmd \in {"config", "other"})
      \/ pc' \in {"read", "write"}
  BY DEF Dispatch
<1>3. geom => pipe = << >>
  BY <1>1 DEF CareInv, FrameOK, Gone
<1>4. TurnOK'
  BY <1>1 DEF CareInv, TurnOK, Waits
<1>5. OpeningOK' /\ FrameOK'
  BY <1>1, <1>2, <1>3 DEF OpeningOK, FrameOK
<1>6. CommandOK' /\ WriteAnswerHonest' /\ ReadAnswerHonest'
  BY <1>1, <1>2, <1>3 DEF CommandOK, WriteAnswerHonest, ReadAnswerHonest
<1> QED BY <1>4, <1>5, <1>6 DEF CareInv

LEMMA StillWorking ==
  ASSUME CareInv, pc \in Working, UNCHANGED <<conn, state, sent, inbound, answers>>
  PROVE  TurnOK'
BY SameClients DEF CareInv, TurnOK

LEMMA ReadCare == TypeInv /\ CareInv /\ (DataRead \/ BlockIn) => CareInv'
<1>1. ASSUME TypeInv, CareInv, DataRead PROVE CareInv'
  <2>1. pc = "read" /\ pc \in Working /\ (geom => pipe = << >>)
    BY <1>1 DEF DataRead, Working, CareInv, CommandOK
  <2>2. CASE /\ pc' = "read_in" /\ DeviceRead(req.lba)
             /\ UNCHANGED <<queue, served, lpc, clients, latch>>
    <3>1. UNCHANGED <<conn, req, geom, state, sent, inbound, answers>>
      BY <2>2 DEF served, lpc, clients
    <3>2. PICK w \in DataWord, ok \in BOOLEAN :
            /\ ok => req.lba \in Addr /\ w = flash[req.lba]
            /\ Put([kind |-> "block", value |-> w])
            /\ status' = IF ok THEN "ok" ELSE "error"
            /\ flash' = flash
      BY <2>2 DEF DeviceRead
    <3>3. [kind |-> "block", value |-> w] \in Messages
      BY DEF Messages
    <3>4. geom => pipe' = <<[kind |-> "block", value |-> w]>>
      BY <1>1, <2>1, <3>2, <3>3, PipePut DEF TypeInv
    <3>5. TurnOK'
      BY <1>1, <2>1, <3>1, StillWorking
    <3>6. CommandOK'
      BY <2>2, <3>1, <3>2, <3>4 DEF CommandOK
    <3>7. OpeningOK' /\ FrameOK' /\ WriteAnswerHonest' /\ ReadAnswerHonest'
      BY <2>2 DEF OpeningOK, FrameOK, WriteAnswerHonest, ReadAnswerHonest
    <3> QED BY <3>5, <3>6, <3>7 DEF CareInv
  <2> QED BY <1>1, <2>1, <2>2, FailedCare DEF DataRead
<1>2. ASSUME TypeInv, CareInv, BlockIn PROVE CareInv'
  <2>1. pc = "read_in" /\ pc \in Working /\ req.cmd = "read"
    BY <1>2 DEF BlockIn, Working, TypeInv, CourseOK
  <2>2. CASE /\ pipe' = Tail(pipe) /\ pc' = "status"
             /\ buf' = IF Head(pipe).kind = "block" THEN Head(pipe).value ELSE None
             /\ UNCHANGED <<queue, served, geom, cached, clients, latch, status, flash>>
    <3>1. UNCHANGED <<conn, req, geom, state, sent, inbound, answers, status, flash>>
      BY <2>2 DEF served, clients
    <3>2. ASSUME geom PROVE pipe' = << >> /\ Done'
      <4>1. PICK w \in DataWord : /\ pipe = <<[kind |-> "block", value |-> w]>>
                                  /\ status = "ok" => req.lba \in Addr /\ w = flash[req.lba]
        BY <1>2, <2>1, <3>2 DEF CareInv, CommandOK
      <4>2. Head(pipe) = [kind |-> "block", value |-> w] /\ Tail(pipe) = << >>
        BY <4>1, OneMessage
      <4>3. buf' = w
        BY <2>2, <4>2
      <4> QED BY <2>1, <2>2, <3>1, <4>1, <4>2, <4>3 DEF Done
    <3>3. TurnOK'
      BY <1>2, <2>1, <3>1, StillWorking
    <3>4. CommandOK'
      BY <2>2, <3>1, <3>2 DEF CommandOK
    <3>5. OpeningOK' /\ FrameOK' /\ WriteAnswerHonest' /\ ReadAnswerHonest'
      BY <2>2 DEF OpeningOK, FrameOK, WriteAnswerHonest, ReadAnswerHonest
    <3> QED BY <3>3, <3>4, <3>5 DEF CareInv
  <2> QED BY <1>2, <2>1, <2>2, FailedCare DEF BlockIn
<1> QED BY <1>1, <1>2

LEMMA WriteCare == TypeInv /\ CareInv /\ (DataWrite \/ WriteOut \/ DataExec) => CareInv'
<1>1. ASSUME TypeInv, CareInv, DataWrite PROVE CareInv'
  <2>1. pc = "write" /\ pc \in Working /\ (geom => pipe = << >>)
    BY <1>1 DEF DataWrite, Working, CareInv, CommandOK
  <2>2. CASE /\ pc' = "write_out"
             /\ latch' = [lba |-> req.lba, data |-> req.data, whole |-> TRUE]
             /\ UNCHANGED <<queue, served, lpc, clients, pipe, status, flash>>
    <3>1. UNCHANGED <<conn, req, geom, state, sent, inbound, answers, pipe>>
      BY <2>2 DEF served, lpc, clients
    <3>2. latch'.lba = req'.lba /\ latch'.data = req'.data
      BY <2>2, <3>1
    <3>3. TurnOK'
      BY <1>1, <2>1, <3>1, StillWorking
    <3>4. OpeningOK' /\ FrameOK' /\ CommandOK' /\ WriteAnswerHonest' /\ ReadAnswerHonest'
      BY <2>1, <2>2, <3>1, <3>2
         DEF OpeningOK, FrameOK, CommandOK, WriteAnswerHonest, ReadAnswerHonest
    <3> QED BY <3>3, <3>4 DEF CareInv
  <2> QED BY <1>1, <2>1, <2>2, FailedCare DEF DataWrite
<1>2. ASSUME TypeInv, CareInv, WriteOut \/ DataExec PROVE CareInv'
  <2>1. /\ pc \in {"write_out", "exec"} /\ pc \in Working /\ req.cmd = "write" /\ geom
        /\ pipe = << >> /\ latch.lba = req.lba /\ latch.data = req.data
    BY <1>2 DEF WriteOut, DataExec, Working, TypeInv, CourseOK, CareInv, CommandOK
  <2>2. CASE /\ WriteBulk \/ latch' = latch
             /\ \/ pc' = "exec"
                \/ pc' = "status" /\ DeviceProgram(latch')
             /\ UNCHANGED <<queue, served, lpc, clients, pipe>>
    <3>1. UNCHANGED <<conn, req, geom, state, sent, inbound, answers, pipe>>
      BY <2>2 DEF served, lpc, clients
    <3>2. latch'.lba = req.lba /\ latch'.data = req.data
      BY <1>2, <2>1, <2>2, CutType DEF WriteBulk
    <3>3. pc' = "status" => Done'
      <4>1. flash \in [Addr -> DataWord]
        BY <1>2 DEF TypeInv, TypeOK
      <4>2. DeviceProgram(latch') /\ status' = "ok" /\ latch'.whole =>
              req.lba \in Addr /\ flash'[req.lba] = req.data
        BY <3>2, <4>1 DEF DeviceProgram
      <4> QED BY <2>1, <2>2, <3>1, <4>2 DEF Done
    <3>4. TurnOK'
      BY <1>2, <2>1, <3>1, StillWorking
    <3>5. CommandOK'
      BY <2>1, <2>2, <3>1, <3>2, <3>3 DEF CommandOK
    <3>6. OpeningOK' /\ FrameOK' /\ WriteAnswerHonest' /\ ReadAnswerHonest'
      BY <2>2 DEF OpeningOK, FrameOK, WriteAnswerHonest, ReadAnswerHonest
    <3> QED BY <3>4, <3>5, <3>6 DEF CareInv
  <2>3. CASE Failed
    BY <1>2, <2>1, <2>3, FailedCare
  <2> QED BY <1>2, <2>2, <2>3 DEF WriteOut, DataExec, DeviceTakes
<1> QED BY <1>1, <1>2

LEMMA StatusCare == TypeInv /\ CareInv /\ (DataStatus \/ StatusIn) => CareInv'
<1>1. ASSUME TypeInv, CareInv, DataStatus PROVE CareInv'
  <2>1. pc = "status" /\ pc \in Working /\ status \in {"ok", "error"}
        /\ (geom => pipe = << >> /\ Done)
    BY <1>1 DEF DataStatus, Working, TypeInv, TypeOK, CareInv, CommandOK
  <2>2. CASE /\ pc' = "status_in" /\ Put([kind |-> "word", value |-> status])
             /\ UNCHANGED <<queue, served, lpc, clients, latch, status, flash>>
    <3>1. UNCHANGED <<conn, req, geom, buf, state, sent, inbound, answers, latch, status, flash>>
      BY <2>2 DEF served, lpc, clients
    <3>2. [kind |-> "word", value |-> status] \in Messages
      BY <2>1 DEF Messages
    <3>3. geom => pipe' = <<[kind |-> "word", value |-> status]>>
      BY <1>1, <2>1, <2>2, <3>2, PipePut DEF TypeInv
    <3>4. geom => Done'
      BY <2>1, <3>1 DEF Done
    <3>5. TurnOK'
      BY <1>1, <2>1, <3>1, StillWorking
    <3>6. CommandOK'
      BY <2>2, <3>1, <3>3, <3>4 DEF CommandOK
    <3>7. OpeningOK' /\ FrameOK' /\ WriteAnswerHonest' /\ ReadAnswerHonest'
      BY <2>2 DEF OpeningOK, FrameOK, WriteAnswerHonest, ReadAnswerHonest
    <3> QED BY <3>5, <3>6, <3>7 DEF CareInv
  <2> QED BY <1>1, <2>1, <2>2, FailedCare DEF DataStatus
<1>2. ASSUME TypeInv, CareInv, StatusIn PROVE CareInv'
  <2>1. /\ pc = "status_in" /\ pc \in Working /\ status \in {"ok", "error"}
        /\ req.cmd = "read" \/ (req.cmd = "write" /\ geom)
    BY <1>2 DEF StatusIn, Working, TypeInv, TypeOK, CourseOK
  <2>2. CASE /\ ReadU32
             /\ resp' = Outcome(Head(pipe).value) /\ pc' = "answer"
             /\ UNCHANGED <<queue, conn, req, lpc, clients, latch, status, flash>>
    <3>1. /\ UNCHANGED <<conn, req, geom, buf, state, sent, inbound, answers, latch, status, flash>>
          /\ pipe' = Tail(pipe)
      BY <2>2 DEF ReadU32, lpc, clients
    <3>2. ASSUME ~geom PROVE resp' = "failed" /\ req.cmd = "read"
      BY <2>1, <2>2, <3>2 DEF Outcome
    <3>3. ASSUME geom PROVE /\ pipe' = << >> /\ resp' = Outcome(status) /\ Done
      <4>1. pipe = <<[kind |-> "word", value |-> status]>> /\ Done
        BY <1>2, <2>1, <3>3 DEF CareInv, CommandOK
      <4>2. Head(pipe) = [kind |-> "word", value |-> status] /\ Tail(pipe) = << >>
        BY <4>1, OneMessage
      <4> QED BY <2>2, <3>1, <4>1, <4>2
    <3>4. TurnOK'
      BY <1>2, <2>1, <3>1, StillWorking
    <3>5. WriteAnswerHonest' /\ ReadAnswerHonest'
      <4>1. CASE ~geom
        BY <3>1, <3>2, <4>1 DEF WriteAnswerHonest, ReadAnswerHonest
      <4>2. CASE geom /\ resp' # "failed"
        <5>1. status = "ok"
          BY <2>1, <3>3, <4>2 DEF Outcome
        <5>2. /\ req.cmd = "read" => req.lba \in Addr /\ buf = flash[req.lba] /\ resp' = buf
              /\ req.cmd = "write" /\ latch.whole => req.lba \in Addr /\ flash[req.lba] = req.data
          BY <3>3, <4>2, <5>1 DEF Done, Outcome
        <5> QED BY <3>1, <5>2 DEF WriteAnswerHonest, ReadAnswerHonest
      <4>3. CASE resp' = "failed"
        BY <4>3 DEF WriteAnswerHonest, ReadAnswerHonest
      <4> QED BY <4>1, <4>2, <4>3
    <3>6. OpeningOK' /\ FrameOK' /\ CommandOK'
      BY <2>2, <3>1, <3>3 DEF OpeningOK, FrameOK, CommandOK
    <3> QED BY <3>4, <3>5, <3>6 DEF CareInv
  <2> QED BY <1>2, <2>1, <2>2, FailedCare DEF StatusIn
<1> QED BY <1>1, <1>2

(* A client that has been told of a failure is not satisfied any more. *)
LEMMA AnswerCare == TypeInv /\ CareInv /\ Answer => CareInv'
<1> SUFFICES ASSUME TypeInv, CareInv, Answer PROVE CareInv'
  OBVIOUS
<1>1. /\ pc = "answer" /\ pc \in Working /\ conn \in Clients
      /\ inbound[conn] = << >> /\ sent \in [Clients -> 0..MaxRequests]
      /\ answers \in [Clients -> Seq(DataWord \cup {"ok", "failed"})]
      /\ resp \in DataWord \cup {"ok", "failed"}
  BY DEF Answer, Working, TypeInv, TypeOK, CourseOK, CareInv, TurnOK
<1>2. CASE /\ pc' = "frame"
           /\ answers' = IF state[conn] = "open" THEN [answers EXCEPT ![conn] = Append(@, resp)]
                         ELSE answers
           /\ UNCHANGED <<queue, served, lpc, state, sent, inbound, device>>
  <2>1. UNCHANGED <<conn, geom, state, sent, inbound, pipe>>
    BY <1>2 DEF served, lpc, device
  <2>2. \A c \in Clients : c # conn => answers'[c] = answers[c]
    BY <1>1, <1>2
  <2>3. TurnOK'
    BY <1>1, <1>2, <2>1, <2>2 DEF CareInv, TurnOK, Waits, Working
  <2>4. ASSUME resp = "failed" PROVE Gone(conn)'
    <3>1. CASE state[conn] # "open"
      BY <1>1, <2>1, <3>1 DEF Gone
    <3>2. CASE state[conn] = "open"
      <4>1. answers'[conn] = Append(answers[conn], "failed")
        BY <1>1, <1>2, <2>4, <3>2
      <4>2. /\ Len(answers[conn]) \in Nat /\ Len(answers'[conn]) = Len(answers[conn]) + 1
            /\ answers'[conn][Len(answers[conn]) + 1] = "failed"
        BY <1>1, <2>4, <4>1, AppendProperties
      <4>3. ~Satisfied(conn)'
        <5>1. SUFFICES ASSUME Len(answers'[conn]) = sent'[conn]
                       PROVE  \E i \in 1..sent'[conn] : answers'[conn][i] = "failed"
          BY <2>1 DEF Satisfied
        <5> QED BY <4>2, <5>1
      <4> QED BY <1>1, <2>1, <4>3 DEF Gone
    <3> QED BY <3>1, <3>2
  <2>5. FrameOK'
    <3>1. geom /\ resp # "failed" => pipe = << >>
      BY <1>1 DEF CareInv, FrameOK
    <3> QED BY <1>2, <2>1, <2>4, <3>1 DEF FrameOK
  <2>6. OpeningOK' /\ CommandOK' /\ WriteAnswerHonest' /\ ReadAnswerHonest'
    BY <1>2 DEF OpeningOK, CommandOK, WriteAnswerHonest, ReadAnswerHonest
  <2> QED BY <2>3, <2>5, <2>6 DEF CareInv
<1>3. CASE EndConnection /\ UNCHANGED <<req, inbound>>
  <2>1. pc' = "accept" /\ UNCHANGED <<state, sent, inbound, answers>>
    BY <1>3 DEF EndConnection
  <2>2. TurnOK'
    BY <2>1, SameClients DEF CareInv, TurnOK, Working
  <2> QED BY <2>1, <2>2, AcceptingCare
<1> QED BY <1>2, <1>3 DEF Answer

(* What the clients do meanwhile. *)
LEMMA SameServer ==
  ASSUME CareInv, UNCHANGED <<server, device>>
  PROVE  OpeningOK' /\ CommandOK' /\ WriteAnswerHonest' /\ ReadAnswerHonest'
<1>1. UNCHANGED <<pc, conn, req, resp, geom, buf, pipe, latch, status, flash>>
  BY DEF server, served, lpc, device
<1> QED BY <1>1 DEF CareInv, OpeningOK, CommandOK, Done, WriteAnswerHonest, ReadAnswerHonest

LEMMA ClientCare ==
  ASSUME Careful, TypeInv, CareInv, NEW c \in Clients,
         Connect(c) \/ Close(c) \/ \E r \in Requests : SendRequest(c, r)
  PROVE  CareInv'
<1>1. pc = "frame" => conn \in Clients /\ state[conn] # "new"
  BY ServerAssumption DEF TypeInv, CourseOK
<1>2. state \in [Clients -> {"new", "open", "closed"}]
  BY DEF TypeInv, TypeOK
<1>3. CASE Connect(c)
  <2>1. /\ UNCHANGED <<pc, conn, req, resp, geom, buf, sent, inbound, answers, pipe, latch, status, flash>>
        /\ state[c] = "new" /\ \A b \in Clients : b # c => state'[b] = state[b]
    BY <1>2, <1>3 DEF Connect, served, lpc, device
  <2>2. TurnOK'
    BY <2>1 DEF CareInv, TurnOK, Waits
  <2>3. FrameOK'
    <3>1. pc = "frame" /\ Gone(conn) => Gone(conn)'
      BY <1>1, <2>1 DEF Gone, Satisfied
    <3> QED BY <2>1, <3>1 DEF CareInv, FrameOK
  <2>4. OpeningOK' /\ CommandOK' /\ WriteAnswerHonest' /\ ReadAnswerHonest'
    BY <2>1 DEF CareInv, OpeningOK, CommandOK, Done, WriteAnswerHonest, ReadAnswerHonest
  <2> QED BY <2>2, <2>3, <2>4 DEF CareInv
<1>4. CASE Close(c)
  <2>1. /\ UNCHANGED <<server, device>> /\ UNCHANGED <<pc, conn, geom, resp, pipe>>
        /\ UNCHANGED <<sent, inbound, answers>>
        /\ state'[c] = "closed" /\ \A b \in Clients : b # c => state'[b] = state[b]
    BY <1>2, <1>4 DEF Close, server, served, lpc, device
  <2>2. TurnOK'
    BY <2>1 DEF CareInv, TurnOK, Waits
  <2>3. FrameOK'
    <3>1. pc = "frame" /\ Gone(conn) => Gone(conn)'
      BY <1>1, <2>1 DEF Gone, Satisfied
    <3> QED BY <2>1, <3>1 DEF CareInv, FrameOK
  <2> QED BY <2>1, <2>2, <2>3, SameServer DEF CareInv
<1>5. CASE \E r \in Requests : SendRequest(c, r)
  <2>1. PICK r \in Requests : SendRequest(c, r)
    BY <1>5
  <2>2. /\ UNCHANGED <<server, device>> /\ UNCHANGED <<pc, conn, geom, resp, pipe>>
        /\ UNCHANGED <<state, answers>> /\ state[c] = "open" /\ Satisfied(c)
        /\ sent' = [sent EXCEPT ![c] = sent[c] + 1]
        /\ inbound' = [inbound EXCEPT ![c] = Append(inbound[c], r)]
    BY <2>1 DEF SendRequest, server, served, lpc, device
  <2>3. /\ sent[c] \in Nat /\ sent'[c] = sent[c] + 1 /\ inbound'[c] = Append(inbound[c], r)
        /\ \A b \in Clients : b # c => sent'[b] = sent[b] /\ inbound'[b] = inbound[b]
    BY <2>2 DEF TypeInv, TypeOK
  (* All that the client sent before has been answered. *)
  <2>4. ~Waits(c) /\ inbound[c] = << >> /\ Len(answers[c]) = sent[c]
    BY <2>2, <2>3 DEF Satisfied, Waits, CareInv, TurnOK
  <2>5. Waits(c)' /\ Len(inbound'[c]) = 1
    BY <2>2, <2>3, <2>4 DEF Waits
  <2>6. pc \in Working => conn # c /\ conn \in Clients
    BY <2>4 DEF CareInv, TurnOK, TypeInv, CourseOK, Working
  <2>7. TurnOK'
    BY <2>2, <2>3, <2>5, <2>6 DEF CareInv, TurnOK, Waits
  <2>8. FrameOK'
    <3>1. pc = "frame" /\ Gone(conn) => Gone(conn)'
      BY <1>1, <2>2, <2>3 DEF Gone, Satisfied
    <3> QED BY <2>2, <3>1 DEF CareInv, FrameOK
  <2> QED BY <2>2, <2>7, <2>8, SameServer DEF CareInv
<1> QED BY <1>3, <1>4, <1>5

LEMMA CareInit == Init => CareInv
<1> SUFFICES ASSUME Init PROVE CareInv
  OBVIOUS
<1>1. TurnOK
  BY DEF Init, TurnOK, Working
<1>2. OpeningOK /\ FrameOK /\ CommandOK /\ WriteAnswerHonest /\ ReadAnswerHonest
  BY DEF Init, OpeningOK, FrameOK, CommandOK, WriteAnswerHonest, ReadAnswerHonest
<1> QED BY <1>1, <1>2 DEF CareInv

LEMMA CareUnchanged == CareInv /\ UNCHANGED vars => CareInv'
<1> SUFFICES ASSUME CareInv, UNCHANGED vars PROVE CareInv'
  OBVIOUS
<1>1. UNCHANGED <<server, device>> /\ UNCHANGED <<pc, conn, geom, resp, pipe>>
      /\ UNCHANGED <<state, sent, inbound, answers>>
  BY DEF vars, server, served, lpc, clients, device
<1>2. TurnOK' /\ FrameOK'
  BY <1>1, SameClients DEF CareInv, TurnOK, FrameOK
<1> QED BY <1>1, <1>2, SameServer DEF CareInv

LEMMA CareStep ==
  ASSUME Careful
  PROVE  TypeInv /\ CareInv /\ [Next]_vars => CareInv'
<1>1. TypeInv /\ CareInv /\ Serve => CareInv'
  BY AcceptCare, OpeningCare, HandleCare, DispatchCare, ReadCare, WriteCare, StatusCare, AnswerCare
     DEF Serve
<1>2. TypeInv /\ CareInv
      /\ (\E c \in Clients : Connect(c) \/ Close(c) \/ \E r \in Requests : SendRequest(c, r))
        => CareInv'
  BY ClientCare
<1> QED BY <1>1, <1>2, CareUnchanged DEF Next

LEMMA CareAlways == ASSUME Careful PROVE Spec => []CareInv
<1>1. TypeInv /\ CareInv /\ [Next]_vars => CareInv'
  BY CareStep
<1> QED BY <1>1, CareInit, TypeAlways, PTL DEF Spec

(* A client that waits for each answer, and leaves after a failure, is     *)
(* never told that a block was written when it was not, whatever a client  *)
(* before it left in the programmer's endpoint, unless this very block was *)
(* cut short by its time limit, which flash_write does not notice:         *)
(* device_reset empties the endpoint for each connection, and a client     *)
(* served without the reset is refused.                                    *)
THEOREM WriteAnswersHonest == ASSUME Careful PROVE Spec => []WriteAnswerHonest
<1>1. CareInv => WriteAnswerHonest
  BY DEF CareInv
<1> QED BY <1>1, CareAlways, PTL

(* Such a client is never given another block than the one it asked for:   *)
(* without the reset there is no geometry, and no READ gets through.       *)
THEOREM ReadAnswersHonest == ASSUME Careful PROVE Spec => []ReadAnswerHonest
<1>1. CareInv => ReadAnswerHonest
  BY DEF CareInv
<1> QED BY <1>1, CareAlways, PTL
=============================================================================
