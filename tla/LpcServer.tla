------------------------------ MODULE LpcServer ------------------------------
(***************************************************************************)
(* serve-tcp over an LPC/XFlash programmer: TcpServer::run and             *)
(* handle_client (tcp/server.rs), Frame::read_from and write_to            *)
(* (tcp/protocol.rs), and under them the LpcClient (lpc/lpc.rs) call by    *)
(* call over USB (lpc/usb.rs).                                             *)
(*                                                                         *)
(* The server serves one client at a time to its end.  What the programmer *)
(* answers waits in pipe, its bulk IN endpoint, until the host reads it,   *)
(* whatever command it then takes it for: a read that gives up leaves the  *)
(* answer there.  An answer is a block of 0x4200 bytes or a u32.           *)
(***************************************************************************)
EXTENDS Naturals, Sequences

CONSTANTS
  NumClients,    \* bound on the number of clients
  DeviceBlocks,  \* size of the flash
  DataWord,      \* the contents a block may have
  None,
  MaxRequests,   \* bound on the frames a client sends
  Requests,      \* the frames clients send
  Careful,       \* whether clients wait for answers, and leave after a failure
  Execs,         \* whether the firmware is version 3 or later, which needs DataExec
  Faults         \* which faults happen, of FaultKinds

(* A USB transfer fails; an answer is late; the time limit lets a part of  *)
(* a block out; the programmer reports an error.                           *)
FaultKinds == {"usb", "late", "cut", "status"}

Addr == 0..(DeviceBlocks - 1)

(* Clients are numbered in the order in which they connect. *)
Clients == 1..NumClients

(* A frame that ends the connection, one that is ignored, or a command.    *)
(* whole tells that a WRITE carries a whole block.                         *)
Request == [cmd : {"bad", "ignored", "config", "other", "read", "write"},
            lba : Nat, data : DataWord, whole : BOOLEAN]

ASSUME ServerAssumption ==
  /\ NumClients \in Nat /\ DeviceBlocks \in Nat /\ MaxRequests \in Nat /\ Requests \subseteq Request
  /\ {Careful, Execs} \subseteq BOOLEAN /\ Faults \subseteq FaultKinds
  /\ None \notin DataWord \cup Clients \cup Request

VARIABLES
  pc,       \* where the server's thread is
  queue,    \* the listener's backlog
  conn,     \* the client being served, or served last
  req,      \* the request being worked on
  resp,     \* the answer to it, "failed" for an empty READ answer or a status 1
  geom,     \* whether this connection has the flash geometry
  cached,   \* whether LpcClient has a flash_config
  buf,      \* the block flash_read got, None if it was short
  state,    \* what each client has done with its connection
  sent,     \* number of frames each client has sent
  inbound,  \* per client, the frames the server has not read
  answers,  \* per client, the answers it got
  pipe,     \* answers of the programmer that the host has not read
  latch,    \* the block sent last, and whether the whole of it was sent
  status,   \* the programmer's status register
  flash     \* content of the flash

served  == <<conn, req, resp>>
lpc     == <<geom, cached, buf>>
server  == <<pc, queue, served, lpc>>
clients == <<state, sent, inbound, answers>>
device  == <<pipe, latch, status, flash>>
vars    == <<server, clients, device>>

Init ==
  /\ pc = "accept" /\ queue = << >> /\ conn = None /\ req = None /\ resp = None
  /\ geom = FALSE /\ cached = FALSE /\ buf = None
  /\ state = [c \in Clients |-> "new"] /\ sent = [c \in Clients |-> 0]
  /\ inbound = [c \in Clients |-> << >>] /\ answers = [c \in Clients |-> << >>]
  /\ pipe = << >> /\ latch = None /\ status = "ok" /\ flash \in [Addr -> DataWord]

-----------------------------------------------------------------------------
(* Clients. *)

Connect(c) ==
  /\ state[c] = "new" /\ \A b \in 1..(c - 1) : state[b] # "new"
  /\ state' = [state EXCEPT ![c] = "open"]
  /\ queue' = Append(queue, c)
  /\ UNCHANGED <<pc, served, lpc, sent, inbound, answers, device>>

Satisfied(c) == Len(answers[c]) = sent[c] /\ \A i \in 1..sent[c] : answers[c][i] # "failed"

SendRequest(c, r) ==
  /\ state[c] = "open" /\ sent[c] < MaxRequests
  /\ Careful => Satisfied(c)
  /\ sent' = [sent EXCEPT ![c] = @ + 1]
  /\ inbound' = [inbound EXCEPT ![c] = Append(@, r)]
  /\ UNCHANGED <<server, state, answers, device>>

(* What was sent before is still read by the server. *)
Close(c) ==
  /\ state[c] = "open" /\ state' = [state EXCEPT ![c] = "closed"]
  /\ UNCHANGED <<server, sent, inbound, answers, device>>

-----------------------------------------------------------------------------
(* The programmer, as the client relies on it. *)

Put(answer) == pipe' = Append(pipe, answer)

(* DataRead answers a block, which is the one asked for if the status is.  *)
DeviceRead(lba) ==
  \E w \in DataWord, ok \in BOOLEAN :
    /\ ok => lba \in Addr /\ w = flash[lba]
    /\ ~ok => lba \notin Addr \/ "status" \in Faults
    /\ Put([kind |-> "block", value |-> w])
    /\ status' = IF ok THEN "ok" ELSE "error"
    /\ UNCHANGED flash

(* Of a block that has not come whole any part may be programmed, none     *)
(* included, and the status may be that of the command before.  The next   *)
(* command, on the control endpoint, ends the wait for the rest.           *)
DeviceProgram(block) ==
  \E w \in DataWord, ok \in BOOLEAN :
    /\ ok /\ block.whole => block.lba \in Addr /\ w = block.data
    /\ ~ok => block.lba \notin Addr \/ ~block.whole \/ "status" \in Faults
    /\ status' = IF ok THEN "ok" ELSE "error"
    /\ flash' = IF block.lba \in Addr THEN [flash EXCEPT ![block.lba] = w] ELSE flash

(* Firmware that needs no DataExec programs what comes. *)
DeviceTakes(block) == IF Execs THEN UNCHANGED <<status, flash>> ELSE DeviceProgram(block)

-----------------------------------------------------------------------------
(* UsbClient.  A transfer that is reported as failed may have reached the  *)
(* programmer.                                                             *)

UsbFails == "usb" \in Faults

Cut(block) == [block EXCEPT !.whole = FALSE]

(* write_bulk: a time limit that expires after a part of the block is not  *)
(* an error but a length, which flash_write does not look at.              *)
WriteBulk == latch' = latch \/ ("cut" \in Faults /\ latch' = Cut(latch))

(* The outcome of a bulk read: a late answer stays in the pipe; one that   *)
(* is longer than asked for is an error and may or may not be discarded.   *)
ReadFails(kind) ==
  \/ "late" \in Faults /\ UNCHANGED pipe
  \/ UsbFails /\ pipe' \in {pipe, Tail(pipe)}
  \/ kind = "word" /\ Head(pipe).kind = "block" /\ pipe' \in {pipe, Tail(pipe)}

(* read_u32 *)
ReadU32 == Head(pipe).kind = "word" /\ pipe' = Tail(pipe)

-----------------------------------------------------------------------------
(* TcpServer::run and the geometry of a new connection. *)

Accept ==
  /\ pc = "accept" /\ queue # << >>
  /\ conn' = Head(queue) /\ queue' = Tail(queue)
  /\ pc' = "reset" /\ geom' = FALSE
  /\ UNCHANGED <<req, resp, cached, buf, clients, device>>

(* geometry() failed: the client is served without it. *)
NoGeometry ==
  /\ pc' = "frame"
  /\ UNCHANGED <<queue, served, lpc, clients, latch, status, flash>>

(* What is asked for before the first frame is answered by a word. *)
Word == [kind |-> "word", value |-> "ok"]

(* Mutant: the programmer is reset until the flash is initialised, and not *)
(* again for each client.                                                  *)
DeviceResetOnce ==
  /\ pc = "reset" /\ pc' = "version"
  /\ pipe' = IF cached THEN pipe ELSE << >>
  /\ UNCHANGED <<queue, served, lpc, clients, latch, status, flash>>

(* device_reset: a failing reset is ignored, a failing set_configuration   *)
(* is not; either clears the endpoints.                                    *)
DeviceReset ==
  /\ pc = "reset"
  /\ \/ /\ pc' = "version" /\ pipe' = << >>
        /\ UNCHANGED <<queue, served, lpc, clients, latch, status, flash>>
     \/ UsbFails /\ pipe' \in {pipe, << >>} /\ NoGeometry

(* device_version, and flash_init unless its config is cached. *)
Ask ==
  /\ pc \in {"version", "init"}
  /\ \/ /\ pc' = IF pc = "version" THEN "version_in" ELSE "init_in"
        /\ Put(Word)
        /\ UNCHANGED <<queue, served, lpc, clients, latch, status, flash>>
     \/ UsbFails /\ (Put(Word) \/ UNCHANGED pipe) /\ NoGeometry

VersionIn ==
  /\ pc = "version_in"
  /\ \/ /\ ReadU32
        /\ IF cached THEN pc' = "frame" /\ geom' = TRUE ELSE pc' = "init" /\ UNCHANGED geom
        /\ UNCHANGED <<queue, served, cached, buf, clients, latch, status, flash>>
     \/ ReadFails("word") /\ NoGeometry

(* A config that FlashConfig::parse refuses is an error too. *)
ConfigIn ==
  /\ pc = "init_in"
  /\ \/ /\ ReadU32
        /\ pc' = "frame" /\ geom' = TRUE /\ cached' = TRUE
        /\ UNCHANGED <<queue, served, buf, clients, latch, status, flash>>
     \/ (ReadU32 \/ ReadFails("word")) /\ NoGeometry

-----------------------------------------------------------------------------
(* handle_client. *)

TakeFrame == inbound' = [inbound EXCEPT ![conn] = Tail(@)]

EndConnection ==
  /\ pc' = "accept"
  /\ UNCHANGED <<queue, conn, resp, lpc, state, sent, answers, device>>

(* Mutant: at the end of the stream the loop goes on to the next frame. *)
EndOfStreamContinues ==
  /\ pc = "frame" /\ inbound[conn] = << >> /\ state[conn] = "closed"
  /\ UNCHANGED vars

EndOfStream ==
  /\ pc = "frame" /\ inbound[conn] = << >> /\ state[conn] = "closed"
  /\ EndConnection /\ UNCHANGED <<req, inbound>>

BadFrame ==
  /\ pc = "frame" /\ inbound[conn] # << >> /\ Head(inbound[conn]).cmd = "bad"
  /\ TakeFrame /\ EndConnection /\ UNCHANGED req

IgnoreFrame ==
  /\ pc = "frame" /\ inbound[conn] # << >> /\ Head(inbound[conn]).cmd = "ignored"
  /\ TakeFrame
  /\ UNCHANGED <<server, state, sent, answers, device>>

(* READ and WRITE go to the backend; a WRITE of less than a block is       *)
(* refused, and so is every WRITE without geometry, whose default block    *)
(* size of 0x210 is too short for flash_write.                             *)
Dispatch ==
  /\ pc = "frame" /\ inbound[conn] # << >>
  /\ LET r == Head(inbound[conn])
     IN  /\ r.cmd \notin {"bad", "ignored"}
         /\ req' = r
         /\ \/ r.cmd \in {"config", "other"} /\ pc' = "answer" /\ resp' = "ok"
            \/ r.cmd = "read" /\ pc' = "read" /\ resp' = None
            \/ r.cmd = "write" /\ r.whole /\ geom /\ pc' = "write" /\ resp' = None
            \/ r.cmd = "write" /\ ~(r.whole /\ geom) /\ pc' = "answer" /\ resp' = "failed"
  /\ TakeFrame
  /\ UNCHANGED <<queue, conn, lpc, state, sent, answers, device>>

(* The backend returned an error. *)
Failed ==
  /\ resp' = "failed" /\ pc' = "answer"
  /\ UNCHANGED <<queue, conn, req, lpc, clients, latch>>

(* flash_read *)
DataRead ==
  /\ pc = "read"
  /\ \/ /\ pc' = "read_in" /\ DeviceRead(req.lba)
        /\ UNCHANGED <<queue, served, lpc, clients, latch>>
     \/ UsbFails /\ Failed /\ (DeviceRead(req.lba) \/ UNCHANGED <<pipe, status, flash>>)

(* The bytes of a short answer are not a block. *)
BlockIn ==
  /\ pc = "read_in"
  /\ \/ /\ pipe' = Tail(pipe) /\ pc' = "status"
        /\ buf' = IF Head(pipe).kind = "block" THEN Head(pipe).value ELSE None
        /\ UNCHANGED <<queue, served, geom, cached, clients, latch, status, flash>>
     \/ ReadFails("block") /\ Failed /\ UNCHANGED <<status, flash>>

(* flash_write *)
DataWrite ==
  /\ pc = "write"
  /\ \/ /\ pc' = "write_out"
        /\ latch' = [lba |-> req.lba, data |-> req.data, whole |-> TRUE]
        /\ UNCHANGED <<queue, served, lpc, clients, pipe, status, flash>>
     \/ UsbFails /\ Failed /\ UNCHANGED <<pipe, status, flash>>

WriteOut ==
  /\ pc = "write_out"
  /\ \/ /\ pc' = IF Execs THEN "exec" ELSE "status"
        /\ WriteBulk /\ DeviceTakes(latch')
        /\ UNCHANGED <<queue, served, lpc, clients, pipe>>
     \/ /\ UsbFails /\ Failed /\ UNCHANGED pipe
        /\ DeviceTakes(Cut(latch)) \/ UNCHANGED <<status, flash>>

DataExec ==
  /\ pc = "exec"
  /\ \/ /\ pc' = "status" /\ DeviceProgram(latch)
        /\ UNCHANGED <<queue, served, lpc, clients, pipe, latch>>
     \/ /\ UsbFails /\ Failed /\ UNCHANGED pipe
        /\ DeviceProgram(latch) \/ UNCHANGED <<status, flash>>

(* flash_status *)
DataStatus ==
  /\ pc = "status"
  /\ \/ /\ pc' = "status_in" /\ Put([kind |-> "word", value |-> status])
        /\ UNCHANGED <<queue, served, lpc, clients, latch, status, flash>>
     \/ /\ UsbFails /\ Failed /\ UNCHANGED <<status, flash>>
        /\ Put([kind |-> "word", value |-> status]) \/ UNCHANGED pipe

(* Mutants: the status is not looked at; it is passed on as it is. *)
OutcomeUnchecked(s) == IF req.cmd = "write" THEN "ok" ELSE IF buf # None THEN buf ELSE "failed"
OutcomeRaw(s) == IF req.cmd = "write" THEN s ELSE IF buf # None THEN buf ELSE "failed"

(* is_error, and the length check of read_block, which no block passes     *)
(* when the default block size is in use.                                  *)
Outcome(s) ==
  IF s = "error" \/ (req.cmd = "read" /\ (buf = None \/ ~geom)) THEN "failed"
  ELSE IF req.cmd = "read" THEN buf ELSE "ok"

StatusIn ==
  /\ pc = "status_in"
  /\ \/ /\ ReadU32
        /\ resp' = Outcome(Head(pipe).value) /\ pc' = "answer"
        /\ UNCHANGED <<queue, conn, req, lpc, clients, latch, status, flash>>
     \/ ReadFails("word") /\ Failed /\ UNCHANGED <<status, flash>>

(* write_to fails, and ends the connection, if the client has gone; it may *)
(* also go unnoticed.                                                      *)
Answer ==
  /\ pc = "answer"
  /\ \/ /\ pc' = "frame"
        /\ answers' = IF state[conn] = "open" THEN [answers EXCEPT ![conn] = Append(@, resp)]
                      ELSE answers
        /\ UNCHANGED <<queue, served, lpc, state, sent, inbound, device>>
     \/ /\ state[conn] = "closed"
        /\ EndConnection /\ UNCHANGED <<req, inbound>>

Serve ==
  \/ Accept \/ DeviceReset \/ Ask \/ VersionIn \/ ConfigIn
  \/ EndOfStream \/ BadFrame \/ IgnoreFrame \/ Dispatch
  \/ DataRead \/ BlockIn \/ DataWrite \/ WriteOut \/ DataExec \/ DataStatus \/ StatusIn
  \/ Answer

Next ==
  \/ Serve
  \/ \E c \in Clients : Connect(c) \/ Close(c) \/ \E r \in Requests : SendRequest(c, r)

Spec == Init /\ [][Next]_vars

(* The server's thread runs on: every USB call has a time limit, and the   *)
(* client it serves is in the end done.                                    *)
FairSpec == Spec /\ WF_vars(Serve) /\ \A c \in Clients : WF_vars(Close(c))

-----------------------------------------------------------------------------
Pcs == {"accept", "reset", "version", "version_in", "init", "init_in", "frame", "read", "read_in",
        "write", "write_out", "exec", "status", "status_in", "answer"}

TypeOK ==
  /\ pc \in Pcs /\ queue \in Seq(Clients) /\ conn \in Clients \cup {None}
  /\ req \in Requests \cup {None} /\ resp \in DataWord \cup {"ok", "failed", None}
  /\ geom \in BOOLEAN /\ cached \in BOOLEAN /\ buf \in DataWord \cup {None}
  /\ state \in [Clients -> {"new", "open", "closed"}]
  /\ sent \in [Clients -> 0..MaxRequests]
  /\ inbound \in [Clients -> Seq(Requests)]
  /\ answers \in [Clients -> Seq(DataWord \cup {"ok", "failed"})]
  /\ pipe \in Seq([kind : {"word"}, value : {"ok", "error"}] \cup [kind : {"block"}, value : DataWord])
  /\ latch \in [lba : Nat, data : DataWord, whole : BOOLEAN] \cup {None}
  /\ status \in {"ok", "error"} /\ flash \in [Addr -> DataWord]

(* A status 0 in answer to a WRITE means that the block is on the flash,   *)
(* whatever failed for this client or an earlier one before, if the whole  *)
(* of the block was sent: flash_write drops the length that write_bulk     *)
(* reports, so of a block cut by the time limit nothing is known.          *)
WriteAnswerHonest ==
  pc = "answer" /\ req.cmd = "write" /\ resp = "ok" /\ latch.whole =>
    req.lba \in Addr /\ flash[req.lba] = req.data

(* What the description of the protocol says, without the exception:       *)
(* status 0 is a block on the flash.  A client that goes on after a late   *)
(* status does not have it, nor one whose block was cut.                   *)
StatusMeansWritten ==
  pc = "answer" /\ req.cmd = "write" /\ resp = "ok" =>
    req.lba \in Addr /\ flash[req.lba] = req.data

(* A block in answer to a READ is the block asked for. *)
ReadAnswerHonest ==
  pc = "answer" /\ req.cmd = "read" /\ resp # "failed" =>
    req.lba \in Addr /\ resp = flash[req.lba]

(* Every client that has connected is served in its turn, whatever the     *)
(* clients before it sent and however the programmer failed.               *)
EveryClientServed == \A c \in Clients : (\E i \in 1..Len(queue) : queue[i] = c) ~> conn = c
=============================================================================
