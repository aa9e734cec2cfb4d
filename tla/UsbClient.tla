------------------------------ MODULE UsbClient ------------------------------
(***************************************************************************)
(* The host's side of a command-line call over a libusb programmer, the    *)
(* same for DemoN (demon/usb.rs) and LPC/XFlash (lpc/usb.rs): a process    *)
(* opens a UsbClient, which claims the programmer's interface and detaches *)
(* the kernel driver where it has to; it makes one USB transfer after      *)
(* another and gives up at the first error; the UsbClient is dropped.      *)
(*                                                                         *)
(* What a call still has to transfer is a sequence, todo.  What the        *)
(* programmer has answered waits in pipe, its bulk IN endpoint, until it   *)
(* is read, by whichever call that is.  DemonClient and LpcCalls say what  *)
(* the transfers are and what the programmers make of them.                *)
(***************************************************************************)
EXTENDS Naturals, Sequences

CONSTANTS
  None,
  DataWord,     \* the contents a block may have
  Programmers,  \* what may be attached: its kind, and whether a kernel driver binds to it
  Jobs,         \* the calls that are made
  MaxCalls,     \* bound on the number of calls
  MaxUnread,    \* bound on the number of reads that give up on an answer
  Faults        \* which faults happen, of FaultKinds

(* A transfer or a request to the kernel fails; an answer is late; another *)
(* process claims the interface; the process is killed.                    *)
FaultKinds == {"usb", "late", "other", "kill"}

Programmer == [kind : {"demon", "lpc"}, driver : BOOLEAN]

(* cuts: a bulk write of this call may be cut short by its time limit,     *)
(* which write_bulk reports as Ok(len).                                    *)
Job == [op : {"info", "read", "write", "bad_blocks", "detect", "xsvf"},
        verify : BOOLEAN, cuts : BOOLEAN, file : Seq(DataWord)]

ASSUME UsbAssumption ==
  /\ Programmers \subseteq Programmer /\ Jobs \subseteq Job
  /\ MaxCalls \in Nat /\ MaxUnread \in Nat /\ Faults \subseteq FaultKinds
  /\ None \notin Jobs

VARIABLES
  programmer,  \* what is attached
  bus,         \* "present", "leaving" or "gone" while it re-enumerates
  owner,       \* who has its interface: "kernel", "nobody", "other" or "client"
  detached,    \* interface_detached of the UsbClient
  strayed,     \* history: the driver was detached, and attaching it failed or was not tried
  job,         \* the call being worked on, or worked on last
  calls,       \* number of calls so far
  stage,       \* what the process does: "idle", "claim", "detach", "reclaim", "talk" or "drop"
  phase,       \* which function of the client todo belongs to
  todo,        \* transfers left in it
  result,      \* outcome of the call
  pipe,        \* answers that have not been read
  unread       \* history: number of reads that gave up on an answer

interface == <<programmer, bus, owner, detached, strayed>>
call      == <<job, calls>>
course    == <<stage, phase, todo, result>>
answers   == <<pipe, unread>>
usb       == <<interface, call, course, answers>>

UsbInit ==
  /\ programmer \in Programmers /\ bus = "present"
  /\ owner = (IF programmer.driver THEN "kernel" ELSE "nobody")
  /\ detached = FALSE /\ strayed = FALSE
  /\ job = None /\ calls = 0 /\ stage = "idle" /\ phase = "none" /\ todo = << >> /\ result = "none"
  /\ pipe = << >> /\ unread = 0

UsbFails == "usb" \in Faults

(* The handle refers to a programmer that is there. *)
Alive == bus = "present" /\ owner = "client"

-----------------------------------------------------------------------------
(* Transfers: a byte, a number of two bytes or a block to the programmer,  *)
(* or an answer of a given length from it, and what it is used as.         *)
Byte(c) == [byte |-> c]
Number(b) == [number |-> b]
Block(w) == [block |-> w]
Get(length, use) == [get |-> length, use |-> use]

Length == [byte |-> 1, word |-> 2, block |-> 3]
Put(length, value) == pipe' = Append(pipe, [length |-> length, value |-> value])

Sending(field) == stage = "talk" /\ todo # << >> /\ field \in DOMAIN Head(todo)
Getting(use) == stage = "talk" /\ todo # << >> /\ "get" \in DOMAIN Head(todo) /\ Head(todo).use = use
Finished(p) == stage = "talk" /\ todo = << >> /\ phase = p

(* The transfer is done and the function goes on to its next. *)
Continue == todo' = Tail(todo) /\ UNCHANGED <<stage, phase, result>>
Enter(p, transfers) == phase' = p /\ todo' = transfers /\ UNCHANGED <<stage, result>>

(* The call returns, and the client is dropped. *)
Return(r) == result' = r /\ todo' = << >> /\ stage' = "drop" /\ UNCHANGED phase

-----------------------------------------------------------------------------
(* Bulk reads.  A host's buffer is filled by one answer. *)

Arrived(length) == pipe # << >> /\ Head(pipe).length = length

(* Mutant: read_bulk does not compare the length with the expected one. *)
ReadUnchecked(length) ==
  /\ pipe # << >> /\ Length[Head(pipe).length] <= Length[length]
  /\ pipe' = Tail(pipe) /\ UNCHANGED unread

(* read_bulk returns an answer of the expected length. *)
ReadBulk(length) == Arrived(length) /\ pipe' = Tail(pipe) /\ UNCHANGED unread

(* The time limit passes: nothing has come, or it comes afterwards.        *)
TimesOut ==
  /\ UNCHANGED pipe
  /\ \/ pipe = << >> /\ UNCHANGED unread
     \/ pipe # << >> /\ "late" \in Faults /\ unread < MaxUnread /\ unread' = unread + 1

(* The read fails: because the answer is longer than the buffer (an        *)
(* overflow, after which the programmer may or may not send it again), or  *)
(* for any other reason.                                                   *)
Breaks(length) ==
  /\ UNCHANGED unread
  /\ \/ pipe # << >> /\ Length[Head(pipe).length] > Length[length] /\ pipe' \in {pipe, Tail(pipe)}
     \/ UsbFails /\ pipe # << >> /\ pipe' = Tail(pipe)
     \/ (UsbFails \/ ~Alive) /\ UNCHANGED pipe

(* ... or the answer is shorter than expected, and was read. *)
IsShort(length) ==
  /\ pipe # << >> /\ Length[Head(pipe).length] < Length[length]
  /\ pipe' = Tail(pipe) /\ UNCHANGED unread

ReadFails(length) == TimesOut \/ Breaks(length) \/ IsShort(length)

-----------------------------------------------------------------------------
(* UsbClient::open, claim_interface and Drop. *)

Begin(j, first, transfers) ==
  /\ stage = "idle" /\ calls < MaxCalls
  /\ job' = j /\ calls' = calls + 1
  /\ stage' = "claim" /\ phase' = first /\ todo' = transfers /\ result' = "none"
  /\ detached' = FALSE
  /\ UNCHANGED <<programmer, bus, owner, strayed, answers>>

(* There is no UsbClient; self.usb is the one before, if there was one. *)
NotOpened == Return("failed") /\ UNCHANGED <<programmer, bus, strayed, call, answers>>

Claim ==
  /\ stage = "claim"
  /\ \/ /\ bus # "gone" /\ owner = "nobody"
        /\ owner' = "client" /\ detached' = FALSE
        /\ stage' = "talk"
        /\ UNCHANGED <<programmer, bus, strayed, call, phase, todo, result, answers>>
     \/ /\ bus # "gone" /\ (owner # "nobody" \/ UsbFails)
        /\ stage' = "detach"
        /\ UNCHANGED <<interface, call, phase, todo, result, answers>>
     \/ (bus = "gone" \/ UsbFails) /\ NotOpened /\ UNCHANGED <<owner, detached>>

(* Only a kernel driver can be detached, not the claim of a process. *)
DetachKernelDriver ==
  /\ stage = "detach"
  /\ \/ /\ owner = "kernel" /\ owner' = "nobody" /\ stage' = "reclaim"
        /\ UNCHANGED <<programmer, bus, detached, strayed, call, phase, todo, result, answers>>
     \/ (owner # "kernel" \/ UsbFails) /\ NotOpened /\ UNCHANGED <<owner, detached>>

(* Mutant: interface_detached is not set. *)
ReclaimForgetful ==
  /\ stage = "reclaim" /\ bus # "gone" /\ owner = "nobody"
  /\ owner' = "client" /\ detached' = FALSE /\ stage' = "talk"
  /\ UNCHANGED <<programmer, bus, strayed, call, phase, todo, result, answers>>

(* When the second claim fails, nobody is left to attach the driver. *)
Reclaim ==
  /\ stage = "reclaim"
  /\ \/ /\ bus # "gone" /\ owner = "nobody"
        /\ owner' = "client" /\ detached' = TRUE /\ stage' = "talk"
        /\ UNCHANGED <<programmer, bus, strayed, call, phase, todo, result, answers>>
     \/ /\ owner # "nobody" \/ UsbFails
        /\ strayed' = TRUE
        /\ Return("failed") /\ UNCHANGED <<programmer, bus, owner, detached, call, answers>>

(* Drop releases the interface and attaches the driver; errors are         *)
(* ignored.  On a handle whose device is gone it does nothing.             *)
Drop ==
  /\ stage = "drop" /\ stage' = "idle"
  /\ IF owner # "client" THEN UNCHANGED <<owner, strayed>>
     ELSE \/ owner' = (IF detached THEN "kernel" ELSE "nobody") /\ UNCHANGED strayed
          \/ UsbFails /\ detached /\ owner' = "nobody" /\ strayed' = TRUE
  /\ UNCHANGED <<programmer, bus, detached, call, phase, todo, result, answers>>

(* The process is killed: nothing is dropped, and the kernel releases the  *)
(* interface.                                                              *)
Kill ==
  /\ "kill" \in Faults /\ stage # "idle"
  /\ stage' = "idle" /\ todo' = << >> /\ result' = "killed"
  /\ owner' = (IF owner = "client" THEN "nobody" ELSE owner)
  /\ strayed' = (strayed \/ (owner = "client" /\ detached) \/ stage = "reclaim")
  /\ UNCHANGED <<programmer, bus, detached, call, phase, answers>>

(* Another process takes the interface when nobody has it, and gives it back. *)
OtherProcess ==
  /\ "other" \in Faults
  /\ \/ owner = "nobody" /\ owner' = "other"
     \/ owner = "other" /\ owner' = "nobody"
  /\ UNCHANGED <<programmer, bus, detached, strayed, call, course, answers>>

UsbNext == Claim \/ DetachKernelDriver \/ Reclaim \/ Drop \/ Kill \/ OtherProcess

-----------------------------------------------------------------------------
UsbTypeOK ==
  /\ programmer \in Programmers /\ bus \in {"present", "leaving", "gone"}
  /\ owner \in {"kernel", "nobody", "other", "client"} /\ detached \in BOOLEAN /\ strayed \in BOOLEAN
  /\ job \in Jobs \cup {None} /\ calls \in 0..MaxCalls
  /\ stage \in {"idle", "claim", "detach", "reclaim", "talk", "drop"}
  /\ result \in {"none", "ok", "failed", "killed"} /\ unread \in 0..MaxUnread
  /\ \A i \in 1..Len(pipe) : pipe[i].length \in DOMAIN Length

(* A call, however it ends and at whatever step, leaves the kernel driver  *)
(* attached where it was, unless attaching it failed or the second claim   *)
(* of claim_interface did; and nobody but the call itself holds the        *)
(* interface for it.                                                       *)
DriverGivenBack ==
  stage = "idle" /\ bus = "present" =>
    /\ owner # "client"
    /\ programmer.driver /\ ~strayed => owner = "kernel"
=============================================================================
