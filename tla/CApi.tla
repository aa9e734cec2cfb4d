-------------------------------- MODULE CApi --------------------------------
(***************************************************************************)
(* The C API (lib.rs): every export runs its body under guarded, which     *)
(* turns the outcome into a return code and keeps the text of the last     *)
(* error per thread.  The progress callbacks of a call run on its thread   *)
(* and may call the API again.                                             *)
(*                                                                         *)
(* Calls are numbered in the order in which they begin; the text of an     *)
(* error is the number of the call that failed.                            *)
(***************************************************************************)
EXTENDS Integers, Sequences

CONSTANTS
  Threads,
  MaxCalls,  \* bound on the number of calls
  MaxDepth,  \* bound on the nesting of calls
  None

ASSUME ApiAssumption == MaxCalls \in Nat /\ MaxDepth \in Nat /\ None \notin Nat

(* The parameters each export checks.  The legacy wrappers share the       *)
(* bodies of cmd_read_nand and cmd_write_nand.                             *)
ReadParams  == {"out_path", "device", "media", "serial"}
WriteParams == {"input_path", "device", "media", "serial"}

Params == [cmd_read_nand      |-> ReadParams,
           cmd_write_nand     |-> WriteParams,
           cmd_info           |-> {"device", "serial"},
           cmd_list_devices   |-> {},
           cmd_xsvf_detect    |-> {"device"},
           cmd_xsvf_write     |-> {"input_path", "device"},
           cmd_serve_tcp      |-> {"bind_addr", "device"},
           auto_detect_device |-> {"device", "media", "serial"},
           read_nand_c        |-> ReadParams,
           write_nand_c       |-> WriteParams]

Exports == DOMAIN Params

(* Exports without a progress argument, and exports that write results     *)
(* through pointers of the caller.                                         *)
Silent  == {"auto_detect_device", "read_nand_c", "write_nand_c"}
Outputs == {"auto_detect_device", "read_nand_c", "write_nand_c"}

VARIABLES
  calls,      \* number of calls so far
  stack,      \* per thread, the calls in progress, the innermost last
  lastError,  \* LAST_ERROR: per thread, the call whose error it describes, or None
  returned,   \* per thread, the call that returned last, None while one is in progress
  touched,    \* history: calls that reached a device
  written     \* history: calls that wrote to a pointer of the caller

vars == <<calls, stack, lastError, returned, touched, written>>

Init ==
  /\ calls = 0 /\ stack = [t \in Threads |-> << >>]
  /\ lastError = [t \in Threads |-> None] /\ returned = [t \in Threads |-> None]
  /\ touched = {} /\ written = {}

Depth(t) == Len(stack[t])
Top(t) == stack[t][Depth(t)]
SetState(t, s) == stack' = [stack EXCEPT ![t][Depth(t)].state = s]

-----------------------------------------------------------------------------
(* Mutant: the slot is not cleared when a call begins. *)
ClearNothing(t) == UNCHANGED lastError

ClearLastError(t) == lastError' = [lastError EXCEPT ![t] = None]

(* Mutant: one slot for all threads. *)
SetEverywhere(t, id) == lastError' = [u \in Threads |-> id]

SetLastError(t, id) == lastError' = [lastError EXCEPT ![t] = id]

(* A call begins, from the caller's own code or from a callback, with bad  *)
(* the first invalid argument, None if all are valid.                      *)
Enter(t, export, bad) ==
  /\ calls < MaxCalls /\ Depth(t) < MaxDepth
  /\ Depth(t) > 0 => Top(t).state = "callback"
  /\ calls' = calls + 1
  /\ stack' = [stack EXCEPT ![t] = Append(@, [id |-> calls + 1, export |-> export, bad |-> bad,
                                              state |-> "checking"])]
  /\ returned' = [returned EXCEPT ![t] = None]
  /\ ClearLastError(t)
  /\ UNCHANGED <<touched, written>>

Return(t, rc) ==
  /\ stack' = [stack EXCEPT ![t] = SubSeq(@, 1, Depth(t) - 1)]
  /\ returned' = [returned EXCEPT ![t] = [id |-> Top(t).id, rc |-> rc]]
  /\ UNCHANGED calls

(* Mutant: the arguments are looked at when the device has been opened. *)
CheckArgumentsLate(t) ==
  /\ Depth(t) > 0 /\ Top(t).state = "checking"
  /\ touched' = touched \cup {Top(t).id}
  /\ \/ Top(t).bad # None /\ SetLastError(t, Top(t).id) /\ Return(t, -1)
     \/ Top(t).bad = None /\ SetState(t, "running") /\ UNCHANGED <<calls, lastError, returned>>
  /\ UNCHANGED written

CheckArguments(t) ==
  /\ Depth(t) > 0 /\ Top(t).state = "checking"
  /\ \/ Top(t).bad # None /\ SetLastError(t, Top(t).id) /\ Return(t, -1)
     \/ Top(t).bad = None /\ SetState(t, "running") /\ UNCHANGED <<calls, lastError, returned>>
  /\ UNCHANGED <<touched, written>>

(* The body works on the device, and logs or reports progress. *)
Run(t) ==
  /\ Depth(t) > 0 /\ Top(t).state = "running"
  /\ touched' = touched \cup {Top(t).id}
  /\ IF Top(t).export \in Silent THEN UNCHANGED stack ELSE SetState(t, "callback")
  /\ UNCHANGED <<calls, lastError, returned, written>>

CallbackReturns(t) ==
  /\ Depth(t) > 0 /\ Top(t).state = "callback"
  /\ SetState(t, "running") /\ returned' = [returned EXCEPT ![t] = None]
  /\ UNCHANGED <<calls, lastError, touched, written>>

(* The body succeeds, and only then writes its results. *)
Succeed(t) ==
  /\ Depth(t) > 0 /\ Top(t).state = "running"
  /\ Return(t, 0)
  /\ written' = IF Top(t).export \in Outputs THEN written \cup {Top(t).id} ELSE written
  /\ UNCHANGED <<lastError, touched>>

(* It returns an error, or panics. *)
Fail(t) ==
  /\ Depth(t) > 0 /\ Top(t).state = "running"
  /\ \E rc \in {-2, -3} : Return(t, rc)
  /\ SetLastError(t, Top(t).id)
  /\ UNCHANGED <<touched, written>>

Next == \E t \in Threads :
  \/ \E export \in Exports : \E bad \in Params[export] \cup {None} : Enter(t, export, bad)
  \/ CheckArguments(t) \/ Run(t) \/ CallbackReturns(t) \/ Succeed(t) \/ Fail(t)

Spec == Init /\ [][Next]_vars

-----------------------------------------------------------------------------
(* When a call has failed and its thread has begun no other since, the     *)
(* thread's last error is the text of that failure, whatever the callbacks *)
(* of the call and the other threads did.  When it has succeeded there is  *)
(* no text, or that of a call made from its callbacks.                     *)
LastErrorIsCurrent == \A t \in Threads : returned[t] # None =>
  IF returned[t].rc # 0 THEN lastError[t] = returned[t].id
  ELSE lastError[t] = None \/ lastError[t] > returned[t].id

(* A call refused for its arguments did nothing, and the caller's pointers *)
(* are written by successful calls only.                                   *)
RefusedWithoutEffect == \A t \in Threads : returned[t] # None =>
  /\ returned[t].rc = -1 => returned[t].id \notin touched
  /\ returned[t].rc # 0 => returned[t].id \notin written
=============================================================================
