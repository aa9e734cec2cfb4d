------------------------------ MODULE CApiProofs ------------------------------
(***************************************************************************)
(* Proofs about CApi, for every set of threads and every number and        *)
(* nesting of calls.                                                       *)
(***************************************************************************)
EXTENDS CApi, SequenceTheorems, TLAPS

States == {"checking", "running", "callback"}
Bads   == (UNION {Params[e] : e \in Exports}) \cup {None}
Frame  == [id : Nat, export : Exports, bad : Bads, state : States]
Rcs    == {0, -1, -2, -3}

(* The variables have their types. *)
TypeOK ==
  /\ calls \in Nat
  /\ stack \in [Threads -> Seq(Frame)]
  /\ lastError \in [Threads -> Nat \cup {None}]
  /\ returned \in [Threads -> [id : Nat, rc : Rcs] \cup {None}]

(* A call is numbered after those it is nested in, and no other call in    *)
(* progress has its number.                                                *)
NumbersOK ==
  /\ \A t \in Threads : \A i \in 1..Len(stack[t]) : stack[t][i].id <= calls
  /\ \A t \in Threads : \A i, j \in 1..Len(stack[t]) : i < j => stack[t][i].id < stack[t][j].id
  /\ \A t, u \in Threads : \A i \in 1..Len(stack[t]), j \in 1..Len(stack[u]) :
       t # u => stack[t][i].id # stack[u][j].id
  /\ \A t \in Threads : returned[t] # None =>
       /\ returned[t].id <= calls
       /\ \A u \in Threads : \A i \in 1..Len(stack[u]) : stack[u][i].id # returned[t].id

(* An error text on a thread is newer than all its calls in progress.      *)
TextIsNewer ==
  \A t \in Threads : lastError[t] # None =>
    \A i \in 1..Len(stack[t]) : lastError[t] > stack[t][i].id

(* What has reached a device or the caller's memory. *)
EffectsOK ==
  /\ \A n \in touched \cup written : n \in Nat /\ n <= calls
  /\ \A t \in Threads : \A i \in 1..Len(stack[t]) :
       /\ stack[t][i].state = "checking" => stack[t][i].id \notin touched
       /\ stack[t][i].id \notin written

Inv == TypeOK /\ NumbersOK /\ TextIsNewer /\ EffectsOK /\ LastErrorIsCurrent /\ RefusedWithoutEffect

-----------------------------------------------------------------------------
LEMMA TopType ==
  ASSUME TypeOK, NEW t \in Threads, Depth(t) > 0
  PROVE  /\ Depth(t) \in Nat \ {0} /\ Depth(t) \in 1..Len(stack[t])
         /\ Top(t) = stack[t][Depth(t)] /\ Top(t) \in Frame
BY DEF TypeOK, Depth, Top

LEMMA StackType ==
  ASSUME TypeOK, NEW u \in Threads
  PROVE  /\ stack[u] \in Seq(Frame) /\ Len(stack[u]) \in Nat
         /\ \A i \in 1..Len(stack[u]) : stack[u][i] \in Frame /\ stack[u][i].id \in Nat
<1>1. stack[u] \in Seq(Frame)
  BY DEF TypeOK
<1>2. \A i \in 1..Len(stack[u]) : stack[u][i] \in Frame
  BY <1>1
<1> QED BY <1>1, <1>2 DEF Frame

(* The stacks after each kind of step. *)
LEMMA EnterStack ==
  ASSUME TypeOK, NEW t \in Threads, NEW f \in Frame,
         stack' = [stack EXCEPT ![t] = Append(@, f)]
  PROVE  /\ stack' \in [Threads -> Seq(Frame)]
         /\ \A u \in Threads : u # t => stack'[u] = stack[u]
         /\ Len(stack[t]) \in Nat /\ Len(stack'[t]) = Len(stack[t]) + 1
         /\ \A i \in 1..Len(stack[t]) : stack'[t][i] = stack[t][i]
         /\ stack'[t][Len(stack[t]) + 1] = f
<1>1. stack[t] \in Seq(Frame) /\ stack'[t] = Append(stack[t], f)
  BY DEF TypeOK
<1>2. stack' \in [Threads -> Seq(Frame)] /\ \A u \in Threads : u # t => stack'[u] = stack[u]
  BY <1>1, AppendProperties DEF TypeOK
<1> QED BY <1>1, <1>2, AppendProperties

LEMMA StateStack ==
  ASSUME TypeOK, NEW t \in Threads, Depth(t) > 0, NEW s \in States, SetState(t, s)
  PROVE  /\ stack' \in [Threads -> Seq(Frame)]
         /\ \A u \in Threads :
              /\ u # t => stack'[u] = stack[u]
              /\ Len(stack'[u]) = Len(stack[u])
              /\ \A i \in 1..Len(stack[u]) : stack'[u][i].id = stack[u][i].id
         /\ \A i \in 1..Len(stack[t]) : i # Depth(t) => stack'[t][i] = stack[t][i]
         /\ stack'[t][Depth(t)].state = s
<1>1. stack[t] \in Seq(Frame) /\ Depth(t) \in 1..Len(stack[t]) /\ stack[t][Depth(t)] \in Frame
  BY TopType DEF TypeOK
<1>2. PICK f \in Frame : f = [stack[t][Depth(t)] EXCEPT !.state = s]
  BY <1>1 DEF Frame
<1>3. stack' = [stack EXCEPT ![t] = [stack[t] EXCEPT ![Depth(t)] = f]]
  BY <1>2 DEF SetState
<1>4. f.id = stack[t][Depth(t)].id /\ f.state = s
  BY <1>1, <1>2 DEF Frame
<1>5. stack'[t] = [stack[t] EXCEPT ![Depth(t)] = f] /\ \A u \in Threads : u # t => stack'[u] = stack[u]
  BY <1>3 DEF TypeOK
<1>6. stack'[t] \in Seq(Frame) /\ Len(stack'[t]) = Len(stack[t])
      /\ \A i \in 1..Len(stack[t]) : stack'[t][i] = IF i = Depth(t) THEN f ELSE stack[t][i]
  BY <1>1, <1>5
<1>7. stack' \in [Threads -> Seq(Frame)]
  BY <1>3, <1>5, <1>6 DEF TypeOK
<1> QED BY <1>1, <1>4, <1>5, <1>6, <1>7

LEMMA ReturnStack ==
  ASSUME TypeOK, NEW t \in Threads, Depth(t) > 0, NEW rc \in Rcs, Return(t, rc)
  PROVE  /\ stack' \in [Threads -> Seq(Frame)]
         /\ \A u \in Threads : u # t => stack'[u] = stack[u] /\ returned'[u] = returned[u]
         /\ Len(stack'[t]) = Depth(t) - 1
         /\ \A i \in 1..(Depth(t) - 1) : stack'[t][i] = stack[t][i]
         /\ returned' \in [Threads -> [id : Nat, rc : Rcs] \cup {None}]
         /\ returned'[t].id = Top(t).id /\ returned'[t].rc = rc /\ calls' = calls
<1>1. stack[t] \in Seq(Frame) /\ Depth(t) = Len(stack[t]) /\ Depth(t) \in Nat \ {0} /\ Top(t).id \in Nat
  BY TopType DEF TypeOK, Depth, Frame
<1>2. stack'[t] = SubSeq(stack[t], 1, Depth(t) - 1) /\ \A u \in Threads : u # t => stack'[u] = stack[u]
  BY DEF TypeOK, Return
<1>3. /\ stack'[t] \in Seq(Frame) /\ Len(stack'[t]) = Depth(t) - 1
      /\ \A i \in 1..(Depth(t) - 1) : stack'[t][i] = stack[t][i]
  BY <1>1, <1>2
<1>4. stack' \in [Threads -> Seq(Frame)]
  BY <1>3 DEF TypeOK, Return
<1>5. PICK r \in [id : Nat, rc : Rcs] : r = [id |-> Top(t).id, rc |-> rc]
  BY <1>1
<1>6. returned' = [returned EXCEPT ![t] = r]
  BY <1>5 DEF Return
<1>7. /\ returned'[t] = r /\ \A u \in Threads : u # t => returned'[u] = returned[u]
      /\ returned' \in [Threads -> [id : Nat, rc : Rcs] \cup {None}]
  BY <1>6 DEF TypeOK
<1> QED BY <1>2, <1>3, <1>4, <1>5, <1>7 DEF Return

LEMMA TopIs ==
  ASSUME Inv, NEW t \in Threads, Depth(t) > 0
  PROVE  /\ Top(t).id \in Nat /\ Top(t).id <= calls
         /\ \A i \in 1..(Depth(t) - 1) : stack[t][i].id < Top(t).id
         /\ \A u \in Threads : \A i \in 1..Len(stack[u]) :
              u # t \/ i # Depth(t) => stack[u][i].id # Top(t).id
         /\ \A u \in Threads : returned[u] # None => returned[u].id # Top(t).id
         /\ Top(t).id \notin written
         /\ lastError[t] # None => lastError[t] > Top(t).id
<1>1. /\ Depth(t) \in Nat /\ Depth(t) \in 1..Len(stack[t]) /\ Top(t) = stack[t][Depth(t)]
      /\ Top(t).id \in Nat /\ Depth(t) = Len(stack[t])
  BY TopType DEF Inv, Frame, Depth
<1>2. ASSUME NEW i \in 1..(Depth(t) - 1) PROVE stack[t][i].id < Top(t).id
  BY <1>1 DEF Inv, NumbersOK
<1>3. ASSUME NEW i \in 1..Len(stack[t]) PROVE stack[t][i] \in Frame
  BY StackType DEF Inv
<1>4. ASSUME NEW u \in Threads, NEW i \in 1..Len(stack[u]), u # t \/ i # Depth(t)
      PROVE  stack[u][i].id # Top(t).id
  <2>1. CASE u # t
    BY <1>1, <2>1 DEF Inv, NumbersOK
  <2>2. CASE u = t
    <3>1. stack[t][i].id < Top(t).id /\ stack[t][i].id \in Nat
      BY <1>1, <1>2, <1>3, <1>4, <2>2 DEF Frame
    <3> QED BY <1>1, <2>2, <3>1
  <2> QED BY <2>1, <2>2
<1>5. /\ Top(t).id <= calls
      /\ \A u \in Threads : returned[u] # None => returned[u].id # Top(t).id
  BY <1>1 DEF Inv, NumbersOK
<1>6. /\ Top(t).id \notin written
      /\ lastError[t] # None => lastError[t] > Top(t).id
  BY <1>1 DEF Inv, EffectsOK, TextIsNewer
<1> QED BY <1>1, <1>2, <1>4, <1>5, <1>6

(* Steps that begin no call. *)
NoNewCall ==
  \A u \in Threads :
    /\ Len(stack'[u]) \in Nat /\ Len(stack[u]) \in Nat /\ Len(stack'[u]) <= Len(stack[u])
    /\ \A i \in 1..Len(stack'[u]) : stack'[u][i].id = stack[u][i].id

LEMMA NumbersKept ==
  ASSUME Inv, UNCHANGED calls, NoNewCall,
         NEW t \in Threads, \A u \in Threads : u # t => returned'[u] = returned[u],
         returned'[t] # None => returned'[t] = returned[t] \/
           /\ returned'[t].id <= calls
           /\ \A u \in Threads : \A i \in 1..Len(stack'[u]) : stack'[u][i].id # returned'[t].id
  PROVE  NumbersOK'
<1>1. \A u \in Threads : \A i \in 1..Len(stack'[u]) :
        i \in 1..Len(stack[u]) /\ stack'[u][i].id = stack[u][i].id
  BY DEF NoNewCall
<1>2. \A u \in Threads : \A i \in 1..Len(stack'[u]) : stack'[u][i].id <= calls'
  BY <1>1 DEF Inv, NumbersOK
<1>3. \A u \in Threads : \A i, j \in 1..Len(stack'[u]) : i < j => stack'[u][i].id < stack'[u][j].id
  BY <1>1 DEF Inv, NumbersOK
<1>4. \A u, v \in Threads : \A i \in 1..Len(stack'[u]), j \in 1..Len(stack'[v]) :
        u # v => stack'[u][i].id # stack'[v][j].id
  BY <1>1 DEF Inv, NumbersOK
<1>5. ASSUME NEW u \in Threads, returned'[u] # None
      PROVE  /\ returned'[u].id <= calls'
             /\ \A v \in Threads : \A i \in 1..Len(stack'[v]) : stack'[v][i].id # returned'[u].id
  <2>1. CASE returned'[u] = returned[u]
    <3>1. /\ returned[u].id <= calls
          /\ \A v \in Threads : \A i \in 1..Len(stack[v]) : stack[v][i].id # returned[u].id
      BY <1>5, <2>1 DEF Inv, NumbersOK
    <3> QED BY <1>1, <2>1, <3>1
  <2>2. CASE returned'[u] # returned[u]
    BY <1>5, <2>2
  <2> QED BY <2>1, <2>2
<1> QED BY <1>2, <1>3, <1>4, <1>5 DEF NumbersOK

LEMMA TextKept ==
  ASSUME Inv, NoNewCall, UNCHANGED lastError
  PROVE  TextIsNewer'
<1>1. \A u \in Threads : \A i \in 1..Len(stack'[u]) :
        i \in 1..Len(stack[u]) /\ stack'[u][i].id = stack[u][i].id
  BY DEF NoNewCall
<1> QED BY <1>1 DEF Inv, TextIsNewer

(* A call changes its state. *)
LEMMA StateKeeps ==
  ASSUME Inv, NEW t \in Threads, Depth(t) > 0, NEW s \in States \ {"checking"}, SetState(t, s)
  PROVE  /\ stack' \in [Threads -> Seq(Frame)] /\ NoNewCall
         /\ \A u \in Threads : \A i \in 1..Len(stack'[u]) :
              /\ i \in 1..Len(stack[u]) /\ stack'[u][i].id = stack[u][i].id
              /\ stack'[u][i].state = "checking" =>
                   stack[u][i].state = "checking" /\ (u # t \/ i # Depth(t))
<1>2. \A u \in Threads : Len(stack[u]) \in Nat
  BY StackType DEF Inv
<1>3. TypeOK /\ s \in States
  BY DEF Inv
<1>4. ASSUME NEW u \in Threads, NEW i \in 1..Len(stack'[u]), stack'[u][i].state = "checking"
      PROVE  stack[u][i].state = "checking" /\ (u # t \/ i # Depth(t))
  BY <1>3, <1>4, StateStack
<1> QED BY <1>2, <1>3, <1>4, StateStack DEF NoNewCall

LEMMA ReturnKeeps ==
  ASSUME Inv, NEW t \in Threads, Depth(t) > 0, NEW rc \in Rcs, Return(t, rc)
  PROVE  /\ NoNewCall /\ NumbersOK' /\ UNCHANGED calls
         /\ stack' \in [Threads -> Seq(Frame)]
         /\ returned' \in [Threads -> [id : Nat, rc : Rcs] \cup {None}]
         /\ returned'[t].id = Top(t).id /\ returned'[t].rc = rc
         /\ \A u \in Threads : u # t => returned'[u] = returned[u]
         /\ \A u \in Threads : \A i \in 1..Len(stack'[u]) :
              /\ i \in 1..Len(stack[u]) /\ stack'[u][i] = stack[u][i]
              /\ u # t \/ i # Depth(t)
              /\ stack'[u][i].id \in Nat /\ stack'[u][i].id # Top(t).id
              /\ u = t => stack'[u][i].id < Top(t).id
<1>1. TypeOK /\ \A u \in Threads : Len(stack[u]) \in Nat
  BY StackType DEF Inv
<1>2. Depth(t) = Len(stack[t])
  BY DEF Depth
<1>3. ASSUME NEW u \in Threads, NEW i \in 1..Len(stack'[u])
      PROVE  /\ i \in 1..Len(stack[u]) /\ stack'[u][i] = stack[u][i]
             /\ u # t \/ i # Depth(t)
             /\ u = t => i \in 1..(Depth(t) - 1)
  BY <1>1, <1>2, ReturnStack
<1>4. NoNewCall
  <2>1. \A u \in Threads : Len(stack'[u]) \in Nat /\ Len(stack'[u]) <= Len(stack[u])
    BY <1>1, <1>2, ReturnStack
  <2> QED BY <1>1, <1>3, <2>1 DEF NoNewCall
<1>5. \A u \in Threads : \A i \in 1..Len(stack'[u]) :
        stack'[u][i].id # Top(t).id /\ (u = t => stack'[u][i].id < Top(t).id)
  BY <1>3, TopIs
<1>6. NumbersOK'
  <2>1. /\ returned'[t].id = Top(t).id /\ Top(t).id <= calls /\ UNCHANGED calls
        /\ \A u \in Threads : u # t => returned'[u] = returned[u]
    BY <1>1, ReturnStack, TopIs
  <2> QED BY <1>4, <1>5, <2>1, NumbersKept
<1>7. ASSUME NEW u \in Threads, NEW i \in 1..Len(stack'[u])
      PROVE  stack'[u][i].id \in Nat
  BY <1>1, <1>3, <1>7, StackType
<1> QED BY <1>1, <1>3, <1>4, <1>5, <1>6, <1>7, ReturnStack

-----------------------------------------------------------------------------
LEMMA EnterKeeps ==
  ASSUME Inv, NEW t \in Threads, NEW export \in Exports, NEW bad \in Params[export] \cup {None},
         Enter(t, export, bad)
  PROVE  Inv'
<1> USE DEF Enter, ClearLastError
<1>1. calls \in Nat /\ TypeOK
  BY DEF Inv, TypeOK
<1>2. PICK f \in Frame : f = [id |-> calls + 1, export |-> export, bad |-> bad, state |-> "checking"]
  BY <1>1 DEF Frame, Bads, States
<1>3. stack' = [stack EXCEPT ![t] = Append(@, f)]
  BY <1>2
<1>4. f.id = calls + 1 /\ calls' = calls + 1
  BY <1>2
<1>5. /\ \A u \in Threads : u # t => stack'[u] = stack[u]
      /\ Len(stack[t]) \in Nat /\ Len(stack'[t]) = Len(stack[t]) + 1
      /\ \A i \in 1..Len(stack[t]) : stack'[t][i] = stack[t][i]
      /\ stack'[t][Len(stack[t]) + 1] = f
  BY <1>1, <1>3, EnterStack
<1>6. TypeOK'
  BY <1>1, <1>3, EnterStack DEF TypeOK
(* Every call in progress was in progress before, or is the new one. *)
<1>7. ASSUME NEW u \in Threads, NEW i \in 1..Len(stack'[u])
      PROVE  \/ i \in 1..Len(stack[u]) /\ stack'[u][i] = stack[u][i]
             \/ u = t /\ i = Len(stack[t]) + 1 /\ stack'[u][i] = f
  BY <1>5
<1>8. /\ \A u \in Threads : u # t => returned'[u] = returned[u] /\ lastError'[u] = lastError[u]
      /\ returned'[t] = None /\ lastError'[t] = None
  BY <1>1 DEF TypeOK
<1>9. \A u \in Threads : \A i \in 1..Len(stack[u]) :
        stack[u][i].id \in Nat /\ stack[u][i].id <= calls
  BY StackType DEF Inv, NumbersOK
<1>10. NumbersOK'
  <2>1. \A u \in Threads : \A i \in 1..Len(stack'[u]) : stack'[u][i].id <= calls'
    BY <1>1, <1>4, <1>7, <1>9
  <2>2. ASSUME NEW u \in Threads, NEW i \in 1..Len(stack'[u]), NEW j \in 1..Len(stack'[u]), i < j
        PROVE  stack'[u][i].id < stack'[u][j].id
    <3>1. CASE j \in 1..Len(stack[u]) /\ stack'[u][j] = stack[u][j]
      <4>1. i \in 1..Len(stack[u]) /\ stack'[u][i] = stack[u][i]
        BY <1>5, <1>7, <2>2, <3>1
      <4> QED BY <2>2, <3>1, <4>1 DEF Inv, NumbersOK
    <3>2. CASE u = t /\ j = Len(stack[t]) + 1 /\ stack'[u][j] = f
      <4>1. i \in 1..Len(stack[t]) /\ stack'[t][i] = stack[t][i]
        BY <1>5, <2>2, <3>2
      <4> QED BY <1>1, <1>4, <1>9, <3>2, <4>1
    <3> QED BY <1>7, <3>1, <3>2
  <2>3. ASSUME NEW u \in Threads, NEW v \in Threads,
               NEW i \in 1..Len(stack'[u]), NEW j \in 1..Len(stack'[v]), u # v
        PROVE  stack'[u][i].id # stack'[v][j].id
    <3>1. CASE /\ i \in 1..Len(stack[u]) /\ stack'[u][i] = stack[u][i]
               /\ j \in 1..Len(stack[v]) /\ stack'[v][j] = stack[v][j]
      BY <2>3, <3>1 DEF Inv, NumbersOK
    <3>2. CASE ~(/\ i \in 1..Len(stack[u]) /\ stack'[u][i] = stack[u][i]
                 /\ j \in 1..Len(stack[v]) /\ stack'[v][j] = stack[v][j])
      BY <1>1, <1>4, <1>7, <1>9, <2>3, <3>2
    <3> QED BY <3>1, <3>2
  <2>4. ASSUME NEW u \in Threads, returned'[u] # None
        PROVE  /\ returned'[u].id <= calls'
               /\ \A v \in Threads : \A i \in 1..Len(stack'[v]) :
                    stack'[v][i].id # returned'[u].id
    <3>1. returned'[u] = returned[u] /\ returned[u].id \in Nat /\ returned[u].id <= calls
      BY <1>8, <2>4 DEF Inv, TypeOK, NumbersOK
    <3>2. ASSUME NEW v \in Threads, NEW i \in 1..Len(stack'[v])
          PROVE  stack'[v][i].id # returned[u].id
      <4>1. CASE i \in 1..Len(stack[v]) /\ stack'[v][i] = stack[v][i]
        BY <2>4, <3>1, <4>1 DEF Inv, NumbersOK
      <4>2. CASE stack'[v][i] = f
        BY <1>1, <1>4, <3>1, <4>2
      <4> QED BY <1>7, <4>1, <4>2
    <3> QED BY <1>1, <1>4, <3>1, <3>2
  <2> QED BY <2>1, <2>2, <2>3, <2>4 DEF NumbersOK
<1>11. TextIsNewer'
  BY <1>5, <1>8 DEF Inv, TextIsNewer
<1>12. EffectsOK'
  <2>1. \A n \in touched' \cup written' : n \in Nat /\ n <= calls /\ n <= calls'
    BY <1>1 DEF Inv, EffectsOK
  <2>2. ASSUME NEW u \in Threads, NEW i \in 1..Len(stack'[u])
        PROVE  /\ stack'[u][i].state = "checking" => stack'[u][i].id \notin touched'
               /\ stack'[u][i].id \notin written'
    <3>1. CASE i \in 1..Len(stack[u]) /\ stack'[u][i] = stack[u][i]
      BY <3>1 DEF Inv, EffectsOK
    <3>2. CASE stack'[u][i] = f
      BY <1>1, <1>4, <2>1, <3>2
    <3> QED BY <1>7, <3>1, <3>2
  <2> QED BY <2>1, <2>2 DEF EffectsOK
<1>13. LastErrorIsCurrent' /\ RefusedWithoutEffect'
  BY <1>8 DEF Inv, LastErrorIsCurrent, RefusedWithoutEffect
<1> QED BY <1>6, <1>10, <1>11, <1>12, <1>13 DEF Inv

LEMMA CheckArgumentsKeeps ==
  ASSUME Inv, NEW t \in Threads, CheckArguments(t)
  PROVE  Inv'
<1> USE DEF CheckArguments, SetLastError
<1>1. Depth(t) > 0 /\ Top(t).state = "checking" /\ UNCHANGED <<touched, written>>
  OBVIOUS
<1>2. /\ Depth(t) \in 1..Len(stack[t]) /\ Top(t) = stack[t][Depth(t)] /\ Top(t).id \in Nat
      /\ Top(t).id \notin touched /\ Top(t).id \notin written
  BY <1>1, TopIs, TopType DEF Inv, EffectsOK
<1>3. CASE Top(t).bad # None /\ SetLastError(t, Top(t).id) /\ Return(t, -1)
  <2>1. -1 \in Rcs
    BY DEF Rcs
  <2>2. /\ lastError' \in [Threads -> Nat \cup {None}] /\ lastError'[t] = Top(t).id
        /\ \A u \in Threads : u # t => lastError'[u] = lastError[u]
    BY <1>2, <1>3 DEF Inv, TypeOK
  <2>3. TypeOK' /\ NumbersOK'
    BY <1>1, <1>3, <2>1, <2>2, ReturnKeeps DEF Inv, TypeOK
  <2>4. TextIsNewer'
    <3>1. ASSUME NEW u \in Threads, lastError'[u] # None, NEW i \in 1..Len(stack'[u])
          PROVE  lastError'[u] > stack'[u][i].id
      <4>1. CASE u = t
        <5>1. stack'[t][i].id < Top(t).id /\ stack'[t][i].id \in Nat
          BY <1>1, <1>3, <2>1, <3>1, <4>1, ReturnKeeps
        <5> QED BY <1>2, <2>2, <4>1, <5>1
      <4>2. CASE u # t
        <5>1. i \in 1..Len(stack[u]) /\ stack'[u][i] = stack[u][i]
          BY <1>1, <1>3, <2>1, <3>1, ReturnKeeps
        <5>2. lastError[u] # None /\ lastError'[u] = lastError[u]
          BY <2>2, <3>1, <4>2
        <5> QED BY <5>1, <5>2 DEF Inv, TextIsNewer
      <4> QED BY <4>1, <4>2
    <3> QED BY <3>1 DEF TextIsNewer
  <2>5. EffectsOK'
    <3>1. \A u \in Threads : \A i \in 1..Len(stack'[u]) :
            i \in 1..Len(stack[u]) /\ stack'[u][i] = stack[u][i]
      BY <1>1, <1>3, <2>1, ReturnKeeps
    <3>2. UNCHANGED <<calls, touched, written>>
      BY <1>1, <1>3, <2>1, ReturnKeeps
    <3> QED BY <3>1, <3>2 DEF Inv, EffectsOK
  <2>6. /\ returned'[t].id = Top(t).id /\ returned'[t].rc = -1
        /\ \A u \in Threads : u # t => returned'[u] = returned[u]
    BY <1>1, <1>3, <2>1, ReturnKeeps
  <2>7. LastErrorIsCurrent'
    BY <2>2, <2>6 DEF Inv, LastErrorIsCurrent
  <2>8. RefusedWithoutEffect'
    BY <1>1, <1>2, <2>6 DEF Inv, RefusedWithoutEffect
  <2> QED BY <2>3, <2>4, <2>5, <2>7, <2>8 DEF Inv
<1>4. CASE Top(t).bad = None /\ SetState(t, "running") /\ UNCHANGED <<calls, lastError, returned>>
  <2>1. "running" \in States \ {"checking"}
    BY DEF States
  <2>2. NoNewCall /\ stack' \in [Threads -> Seq(Frame)]
    BY <1>1, <1>4, <2>1, StateKeeps
  <2>3. TypeOK' /\ NumbersOK' /\ TextIsNewer'
    BY <1>4, <2>2, NumbersKept, TextKept DEF Inv, TypeOK
  <2>4. EffectsOK'
    <3>1. \A u \in Threads : \A i \in 1..Len(stack'[u]) :
            /\ i \in 1..Len(stack[u]) /\ stack'[u][i].id = stack[u][i].id
            /\ stack'[u][i].state = "checking" => stack[u][i].state = "checking"
      BY <1>1, <1>4, <2>1, StateKeeps
    <3> QED BY <1>1, <1>4, <3>1 DEF Inv, EffectsOK
  <2>5. LastErrorIsCurrent' /\ RefusedWithoutEffect'
    BY <1>1, <1>4 DEF Inv, LastErrorIsCurrent, RefusedWithoutEffect
  <2> QED BY <2>3, <2>4, <2>5 DEF Inv
<1> QED BY <1>3, <1>4

LEMMA RunKeeps ==
  ASSUME Inv, NEW t \in Threads, Run(t)
  PROVE  Inv'
<1>1. /\ Depth(t) > 0 /\ Top(t).state = "running" /\ touched' = touched \cup {Top(t).id}
      /\ UNCHANGED <<calls, lastError, returned, written>>
      /\ UNCHANGED stack \/ SetState(t, "callback")
  BY DEF Run
<1>2. /\ Depth(t) \in 1..Len(stack[t]) /\ Top(t) = stack[t][Depth(t)]
      /\ Top(t).id \in Nat /\ Top(t).id <= calls
  BY <1>1, TopIs, TopType DEF Inv
<1>3. "callback" \in States \ {"checking"} /\ \A u \in Threads : Len(stack[u]) \in Nat
  BY StackType DEF Inv, States
<1>4. NoNewCall /\ stack' \in [Threads -> Seq(Frame)]
  <2>1. CASE UNCHANGED stack
    BY <1>3, <2>1 DEF Inv, TypeOK, NoNewCall
  <2>2. CASE SetState(t, "callback")
    BY <1>1, <1>3, <2>2, StateKeeps
  <2> QED BY <1>1, <2>1, <2>2
<1>5. TypeOK' /\ NumbersOK' /\ TextIsNewer'
  BY <1>1, <1>4, NumbersKept, TextKept DEF Inv, TypeOK
<1>6. ASSUME NEW u \in Threads, NEW i \in 1..Len(stack'[u])
      PROVE  /\ i \in 1..Len(stack[u]) /\ stack'[u][i].id = stack[u][i].id
             /\ stack'[u][i].state = "checking" =>
                  stack[u][i].state = "checking" /\ stack[u][i].id # Top(t).id
  <2>1. CASE UNCHANGED stack
    <3>1. stack[u][i].state = "checking" => u # t \/ i # Depth(t)
      BY <1>1, <1>2
    <3> QED BY <1>1, <1>6, <2>1, <3>1, TopIs
  <2>2. CASE SetState(t, "callback")
    BY <1>1, <1>3, <1>6, <2>2, StateKeeps, TopIs
  <2> QED BY <1>1, <2>1, <2>2
<1>7. EffectsOK'
  <2>1. \A n \in touched' \cup written' : n \in Nat /\ n <= calls'
    BY <1>1, <1>2 DEF Inv, EffectsOK
  <2>2. ASSUME NEW u \in Threads, NEW i \in 1..Len(stack'[u])
        PROVE  /\ stack'[u][i].state = "checking" => stack'[u][i].id \notin touched'
               /\ stack'[u][i].id \notin written'
    BY <1>1, <1>6, <2>2 DEF Inv, EffectsOK
  <2> QED BY <2>1, <2>2 DEF EffectsOK
<1>8. LastErrorIsCurrent' /\ RefusedWithoutEffect'
  BY <1>1, TopIs DEF Inv, LastErrorIsCurrent, RefusedWithoutEffect
<1> QED BY <1>5, <1>7, <1>8 DEF Inv

LEMMA CallbackReturnsKeeps ==
  ASSUME Inv, NEW t \in Threads, CallbackReturns(t)
  PROVE  Inv'
<1>1. /\ Depth(t) > 0 /\ SetState(t, "running") /\ "running" \in States \ {"checking"}
      /\ UNCHANGED <<calls, lastError, touched, written>>
  BY DEF CallbackReturns, States
<1>2. /\ returned' \in [Threads -> [id : Nat, rc : Rcs] \cup {None}] /\ returned'[t] = None
      /\ \A u \in Threads : u # t => returned'[u] = returned[u]
  BY DEF CallbackReturns, Inv, TypeOK
<1>3. NoNewCall /\ stack' \in [Threads -> Seq(Frame)]
  BY <1>1, StateKeeps
<1>4. TypeOK' /\ NumbersOK' /\ TextIsNewer'
  BY <1>1, <1>2, <1>3, NumbersKept, TextKept DEF Inv, TypeOK
<1>5. EffectsOK'
  <2>1. \A u \in Threads : \A i \in 1..Len(stack'[u]) :
          /\ i \in 1..Len(stack[u]) /\ stack'[u][i].id = stack[u][i].id
          /\ stack'[u][i].state = "checking" => stack[u][i].state = "checking"
    BY <1>1, StateKeeps
  <2> QED BY <1>1, <2>1 DEF Inv, EffectsOK
<1>6. LastErrorIsCurrent' /\ RefusedWithoutEffect'
  BY <1>1, <1>2 DEF Inv, LastErrorIsCurrent, RefusedWithoutEffect
<1> QED BY <1>4, <1>5, <1>6 DEF Inv

LEMMA SucceedKeeps ==
  ASSUME Inv, NEW t \in Threads, Succeed(t)
  PROVE  Inv'
<1>1. /\ Depth(t) > 0 /\ Return(t, 0) /\ 0 \in Rcs /\ UNCHANGED <<lastError, touched>>
      /\ written' \subseteq written \cup {Top(t).id}
  BY DEF Succeed, Rcs
<1>2. Top(t).id \in Nat /\ Top(t).id <= calls /\ (lastError[t] # None => lastError[t] > Top(t).id)
  BY <1>1, TopIs
<1>3. TypeOK' /\ NumbersOK' /\ TextIsNewer'
  BY <1>1, ReturnKeeps, TextKept DEF Inv, TypeOK
<1>4. EffectsOK'
  <2>1. \A u \in Threads : \A i \in 1..Len(stack'[u]) :
          /\ i \in 1..Len(stack[u]) /\ stack'[u][i] = stack[u][i]
          /\ stack'[u][i].id # Top(t).id
    BY <1>1, ReturnKeeps
  <2>2. UNCHANGED calls
    BY <1>1, ReturnKeeps
  <2> QED BY <1>1, <1>2, <2>1, <2>2 DEF Inv, EffectsOK
<1>5. /\ returned'[t].id = Top(t).id /\ returned'[t].rc = 0
      /\ \A u \in Threads : u # t => returned'[u] = returned[u]
  BY <1>1, ReturnKeeps
<1>6. LastErrorIsCurrent'
  BY <1>1, <1>2, <1>5 DEF Inv, LastErrorIsCurrent
<1>7. RefusedWithoutEffect'
  <2>1. ASSUME NEW u \in Threads, returned'[u] # None
        PROVE  /\ returned'[u].rc = -1 => returned'[u].id \notin touched'
               /\ returned'[u].rc # 0 => returned'[u].id \notin written'
    <3>1. CASE u = t
      BY <1>5, <3>1
    <3>2. CASE u # t
      BY <1>1, <1>5, <2>1, <3>2, TopIs DEF Inv, RefusedWithoutEffect
    <3> QED BY <3>1, <3>2
  <2> QED BY <2>1 DEF RefusedWithoutEffect
<1> QED BY <1>3, <1>4, <1>6, <1>7 DEF Inv

LEMMA FailKeeps ==
  ASSUME Inv, NEW t \in Threads, Fail(t)
  PROVE  Inv'
<1>1. PICK rc \in {-2, -3} : Return(t, rc)
  BY DEF Fail
<1>2. /\ Depth(t) > 0 /\ rc \in Rcs /\ rc # 0 /\ rc # -1 /\ UNCHANGED <<touched, written>>
      /\ Top(t).id \in Nat /\ Top(t).id \notin written
  BY <1>1, TopIs DEF Fail, Rcs
<1>3. /\ lastError' \in [Threads -> Nat \cup {None}] /\ lastError'[t] = Top(t).id
      /\ \A u \in Threads : u # t => lastError'[u] = lastError[u]
  BY <1>2 DEF Fail, SetLastError, Inv, TypeOK
<1>4. TypeOK' /\ NumbersOK'
  BY <1>1, <1>2, <1>3, ReturnKeeps DEF Inv, TypeOK
<1>5. TextIsNewer'
  <2>1. ASSUME NEW u \in Threads, lastError'[u] # None, NEW i \in 1..Len(stack'[u])
        PROVE  lastError'[u] > stack'[u][i].id
    <3>1. CASE u = t
      <4>1. stack'[t][i].id < Top(t).id /\ stack'[t][i].id \in Nat
        BY <1>1, <1>2, <2>1, <3>1, ReturnKeeps
      <4> QED BY <1>2, <1>3, <3>1, <4>1
    <3>2. CASE u # t
      BY <1>1, <1>2, <1>3, <2>1, <3>2, ReturnKeeps DEF Inv, TextIsNewer
    <3> QED BY <3>1, <3>2
  <2> QED BY <2>1 DEF TextIsNewer
<1>6. EffectsOK'
  <2>1. \A u \in Threads : \A i \in 1..Len(stack'[u]) :
          i \in 1..Len(stack[u]) /\ stack'[u][i] = stack[u][i]
    BY <1>1, <1>2, ReturnKeeps
  <2>2. UNCHANGED <<calls, touched, written>>
    BY <1>1, <1>2, ReturnKeeps
  <2> QED BY <2>1, <2>2 DEF Inv, EffectsOK
<1>7. /\ returned'[t].id = Top(t).id /\ returned'[t].rc = rc
      /\ \A u \in Threads : u # t => returned'[u] = returned[u]
  BY <1>1, <1>2, ReturnKeeps
<1>8. LastErrorIsCurrent'
  BY <1>3, <1>7 DEF Inv, LastErrorIsCurrent
<1>9. RefusedWithoutEffect'
  BY <1>2, <1>7 DEF Inv, RefusedWithoutEffect
<1> QED BY <1>4, <1>5, <1>6, <1>8, <1>9 DEF Inv

-----------------------------------------------------------------------------
LEMMA InvInit == Init => Inv
<1> SUFFICES ASSUME Init PROVE Inv
  OBVIOUS
<1> USE DEF Init
<1>1. \A t \in Threads : stack[t] = << >> /\ returned[t] = None /\ lastError[t] = None
  OBVIOUS
<1>2. TypeOK
  BY EmptySeq DEF TypeOK
<1>3. ASSUME NEW t \in Threads PROVE 1..Len(stack[t]) = {}
  <2>1. Len(stack[t]) = 0
    BY <1>1, EmptySeq
  <2> QED BY <2>1
<1>4. NumbersOK /\ TextIsNewer /\ EffectsOK
  BY <1>1, <1>3 DEF NumbersOK, TextIsNewer, EffectsOK
<1>5. LastErrorIsCurrent /\ RefusedWithoutEffect
  BY <1>1 DEF LastErrorIsCurrent, RefusedWithoutEffect
<1> QED BY <1>2, <1>4, <1>5 DEF Inv

LEMMA InvStep == Inv /\ [Next]_vars => Inv'
<1> SUFFICES ASSUME Inv, [Next]_vars PROVE Inv'
  OBVIOUS
<1>1. CASE UNCHANGED vars
  <2>1. /\ calls' = calls /\ stack' = stack /\ lastError' = lastError
        /\ returned' = returned /\ touched' = touched /\ written' = written
    BY <1>1 DEF vars
  <2>2. TypeOK' /\ TextIsNewer' /\ EffectsOK'
    BY <2>1 DEF Inv, TypeOK, TextIsNewer, EffectsOK
  <2>3. NumbersOK'
    BY <2>1 DEF Inv, NumbersOK
  <2>4. LastErrorIsCurrent' /\ RefusedWithoutEffect'
    BY <2>1 DEF Inv, LastErrorIsCurrent, RefusedWithoutEffect
  <2> QED BY <2>2, <2>3, <2>4 DEF Inv
<1>2. CASE Next
  BY <1>2, EnterKeeps, CheckArgumentsKeeps, RunKeeps, CallbackReturnsKeeps, SucceedKeeps, FailKeeps
     DEF Next
<1> QED BY <1>1, <1>2

LEMMA InvAlways == Spec => []Inv
BY InvInit, InvStep, PTL DEF Spec

(* A thread that gets an error code finds the text of just that failure:   *)
(* guarded clears the slot when a call begins and fills it when it fails,  *)
(* and neither the calls made from its callbacks, at any depth, nor other  *)
(* threads come between.                                                   *)
THEOREM LastErrorAlwaysCurrent == Spec => []LastErrorIsCurrent
<1>1. Inv => LastErrorIsCurrent
  BY DEF Inv
<1> QED BY <1>1, InvAlways, PTL

(* A call that was refused for its arguments never reaches a device, and   *)
(* one that failed never writes through the caller's pointers, then or     *)
(* later.                                                                  *)
THEOREM RefusedAlwaysWithoutEffect == Spec => []RefusedWithoutEffect
<1>1. Inv => RefusedWithoutEffect
  BY DEF Inv
<1> QED BY <1>1, InvAlways, PTL
=============================================================================
