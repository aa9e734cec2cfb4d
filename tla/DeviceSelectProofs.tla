------------------------- MODULE DeviceSelectProofs -------------------------
(***************************************************************************)
(* Proofs about DeviceSelect, for every finite set of ports, every naming  *)
(* of them and every set of PicoFlashers and candidates.                   *)
(***************************************************************************)
EXTENDS DeviceSelect, FiniteSetTheorems, TLAPS

(* The variables have their types. *)
TypeOK ==
  /\ pc \in {"idle", "detect", "serial", "lpc", "demon", "open", "connect", "transfer"}
  /\ call \in Calls \cup {None}
  /\ target \in Devices \cup {None}
  /\ port \in Ports \cup {None}
  /\ used \in [device : Devices, port : Ports \cup {None}, medium : Media] \cup {None}
  /\ attached \subseteq Serials \cup Usb
  /\ quiet \in BOOLEAN

(* The port a PicoFlasher call without a port may take. *)
Meant(p) ==
  \/ Cu[p] \in Picos
  \/ \A q \in Candidates : Cu[q] \in attached => Cu[q] = Cu[p]

(* What is known of the arguments and the choice at each point of a call.  *)
CourseOK ==
  /\ pc # "idle" \/ used # None => call \in Calls
  /\ pc \notin {"idle", "transfer"} => used = None
  /\ pc \in {"serial", "lpc", "demon"} => call.device = None
  /\ pc = "serial" => call.serial # None
  /\ pc \in {"lpc", "demon"} => ~PortReady
  /\ pc \in {"open", "connect"} =>
       /\ target \in Devices /\ (call.device # None => target = call.device)
       /\ PortReady => target = "pico"
  /\ pc = "connect" =>
       /\ target = "pico" /\ port \in Ports
       /\ call.serial # None => port = call.serial
       /\ call.serial = None /\ quiet => Meant(port)

(* The caller leaves the choice to the program, nothing changes and every  *)
(* programmer attached can be opened.                                      *)
Undisturbed ==
  /\ quiet /\ call # None /\ call.op # "info" /\ call.device = None /\ call.serial = None
  /\ Programmers # {} /\ Programmers \cap busy = {}

(* Then the search is on its way to one of them. *)
SearchOK == Undisturbed =>
  /\ pc = "demon" => "lpc" \notin attached
  /\ pc = "open" => target \in Usb \cap attached \/ (target = "pico" /\ Usb \cap attached = {})
  /\ pc = "connect" => Cu[port] \in Picos \cap attached
  /\ result # "refused"

Inv == TypeOK /\ CourseOK /\ SearchOK /\ TakesOnlyWhatWasMeant

-----------------------------------------------------------------------------
LEMMA CallType ==
  ASSUME NEW c \in Calls
  PROVE  /\ c \in Call /\ c.op \in {"transfer", "info"} /\ c.device \in Devices \cup {None}
         /\ c.media \in Media /\ c.serial \in Ports \cup {None}
BY PortAssumption DEF Call

(* A name and the name it duplicates are ports of one device. *)
LEMMA CuType ==
  /\ \A p \in Ports : Cu[p] \in Ports /\ Cu[p] \in Serials /\ Cu[Cu[p]] = Cu[p]
  /\ \A s \in Serials : s \in Ports /\ Cu[s] = s
BY PortAssumption DEF Serials

(* Only one candidate is left when the duplicates are dropped: every other *)
(* candidate attached is another name of it.                               *)
LEMMA SingleCandidate ==
  ASSUME NEW p \in SelectFallbackPort
  PROVE  p \in Ports /\ \A q \in Candidates : Cu[q] \in attached => Cu[q] = Cu[p]
<1> DEFINE names == Listed \cap Candidates
           ports == DropTtyDuplicates(names)
<1>1. names \subseteq Ports /\ ports \subseteq names
  BY DEF Listed, DropTtyDuplicates
<1>2. IsFiniteSet(ports)
  BY <1>1, FS_Subset, PortAssumption
<1>3. Cardinality(ports) = 1 /\ p \in ports
  BY DEF SelectFallbackPort
<1>4. PICK x : ports = {x}
  BY <1>2, <1>3, FS_Singleton
<1>5. ASSUME NEW q \in Candidates, Cu[q] \in attached
      PROVE  Cu[q] = Cu[p]
  <2>1. q \in names /\ q \in Ports
    BY <1>5, PortAssumption DEF Listed
  <2>2. CASE Cu[q] = q \/ Cu[q] \notin names
    <3>1. q \in ports
      BY <2>1, <2>2 DEF DropTtyDuplicates
    <3> QED BY <1>3, <1>4, <3>1
  <2>3. CASE Cu[q] \in names
    <3>1. Cu[q] \in ports
      BY <2>1, <2>3, CuType DEF DropTtyDuplicates
    <3> QED BY <1>3, <1>4, <2>1, <3>1, CuType
  <2> QED BY <2>2, <2>3
<1> QED BY <1>1, <1>3, <1>5

LEMMA DetectPortMeant ==
  ASSUME NEW p \in DetectPort
  PROVE  p \in Ports /\ Meant(p)
<1> DEFINE known == DropTtyDuplicates({q \in Listed : Cu[q] \in Picos})
<1>1. CASE known # {}
  <2>1. p \in known
    BY <1>1 DEF DetectPort
  <2> QED BY <2>1 DEF DropTtyDuplicates, Listed, Meant
<1>2. CASE known = {}
  <2>1. p \in SelectFallbackPort
    BY <1>2 DEF DetectPort
  <2> QED BY <2>1, SingleCandidate DEF Meant
<1> QED BY <1>1, <1>2

(* With a PicoFlasher attached the fallback is not needed, and the port    *)
(* taken is that of a PicoFlasher.                                         *)
LEMMA DetectPortKnown ==
  ASSUME Picos \cap attached # {}
  PROVE  DetectPort # {} /\ \A p \in DetectPort : Cu[p] \in Picos \cap attached
<1> DEFINE all   == {q \in Listed : Cu[q] \in Picos}
           known == DropTtyDuplicates(all)
<1>1. PICK s \in Picos : s \in attached
  OBVIOUS
<1>2. s \in Ports /\ Cu[s] = s
  BY CuType, PortAssumption
<1>3. s \in all
  BY <1>1, <1>2 DEF Listed
<1>4. s \in known
  BY <1>2, <1>3 DEF DropTtyDuplicates
<1>5. DetectPort = known
  BY <1>4 DEF DetectPort
<1>6. \A p \in known : Cu[p] \in Picos \cap attached
  BY DEF DropTtyDuplicates, Listed
<1> QED BY <1>4, <1>5, <1>6

-----------------------------------------------------------------------------
LEMMA InvInit == Init => Inv
<1> SUFFICES ASSUME Init PROVE Inv
  OBVIOUS
<1>1. TypeOK
  BY DEF Init, TypeOK
<1>2. CourseOK
  BY DEF Init, CourseOK
<1>3. SearchOK
  BY DEF Init, SearchOK, Undisturbed
<1>4. TakesOnlyWhatWasMeant
  BY DEF Init, TakesOnlyWhatWasMeant
<1> QED BY <1>1, <1>2, <1>3, <1>4 DEF Inv

LEMMA BeginKeeps ==
  ASSUME Inv, NEW c \in Calls, Begin(c)
  PROVE  Inv'
<1>1. c.op \in {"transfer", "info"} /\ c.device \in Devices \cup {None}
  BY CallType
<1>2. /\ call' = c /\ used' = None /\ result' = "none" /\ port' = None /\ quiet' = TRUE
      /\ UNCHANGED <<attached, busy>>
      /\ pc' = IF c.op = "info" THEN "open" ELSE "detect"
      /\ target' = IF c.op = "info" THEN IF c.device = None THEN "pico" ELSE c.device ELSE None
  BY DEF Begin
<1>3. target' \in Devices \cup {None} /\ (pc' = "open" => target' \in Devices)
  BY <1>1, <1>2 DEF Devices
<1>4. TypeOK'
  BY <1>2, <1>3 DEF Inv, TypeOK
<1>5. CourseOK'
  BY <1>2, <1>3 DEF CourseOK, PortReady
<1>6. SearchOK'
  BY <1>2 DEF SearchOK, Undisturbed
<1>7. TakesOnlyWhatWasMeant'
  BY <1>2 DEF TakesOnlyWhatWasMeant
<1> QED BY <1>4, <1>5, <1>6, <1>7 DEF Inv

(* A call is refused: this is the step the search must not come to. *)
LEMMA RefuseKeeps ==
  ASSUME Inv, Refuse, pc \notin {"idle", "transfer"}, ~Undisturbed
  PROVE  Inv'
<1>1. /\ pc' = "idle" /\ used = None
      /\ UNCHANGED <<call, target, port, used, attached, busy, quiet>>
  BY DEF Refuse, chosen, plugs, Inv, CourseOK
<1>2. TypeOK' /\ CourseOK'
  BY <1>1 DEF Inv, TypeOK, CourseOK, PortReady, Openable
<1>3. SearchOK'
  BY <1>1 DEF SearchOK, Undisturbed, Programmers
<1>4. TakesOnlyWhatWasMeant'
  BY <1>1 DEF TakesOnlyWhatWasMeant
<1> QED BY <1>2, <1>3, <1>4 DEF Inv

(* A programmer is chosen. *)
LEMMA ChooseKeeps ==
  ASSUME Inv, NEW d \in Devices, Choose(d), pc \notin {"idle", "transfer"},
         call.device # None => d = call.device, PortReady => d = "pico",
         Undisturbed => d \in Usb \cap attached \/ (d = "pico" /\ Usb \cap attached = {})
  PROVE  Inv'
<1>1. /\ pc' = "open" /\ target' = d /\ used = None
      /\ UNCHANGED <<call, port, used, result, attached, busy, quiet>>
  BY DEF Choose, plugs, Inv, CourseOK
<1>2. TypeOK' /\ CourseOK'
  BY <1>1 DEF Inv, TypeOK, CourseOK, PortReady, Openable
<1>3. SearchOK'
  BY <1>1 DEF Inv, SearchOK, Undisturbed, Programmers
<1>4. TakesOnlyWhatWasMeant'
  BY <1>1 DEF TakesOnlyWhatWasMeant
<1> QED BY <1>2, <1>3, <1>4 DEF Inv

(* The search goes on. *)
LEMMA ProbeKeeps ==
  ASSUME Inv, pc \notin {"idle", "transfer"}, call.device = None,
         pc' \in {"serial", "lpc", "demon"},
         pc' = "serial" => call.serial # None,
         pc' \in {"lpc", "demon"} => ~PortReady,
         pc' = "demon" => "lpc" \notin attached,
         UNCHANGED <<call, chosen, used, result, plugs>>
  PROVE  Inv'
<1>1. used = None /\ UNCHANGED <<call, target, port, used, result, attached, busy, quiet>>
  BY DEF chosen, plugs, Inv, CourseOK
<1>2. TypeOK' /\ CourseOK'
  BY <1>1 DEF Inv, TypeOK, CourseOK, PortReady, Openable
<1>3. SearchOK'
  BY <1>1 DEF Inv, SearchOK, Undisturbed, Programmers
<1>4. TakesOnlyWhatWasMeant'
  BY <1>1 DEF TakesOnlyWhatWasMeant
<1> QED BY <1>2, <1>3, <1>4 DEF Inv

LEMMA AutoDetectKeeps == Inv /\ AutoDetect => Inv'
<1> SUFFICES ASSUME Inv, AutoDetect PROVE Inv'
  OBVIOUS
<1>1. pc = "detect" /\ call \in Calls /\ call.device \in Devices \cup {None} /\ None \notin Devices
  BY CallType, PortAssumption DEF AutoDetect, Inv, CourseOK
<1>2. CASE call.device = "jrp" /\ Refuse
  BY <1>1, <1>2, RefuseKeeps DEF Undisturbed, Devices
<1>3. CASE call.device \notin {"jrp", None} /\ Choose(call.device)
  BY <1>1, <1>3, ChooseKeeps DEF Undisturbed, PortReady
<1>4. CASE /\ call.device = None
           /\ pc' = IF call.serial # None THEN "serial" ELSE "lpc"
           /\ UNCHANGED <<call, chosen, used, result, plugs>>
  BY <1>1, <1>4, ProbeKeeps DEF PortReady
<1> QED BY <1>2, <1>3, <1>4 DEF AutoDetect

LEMMA ProbeSerialKeeps == Inv /\ ProbeSerial => Inv'
<1> SUFFICES ASSUME Inv, ProbeSerial PROVE Inv'
  OBVIOUS
<1>1. pc = "serial" /\ call.device = None /\ call.serial # None /\ "pico" \in Devices
  BY DEF ProbeSerial, Inv, CourseOK, Devices
<1>2. CASE Choose("pico")
  BY <1>1, <1>2, ChooseKeeps DEF Undisturbed
<1>3. CASE /\ ~Openable(Cu[call.serial]) /\ pc' = "lpc"
           /\ UNCHANGED <<call, chosen, used, result, plugs>>
  BY <1>1, <1>3, ProbeKeeps DEF PortReady
<1> QED BY <1>2, <1>3 DEF ProbeSerial

LEMMA ProbeLpcKeeps == Inv /\ ProbeLpc => Inv'
<1> SUFFICES ASSUME Inv, ProbeLpc PROVE Inv'
  OBVIOUS
<1>1. pc = "lpc" /\ call.device = None /\ ~PortReady /\ "lpc" \in Devices /\ "lpc" \in Usb
  BY DEF ProbeLpc, Inv, CourseOK, Devices, Usb
<1>2. CASE "lpc" \in attached /\ Choose("lpc")
  BY <1>1, <1>2, ChooseKeeps
<1>3. CASE "lpc" \notin attached /\ pc' = "demon" /\ UNCHANGED <<call, chosen, used, result, plugs>>
  BY <1>1, <1>3, ProbeKeeps
<1> QED BY <1>2, <1>3 DEF ProbeLpc

LEMMA ProbeDemonKeeps == Inv /\ ProbeDemon => Inv'
<1> SUFFICES ASSUME Inv, ProbeDemon PROVE Inv'
  OBVIOUS
<1>1. pc = "demon" /\ call.device = None /\ ~PortReady
  BY DEF ProbeDemon, Inv, CourseOK
<1>2. Undisturbed => "lpc" \notin attached
  BY <1>1 DEF Inv, SearchOK
<1>3. CASE "demon" \in attached /\ Choose("demon")
  <2>1. "demon" \in Devices /\ "demon" \in Usb
    BY DEF Devices, Usb
  <2> QED BY <1>1, <1>3, <2>1, ChooseKeeps
<1>4. CASE "demon" \notin attached /\ Choose("pico")
  <2>1. "pico" \in Devices /\ (Undisturbed => Usb \cap attached = {})
    BY <1>2, <1>4 DEF Devices, Usb
  <2> QED BY <1>1, <1>4, <2>1, ChooseKeeps
<1> QED BY <1>3, <1>4 DEF ProbeDemon

LEMMA ResolvePortKeeps == Inv /\ ResolvePort => Inv'
<1> SUFFICES ASSUME Inv, ResolvePort PROVE Inv'
  OBVIOUS
<1>1. /\ pc = "open" /\ target = "pico" /\ call \in Calls
      /\ call.serial \in Ports \cup {None} /\ used = None
  BY CallType DEF ResolvePort, Inv, CourseOK
(* The search comes here only with a PicoFlasher attached. *)
<1>2. Undisturbed => Picos \cap attached # {}
  <2>1. "pico" \notin Usb
    BY DEF Usb
  <2> QED BY <1>1, <2>1 DEF Inv, SearchOK, Undisturbed, Programmers
<1>3. CASE call.serial = None /\ DetectPort = {} /\ Refuse
  BY <1>1, <1>2, <1>3, DetectPortKnown, RefuseKeeps
<1>4. CASE /\ \E p \in IF call.serial # None THEN {call.serial} ELSE DetectPort : port' = p
           /\ pc' = "connect"
           /\ UNCHANGED <<call, target, used, result, plugs>>
  <2>1. UNCHANGED <<call, target, used, result, attached, busy, quiet>>
    BY <1>4 DEF plugs
  <2>2. IF call.serial # None THEN port' = call.serial ELSE port' \in DetectPort
    BY <1>4
  <2>3. port' \in Ports /\ (call.serial = None => Meant(port'))
    BY <1>1, <2>2, DetectPortMeant
  <2>4. TypeOK'
    BY <1>4, <2>1, <2>3 DEF Inv, TypeOK
  <2>5. call'.serial = None /\ quiet' => Meant(port)'
    BY <2>1, <2>3 DEF Meant
  <2>6. CourseOK'
    BY <1>1, <1>4, <2>1, <2>2, <2>3, <2>5 DEF Inv, CourseOK, PortReady
  <2>7. SearchOK'
    <3>1. Undisturbed' => Undisturbed
      BY <2>1 DEF Undisturbed, Programmers
    <3>2. Undisturbed => call.serial = None /\ result # "refused"
      BY DEF Inv, SearchOK, Undisturbed
    <3>3. Undisturbed => Cu[port'] \in Picos \cap attached
      BY <1>2, <2>2, <3>2, DetectPortKnown
    <3> QED BY <1>4, <2>1, <3>1, <3>2, <3>3 DEF SearchOK
  <2>8. TakesOnlyWhatWasMeant'
    BY <1>1, <2>1 DEF TakesOnlyWhatWasMeant
  <2> QED BY <2>4, <2>6, <2>7, <2>8 DEF Inv
<1> QED BY <1>3, <1>4 DEF ResolvePort

(* The programmer chosen is used. *)
LEMMA UseKeeps ==
  ASSUME Inv, pc \in {"open", "connect"}, NEW d \in Devices, NEW m \in Media, Use(d, m),
         d = target, pc = "open" => d # "pico"
  PROVE  Inv'
<1>1. call \in Calls /\ (call.device # None => target = call.device)
  BY DEF Inv, CourseOK
<1>2. pc' = "transfer" /\ UNCHANGED <<call, target, port, result, attached, busy, quiet>>
  BY DEF Use, chosen, plugs
<1>3. port \in Ports \cup {None}
  BY DEF Inv, TypeOK
<1>4. used' = [device |-> d, port |-> port, medium |-> m]
  BY DEF Use
<1>5. used'.device = d /\ used'.port = port /\ used' \in [device : Devices, port : Ports \cup {None}, medium : Media]
  BY <1>3, <1>4
<1>6. TypeOK' /\ CourseOK'
  BY <1>1, <1>2, <1>5 DEF Inv, TypeOK, CourseOK
<1>7. SearchOK'
  BY <1>2 DEF Inv, SearchOK, Undisturbed, Programmers
<1>8. TakesOnlyWhatWasMeant'
  <2>1. call.device # None => used'.device = call.device
    BY <1>1, <1>5
  <2>2. used'.device = "pico" => pc = "connect"
    BY <1>5
  <2>3. used'.device = "pico" /\ call.serial # None => used'.port = call.serial
    BY <1>5, <2>2 DEF Inv, CourseOK
  <2>4. used'.device = "pico" /\ call.serial = None /\ quiet => Meant(used'.port)
    BY <1>5, <2>2 DEF Inv, CourseOK
  <2>5. PortReady' => used'.device = "pico"
    BY <1>2, <1>5 DEF Inv, CourseOK, PortReady, Openable
  <2> QED BY <1>2, <2>1, <2>3, <2>4, <2>5 DEF TakesOnlyWhatWasMeant, Meant
<1> QED BY <1>6, <1>7, <1>8 DEF Inv

LEMMA ConnectKeeps == Inv /\ Connect => Inv'
<1> SUFFICES ASSUME Inv, Connect PROVE Inv'
  OBVIOUS
<1>1. pc = "connect" /\ target = "pico" /\ "pico" \in Devices /\ call.media \in Media
  BY CallType DEF Connect, Inv, CourseOK, Devices
<1>2. CASE Use("pico", call.media)
  BY <1>1, <1>2, UseKeeps
<1>3. CASE ~Openable(Cu[port]) /\ Refuse
  <2>1. Undisturbed => Cu[port] \in Programmers \ busy
    BY <1>1 DEF Inv, SearchOK, Undisturbed, Programmers
  <2>2. ~Undisturbed
    BY <1>3, <2>1 DEF Openable, Programmers
  <2> QED BY <1>1, <1>3, <2>2, RefuseKeeps
<1> QED BY <1>2, <1>3 DEF Connect

LEMMA OpenUsbKeeps == Inv /\ OpenUsb => Inv'
<1> SUFFICES ASSUME Inv, OpenUsb PROVE Inv'
  OBVIOUS
<1>1. pc = "open" /\ target # "pico" /\ "nand" \in Media /\ Usb \subseteq Devices
  BY DEF OpenUsb, Media, Devices
<1>2. CASE target \in Usb /\ Use(target, "nand")
  BY <1>1, <1>2, UseKeeps
<1>3. CASE ~(target \in Usb /\ Openable(target)) /\ Refuse
  <2>1. Undisturbed => target \in Usb \cap Programmers
    BY <1>1 DEF Inv, SearchOK, Programmers
  <2>2. ~Undisturbed
    BY <1>3, <2>1 DEF Openable, Programmers, Undisturbed
  <2> QED BY <1>1, <1>3, <2>2, RefuseKeeps
<1> QED BY <1>2, <1>3 DEF OpenUsb

LEMMA FinishKeeps == Inv /\ Finish => Inv'
<1> SUFFICES ASSUME Inv, Finish PROVE Inv'
  OBVIOUS
<1>1. /\ pc = "transfer" /\ pc' = "idle" /\ result' \in {"ok", "failed"}
      /\ UNCHANGED <<call, target, port, used, attached, busy, quiet>>
  BY DEF Finish, chosen, plugs
<1>2. TypeOK' /\ CourseOK'
  BY <1>1 DEF Inv, TypeOK, CourseOK, PortReady, Openable
<1>3. SearchOK'
  BY <1>1 DEF SearchOK
<1>4. TakesOnlyWhatWasMeant'
  BY <1>1 DEF Inv, TakesOnlyWhatWasMeant, PortReady, Openable
<1> QED BY <1>2, <1>3, <1>4 DEF Inv

(* Plugging and unplugging ends what the two properties speak of, except   *)
(* that the arguments still hold.                                          *)
LEMMA PlugKeeps == Inv /\ Plug => Inv'
<1> SUFFICES ASSUME Inv, Plug PROVE Inv'
  OBVIOUS
<1>1. ~quiet' /\ quiet' = FALSE /\ UNCHANGED <<pc, call, target, port, used, result>>
  BY DEF Plug, chosen
<1>2. attached' \subseteq Serials \cup Usb
  BY DEF Plug, Inv, TypeOK
<1>3. TypeOK' /\ CourseOK'
  BY <1>1, <1>2 DEF Inv, TypeOK, CourseOK, PortReady, Openable
<1>4. SearchOK' 
  BY <1>1 DEF SearchOK, Undisturbed
<1>5. TakesOnlyWhatWasMeant'
  BY <1>1 DEF Inv, TakesOnlyWhatWasMeant, PortReady, Openable
<1> QED BY <1>3, <1>4, <1>5 DEF Inv

LEMMA InvStep == Inv /\ [Next]_vars => Inv'
<1> SUFFICES ASSUME Inv, [Next]_vars PROVE Inv'
  OBVIOUS
<1>1. CASE UNCHANGED vars
  <2>1. UNCHANGED <<pc, call, target, port, used, result, attached, busy, quiet>>
    BY <1>1 DEF vars, chosen, plugs
  <2>2. TypeOK' /\ CourseOK'
    BY <2>1 DEF Inv, TypeOK, CourseOK, Meant, PortReady, Openable
  <2>3. SearchOK'
    BY <2>1 DEF Inv, SearchOK, Undisturbed, Programmers
  <2>4. TakesOnlyWhatWasMeant'
    BY <2>1 DEF Inv, TakesOnlyWhatWasMeant, PortReady, Openable
  <2> QED BY <2>2, <2>3, <2>4 DEF Inv
<1>2. CASE Next
  BY <1>2, BeginKeeps, AutoDetectKeeps, ProbeSerialKeeps, ProbeLpcKeeps, ProbeDemonKeeps,
     ResolvePortKeeps, ConnectKeeps, OpenUsbKeeps, FinishKeeps, PlugKeeps DEF Next
<1> QED BY <1>1, <1>2

LEMMA InvAlways == Spec => []Inv
BY InvInit, InvStep, PTL DEF Spec

(* A call that names a programmer runs on it or not at all; a named port   *)
(* is the one used when a PicoFlasher is, and is left for LPC or DemoN     *)
(* only if it does not open; and select_fallback_port takes an unknown     *)
(* serial device only when no other candidate is attached, under whatever  *)
(* names the ports are listed.                                             *)
THEOREM TakesAlwaysWhatWasMeant == Spec => []TakesOnlyWhatWasMeant
<1>1. Inv => TakesOnlyWhatWasMeant
  BY DEF Inv
<1> QED BY <1>1, InvAlways, PTL

(* The cascade of auto_detect_device ends on a programmer that is there    *)
(* and can be opened, whichever of them are attached and whatever other    *)
(* serial devices there are, if nothing changes while it looks.            *)
THEOREM AutoDetectAlwaysFinds == Spec => []AutoDetectFindsProgrammer
<1>1. Inv => AutoDetectFindsProgrammer
  BY DEF Inv, SearchOK, Undisturbed, AutoDetectFindsProgrammer
<1> QED BY <1>1, InvAlways, PTL
=============================================================================
