---------------------------- MODULE DeviceSelect ----------------------------
(***************************************************************************)
(* Which programmer, port and medium a call ends up on: the device, medium *)
(* and serial arguments of cmd_read_nand, cmd_write_nand and cmd_info      *)
(* (commands.rs), auto_detect_device, and the choice of a serial port in   *)
(* picoflasher/usb.rs.  Programmers are plugged and unplugged, and taken   *)
(* and released by other processes, between any two steps of the call.     *)
(***************************************************************************)
EXTENDS Naturals, FiniteSets

CONSTANTS
  Ports,       \* names of serial ports
  Cu,          \* the /dev/cu name a /dev/tty name duplicates, itself for every other name
  Picos,       \* ports (by their Cu) whose USB ids or product name are a PicoFlasher's
  Candidates,  \* ports that are USB or named like a USB serial port
  Calls,       \* the requests a caller may make
  None

Usb     == {"lpc", "demon"}
Devices == Usb \cup {"pico", "jrp"}
Media   == {"nand", "emmc"}
Serials == {Cu[p] : p \in Ports}

Call == [op : {"transfer", "info"}, device : Devices \cup {None},
         media : Media, serial : Ports \cup {None}]

ASSUME PortAssumption ==
  /\ IsFiniteSet(Ports)
  /\ Cu \in [Ports -> Ports] /\ \A p \in Ports : Cu[Cu[p]] = Cu[p]
  /\ Picos \subseteq Serials /\ Candidates \subseteq Ports
  /\ {p \in Ports : Cu[p] \in Picos} \subseteq Candidates
  /\ Ports \cap Usb = {} /\ None \notin Ports \cup Devices
  /\ Calls \subseteq Call

VARIABLES
  pc,        \* where the call is
  call,      \* its arguments
  target,    \* the kind of programmer chosen, None if undecided
  port,      \* the serial port chosen
  used,      \* what the transfer runs on, None if it never started
  result,    \* "refused" when no programmer could be opened
  attached,  \* what is plugged in
  busy,      \* what other processes have open
  quiet      \* history: nothing was plugged, unplugged or taken during the call

chosen == <<target, port>>
plugs  == <<attached, busy, quiet>>
vars   == <<pc, call, chosen, used, result, plugs>>

Init ==
  /\ pc = "idle" /\ call = None /\ target = None /\ port = None
  /\ used = None /\ result = "none"
  /\ attached \in SUBSET (Serials \cup Usb) /\ busy \in SUBSET (Serials \cup Usb)
  /\ quiet = TRUE

-----------------------------------------------------------------------------
Openable(dev) == dev \in attached \ busy

(* The enumeration lists a serial device under each of its names. *)
Listed == {p \in Ports : Cu[p] \in attached}

DropTtyDuplicates(names) == {p \in names : Cu[p] = p \/ Cu[p] \notin names}

(* Mutant: of several candidates one is taken. *)
FallbackAny == DropTtyDuplicates(Listed \cap Candidates)

(* The only candidate, if there is just one. *)
SelectFallbackPort ==
  LET ports == DropTtyDuplicates(Listed \cap Candidates)
  IN  IF Cardinality(ports) = 1 THEN ports ELSE {}

(* Mutant: the USB ids are not looked at. *)
DetectPortByName == SelectFallbackPort

(* The ports that may be chosen: the first known PicoFlasher in the order  *)
(* of the enumeration, which is arbitrary, else the fallback.              *)
DetectPort ==
  LET known == DropTtyDuplicates({p \in Listed : Cu[p] \in Picos})
  IN  IF known # {} THEN known ELSE SelectFallbackPort

Refuse ==
  /\ pc' = "idle" /\ result' = "refused"
  /\ UNCHANGED <<call, chosen, used, plugs>>

Choose(device) ==
  /\ target' = device /\ pc' = "open"
  /\ UNCHANGED <<call, port, used, result, plugs>>

(* cmd_info does not detect: without a device it takes the PicoFlasher. *)
Begin(c) ==
  /\ pc = "idle"
  /\ call' = c /\ used' = None /\ result' = "none" /\ port' = None /\ quiet' = TRUE
  /\ IF c.op = "info"
     THEN pc' = "open" /\ target' = IF c.device = None THEN "pico" ELSE c.device
     ELSE pc' = "detect" /\ target' = None
  /\ UNCHANGED <<attached, busy>>

AutoDetect ==
  /\ pc = "detect"
  /\ \/ call.device = "jrp" /\ Refuse
     \/ call.device \notin {"jrp", None} /\ Choose(call.device)
     \/ /\ call.device = None
        /\ pc' = IF call.serial # None THEN "serial" ELSE "lpc"
        /\ UNCHANGED <<call, chosen, used, result, plugs>>

(* The port is opened and closed again. *)
ProbeSerial ==
  /\ pc = "serial"
  /\ \/ Openable(Cu[call.serial]) /\ Choose("pico")
     \/ /\ ~Openable(Cu[call.serial]) /\ pc' = "lpc"
        /\ UNCHANGED <<call, chosen, used, result, plugs>>

(* is_present reads descriptors only: whether another process has the      *)
(* programmer open does not show.                                          *)
ProbeLpc ==
  /\ pc = "lpc"
  /\ \/ "lpc" \in attached /\ Choose("lpc")
     \/ /\ "lpc" \notin attached /\ pc' = "demon"
        /\ UNCHANGED <<call, chosen, used, result, plugs>>

ProbeDemon ==
  /\ pc = "demon"
  /\ Choose(IF "demon" \in attached THEN "demon" ELSE "pico")

(* The port Client::connect resolves. *)
ResolvePort ==
  /\ pc = "open" /\ target = "pico"
  /\ \/ call.serial = None /\ DetectPort = {} /\ Refuse
     \/ /\ \E p \in IF call.serial # None THEN {call.serial} ELSE DetectPort : port' = p
        /\ pc' = "connect"
        /\ UNCHANGED <<call, target, used, result, plugs>>

(* The medium is that of the request with a PicoFlasher only. *)
Use(device, medium) ==
  /\ pc' = "transfer"
  /\ used' = [device |-> device, port |-> port, medium |-> medium]
  /\ UNCHANGED <<call, chosen, result, plugs>>

Connect ==
  /\ pc = "connect"
  /\ \/ Openable(Cu[port]) /\ Use("pico", call.media)
     \/ ~Openable(Cu[port]) /\ Refuse

OpenUsb ==
  /\ pc = "open" /\ target # "pico"
  /\ \/ target \in Usb /\ Openable(target) /\ Use(target, "nand")
     \/ ~(target \in Usb /\ Openable(target)) /\ Refuse

Finish ==
  /\ pc = "transfer" /\ pc' = "idle"
  /\ result' \in {"ok", "failed"}
  /\ UNCHANGED <<call, chosen, used, plugs>>

(* Somebody plugs or unplugs a programmer or serial device, or another     *)
(* process opens or closes one; what this call has open stays its own.     *)
Plug ==
  /\ \E dev \in Serials \cup Usb :
       \/ attached' \in {attached \cup {dev}, attached \ {dev}} /\ UNCHANGED busy
       \/ busy' \in {busy \cup {dev}, busy \ {dev}} /\ UNCHANGED attached
  /\ quiet' = FALSE
  /\ UNCHANGED <<pc, call, chosen, used, result>>

Next ==
  \/ \E c \in Calls : Begin(c)
  \/ AutoDetect \/ ProbeSerial \/ ProbeLpc \/ ProbeDemon
  \/ ResolvePort \/ Connect \/ OpenUsb \/ Finish \/ Plug

Spec == Init /\ [][Next]_vars

-----------------------------------------------------------------------------
(* A call that leaves the programmer open but names a port, which it can   *)
(* open, and nothing changes meanwhile.                                    *)
PortReady == /\ quiet /\ call.device = None /\ call.serial # None
             /\ Openable(Cu[call.serial])

(* A call that names a programmer runs on it or not at all.  A PicoFlasher *)
(* call that names a port runs on this port or not at all.  A named port   *)
(* is left for another programmer only if it does not open (what happens   *)
(* then is SerialHonoured).  Without a port, a serial device that is not   *)
(* known to be a PicoFlasher is taken only when it is the only candidate.  *)
TakesOnlyWhatWasMeant ==
  used # None =>
    /\ call.device # None => used.device = call.device
    /\ used.device = "pico" /\ call.serial # None => used.port = call.serial
    /\ PortReady => used.device = "pico"
    /\ used.device = "pico" /\ call.serial = None /\ quiet =>
         \/ Cu[used.port] \in Picos
         \/ \A p \in Candidates : Cu[p] \in attached => Cu[p] = Cu[used.port]

(* With programmers attached that nobody else has open, and nothing        *)
(* plugged or unplugged meanwhile, a transfer that leaves the choice to    *)
(* the program finds one, whatever other serial devices there are.         *)
Programmers == attached \cap (Usb \cup Picos)
AutoDetectFindsProgrammer ==
  quiet /\ call # None /\ call.op # "info" /\ call.device = None /\ call.serial = None
    /\ Programmers # {} /\ Programmers \cap busy = {} => result # "refused"

(* What the arguments are documented to say: a request for the eMMC is     *)
(* never carried out on a NAND, or the other way round, and a port is      *)
(* detected only when it is omitted.  The code keeps neither without -d:   *)
(* both arguments are for a PicoFlasher, and LPC or DemoN drop them.       *)
MediumHonoured ==
  used # None /\ call.op = "transfer" => used.medium = call.media

SerialHonoured ==
  used # None /\ call.serial # None /\ call.device = None =>
    used.device = "pico" /\ used.port = call.serial

ArgumentsHonoured == MediumHonoured /\ SerialHonoured
=============================================================================
