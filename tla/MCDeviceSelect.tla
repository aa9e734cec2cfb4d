--------------------------- MODULE MCDeviceSelect ---------------------------
EXTENDS DeviceSelect

CONSTANTS cu1, tty1, acm, usb0

MCPorts == {cu1, tty1, acm, usb0}

(* A PicoFlasher under two names and two serial devices of another kind. *)
MCCu == [p \in MCPorts |-> IF p = tty1 THEN cu1 ELSE p]

Transfer(device, media, serial) ==
  [op |-> "transfer", device |-> device, media |-> media, serial |-> serial]

(* With and without a device and a port, for both media. *)
MCCalls ==
  {Transfer(None, "nand", p) : p \in {None, tty1, acm}}
    \cup {Transfer(d, "nand", None) : d \in Devices}
    \cup {Transfer("pico", "emmc", tty1), Transfer(None, "emmc", None)}
    \cup {[Transfer(d, "nand", None) EXCEPT !.op = "info"] : d \in {None, "demon"}}

(* A medium and a port, and no device. *)
ArgumentCalls == {Transfer(None, "emmc", tty1)}
=============================================================================
