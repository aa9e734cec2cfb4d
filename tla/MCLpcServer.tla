----------------------------- MODULE MCLpcServer -----------------------------
EXTENDS LpcServer

CONSTANTS d1, d2

Plain(cmd) == [cmd |-> cmd, lba |-> 0, data |-> d1, whole |-> FALSE]
Read(lba) == [cmd |-> "read", lba |-> lba, data |-> d1, whole |-> FALSE]
Write(lba, data, whole) == [cmd |-> "write", lba |-> lba, data |-> data, whole |-> whole]

(* Reads and writes in and out of range, and all that is no such request. *)
AllRequests ==
  {Plain("bad"), Plain("ignored"), Plain("other"),
   Read(0), Write(0, d2, TRUE), Write(0, d1, FALSE), Write(DeviceBlocks, d1, TRUE)}

ReadsAndWrites == {Read(0), Write(0, d1, TRUE), Write(0, d2, TRUE)}
=============================================================================
