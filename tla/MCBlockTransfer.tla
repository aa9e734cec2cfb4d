--------------------------- MODULE MCBlockTransfer ---------------------------
EXTENDS BlockTransfer

CONSTANTS d1, d2

Input(len, data) == [len |-> len, data |-> data]

(* Inputs of one and of three blocks, and one with an odd end. *)
MCFiles == {Input(2, <<d1>>), Input(6, <<d2, d1, d1>>), Input(5, <<d2, d2>>)}

Read(start, count) == [op |-> "read", start |-> start, count |-> count, verify |-> FALSE]
Write(start, count, verify) ==
  [op |-> "write", start |-> start, count |-> count, verify |-> verify]

(* Block 2 is on the flash but out of BlockLimit; block 1 corrupts.        *)
MCCalls ==
  {Read(0, None), Read(0, 2), Read(1, 1), Read(2, 2),
   Write(0, None, TRUE), Write(0, 2, TRUE), Write(1, 1, TRUE),
   Write(0, 1, FALSE), Write(0, None, FALSE), Write(7, 2, TRUE)}
=============================================================================
