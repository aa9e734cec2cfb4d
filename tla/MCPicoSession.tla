---------------------------- MODULE MCPicoSession ----------------------------
EXTENDS PicoSession

CONSTANTS d1, d2, zero, err, version, config, bigConfig

MCWord == {zero, err, version, config, bigConfig, d1, d2}
MCConfigWords == {config, bigConfig, zero}

(* Of a device of DeviceBlocks blocks, config tells the size, bigConfig    *)
(* claims a block too many, and every other word tells no size.            *)
MCNandSize == [w \in MCWord |-> CASE w = config    -> DeviceBlocks
                                  [] w = bigConfig -> DeviceBlocks + 1
                                  [] OTHER         -> None]
MCSecCount == [w \in MCWord |-> CASE w = config    -> DeviceBlocks
                                  [] w = bigConfig -> DeviceBlocks + 1
                                  [] OTHER         -> 0]

Read(media, start, count) ==
  [op |-> "read", media |-> media, start |-> start, count |-> count,
   verify |-> FALSE, inputLen |-> 0, file |-> << >>]
Write(media, start, count, verify, file) ==
  [op |-> "write", media |-> media, start |-> start, count |-> count,
   verify |-> verify, inputLen |-> BlockBytes * Len(file), file |-> file]

(* Reads and verified and unverified writes, with and without an explicit  *)
(* count, in range and past the end.                                       *)
MixedCalls ==
  {Read("nand", 0, None), Read("nand", 1, 2), Read("emmc", 1, None),
   Write("nand", 0, None, TRUE, <<d1, d2>>), Write("nand", 1, 1, FALSE, <<d2, d1>>),
   Write("nand", 0, None, FALSE, <<d1, d2>>), Write("emmc", 1, None, FALSE, <<d1>>),
   Write("emmc", 0, 2, TRUE, <<d2, d1>>)}

(* Writes to NAND without read-back: every answer on the line is a u32, so *)
(* that late answers stay aligned and the model of them is exact.          *)
UnverifiedCalls ==
  {Write("nand", 0, 1, FALSE, <<d1>>), Write("nand", 0, None, FALSE, <<d2, d1>>)}

(* A read and a verified write, in turn.                                   *)
ReadAndWrite ==
  {Read("nand", 0, None), Write("nand", 0, None, TRUE, <<d2, d1>>)}

(* One verified write, run again and again.                                *)
Reruns == {Write("nand", 0, None, TRUE, <<d2, d1>>)}
=============================================================================
