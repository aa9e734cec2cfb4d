----------------------------- MODULE MCPlanning -----------------------------
(***************************************************************************)
(* The computations a transfer starts with, each on every input of a small *)
(* set: a planning request of a small u32, the flash config an LPC or      *)
(* PicoFlasher programmer reports, the flash id a DemoN programmer reports. *)
(***************************************************************************)
EXTENDS Ranges, FlashConfig, DemonChips, FiniteSets

CONSTANTS BlockBytes, MaxInputLen, Pending

ASSUME PlanningAssumption == BlockBytes \in Nat \ {0} /\ MaxInputLen \in Nat

VARIABLES kind, request, outcome

Requests ==
  [op : {"read"}, inputLen : {0}, start : U32, count : OptU32, total : OptU32]
    \cup
  [op : {"write"}, inputLen : 0..MaxInputLen, start : U32, count : OptU32, total : OptU32]

(* Two manufacturers, every device. *)
FlashIds == {256 * manufacturer + device : manufacturer \in {152, 236}, device \in 0..255}

Init ==
  /\ outcome = Pending
  /\ \/ kind = "range" /\ request \in Requests
     \/ kind = "config" /\ request \in Raw
     \/ kind = "chip" /\ request \in FlashIds

Answer(k, result) ==
  /\ kind = k /\ outcome = Pending
  /\ outcome' = result
  /\ UNCHANGED <<kind, request>>

Plan ==
  Answer("range", IF request.op = "read"
                  THEN PlanRead(request.start, request.count, request.total)
                  ELSE PlanWrite(BlockBytes, request.inputLen, request.start,
                                 request.count, request.total))

ParseConfig == Answer("config", Parse(request))

LookUp == Answer("chip", NandDeviceById(request))

Next == Plan \/ ParseConfig \/ LookUp

Spec == Init /\ [][Next]_<<kind, request, outcome>>

-----------------------------------------------------------------------------
Granted == kind = "range" /\ outcome \notin {Pending, None}

(* The block number the transfer loops compute for the i-th block, as u32. *)
Lba(i) == (request.start + i) % (U32Max + 1)

(* A granted plan can be carried out: start + i never wraps in the loops    *)
(* of pico_read, pico_write, read_blocks and write_blocks, every block lies *)
(* on the device when its size is known, and the input has data for it.     *)
PlanIsSafe ==
  Granted =>
    /\ outcome \in U32
    /\ \A i \in 0..(outcome - 1) :
         /\ Lba(i) = request.start + i
         /\ request.total # None => Lba(i) < request.total
         /\ request.op = "write" => (i + 1) * BlockBytes <= request.inputLen

(* The counts a caller may mean by the request: the explicit one, else all  *)
(* of the device from start, else all of an input made of whole blocks; the *)
(* device has U32Max blocks at most.                                        *)
Meant ==
  LET device == 0..((IF request.total = None THEN U32Max ELSE request.total) - 1)
      input  == {i \in 0..MaxInputLen : (i + 1) * BlockBytes <= request.inputLen}
  IN  {n \in U32 :
         /\ {request.start + i : i \in 0..(n - 1)} \subseteq device
         /\ request.total # None => request.start \in device
         /\ request.count # None => n = request.count
         /\ request.op = "read" /\ request.count = None =>
              /\ request.total # None
              /\ n = Cardinality({b \in device : b >= request.start})
         /\ request.op = "write" =>
              /\ BlockBytes * Cardinality(input) = request.inputLen
              /\ Cardinality(input) <= U32Max
              /\ n <= Cardinality(input)
              /\ request.count = None => n = Cardinality(input)}

(* plan_read and plan_write refuse nothing that could be done and do all    *)
(* that was meant: the plan is the one meaning of the request, and it is    *)
(* refused only when the request has none.                                  *)
PlanIsExact ==
  kind = "range" /\ outcome # Pending =>
    Meant = (IF outcome = None THEN {} ELSE {outcome})

-----------------------------------------------------------------------------
Parsed == kind = "config" /\ outcome \notin {Pending, Unsupported}

(* Both large-block layouts of a controller of type 2 describe the same    *)
(* capacity, 2^(lo + hi) times 8 MiB, whatever the size of their blocks;   *)
(* the small-block layouts have 16, 32 or 64 MiB.  1 MiB of data is 64     *)
(* blocks of 0x20 pages.                                                   *)
CapacityFollowsFields ==
  Parsed =>
    IF request.ct = 2 /\ request.bt \in {2, 3}
    THEN SizeSmallBlocks(outcome) = 2 ^ (request.lo + request.hi) * 8 * 64
    ELSE SizeSmallBlocks(outcome) \in {mib * 64 : mib \in {16, 32, 64}}

(* The two programmers agree on the size of a NAND whose pages a u32 can   *)
(* count: PicoFlasher's pages are the 0x20-page blocks of the LPC geometry,*)
(* and there is at least one.  Nothing is said of the one larger size that *)
(* the fields can express, whose 2^32 pages the conversion to u32 loses.   *)
BackendsAgree ==
  Parsed /\ SizeSmallBlocks(outcome) < PagesOfU32 =>
    PagesFromFlashConfig(outcome) = SizeSmallBlocks(outcome) /\ SizeSmallBlocks(outcome) > 0

-----------------------------------------------------------------------------
Recognized == kind = "chip" /\ outcome \notin {Pending, NotRecognized}

(* An image is interchangeable between the programmers: of every chip of a *)
(* given size DemoN dumps as many bytes as LPC and PicoFlasher do, 64      *)
(* blocks of 0x4200 bytes for a MiB of data, although the chips' own       *)
(* blocks differ.  The chip of 8192-byte pages has more spare bytes.       *)
ImagesInterchangeable ==
  Recognized =>
    /\ outcome.id # 215 => FileSize(outcome) = outcome.chip_size * 64 * (16896 \div Unit)
    /\ NumBlocks(outcome) * UserBlockSize(outcome) = outcome.chip_size * UnitsPerMiB

(* Every chip of the table can be transferred as planned: no block number  *)
(* that passes the planning fails the conversion to u16 in the middle of   *)
(* a transfer.                                                             *)
ChipsAreAddressable ==
  Recognized => \A block \in {0, NumBlocks(outcome) - 1} : DemonAddresses(block)
=============================================================================
