--------------------------- MODULE PlanningProofs ---------------------------
(***************************************************************************)
(* The planning properties of MCPlanning for every width of the block      *)
(* numbers, that of u32 among them, every block size and every length of   *)
(* the input; and those of the flash config and of the chip table, for     *)
(* every flash config there is and every device id.                        *)
(***************************************************************************)
EXTENDS MCPlanning, RangesProofs, FiniteSetTheorems

Planned(r) ==
  IF r.op = "read" THEN PlanRead(r.start, r.count, r.total)
  ELSE PlanWrite(BlockBytes, r.inputLen, r.start, r.count, r.total)

Inv ==
  /\ kind = "range" => request \in Requests /\ outcome \in {Pending, Planned(request)}
  /\ kind = "config" => request \in Raw /\ outcome \in {Pending, Parse(request)}
  /\ kind = "chip" => outcome \in {Pending, NandDeviceById(request)}

(* What is answered has the answer of the planner, of parse or of the      *)
(* lookup.                                                                 *)
LEMMA InvAlways == Spec => []Inv
<1>1. Init => Inv
  BY DEF Init, Inv
<1>2. Inv /\ [Next]_<<kind, request, outcome>> => Inv'
  <2> SUFFICES ASSUME Inv, [Next]_<<kind, request, outcome>> PROVE Inv'
    OBVIOUS
  <2>1. CASE Plan
    BY <2>1 DEF Plan, Answer, Inv, Planned
  <2>2. CASE ParseConfig \/ LookUp \/ UNCHANGED <<kind, request, outcome>>
    BY <2>2 DEF ParseConfig, LookUp, Answer, Inv, Planned
  <2> QED BY <2>1, <2>2 DEF Next
<1> QED BY <1>1, <1>2, PTL DEF Spec

(* The fields of a request. *)
LEMMA RequestType ==
  ASSUME NEW r \in Requests
  PROVE  /\ r.op \in {"read", "write"} /\ r.start \in U32 /\ r.count \in OptU32
         /\ r.total \in OptU32 /\ r.inputLen \in 0..MaxInputLen
BY PlanningAssumption DEF Requests

-----------------------------------------------------------------------------
(* The blocks of an input: those that end within it. *)
(* Block i of size ends within q whole blocks, or beyond any tail of them. *)
LEMMA EndsWithin ==
  ASSUME NEW size \in Nat \ {0}, NEW q \in Nat, NEW i \in Nat, i < q
  PROVE  (i + 1) * size <= size * q
OBVIOUS

LEMMA EndsBeyond ==
  ASSUME NEW size \in Nat \ {0}, NEW q \in Nat, NEW i \in Nat, q <= i,
         NEW r \in 0..(size - 1)
  PROVE  size * q + r < (i + 1) * size
OBVIOUS

LEMMA WholeBlocks ==
  ASSUME NEW size \in Nat \ {0}, NEW len \in Nat
  PROVE  /\ len \div size \in Nat /\ (len % size = 0 <=> size * (len \div size) = len)
         /\ \A i \in Nat : (i + 1) * size <= len <=> i < len \div size
<1> DEFINE q == len \div size
           r == len % size
<1>1. q \in Nat /\ r \in 0..(size - 1)
  OBVIOUS
<1>2. len = size * q + r
  OBVIOUS
<1> HIDE DEF q, r
<1>3. size * q \in Nat
  BY <1>1
<1>4. ASSUME NEW i \in Nat PROVE (i + 1) * size <= len <=> i < q
  <2>1. (i + 1) * size \in Nat
    OBVIOUS
  <2>2. CASE i < q
    <3>1. (i + 1) * size <= size * q
      BY <1>1, <2>2, EndsWithin
    <3> QED BY <1>1, <1>2, <1>3, <2>1, <2>2, <3>1
  <2>3. CASE ~(i < q)
    <3>1. q <= i
      BY <1>1, <2>3
    <3>2. size * q + r < (i + 1) * size
      BY <1>1, <3>1, EndsBeyond
    <3> QED BY <1>1, <1>2, <1>3, <2>1, <2>3, <3>2
  <2> QED BY <2>2, <2>3
<1>5. r = 0 <=> size * q = len
  BY <1>1, <1>2, <1>3
<1> QED BY <1>1, <1>4, <1>5 DEF q, r

(* check_range, in terms of the blocks themselves. *)
Device(total) == 0..((IF total = None THEN U32Max ELSE total) - 1)

LEMMA RangeOkMeans ==
  ASSUME NEW start \in U32, NEW n \in U32, NEW total \in OptU32
  PROVE  RangeOk(start, n, total) <=>
           /\ {start + i : i \in 0..(n - 1)} \subseteq Device(total)
           /\ total # None => start \in Device(total)
<1> DEFINE d == IF total = None THEN U32Max ELSE total
<1>1. start \in Nat /\ n \in Nat /\ d \in Nat /\ d <= U32Max /\ U32Max \in Nat /\ start <= U32Max
  BY U32MaxAssumption DEF OptU32, U32
<1>2. Device(total) = 0..(d - 1) /\ (total # None => total = d) /\ (total = None => d = U32Max)
  BY DEF Device
<1> HIDE DEF d
<1>3. {start + i : i \in 0..(n - 1)} \subseteq 0..(d - 1) <=> n = 0 \/ start + n <= d
  <2>1. CASE n = 0
    BY <2>1
  <2>2. CASE n # 0 /\ start + n <= d
    BY <1>1, <2>2
  <2>3. CASE n # 0 /\ ~(start + n <= d)
    <3>1. n - 1 \in 0..(n - 1) /\ start + (n - 1) \notin 0..(d - 1)
      BY <1>1, <2>3
    <3> QED BY <2>3, <3>1
  <2> QED BY <2>1, <2>2, <2>3
<1>4. RangeOk(start, n, total) <=>
        start + n <= U32Max /\ (total # None => start < total /\ start + n <= total)
  BY DEF RangeOk
<1>5. CASE total = None
  <2>1. n = 0 \/ start + n <= U32Max <=> start + n <= U32Max
    BY <1>1
  <2> QED BY <1>2, <1>3, <1>4, <1>5, <2>1
<1>6. CASE total # None
  <2>1. start \in 0..(d - 1) <=> start < d
    BY <1>1
  <2>2. start < d =>
          (start + n <= U32Max /\ start + n <= d <=> n = 0 \/ start + n <= d)
    BY <1>1
  <2> QED BY <1>2, <1>3, <1>4, <1>6, <2>1, <2>2
<1> QED BY <1>5, <1>6

(* The blocks of the device from start on. *)
LEMMA RestOfDevice ==
  ASSUME NEW start \in U32, NEW total \in U32, total # None
  PROVE  Cardinality({b \in Device(total) : b >= start}) = SaturatingSub(total, start)
<1>1. start \in Nat /\ total \in Nat
  BY U32MaxAssumption DEF U32
<1>2. {b \in Device(total) : b >= start} = start..(total - 1)
  BY <1>1 DEF Device
<1>3. Cardinality(start..(total - 1)) = IF start > total - 1 THEN 0 ELSE total - 1 - start + 1
  BY <1>1, FS_Interval
<1>4. (IF start > total - 1 THEN 0 ELSE total - 1 - start + 1) = SaturatingSub(total, start)
  <2>1. CASE total > start
    BY <1>1, <2>1 DEF SaturatingSub
  <2>2. CASE ~(total > start)
    BY <1>1, <2>2 DEF SaturatingSub
  <2> QED BY <2>1, <2>2
<1> QED BY <1>2, <1>3, <1>4

LEMMA BlocksOfInput ==
  ASSUME NEW len \in 0..MaxInputLen
  PROVE  Cardinality({i \in 0..MaxInputLen : (i + 1) * BlockBytes <= len}) = len \div BlockBytes
<1> DEFINE q == len \div BlockBytes
<1>1. len \in Nat /\ MaxInputLen \in Nat /\ len <= MaxInputLen /\ BlockBytes \in Nat \ {0}
  BY PlanningAssumption
<1>2. q \in Nat /\ \A i \in Nat : (i + 1) * BlockBytes <= len <=> i < q
  BY <1>1, WholeBlocks
<1> HIDE DEF q
<1>3. ASSUME NEW i \in Nat, i < q PROVE i \in 0..MaxInputLen
  <2>1. (i + 1) * BlockBytes <= len
    BY <1>2, <1>3
  <2>2. i + 1 <= (i + 1) * BlockBytes
    <3>1. PICK d \in Nat : BlockBytes = d + 1
      <4>1. BlockBytes - 1 \in Nat /\ BlockBytes = (BlockBytes - 1) + 1
        BY <1>1
      <4> QED BY <4>1
    <3>2. (i + 1) * BlockBytes = (i + 1) * d + (i + 1) /\ (i + 1) * d \in Nat
      BY <3>1
    <3> QED BY <3>2
  <2> QED BY <1>1, <2>1, <2>2
<1>4. {i \in 0..MaxInputLen : (i + 1) * BlockBytes <= len} = 0..(q - 1)
  <2>1. ASSUME NEW i \in 0..MaxInputLen PROVE (i + 1) * BlockBytes <= len <=> i \in 0..(q - 1)
    <3>1. i \in Nat /\ (i < q <=> i \in 0..(q - 1))
      BY <1>1, <1>2
    <3> QED BY <1>2, <3>1
  <2>2. ASSUME NEW i \in 0..(q - 1) PROVE i \in 0..MaxInputLen
    <3>1. i \in Nat /\ i < q
      BY <1>2
    <3> QED BY <1>3, <3>1
  <2> QED BY <2>1, <2>2
<1>5. Cardinality(0..(q - 1)) = q
  BY <1>2, FS_Interval
<1> QED BY <1>4, <1>5 DEF q

-----------------------------------------------------------------------------
(* What plan_read and plan_write grant can be carried out block by block:  *)
(* the loops' u32 arithmetic does not wrap, no block is off the device and *)
(* none is past the end of the input.                                      *)
THEOREM PlansAlwaysSafe == Spec => []PlanIsSafe
<1>1. ASSUME Inv PROVE PlanIsSafe
  <2> SUFFICES ASSUME Granted
               PROVE  /\ outcome \in U32
                      /\ \A i \in 0..(outcome - 1) :
                           /\ Lba(i) = request.start + i
                           /\ request.total # None => Lba(i) < request.total
                           /\ request.op = "write" => (i + 1) * BlockBytes <= request.inputLen
    BY DEF PlanIsSafe
  <2>1. request \in Requests /\ outcome = Planned(request) /\ outcome # None
    BY <1>1 DEF Inv, Granted
  <2>2. /\ request.op \in {"read", "write"} /\ request.start \in U32 /\ request.count \in OptU32
        /\ request.total \in OptU32 /\ request.inputLen \in Nat /\ BlockBytes \in Nat \ {0}
    BY <2>1, RequestType, PlanningAssumption
  <2>3. /\ outcome \in U32 /\ RangeOk(request.start, outcome, request.total)
        /\ request.op = "write" => outcome <= request.inputLen \div BlockBytes
    <3>1. CASE request.op = "read"
      <4>1. outcome = PlanRead(request.start, request.count, request.total)
        BY <2>1, <3>1 DEF Planned
      <4> QED BY <2>1, <2>2, <3>1, <4>1, PlanReadSafe
    <3>2. CASE request.op = "write"
      <4>1. outcome = PlanWrite(BlockBytes, request.inputLen, request.start, request.count,
                                request.total)
        BY <2>1, <3>2 DEF Planned
      <4> QED BY <2>1, <2>2, <4>1, PlanWriteSafe
    <3> QED BY <2>2, <3>1, <3>2
  <2>4. ASSUME NEW i \in 0..(outcome - 1)
        PROVE  /\ Lba(i) = request.start + i
               /\ request.total # None => Lba(i) < request.total
               /\ request.op = "write" => (i + 1) * BlockBytes <= request.inputLen
    <3>1. i \in Nat /\ i < outcome /\ outcome \in Nat
      BY <2>3, U32MaxAssumption DEF U32
    <3>2. /\ Lba(i) = request.start + i
          /\ request.total # None => Lba(i) < request.total
      BY <2>2, <2>3, RangeOkNoWrap DEF Lba
    <3>3. ASSUME request.op = "write" PROVE (i + 1) * BlockBytes <= request.inputLen
      <4>1. i < request.inputLen \div BlockBytes /\ request.inputLen \div BlockBytes \in Nat
        BY <2>2, <2>3, <3>1, <3>3, WholeBlocks
      <4> QED BY <2>2, <3>1, <4>1, WholeBlocks
    <3> QED BY <3>2, <3>3
  <2> QED BY <2>3, <2>4
<1> QED BY <1>1, InvAlways, PTL

(* The planners decide rightly for every request: they grant the count the *)
(* request can only mean, and refuse just those requests that mean none.   *)
THEOREM PlansAlwaysExact == Spec => []PlanIsExact
<1>1. ASSUME Inv PROVE PlanIsExact
  <2> SUFFICES ASSUME kind = "range", outcome # Pending
               PROVE  Meant = (IF outcome = None THEN {} ELSE {outcome})
    BY DEF PlanIsExact
  <2> DEFINE start == request.start
             count == request.count
             total == request.total
             len   == request.inputLen
             rest  == Cardinality({b \in Device(total) : b >= start})
             input == Cardinality({i \in 0..MaxInputLen : (i + 1) * BlockBytes <= len})
  <2>1. request \in Requests /\ outcome = Planned(request)
    BY <1>1 DEF Inv
  <2>2. /\ request.op \in {"read", "write"} /\ start \in U32 /\ count \in OptU32
        /\ total \in OptU32 /\ len \in 0..MaxInputLen /\ len \in Nat /\ BlockBytes \in Nat \ {0}
        /\ None \notin U32 /\ U32 \subseteq Nat
    BY <2>1, RequestType, PlanningAssumption, U32MaxAssumption, NoneAssumption DEF U32
  <2>3. input = len \div BlockBytes
    BY <2>2, BlocksOfInput
  <2>4. total # None => rest = SaturatingSub(total, start)
    BY <2>2, RestOfDevice DEF OptU32
  (* Membership in Meant, condition by condition. *)
  <2>5. ASSUME NEW n \in U32
        PROVE  n \in Meant <=>
                 /\ RangeOk(start, n, total)
                 /\ count # None => n = count
                 /\ request.op = "read" /\ count = None => total # None /\ n = rest
                 /\ request.op = "write" =>
                      /\ BlockBytes * input = len /\ input <= U32Max /\ n <= input
                      /\ count = None => n = input
    <3>1. RangeOk(start, n, total) <=>
            /\ {start + i : i \in 0..(n - 1)} \subseteq Device(total)
            /\ total # None => start \in Device(total)
      BY <2>2, RangeOkMeans
    <3> QED BY <3>1 DEF Meant, Device
  <2>6. Meant \subseteq U32
    BY DEF Meant
  <2>7. CASE request.op = "read"
    <3>1. outcome = PlanRead(start, count, total)
      BY <2>1, <2>7 DEF Planned
    <3>2. ASSUME NEW n \in U32 PROVE n \in Meant <=> n = outcome
      <4>1. CASE count # None
        BY <2>2, <2>5, <2>7, <3>1, <4>1 DEF PlanRead
      <4>2. CASE count = None /\ total # None
        BY <2>2, <2>4, <2>5, <2>7, <3>1, <4>2 DEF PlanRead
      <4>3. CASE count = None /\ total = None
        BY <2>2, <2>5, <2>7, <3>1, <4>3 DEF PlanRead
      <4> QED BY <4>1, <4>2, <4>3
    <3>3. outcome \in OptU32
      <4>1. ASSUME PlanRead(start, count, total) # None
            PROVE  PlanRead(start, count, total) \in U32
        BY <2>2, <4>1, PlanReadSafe
      <4> QED BY <3>1, <4>1 DEF OptU32
    <3> QED BY <2>2, <2>6, <3>2, <3>3 DEF OptU32
  <2>8. CASE request.op = "write"
    <3>1. outcome = PlanWrite(BlockBytes, len, start, count, total)
      BY <2>1, <2>8 DEF Planned
    <3>2. input \in Nat /\ (len % BlockBytes = 0 <=> BlockBytes * input = len)
      BY <2>2, <2>3, WholeBlocks
    <3>3. outcome = LET blocks == IF count # None THEN count ELSE input
                    IN  IF /\ BlockBytes * input = len /\ input <= U32Max
                           /\ blocks <= input /\ RangeOk(start, blocks, total)
                        THEN blocks ELSE None
      BY <2>3, <3>1, <3>2 DEF PlanWrite
    <3> HIDE DEF input
    <3>4. ASSUME NEW n \in U32 PROVE n \in Meant <=> n = outcome
      <4>1. CASE count # None
        BY <2>2, <2>5, <2>8, <3>2, <3>3, <4>1
      <4>2. CASE count = None
        BY <2>2, <2>5, <2>8, <3>2, <3>3, <4>2
      <4> QED BY <4>1, <4>2
    <3>5. outcome \in OptU32
      <4>1. ASSUME PlanWrite(BlockBytes, len, start, count, total) # None
            PROVE  PlanWrite(BlockBytes, len, start, count, total) \in U32
        BY <2>2, <4>1, PlanWriteSafe
      <4> QED BY <3>1, <4>1 DEF OptU32
    <3> QED BY <2>2, <2>6, <3>4, <3>5 DEF OptU32
  <2> QED BY <2>2, <2>7, <2>8
<1> QED BY <1>1, InvAlways, PTL

-----------------------------------------------------------------------------
(* Shifts, over the widths that the two bit fields of a config can give.   *)
LEMMA ShiftLaw ==
  ASSUME NEW s \in 0..18
  PROVE  /\ 2 ^ s \in Nat \ {0}
         /\ 2 ^ (s + 5) = 32 * 2 ^ s /\ 2 ^ (s + 6) = 64 * 2 ^ s
<1>1. CASE s = 0   BY <1>1
<1>2. CASE s = 1   BY <1>2
<1>3. CASE s = 2   BY <1>3
<1>4. CASE s = 3   BY <1>4
<1>5. CASE s = 4   BY <1>5
<1>6. CASE s = 5   BY <1>6
<1>7. CASE s = 6   BY <1>7
<1>8. CASE s = 7   BY <1>8
<1>9. CASE s = 8   BY <1>9
<1>10. CASE s = 9   BY <1>10
<1>11. CASE s = 10  BY <1>11
<1>12. CASE s = 11  BY <1>12
<1>13. CASE s = 12  BY <1>13
<1>14. CASE s = 13  BY <1>14
<1>15. CASE s = 14  BY <1>15
<1>16. CASE s = 15  BY <1>16
<1>17. CASE s = 16  BY <1>17
<1>18. CASE s = 17  BY <1>18
<1>19. CASE s = 18  BY <1>19
<1>20. s \in {0, 1, 2, 3, 4, 5, 6, 7, 8, 9, 10, 11, 12, 13, 14, 15, 16, 17, 18}
  OBVIOUS
<1> QED
  BY <1>1, <1>2, <1>3, <1>4, <1>5, <1>6, <1>7, <1>8, <1>9, <1>10, <1>11, <1>12, <1>13, <1>14,
     <1>15, <1>16, <1>17, <1>18, <1>19, <1>20

LEMMA ShiftPositive == ASSUME NEW s \in 0..18 PROVE 2 ^ s \in Nat \ {0}
<1>1. 2 ^ s \in Nat \ {0} /\ 2 ^ (s + 5) = 32 * 2 ^ s /\ 2 ^ (s + 6) = 64 * 2 ^ s
  BY ShiftLaw, Zenon
<1> QED BY <1>1, Zenon

(* The sizes parse gives: 16, 32 or 64 MiB for the small-block layouts,    *)
(* and what the bit fields say for the two large-block ones.               *)
LEMMA ParsedSize ==
  ASSUME NEW raw \in Raw, Parse(raw) # Unsupported
  PROVE  SizeSmallBlocks(Parse(raw)) =
           IF raw.ct = 2 /\ raw.bt \in {2, 3} THEN 2 ^ (raw.lo + raw.hi) * 512
           ELSE IF raw.ct = 0 /\ raw.bt = 2 THEN 2048
           ELSE IF (raw.ct = 0 /\ raw.bt = 3) \/ raw.ct = 2 THEN 4096 ELSE 1024
<1> DEFINE s == raw.lo + raw.hi
<1>1. /\ raw.ct \in 0..3 /\ raw.bt \in 0..3 /\ raw.lo \in 0..3 /\ raw.hi \in 0..15
      /\ s \in 0..18 /\ s + 23 - 17 = s + 6 /\ s + 23 - 18 = s + 5
  BY DEF Raw
<1>2. ASSUME NEW pages \in Nat, NEW blocks \in Nat
      PROVE  SizeSmallBlocks(Geometry(pages, blocks)) = blocks * (pages \div 32)
  BY DEF SizeSmallBlocks, Geometry
<1>3. CASE raw.ct = 2 /\ raw.bt = 2
  <2>1. Parse(raw) = Geometry(256, 2 ^ (s + 6))
    BY <1>1, <1>3 DEF Parse, Shifted
  <2>2. 2 ^ (s + 6) = 64 * 2 ^ s /\ 2 ^ s \in Nat
    BY <1>1, ShiftLaw
  <2> HIDE DEF s
  <2>3. SizeSmallBlocks(Parse(raw)) = (64 * 2 ^ s) * 8
    BY <1>2, <2>1, <2>2
  <2> QED BY <1>3, <2>2, <2>3 DEF s
<1>4. CASE raw.ct = 2 /\ raw.bt = 3
  <2>1. Parse(raw) = Geometry(512, 2 ^ (s + 5))
    BY <1>1, <1>4 DEF Parse, Shifted
  <2>2. 2 ^ (s + 5) = 32 * 2 ^ s /\ 2 ^ s \in Nat
    BY <1>1, ShiftLaw
  <2> HIDE DEF s
  <2>3. SizeSmallBlocks(Parse(raw)) = (32 * 2 ^ s) * 16
    BY <1>2, <2>1, <2>2
  <2> QED BY <1>4, <2>2, <2>3 DEF s
<1>5. CASE ~(raw.ct = 2 /\ raw.bt \in {2, 3})
  <2>1. Parse(raw) = Geometry(32, IF raw.ct = 0 /\ raw.bt = 2 THEN 2048
                                  ELSE IF (raw.ct = 0 /\ raw.bt = 3) \/ raw.ct = 2 THEN 4096 ELSE 1024)
    BY <1>1, <1>5 DEF Parse
  <2> QED BY <1>2, <1>5, <2>1
<1> QED BY <1>3, <1>4, <1>5

(* A config that was parsed is answered with its geometry.                 *)
LEMMA ParsedIs ==
  ASSUME Inv, Parsed
  PROVE  request \in Raw /\ outcome = Parse(request) /\ Parse(request) # Unsupported
BY DEF Inv, Parsed

(* FlashConfig::parse means the same capacity by both large-block layouts, *)
(* 2^(lo + hi) times 8 MiB, and 16, 32 or 64 MiB by the small-block ones,  *)
(* for every raw value it does not refuse.                                 *)
THEOREM CapacityAlwaysFollows == Spec => []CapacityFollowsFields
<1>1. Inv => CapacityFollowsFields
  <2> SUFFICES ASSUME Inv, Parsed
               PROVE  IF request.ct = 2 /\ request.bt \in {2, 3}
                      THEN SizeSmallBlocks(outcome) = 2 ^ (request.lo + request.hi) * 8 * 64
                      ELSE SizeSmallBlocks(outcome) \in {mib * 64 : mib \in {16, 32, 64}}
    BY DEF CapacityFollowsFields
  <2>1. CASE request.ct = 2 /\ request.bt \in {2, 3}
    <3> DEFINE s == request.lo + request.hi
    <3>0. s \in 0..18
      BY ParsedIs DEF Raw
    <3> HIDE DEF s
    <3>1. 2 ^ s \in Nat
      BY <3>0, ShiftPositive
    <3>2. SizeSmallBlocks(outcome) = 2 ^ s * 512
      BY <2>1, ParsedIs, ParsedSize DEF s
    <3>3. SizeSmallBlocks(outcome) = 2 ^ s * 8 * 64
      BY <3>1, <3>2
    <3> QED BY <2>1, <3>3 DEF s
  <2>2. CASE ~(request.ct = 2 /\ request.bt \in {2, 3})
    BY <2>2, ParsedIs, ParsedSize
  <2> QED BY <2>1, <2>2
<1> QED BY <1>1, InvAlways, PTL

(* pages_from_flash_config gives PicoFlasher the size that the LPC client  *)
(* has, for every config whose pages a u32 can count: the cut to u32 takes *)
(* nothing from them.  Of the one larger size nothing is claimed.          *)
THEOREM BackendsAlwaysAgree == Spec => []BackendsAgree
<1>1. Inv => BackendsAgree
  <2> SUFFICES ASSUME Inv, Parsed, SizeSmallBlocks(outcome) < PagesOfU32
               PROVE  /\ PagesFromFlashConfig(outcome) = SizeSmallBlocks(outcome)
                      /\ SizeSmallBlocks(outcome) > 0
    BY DEF BackendsAgree
  <2>1. SizeSmallBlocks(outcome) \in Nat \ {0}
    <3>1. CASE request.ct = 2 /\ request.bt \in {2, 3}
      <4> DEFINE s == request.lo + request.hi
      <4>0. s \in 0..18
        BY ParsedIs DEF Raw
      <4>1. 2 ^ s \in Nat \ {0}
        BY <4>0, ShiftPositive
      <4>2. SizeSmallBlocks(outcome) = 2 ^ s * 512
        BY <3>1, ParsedIs, ParsedSize
      <4> HIDE DEF s
      <4> QED BY <4>1, <4>2
    <3>2. CASE ~(request.ct = 2 /\ request.bt \in {2, 3})
      BY <3>2, ParsedIs, ParsedSize
    <3> QED BY <3>1, <3>2
  <2>2. PagesOfU32 \in Nat
    BY DEF PagesOfU32
  <2>3. \A size \in Nat, bound \in Nat : size < bound => size % bound = size
    OBVIOUS
  <2>4. SizeSmallBlocks(outcome) % PagesOfU32 = SizeSmallBlocks(outcome)
    BY <2>1, <2>2, <2>3
  <2> QED BY <2>1, <2>4 DEF PagesFromFlashConfig
<1> QED BY <1>1, InvAlways, PTL

-----------------------------------------------------------------------------
(* A chip that the lookup finds is one of the table.                       *)
LEMMA RecognizedIs ==
  ASSUME Inv, Recognized
  PROVE  outcome \in NandDevices
<1>1. outcome = NandDeviceById(request) /\ outcome # NotRecognized
  BY DEF Inv, Recognized
<1> QED BY <1>1 DEF NandDeviceById

(* The number of blocks and the sizes that NandDevice derives, for each    *)
(* chip of the table.                                                      *)
ChipOK(chip) ==
  /\ NumBlocks(chip) \in Nat \ {0} /\ NumBlocks(chip) <= 65536
  /\ TotalBlockSize(chip) \in Nat
  /\ NumBlocks(chip) * UserBlockSize(chip) = chip.chip_size * UnitsPerMiB
  /\ chip.id # 215 => FileSize(chip) = chip.chip_size * 64 * (16896 \div Unit)
LEMMA ChipSizes == ASSUME NEW chip \in NandDevices PROVE ChipOK(chip)
<1>1. CASE \E id \in {214, 230} : chip = Chip(id, 512, 16, 8, 16)
  BY <1>1 DEF ChipOK, Chip, NumBlocks, UserBlockSize, TotalBlockSize, FileSize, Unit, UnitsPerMiB
<1>2. CASE chip = Chip(115, 512, 16, 16, 32)
  BY <1>2 DEF ChipOK, Chip, NumBlocks, UserBlockSize, TotalBlockSize, FileSize, Unit, UnitsPerMiB
<1>3. CASE chip = Chip(117, 512, 16, 32, 32)
  BY <1>3 DEF ChipOK, Chip, NumBlocks, UserBlockSize, TotalBlockSize, FileSize, Unit, UnitsPerMiB
<1>4. CASE chip = Chip(118, 512, 16, 64, 32)
  BY <1>4 DEF ChipOK, Chip, NumBlocks, UserBlockSize, TotalBlockSize, FileSize, Unit, UnitsPerMiB
<1>5. CASE chip = Chip(121, 512, 16, 128, 32)
  BY <1>5 DEF ChipOK, Chip, NumBlocks, UserBlockSize, TotalBlockSize, FileSize, Unit, UnitsPerMiB
<1>6. CASE chip = Chip(113, 512, 16, 256, 32)
  BY <1>6 DEF ChipOK, Chip, NumBlocks, UserBlockSize, TotalBlockSize, FileSize, Unit, UnitsPerMiB
<1>7. CASE chip = Chip(242, 512, 16, 64, 32)
  BY <1>7 DEF ChipOK, Chip, NumBlocks, UserBlockSize, TotalBlockSize, FileSize, Unit, UnitsPerMiB
<1>8. CASE chip = Chip(218, 2048, 64, 256, 64)
  BY <1>8 DEF ChipOK, Chip, NumBlocks, UserBlockSize, TotalBlockSize, FileSize, Unit, UnitsPerMiB
<1>9. CASE chip = Chip(220, 2048, 64, 512, 64)
  BY <1>9 DEF ChipOK, Chip, NumBlocks, UserBlockSize, TotalBlockSize, FileSize, Unit, UnitsPerMiB
<1>10. CASE chip = Chip(215, 8192, 448, 4096, 256)
  BY <1>10 DEF ChipOK, Chip, NumBlocks, UserBlockSize, TotalBlockSize, FileSize, Unit, UnitsPerMiB
<1> QED BY <1>1, <1>2, <1>3, <1>4, <1>5, <1>6, <1>7, <1>8, <1>9, <1>10 DEF NandDevices

(* DemoN's image of a chip has the format of the other programmers, block  *)
(* by block of 0x4200 bytes, for every flash id it may report, but for the *)
(* one chip of 8192-byte pages.                                            *)
THEOREM ImagesAlwaysInterchangeable == Spec => []ImagesInterchangeable
<1>1. Inv => ImagesInterchangeable
  BY RecognizedIs, ChipSizes DEF ChipOK, ImagesInterchangeable
<1> QED BY <1>1, InvAlways, PTL

(* No block number of a chip of the table is beyond u16, whatever flash id *)
(* is reported, so no transfer fails half way on the conversion.           *)
THEOREM ChipsAlwaysAddressable == Spec => []ChipsAreAddressable
<1>1. Inv => ChipsAreAddressable
  <2> SUFFICES ASSUME Inv, Recognized
               PROVE  \A block \in {0, NumBlocks(outcome) - 1} : DemonAddresses(block)
    BY DEF ChipsAreAddressable
  <2>1. ChipOK(outcome)
    BY RecognizedIs, ChipSizes
  <2> QED BY <2>1 DEF ChipOK, DemonAddresses
<1> QED BY <1>1, InvAlways, PTL
=============================================================================
