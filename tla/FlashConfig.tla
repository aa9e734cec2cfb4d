----------------------------- MODULE FlashConfig -----------------------------
(***************************************************************************)
(* FlashConfig::parse (lpc/lpc.rs) and the sizes both NAND backends derive *)
(* from it: size_small_blocks, the total_blocks of the LPC geometry, and   *)
(* pages_from_flash_config, the number of 0x210-byte pages of PicoFlasher. *)
(*                                                                         *)
(* A raw value is the record of the bit fields parse looks at:             *)
(*   ct = bits 17-18, bt = bits 4-5, lo = bits 19-20, hi = bits 21-24.     *)
(* The code computes pages as a u64 number of bytes divided by 0x200 and   *)
(* cut to u32.  Every size is a multiple of 0x20 pages, so pages are       *)
(* counted here in units of 0x20 and u32 becomes 2^27 units.               *)
(***************************************************************************)
EXTENDS Integers

CONSTANT Unsupported   \* stands for parse's Err

Raw == [ct : 0..3, bt : 0..3, lo : 0..3, hi : 0..15]

(* (1u64 << (lo + hi + 23)) >> shift, for a shift of at most 23 *)
Shifted(raw, shift) == 2 ^ (raw.lo + raw.hi + 23 - shift)

(* block_size, in pages, and size_blocks; a size of 0 is refused. *)
Geometry(pages, blocks) == [block_size |-> pages, size_blocks |-> blocks]

(* Mutant: the shift of 0x100-page blocks used for 0x200-page blocks. *)
ParseLargeBlockShift(raw) ==
  CASE raw.ct \in {0, 1} /\ raw.bt = 1     -> Geometry(32, 1024)
    [] raw.ct = 0 /\ raw.bt = 2            -> Geometry(32, 2048)
    [] raw.ct = 0 /\ raw.bt = 3            -> Geometry(32, 4096)
    [] raw.ct = 2 /\ raw.bt = 1            -> Geometry(32, 4096)
    [] raw.ct = 2 /\ raw.bt = 2            -> Geometry(256, Shifted(raw, 17))
    [] raw.ct = 2 /\ raw.bt = 3            -> Geometry(512, Shifted(raw, 17))
    [] OTHER                               -> Unsupported

Parse(raw) ==
  CASE raw.ct \in {0, 1} /\ raw.bt = 1     -> Geometry(32, 1024)
    [] raw.ct = 0 /\ raw.bt = 2            -> Geometry(32, 2048)
    [] raw.ct = 0 /\ raw.bt = 3            -> Geometry(32, 4096)
    [] raw.ct = 2 /\ raw.bt = 1            -> Geometry(32, 4096)
    [] raw.ct = 2 /\ raw.bt = 2            -> Geometry(256, Shifted(raw, 17))
    [] raw.ct = 2 /\ raw.bt = 3            -> Geometry(512, Shifted(raw, 18))
    [] OTHER                               -> Unsupported

SizeSmallBlocks(geometry) == geometry.size_blocks * (geometry.block_size \div 32)

(* The 2^32 numbers of a u32, in units of 0x20 pages. *)
PagesOfU32 == 2 ^ 27

(* Mutant: the blocks of the flash, not its 0x20-page blocks, are counted. *)
PagesFromLargeBlocks(geometry) == geometry.size_blocks % PagesOfU32

(* ... in units of 0x20 pages. *)
PagesFromFlashConfig(geometry) == SizeSmallBlocks(geometry) % PagesOfU32
=============================================================================
