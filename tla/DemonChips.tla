----------------------------- MODULE DemonChips -----------------------------
(***************************************************************************)
(* The chips a DemoN programmer may find (demon/demon.rs): NAND_DEVICES,   *)
(* the sizes NandDevice derives, the lookup by flash id, and the u16 that  *)
(* has to hold its block numbers (flasher.rs).  Page sizes are in units of *)
(* 16 bytes, so that the largest image is an integer TLC can hold.         *)
(***************************************************************************)
EXTENDS Integers

CONSTANT NotRecognized   \* stands for get_nand_device_by_id's None

Unit == 16
UnitsPerMiB == (1024 * 1024) \div Unit

Chip(id, page, spare, mib, pages) ==
  [id |-> id, page_size |-> page \div Unit, spare_size |-> spare \div Unit,
   chip_size |-> mib, pages_per_block |-> pages]

NandDevices ==
  {Chip(id, 512, 16, 8, 16) : id \in {214, 230}} \cup
  {Chip(115, 512, 16, 16, 32), Chip(117, 512, 16, 32, 32), Chip(118, 512, 16, 64, 32),
   Chip(121, 512, 16, 128, 32), Chip(113, 512, 16, 256, 32), Chip(242, 512, 16, 64, 32),
   Chip(218, 2048, 64, 256, 64), Chip(220, 2048, 64, 512, 64), Chip(215, 8192, 448, 4096, 256)}

UserBlockSize(chip) == chip.page_size * chip.pages_per_block

(* Mutant: the spare bytes are forgotten. *)
TotalBlockSizeOfData(chip) == chip.page_size * chip.pages_per_block

TotalBlockSize(chip) == (chip.page_size + chip.spare_size) * chip.pages_per_block
NumBlocks(chip) == (chip.chip_size * UnitsPerMiB) \div UserBlockSize(chip)
FileSize(chip) == NumBlocks(chip) * TotalBlockSize(chip)

(* Only the device byte of the flash id is looked at. *)
NandDeviceById(flashId) ==
  LET found == {chip \in NandDevices : chip.id = flashId % 256}
  IN  IF found = {} THEN NotRecognized ELSE CHOOSE chip \in found : TRUE

-----------------------------------------------------------------------------
(* Mutant: an unsigned byte for the block number. *)
DemonAddressesByte(block) == block < 256

(* The conversion to u16 that every block number goes through. *)
DemonAddresses(block) == block < 65536
=============================================================================
