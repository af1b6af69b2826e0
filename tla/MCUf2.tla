------------------------------- MODULE MCUf2 -------------------------------
(* Pages of two bytes, two to a sector; ELFs for flash and for RAM, some   *)
(* of which cannot be converted, a BIN, and UF2s of other programs.        *)
EXTENDS Uf2

\* A program in flash with data that is copied to RAM, and a part two sectors on.
FlashElf == Elf(17, <<Segment(100, 16, 16, 3, 3), Segment(103, 19, 82, 1, 3), Segment(110, 29, 29, 2, 2)>>)
LateElf == Elf(23, <<Segment(120, 23, 23, 1, 1), Segment(125, 29, 29, 1, 1), Segment(0, 90, 90, 0, 4)>>)
RamElf == Elf(82, <<Segment(130, 82, 82, 3, 5), Segment(140, 66, 66, 2, 2), Segment(150, 4, 4, 2, 2)>>)
XipElf == Elf(66, <<Segment(140, 66, 66, 2, 2)>>)
\* Segments that overlap, that are nowhere, in RAM of a flash binary; no entry; nothing.
OverlapElf == Elf(17, <<Segment(100, 16, 16, 3, 3), Segment(103, 18, 18, 1, 1)>>)
OutsideElf == Elf(17, <<Segment(100, 16, 16, 3, 3), Segment(103, 47, 47, 2, 2)>>)
DataElf == Elf(17, <<Segment(100, 16, 16, 3, 3), Segment(103, 80, 80, 2, 2)>>)
BssElf == Elf(17, <<Segment(100, 46, 16, 2, 9)>>)
NoEntryElf == Elf(40, <<Segment(100, 16, 16, 3, 3)>>)
RomElf == Elf(82, <<Segment(150, 4, 4, 2, 2), Segment(130, 70, 82, 3, 3)>>)
\* The entry is in a segment in ROM and in one in RAM; more than the ROM holds; and a
\* flash binary with variables in the banked RAM that only RP2040 has.
TwoEntriesElf == Elf(82, <<Segment(150, 4, 82, 2, 2), Segment(130, 82, 82, 3, 5)>>)
BehindRomElf == Elf(82, <<Segment(130, 82, 82, 3, 5), Segment(150, 7, 7, 2, 2)>>)
BankedElf == Elf(17, <<Segment(100, 16, 16, 3, 3), Segment(0, 102, 102, 0, 4)>>)
Data == BinFile(200, 3)
Empty == BinFile(0, 0)

Page(offset) == [k \in 0 .. PageSize - 1 |-> offset + k]
\* Between its blocks one that is not for flash, of a family of its own.
OneFamily ==
  Uf2File(<<Block(20, 0, 2, 7, Page(220)), [Block(0, 0, 1, 99, Page(250)) EXCEPT !.usable = FALSE],
            Block(26, 1, 2, 7, Page(222))>>)
Absolute == Uf2File(<<gen_abs_block(abs_block_loc), Block(28, 0, 1, 8, Page(230))>>)
LoneAbsolute == Uf2File(<<gen_abs_block(abs_block_loc)>>)
Universal ==
  Uf2File(<<gen_abs_block(abs_block_loc), Block(16, 0, 2, 7, Page(220)), Block(18, 1, 2, 7, Page(222)),
            Block(16, 0, 1, 8, Page(230)), gen_abs_block(abs_block_loc), Block(16, 0, 1, 9, Page(240))>>)

Convert(abs, offset, chip) == [family |-> 7, abs |-> abs, offset |-> offset, chip |-> chip]
MCConvert == {Convert(FALSE, NotSet, "rp2040"), Convert(TRUE, NotSet, "rp2350"), Convert(FALSE, 24, "rp2350"),
              Convert(TRUE, 22, "rp2350")}
MCCombine == {[family |-> 0, abs |-> FALSE, offset |-> 0], [family |-> 6, abs |-> TRUE, offset |-> 12]}
MCOffsets == {24}
MCMaxCommands == [convert |-> 1, combine |-> 1, read |-> 1]
D(x, y, z) == [f \in Names |-> CASE f = "x" -> x [] f = "y" -> y [] OTHER -> z]
MCDisks == {D(FlashElf, LateElf, OneFamily), D(RamElf, Data, Absolute), D(XipElf, Universal, OneFamily),
            D(OverlapElf, OutsideElf, DataElf), D(BssElf, NoEntryElf, RomElf),
            D(Empty, RomElf, XipElf), D(TwoEntriesElf, BehindRomElf, BankedElf), D(LoneAbsolute, Absolute, OneFamily)}
=============================================================================
