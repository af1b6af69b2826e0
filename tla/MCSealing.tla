----------------------------- MODULE MCSealing -----------------------------
(* Files of a few words: BINs with one block, with two, with a START that  *)
(* begins no block, for Arm and for RISC-V; ELFs that run from flash and   *)
(* from RAM.                                                               *)
EXTENDS Sealing

ImageDef(flags) == <<"image_def", 1, flags>>
OtherItem(kind) == <<kind, 2, {}>>
OneItem(item, rel) == <<Start, item, LastItem(1), Rel(rel), End>>
TwoWords(item, rel) == <<Start, item, Num(0), LastItem(2), Rel(rel), End>>
Text(n) == <<Code(n, 2), Code(n + 1, 1)>>

ArmBin == Bin(64, Text(1) \o OneItem(ImageDef({"arm"}), 0) \o Text(3))
RiscvBin == Bin(64, OneItem(ImageDef({"riscv"}), 7) \o Text(1) \o TwoWords(OtherItem("ignored"), -7))
TwoImages == Bin(64, OneItem(ImageDef({"arm"}), 6) \o <<Code(1, 3)>> \o OneItem(ImageDef({"arm", "tbyb"}), -6))
\* a constant in the code that looks like a block
FalseStart == Bin(64, <<Start, LastItem(7), Code(1, 1)>> \o OneItem(ImageDef({"riscv"}), 0))
TablePinned ==
  Bin(64, <<Start, <<"image_def", 1, {"arm"}>>, <<"load_map", 2, {}>>, PinEntry, LastItem(3), Rel(7), End>>
          \o TwoWords(OtherItem("partition_table"), -7))
NoBlockBin == Bin(64, Text(1))
NoImageBin == Bin(64, Text(1) \o TwoWords(OtherItem("partition_table"), 0))

Seg(at, run, words) == [at |-> at, run |-> run, words |-> words]
FlashElf == [kind |-> "elf", entry |-> 64,
  segs |-> {Seg(64, 64, Text(1)), Seg(66, 66, OneItem(ImageDef({"arm"}), 7)), Seg(71, 200, Text(3)),
            Seg(73, 73, TwoWords(OtherItem("ignored"), -7))}]
RamElf == [kind |-> "elf", entry |-> 200,
  segs |-> {Seg(200, 200, Text(1) \o OneItem(ImageDef({"arm"}), 0)), Seg(210, 210, Text(3)), Seg(150, 150, Text(5))}]
\* moved by link, so that its vectors are not at the start of flash
RolledElf == [kind |-> "elf", entry |-> 64,
  segs |-> {Seg(64, 64, Text(1)), Seg(73, 73, Text(3)),
            Seg(66, 66, <<Start, ImageDef({"arm"}), OtherItem("rolling_delta"), Num(9), LastItem(3), Rel(0), End>>)}]
\* an empty segment where another begins
AliasElf == [kind |-> "elf", entry |-> 200,
  segs |-> {Seg(200, 200, Text(1) \o OneItem(ImageDef({"arm"}), 0)), Seg(210, 120, <<>>), Seg(210, 210, Text(3))}]

Option(hash, sign, clear, pin, version) ==
  [hash |-> hash, sign |-> sign, clear |-> clear, pin |-> pin, version |-> version, squash |-> TRUE]
MCOptions ==
  {Option(FALSE, FALSE, FALSE, FALSE, "none"), Option(TRUE, FALSE, FALSE, FALSE, "plain"),
   Option(TRUE, TRUE, FALSE, FALSE, "rollback"), Option(TRUE, FALSE, TRUE, TRUE, "none"),
   Option(FALSE, TRUE, FALSE, TRUE, "none"), Option(TRUE, FALSE, FALSE, FALSE, "rollback")}
D(a, b) == [f \in Files |-> IF f = "a" THEN a ELSE b]
MCDisks == {D(ArmBin, RiscvBin), D(TwoImages, ArmBin), D(FalseStart, TwoImages), D(TablePinned, FlashElf),
            D(RamElf, TablePinned), D(NoBlockBin, NoImageBin), D(NoImageBin, ArmBin),
            D(RolledElf, AliasElf)}

\* Files with one image each, to be linked.
SingleDisks == {D(ArmBin, Bin(64, Text(2) \o OneItem(ImageDef({"arm"}), 0)))}
NoOptions == {Option(FALSE, FALSE, FALSE, FALSE, "none")}
=============================================================================
