--------------------------------- MODULE Uf2 ---------------------------------
(***************************************************************************)
(* UF2 files: uf2 convert (elf2uf2.cpp), uf2 combine, and the reading of   *)
(* every file a command is given (build_rmap_elf, build_rmap_uf2 and       *)
(* get_iostream_memory_access of main.cpp).  A file that one command wrote *)
(* is read by the next.                                                    *)
(*                                                                         *)
(* An address is one byte, a page PageSize bytes, a flash sector           *)
(* SectorPages pages.  A byte of a program is the number of its place in   *)
(* the files that went in (no two files have places in common), 0 is a     *)
(* zero.  A block of a UF2 file is its header and a page; blocks that are  *)
(* not for main flash or of no family are not usable, and the RP2350-E10   *)
(* block is marked absolute.  A file is opened, and so emptied, before     *)
(* anything is written to it.  When writing to it fails, so does every     *)
(* later write (a stream stays bad): what is left is a beginning of what   *)
(* was written, and nothing looks whether that is all when it is closed.   *)
(***************************************************************************)
EXTENDS Integers, Sequences, SequencesExt, FiniteSetsExt, TLC

CONSTANTS
    Names, Disks,           \* file names, and what the files hold at first
    ConvertOptions,         \* of uf2 convert: family, abs, offset, chip
    CombineOptions,         \* of uf2 combine: family (0: not given), abs, offset
    Offsets,                \* of a command that reads a file: settings.offset
    MaxCommands,            \* how many commands of each kind are run
    PageSize, SectorPages,
    Limit,                  \* 2^32
    abs_block_loc,          \* where the absolute block points to
    ABSOLUTE_FAMILY_ID,
    rom_end, flash_start, flash_end, xip_sram_start, xip_sram_end, sram_start, sram_end,
    main_ram_banked_start, main_ram_banked_end

NotSet == -1
ASSUME SizesAssumption == PageSize \in Nat \ {0} /\ SectorPages \in Nat \ {0} /\ Limit \in Nat
ASSUME MemoryAssumption ==
    /\ {rom_end, flash_start, flash_end, xip_sram_start, xip_sram_end, sram_start, sram_end,
        main_ram_banked_start, main_ram_banked_end} \subseteq Nat
    /\ rom_end < flash_start /\ flash_start < flash_end /\ flash_end < xip_sram_start
    /\ xip_sram_start < xip_sram_end /\ xip_sram_end < sram_start
    /\ sram_start < sram_end /\ sram_end < main_ram_banked_start
    /\ main_ram_banked_start < main_ram_banked_end /\ main_ram_banked_end < Limit
    /\ flash_start % (PageSize * SectorPages) = 0 /\ sram_start % PageSize = 0
ASSUME OptionsAssumption ==
    /\ MaxCommands \in [{"convert", "combine", "read"} -> Nat]
    /\ ConvertOptions \subseteq
         [family : Nat \ {0}, abs : BOOLEAN, offset : Nat \union {NotSet}, chip : {"rp2040", "rp2350"}]
    /\ CombineOptions \subseteq [family : Nat, abs : BOOLEAN, offset : Nat]
    /\ abs_block_loc \in Nat /\ ABSOLUTE_FAMILY_ID \in Nat \ {0} /\ Offsets \subseteq Nat \union {NotSet}

VARIABLES
    disk,                   \* file -> its contents
    meant,                  \* history: file -> what it ought to hold
    pc, job,                \* the command that is executing
    segments,               \* segments of the ELF still to be mapped
    pages,                  \* pages[address] = the fragments of the input it holds
    num_blocks, block_no,   \* of the file being written
    family_id, next_family_id, pos,
    rmap,                   \* the file being read: start of a range -> its bytes
    shown                   \* what info has shown, family by family
vars == <<disk, meant, pc, job, segments, pages, num_blocks, block_no,
          family_id, next_family_id, pos, rmap, shown>>

SectorSize == PageSize * SectorPages
PageOf(addr) == addr - (addr % PageSize)
SectorOf(addr) == addr \div SectorSize
EmptyMap == [a \in {} |-> 0]
\* What memory holds is a set of bytes at addresses, a range map a set of ranges.
At(addr, byte) == [at |-> addr, byte |-> byte]
ShiftedBy(bytes, by) == {At(b.at + by, b.byte) : b \in bytes}
Contents(map) == UNION {{At(r.from + k, r.bytes[k]) : k \in DOMAIN r.bytes} : r \in map}

(***************************************************************************)
(* Files                                                                   *)
(***************************************************************************)
Segment(offset, paddr, vaddr, filez, memsz) ==
  [offset |-> offset, paddr |-> paddr, vaddr |-> vaddr, filez |-> filez, memsz |-> memsz]
Elf(entry, segs) == [type |-> "elf", entry |-> entry, segs |-> segs, blocks |-> <<>>]
BinFile(offset, size) ==
  [type |-> "bin", entry |-> 0, segs |-> <<Segment(offset, 0, 0, size, size)>>, blocks |-> <<>>]
Uf2File(blocks) == [type |-> "uf2", entry |-> 0, segs |-> <<>>, blocks |-> blocks]

MappedSize(seg) == Min({seg.filez, seg.memsz})

\* What can be on a disk: a BIN is one segment; 0 is no family.
Segments == [offset : Nat, paddr : Nat, vaddr : Nat, filez : Nat, memsz : Nat]
Blocks ==
  [abs : BOOLEAN, usable : BOOLEAN, target_addr : Nat, block_no : Nat, num_blocks : Nat,
   file_size : Nat \ {0}, data : [0 .. PageSize - 1 -> Nat]]
ASSUME FilesAssumption ==
    \A d \in Disks :
      /\ d \in [Names -> [type : {"elf", "bin", "uf2"}, entry : Nat, segs : Seq(Segments), blocks : Seq(Blocks)]]
      /\ \A f \in Names : /\ d[f].type = "bin" => Len(d[f].segs) = 1
                          /\ d[f].type # "uf2" => d[f].blocks = <<>>

Block(addr, no, n, family, data) ==
  [abs |-> FALSE, usable |-> TRUE, target_addr |-> addr, block_no |-> no, num_blocks |-> n,
   file_size |-> family, data |-> data]
gen_abs_block(loc) ==
  [Block(loc, 0, 2, ABSOLUTE_FAMILY_ID, [k \in 0 .. PageSize - 1 |-> 0]) EXCEPT !.abs = TRUE]
check_abs_block(block) == block.abs

\* range_map::insert, which refuses a range that overlaps another.
InTheWay(map, from, size) ==
  \E r \in map : r.from < from + size /\ from < r.from + Cardinality(DOMAIN r.bytes)
Inserted(map, from, bytes) == map \union {[from |-> from, bytes |-> bytes]}

\* What an ELF or BIN holds.
Bytes(seg) == [k \in 0 .. MappedSize(seg) - 1 |-> seg.offset + k]
Mapped(file) == {seg \in ToSet(file.segs) : MappedSize(seg) > 0}
build_rmap_elf(segs) == {[from |-> seg.paddr, bytes |-> Bytes(seg)] : seg \in segs}
MapRefused(file) ==
  \E i, j \in DOMAIN file.segs :
    /\ i < j /\ file.segs[i] \in Mapped(file) /\ file.segs[j] \in Mapped(file)
    /\ InTheWay(build_rmap_elf({file.segs[i]}), file.segs[j].paddr, MappedSize(file.segs[j]))

(***************************************************************************)
(* Pages                                                                   *)
(***************************************************************************)
Fragment(file_offset, page_offset, bytes) ==
  [file_offset |-> file_offset, page_offset |-> page_offset, bytes |-> bytes]

\* The fragments `size' bytes at `addr' are cut into, page by page.
FragmentIn(page, offset, addr, size) ==
  LET from == Max({page, addr})
      to == Min({page + PageSize, addr + size})
  IN  Fragment(offset + from - addr, from - page, to - from)
PagesFor(offset, addr, size) ==
  [page \in {PageOf(a) : a \in addr .. addr + size - 1} |-> <<FragmentIn(page, offset, addr, size)>>]

Overlaps(f, g) ==
  (f.page_offset < g.page_offset + g.bytes) # (f.page_offset + f.bytes <= g.page_offset)
\* The pages with those of one more piece; a page may take several pieces.
Joined(old, new) ==
  [page \in DOMAIN old \union DOMAIN new |->
     (IF page \in DOMAIN old THEN old[page] ELSE <<>>) \o (IF page \in DOMAIN new THEN new[page] ELSE <<>>)]
Collide(old, new) ==
  \E page \in DOMAIN old \intersect DOMAIN new : \E f \in ToSet(old[page]) : Overlaps(new[page][1], f)

realize_page_First(fragments) ==
  [k \in 0 .. PageSize - 1 |->
     LET f == Head(fragments \o <<Fragment(0, 0, 0)>>)
     IN  IF k >= f.page_offset /\ k < f.page_offset + f.bytes THEN f.file_offset + k - f.page_offset ELSE 0]
\* A page begins as zeros.
realize_page(fragments) ==
  [k \in 0 .. PageSize - 1 |->
     LET at == {f \in ToSet(fragments) : k >= f.page_offset /\ k < f.page_offset + f.bytes}
     IN  IF at = {} THEN 0 ELSE LET f == CHOOSE f \in at : TRUE IN f.file_offset + k - f.page_offset]

\* The bootrom goes by the block number when it erases, so the sectors before the last
\* page are filled up with empty pages.
PaddingPages_TouchedPages == {}
PaddingPages ==
  {page \in {PageOf(a) : a \in flash_start .. flash_end - 1} :
     page < Max(DOMAIN pages) /\ \E p \in DOMAIN pages : SectorOf(p) = SectorOf(page)}
Padded == Joined(pages, [page \in PaddingPages |-> <<>>])

(***************************************************************************)
(* Memory of the chips                                                     *)
(***************************************************************************)
Region(from, to, type) == [from |-> from, to |-> to, type |-> type]
address_ranges_flash(chip) ==
  <<Region(flash_start, flash_end, "contents"), Region(sram_start, sram_end, "no_contents"),
    Region(xip_sram_start, xip_sram_end, "no_contents")>>
  \o IF chip = "rp2040" THEN <<Region(main_ram_banked_start, main_ram_banked_end, "no_contents")>> ELSE <<>>
address_ranges_ram ==
  <<Region(sram_start, sram_end, "contents"), Region(xip_sram_start, xip_sram_end, "contents"),
    Region(0, rom_end, "ignore")>>
Holds(region, addr, size) == region.from <= addr /\ region.to >= addr + size
is_address_initialized(ranges, addr) ==
  \E r \in ToSet(ranges) : r.from <= addr /\ r.to > addr /\ r.type = "contents"

\* What a segment may be: contents, ignored, or nothing that can be converted.
TypeOf(ranges, addr, size) ==
  LET fits == {k \in DOMAIN ranges : Holds(ranges[k], addr, size)}
  IN  IF fits = {} THEN "outside" ELSE ranges[Min(fits)].type

\* Whether a binary runs from RAM is told by the first segment its entry is in, of
\* those that have it in RAM or in flash.
effective_entry(file, seg) == file.entry + seg.paddr - seg.vaddr
Entered(file, chip) ==
  {k \in DOMAIN file.segs :
     LET seg == file.segs[k]
     IN  /\ file.entry >= seg.vaddr /\ file.entry < seg.vaddr + MappedSize(seg)
         /\ \E ranges \in {address_ranges_ram, address_ranges_flash(chip)} :
              is_address_initialized(ranges, effective_entry(file, seg))}
DeterminesType(file, chip) == Entered(file, chip) # {}
RamStyle(file, chip) ==
  is_address_initialized(address_ranges_ram, effective_entry(file, file.segs[Min(Entered(file, chip))]))
valid_ranges(file, chip) == IF RamStyle(file, chip) THEN address_ranges_ram ELSE address_ranges_flash(chip)

\* RP2040 enters a RAM binary at its first page, and XIP SRAM not at all.
Within(from, to) == {p \in DOMAIN pages : p >= from /\ p < to}
expected_ep ==
  IF Within(sram_start, sram_end) # {} THEN Min(Within(sram_start, sram_end))
  ELSE IF Within(xip_sram_start, xip_sram_end) # {} THEN Min(Within(xip_sram_start, xip_sram_end)) ELSE NotSet
EntryRefused(file) ==
  /\ job.o.chip = "rp2040" /\ RamStyle(file, "rp2040")
  /\ \/ file.entry # expected_ep
     \/ Within(xip_sram_start, xip_sram_end) # {} /\ file.entry = Min(Within(xip_sram_start, xip_sram_end))

(***************************************************************************)
(* Commands                                                                *)
(***************************************************************************)
NoMeaning == [of |-> EmptyMap, whole |-> FALSE, numbered |-> FALSE, complete |-> FALSE,
              grouped |-> FALSE, ours |-> TRUE]
NoJob == [op |-> "", from |-> <<>>, to |-> "", o |-> <<>>, part |-> 0, n |-> [kind \in DOMAIN MaxCommands |-> 0],
          ok |-> TRUE]

Start(op, from, to, o) ==
  LET kind == IF op = "info" THEN "read" ELSE op IN
  /\ pc = "idle" /\ job.n[kind] < MaxCommands[kind]
  /\ job' = [NoJob EXCEPT !.op = op, !.from = from, !.to = to, !.o = o, !.part = 1,
                          !.n = [job.n EXCEPT ![kind] = @ + 1]]
  /\ pages' = EmptyMap /\ num_blocks' = 0 /\ block_no' = 0 /\ pos' = 1
  /\ next_family_id' = 0 /\ rmap' = {} /\ shown' = EmptyMap
\* The output is opened, and emptied, before the inputs are read, even if it is one of
\* them.  Reading changes no file: it comes last.
StartWriting(op, from, to, o, numbered) ==
  /\ job.n["read"] = 0
  /\ Start(op, from, to, o)
  /\ disk' = [disk EXCEPT ![to] = Uf2File(<<>>)]
  /\ meant' = [meant EXCEPT ![to] = [NoMeaning EXCEPT !.numbered = numbered]]

Input == disk[job.from[job.part]]
Files == <<disk, meant>>
Writing == <<segments, pages, num_blocks, block_no>>
Reading == <<family_id, next_family_id, pos, rmap, shown>>
Fail ==
  /\ pc' = "idle" /\ job' = [job EXCEPT !.ok = FALSE]
  /\ UNCHANGED <<Files, Writing, Reading>>

\* What is written reaches the file up to some block.
Write(block) == disk' = [disk EXCEPT ![job.to].blocks = Append(@, block)]
CutOff(blocks) == {SubSeq(blocks, 1, n) : n \in 0 .. Len(blocks)}
FailWriting ==
  /\ pc' = "idle" /\ job' = [job EXCEPT !.ok = FALSE]
  /\ \E left \in CutOff(disk[job.to].blocks) : disk' = [disk EXCEPT ![job.to].blocks = left]
  /\ UNCHANGED <<meant, Writing, Reading>>

(***************************************************************************)
(* uf2 convert                                                             *)
(***************************************************************************)
Contained(file, chip) ==
  {seg \in Mapped(file) : TypeOf(valid_ranges(file, chip), seg.paddr, MappedSize(seg)) = "contents"}
\* What a file that has been converted ought to read as: its bytes, from the
\* address given on, which is where its first page, or for flash its first
\* sector, is put.  And whether the blocks ought to come sector by sector.
MeaningOf(file, o) ==
  LET bytes == Contents(build_rmap_elf(Contained(file, o.chip)))
      first == Min({b.at : b \in bytes})
      base == IF RamStyle(file, o.chip) THEN PageOf(first) ELSE first - (first % SectorSize)
  IN  [of |-> [f \in {o.family} |->
          IF file.type = "bin"
          THEN Contents(Inserted({}, IF o.offset = NotSet THEN flash_start ELSE o.offset, Bytes(file.segs[1])))
          ELSE IF o.offset = NotSet THEN bytes ELSE ShiftedBy(bytes, o.offset - base)],
       whole |-> TRUE, numbered |-> TRUE, complete |-> TRUE, ours |-> TRUE,
       grouped |-> file.type = "elf" /\ ~RamStyle(file, o.chip) /\ (o.offset = NotSet \/ o.offset % SectorSize = 0)]

StartConvert(f, to, o) ==
  /\ disk[f].type \in {"elf", "bin"}
  /\ StartWriting("convert", <<f>>, to, o, TRUE)
  /\ segments' = disk'[f].segs /\ family_id' = o.family
  /\ pc' = IF disk[f].type = "bin" THEN "bin" ELSE "type"

bin2uf2 ==
  /\ pc = "bin" /\ segments # <<>> /\ MappedSize(Head(segments)) > 0
  /\ pages' = PagesFor(Head(segments).offset, IF job.o.offset = NotSet THEN flash_start ELSE job.o.offset,
                       MappedSize(Head(segments)))
  /\ pc' = "absolute"
  /\ UNCHANGED <<Files, job, segments, num_blocks, block_no, Reading>>

BinEmpty == pc = "bin" /\ (segments # <<>> => MappedSize(Head(segments)) = 0) /\ Fail

rp_determine_binary_type ==
  /\ pc = "type" /\ DeterminesType(Input, job.o.chip)
  /\ pc' = "segments"
  /\ UNCHANGED <<Files, job, Writing, Reading>>
TypeRefused == pc = "type" /\ ~DeterminesType(Input, job.o.chip) /\ Fail

\* What is not in the file may be in RAM too; it is not converted.
Uninitialized(seg) == TypeOf(valid_ranges(Input, job.o.chip), seg.paddr + seg.filez, seg.memsz - seg.filez)
SegmentType(seg) ==
  IF MappedSize(seg) = 0 THEN "nothing" ELSE TypeOf(valid_ranges(Input, job.o.chip), seg.paddr, MappedSize(seg))
SegmentPages(seg) ==
  IF MappedSize(seg) = 0 THEN EmptyMap ELSE PagesFor(seg.offset, seg.paddr, MappedSize(seg))
SegmentRefused(seg) ==
  \/ SegmentType(seg) \in {"outside", "no_contents"}
  \/ SegmentType(seg) = "contents" /\ Collide(pages, SegmentPages(seg))
  \/ SegmentType(seg) # "ignore" /\ seg.memsz > seg.filez /\ Uninitialized(seg) = "outside"

check_elf32_ph_entries ==
  /\ pc = "segments" /\ segments # <<>> /\ ~SegmentRefused(Head(segments))
  /\ pages' = IF SegmentType(Head(segments)) = "contents" THEN Joined(pages, SegmentPages(Head(segments))) ELSE pages
  /\ segments' = Tail(segments)
  /\ UNCHANGED <<Files, pc, job, num_blocks, block_no, Reading>>
SegmentFails == pc = "segments" /\ segments # <<>> /\ SegmentRefused(Head(segments)) /\ Fail

\* A flash binary is padded, a RAM binary has to be one that can be entered; both
\* can be moved as they are.
PlacePages ==
  /\ pc = "segments" /\ segments = <<>> /\ pages # EmptyMap /\ ~EntryRefused(Input)
  /\ LET final == IF RamStyle(Input, job.o.chip) THEN pages ELSE Padded
         by == IF job.o.offset = NotSet THEN 0 ELSE job.o.offset - Min(DOMAIN final)
     IN  pages' = [page \in {p + by : p \in DOMAIN final} |-> final[page - by]]
  /\ pc' = "absolute"
  /\ UNCHANGED <<Files, job, segments, num_blocks, block_no, Reading>>
PlaceFails ==
  /\ pc = "segments" /\ segments = <<>> /\ (pages = EmptyMap \/ EntryRefused(Input))
  /\ Fail

\* RP2350-E10: flash UF2s begin with an absolute block.
NeedsAbsolute ==
  /\ job.o.abs /\ job.o.family # ABSOLUTE_FAMILY_ID /\ job.o.chip = "rp2350"
  /\ is_address_initialized(address_ranges_flash(job.o.chip), Min(DOMAIN pages))
WriteAbsolute ==
  /\ pc = "absolute"
  /\ IF NeedsAbsolute THEN Write(gen_abs_block(abs_block_loc)) ELSE UNCHANGED disk
  /\ num_blocks' = Cardinality(DOMAIN pages) /\ pc' = "page"
  /\ UNCHANGED <<meant, job, segments, pages, block_no, Reading>>

\* Pages are written from the lowest address up.
NthPage(n) == CHOOSE p \in DOMAIN pages : Cardinality({q \in DOMAIN pages : q < p}) = n
WritePage ==
  /\ pc = "page"
  /\ Write(Block(NthPage(block_no), block_no, num_blocks, family_id, realize_page(pages[NthPage(block_no)])))
  /\ block_no' = block_no + 1
  /\ pc' = IF block_no' = num_blocks THEN "close" ELSE pc
  /\ UNCHANGED <<meant, job, segments, pages, num_blocks, Reading>>

\* Of uf2 convert, which looks whether it could write each block.
WriteFails == (pc = "page" \/ (pc = "absolute" /\ NeedsAbsolute)) /\ FailWriting

(***************************************************************************)
(* uf2 combine                                                             *)
(***************************************************************************)
StartCombine(f, g, to, o) ==
  /\ disk[f].type = "uf2" /\ disk[g].type = "uf2"
  /\ StartWriting("combine", <<f, g>>, to, o, meant[f].numbered /\ meant[g].numbered)
  /\ pc' = "count" /\ family_id' = o.family
  /\ UNCHANGED segments

\* The first block of a file that is not absolute, if it has a second one.
FirstBlock_Present(blocks) ==
  [(IF check_abs_block(blocks[1]) /\ Len(blocks) > 1 THEN blocks[2] ELSE blocks[1]) EXCEPT
     !.num_blocks = Cardinality({k \in DOMAIN blocks : ~check_abs_block(blocks[k])})]
FirstBlock(blocks) ==
  IF check_abs_block(blocks[1]) /\ Len(blocks) > 1 THEN blocks[2] ELSE blocks[1]

CountBlocks ==
  /\ pc = "count" /\ Input.blocks # <<>>
  /\ num_blocks' = num_blocks + FirstBlock(Input.blocks).num_blocks
  /\ family_id' = IF family_id = 0 THEN FirstBlock(Input.blocks).file_size ELSE family_id
  /\ job' = [job EXCEPT !.o.abs = @ \/ check_abs_block(Input.blocks[1]),
                        !.part = IF @ = 1 THEN 2 ELSE 1]
  /\ pc' = IF job.part = 1 THEN "count" ELSE "combined_absolute"
  /\ UNCHANGED <<Files, segments, pages, block_no, next_family_id, pos, rmap, shown>>
CountFails == pc = "count" /\ Input.blocks = <<>> /\ Fail

WriteCombinedAbsolute ==
  /\ pc = "combined_absolute"
  /\ IF job.o.abs THEN Write(gen_abs_block(abs_block_loc)) ELSE UNCHANGED disk
  /\ pc' = "copy"
  /\ UNCHANGED <<meant, job, Writing, Reading>>

\* The blocks of both files are numbered through, the second file is moved.
Passes(block) == block.usable /\ ~check_abs_block(block)
Copied_OwnCount(block) ==
  [block EXCEPT !.block_no = block_no, !.file_size = family_id,
                !.target_addr = @ + (IF job.part = 2 THEN job.o.offset ELSE 0)]
Copied(block) ==
  [block EXCEPT !.block_no = block_no, !.num_blocks = num_blocks, !.file_size = family_id,
                !.target_addr = @ + (IF job.part = 2 THEN job.o.offset ELSE 0)]
\* The read behind a lone absolute block failed when it was counted, and the stream
\* was not cleared.
Stranded(blocks) == Len(blocks) = 1 /\ check_abs_block(blocks[1])
CopyFails == pc = "copy" /\ Stranded(Input.blocks) /\ FailWriting
CopyBlock ==
  /\ pc = "copy" /\ ~Stranded(Input.blocks) /\ pos <= Len(Input.blocks)
  /\ LET block == Input.blocks[pos]
     IN  IF Passes(block) THEN Write(Copied(block)) /\ block_no' = block_no + 1
         ELSE UNCHANGED <<disk, block_no>>
  /\ pos' = pos + 1
  /\ UNCHANGED <<meant, pc, job, segments, pages, num_blocks, family_id, next_family_id, rmap, shown>>

AllOf(f) == UNION {meant[f].of[family] : family \in DOMAIN meant[f].of}
Apart(blocks) ==
  \A i, j \in DOMAIN blocks :
    i < j /\ ~blocks[i].abs /\ ~blocks[j].abs =>
      \/ blocks[i].target_addr + PageSize <= blocks[j].target_addr
      \/ blocks[j].target_addr + PageSize <= blocks[i].target_addr
\* What two files combined ought to be.
CombinedMeaning ==
  LET f == job.from[1]
      g == job.from[2]
  IN  [of |-> [i \in {family_id} |-> AllOf(f) \union ShiftedBy(AllOf(g), job.o.offset)],
       whole |-> meant[f].whole /\ meant[g].whole /\ Apart(disk[job.to].blocks),
       numbered |-> meant[f].numbered /\ meant[g].numbered,
       complete |-> meant[f].complete /\ meant[g].complete, ours |-> TRUE, grouped |-> FALSE]
NextFile ==
  /\ pc = "copy" /\ ~Stranded(Input.blocks) /\ pos > Len(Input.blocks)
  /\ IF job.part = 1
     THEN job' = [job EXCEPT !.part = 2] /\ pos' = 1 /\ UNCHANGED pc
     ELSE pc' = "close" /\ UNCHANGED <<job, pos>>
  /\ UNCHANGED <<Files, Writing, family_id, next_family_id, rmap, shown>>

\* Neither command looks whether the output could be closed, and uf2 combine has not
\* looked whether it could be written to: it may end before its last block.
Close ==
  /\ pc = "close" /\ pc' = "idle"
  /\ \E left \in CutOff(disk[job.to].blocks) :
       /\ disk' = [disk EXCEPT ![job.to].blocks = left]
       /\ meant' = IF left # disk[job.to].blocks THEN meant
                   ELSE [meant EXCEPT ![job.to] = IF job.op = "convert" THEN MeaningOf(Input, job.o) ELSE CombinedMeaning]
  /\ UNCHANGED <<job, Writing, Reading>>

(***************************************************************************)
(* Reading a file                                                          *)
(***************************************************************************)
\* info looks at every family of a file; the others take the first and may be
\* told to move it.
StartRead(op, f, offset) ==
  /\ Start(op, <<f>>, "", [offset |-> offset])
  /\ pc' = IF disk[f].type = "uf2" THEN "read" ELSE "map"
  /\ family_id' = 0
  /\ UNCHANGED <<Files, segments>>

\* An ELF or BIN has no families.
MapFile ==
  /\ pc = "map" /\ (Input.type = "bin" \/ ~MapRefused(Input))
  /\ rmap' = IF Input.type = "bin"
             THEN Inserted({}, IF job.o.offset = NotSet THEN flash_start ELSE job.o.offset, Bytes(Input.segs[1]))
             ELSE build_rmap_elf(Mapped(Input))
  /\ pc' = "mapped"
  /\ UNCHANGED <<Files, job, Writing, family_id, next_family_id, pos, shown>>
MapFails == pc = "map" /\ Input.type = "elf" /\ MapRefused(Input) /\ Fail

\* Blocks of the family asked for, or else of the first one met, are mapped.
Wanted(block) == block.usable /\ (family_id = 0 \/ block.file_size = family_id)
BlockRefused(block) ==
  Wanted(block) /\ ~check_abs_block(block) /\ InTheWay(rmap, block.target_addr, PageSize)
\* The family to read after this one: the first other one after its last block.
NextFamily_Kept(block) ==
  IF family_id # 0 /\ block.file_size # family_id /\ next_family_id = 0 THEN block.file_size ELSE next_family_id
NextFamily(block) ==
  IF Wanted(block) THEN 0
  ELSE IF family_id # 0 /\ block.file_size # family_id /\ next_family_id = 0 THEN block.file_size ELSE next_family_id
build_rmap_uf2 ==
  /\ pc = "read" /\ pos <= Len(Input.blocks)
  /\ LET block == Input.blocks[pos]
     IN  /\ ~BlockRefused(block)
         /\ IF check_abs_block(block) THEN UNCHANGED <<rmap, family_id, next_family_id>>
            ELSE IF Wanted(block)
            THEN /\ rmap' = Inserted(rmap, block.target_addr, block.data)
                 /\ family_id' = block.file_size /\ next_family_id' = NextFamily(block)
            ELSE next_family_id' = NextFamily(block) /\ UNCHANGED <<rmap, family_id>>
  /\ pos' = pos + 1
  /\ UNCHANGED <<Files, pc, job, Writing, shown>>
BlockFails == pc = "read" /\ pos <= Len(Input.blocks) /\ BlockRefused(Input.blocks[pos]) /\ Fail

\* find_binary_start goes through the ranges in the order of their start.
InOrder(starts) ==
  [n \in 1 .. Cardinality(starts) |-> CHOOSE a \in starts : Cardinality({b \in starts : b < a}) = n - 1]
sram(a) == a >= sram_start /\ a < sram_end
xip_sram(a) == a >= xip_sram_start /\ a < xip_sram_end
StartsBetter_First(from, binary_start) == sram(from) \/ xip_sram(from)
StartsBetter(from, binary_start) ==
  /\ sram(from) \/ (xip_sram(from) /\ ~sram(binary_start))
  /\ from < binary_start \/ (xip_sram(binary_start) /\ sram(from))
find_binary_start(map) ==
  LET from == InOrder({r.from : r \in map})
      best[k \in 0 .. Len(from)] ==
        IF k = 0 THEN Limit - 1
        ELSE CHOOSE start \in {IF StartsBetter(from[k], before) THEN from[k] ELSE before : before \in {best[k - 1]}} : TRUE
  IN  IF \E b \in Contents(map) : b.at = flash_start THEN flash_start
      ELSE IF best[Len(from)] = Limit - 1 THEN 0 ELSE best[Len(from)]

\* offset_by moves every range, modulo 2^32.
OffsetBy(map, rel_offset) == {[r EXCEPT !.from = (@ + rel_offset) % Limit] : r \in map}
Access ==
  IF job.o.offset = NotSet \/ Input.type = "bin" THEN rmap
  ELSE OffsetBy(rmap, job.o.offset - find_binary_start(rmap))

\* The file is at its end; info begins again when there are several families.
ReadFirst ==
  /\ pc \in {"read", "mapped"} /\ pos > Len(Input.blocks)
  /\ job.part = 1 /\ (job.op = "read" \/ next_family_id = 0)
  /\ shown' = [f \in {family_id} |-> Contents(Access)]
  /\ pc' = "idle"
  /\ UNCHANGED <<Files, job, Writing, family_id, next_family_id, pos, rmap>>
\* The loop over the families: next_id goes in as the family to read and comes
\* back as the one to read after it.
ReadFamilies ==
  /\ pc = "read" /\ pos > Len(Input.blocks) /\ job.op = "info" /\ job.part = 1 /\ next_family_id # 0
  /\ family_id' = FirstBlock(Input.blocks).file_size
  /\ next_family_id' = 0 /\ pos' = 1 /\ rmap' = {}
  /\ job' = [job EXCEPT !.part = 2, !.from = Append(@, Head(@))]
  /\ UNCHANGED <<Files, pc, Writing, shown>>
ShowFamily ==
  /\ pc = "read" /\ pos > Len(Input.blocks) /\ job.part = 2
  /\ shown' = [f \in {family_id} |-> Contents(rmap)] @@ shown
  /\ IF next_family_id = 0
     THEN pc' = "idle" /\ UNCHANGED <<family_id, next_family_id, pos, rmap>>
     ELSE /\ family_id' = next_family_id /\ next_family_id' = 0 /\ pos' = 1 /\ rmap' = {}
          /\ UNCHANGED pc
  /\ UNCHANGED <<Files, job, Writing>>

(***************************************************************************)
(* Specification                                                           *)
(***************************************************************************)
\* The blocks that count are numbered from 0, below how many they say there are; all
\* say the same, and are of one family.
Counted(blocks) == {k \in DOMAIN blocks : Passes(blocks[k])}
NumberedFrom0(blocks) ==
  \A k \in Counted(blocks) :
    /\ blocks[k].block_no = Cardinality({j \in Counted(blocks) : j < k})
    /\ blocks[k].block_no < blocks[k].num_blocks
    /\ \A j \in Counted(blocks) :
         blocks[k].file_size = blocks[j].file_size /\ blocks[k].num_blocks = blocks[j].num_blocks
\* As many as they say.
AllThere(blocks) ==
  /\ Counted(blocks) # {}
  /\ \A k \in Counted(blocks) : blocks[k].num_blocks = Cardinality(Counted(blocks))

\* What files of other programs hold: as many programs as they have families.
Given(file) ==
  LET usable == {block \in ToSet(file.blocks) : Passes(block)}
      families == {block.file_size : block \in usable}
      Of(f) == {[from |-> block.target_addr, bytes |-> block.data] : block \in {b \in usable : b.file_size = f}}
      numbered == usable # {} /\ Passes(FirstBlock(file.blocks)) /\ NumberedFrom0(file.blocks)
  IN  IF file.type # "uf2" THEN NoMeaning
      ELSE [of |-> [f \in families |-> Contents(Of(f))], whole |-> usable # {},
            numbered |-> numbered, complete |-> numbered /\ AllThere(file.blocks),
            ours |-> FALSE, grouped |-> FALSE]

Init ==
  /\ disk \in Disks /\ meant = [f \in Names |-> Given(disk[f])]
  /\ pc = "idle" /\ job = NoJob
  /\ segments = <<>> /\ pages = EmptyMap /\ num_blocks = 0 /\ block_no = 0
  /\ family_id = 0 /\ next_family_id = 0 /\ pos = 1 /\ rmap = {} /\ shown = EmptyMap

Step ==
  \/ bin2uf2 \/ BinEmpty \/ rp_determine_binary_type \/ TypeRefused
  \/ check_elf32_ph_entries \/ SegmentFails \/ PlacePages \/ PlaceFails
  \/ WriteAbsolute \/ WritePage
  \/ CountBlocks \/ CountFails \/ WriteCombinedAbsolute \/ CopyBlock \/ CopyFails \/ NextFile \/ Close
  \/ MapFile \/ MapFails \/ build_rmap_uf2 \/ BlockFails \/ ReadFirst \/ ReadFamilies \/ ShowFamily
Command ==
  \/ \E f, to \in Names, o \in ConvertOptions : StartConvert(f, to, o)
  \/ \E f, g, to \in Names, o \in CombineOptions : StartCombine(f, g, to, o)
  \/ \E f \in Names : StartRead("info", f, NotSet)
  \/ \E f \in Names, offset \in Offsets : StartRead("read", f, offset)
Next == Step \/ Command \/ WriteFails

Spec == Init /\ [][Next]_vars
FairSpec == Spec /\ WF_vars(Step)

(***************************************************************************)
(* Properties                                                              *)
(***************************************************************************)
StateOK ==
  /\ DOMAIN disk = Names /\ DOMAIN meant = Names
  /\ \A f \in Names : \A b \in ToSet(disk[f].blocks) : b.target_addr \in Nat /\ DOMAIN b.data = 0 .. PageSize - 1
  /\ pc \in {"idle", "bin", "type", "segments", "absolute", "page", "close", "count", "combined_absolute", "copy",
             "map", "mapped", "read"}
  /\ job.op \in {"", "convert", "combine", "info", "read"} /\ job.part \in 0 .. 2 /\ job.n \in [DOMAIN MaxCommands -> Nat]
  /\ num_blocks \in Nat /\ block_no \in Nat /\ pos \in Nat \ {0}
  /\ \A p \in DOMAIN pages : \A f \in ToSet(pages[p]) : f.bytes > 0 /\ f.page_offset + f.bytes <= PageSize

Finished(op) == pc = "idle" /\ job.op = op

\* A file shows, family by family, every byte of the programs it was made of at the
\* address it was meant for, and between them nothing but zeros: a file that was
\* converted or combined and not cut off, from files that were not and whose blocks
\* stay apart.
ReadsBack ==
  Finished("info") /\ meant[job.from[1]].whole =>
    LET of == meant[job.from[1]].of
    IN  /\ job.ok /\ DOMAIN shown = DOMAIN of
        /\ \A f \in DOMAIN of :
             /\ of[f] \subseteq shown[f]
             /\ \A b \in shown[f] \ of[f] : b.byte = 0 /\ \A m \in of[f] : m.at # b.at

\* The boot ROM counts: at any moment the blocks of a file are numbered from 0, all
\* say the same number of blocks and none is beyond it, and all are for one family.
\* Of files made by others, those that are numbered so and go in alone or combined:
\* files of several families, of which uf2 combine counts only the first, are left out.
Numbered == \A f \in Names : meant[f].numbered => NumberedFrom0(disk[f].blocks)

\* A file that was cut off when it was written shows that, though the command may have
\* ended without an error: it has fewer blocks than they say.  Combined with others it
\* still does, and a file that is all there never does.  Left out is the moment before
\* it is closed.
Open(f) == pc \in {"copy", "close"} /\ job.to = f
CutOffShows ==
  \A f \in Names : meant[f].numbered /\ ~Open(f) => (meant[f].complete <=> AllThere(disk[f].blocks))

\* The RP2040 boot ROM erases a sector for every SectorPages block numbers: the
\* blocks of a flash binary fall into sectors the way their numbers do, so nothing
\* is erased after it was written and nothing is written that was not erased.
SectorsByNumber ==
  \A f \in Names : meant[f].grouped =>
    \A b, c \in {b \in ToSet(disk[f].blocks) : ~b.abs} :
      (SectorOf(b.target_addr) = SectorOf(c.target_addr))
        <=> (b.block_no \div SectorPages = c.block_no \div SectorPages)

\* The absolute block is the first of a file or not in it, however often files are
\* combined, and the others are kept if one of the files had it.
AbsoluteFirst ==
  \A f \in Names : meant[f].ours => \A k \in DOMAIN disk[f].blocks : check_abs_block(disk[f].blocks[k]) => k = 1

\* What picotool leaves on disk is the beginning of a UF2 that a boot ROM can count its
\* way through, but for what is combined from files of several families (Numbered).
WellFormed == StateOK /\ Numbered /\ AbsoluteFirst

\* A file that is moved begins where it was told to: what is at the start of flash,
\* or else of the lowest block in SRAM, or else in XIP SRAM, is at the offset,
\* and the rest as far from it as before, modulo 2^32.  Left out are files that are
\* in none of these places, and a move that puts a block across 2^32.
Begins(blocks) ==
  LET starts == {b.target_addr : b \in blocks}
      in_sram == {a \in starts : sram(a)}
      in_xip_sram == {a \in starts : xip_sram(a)}
  IN  IF \E a \in starts : flash_start \in a .. a + PageSize - 1 THEN flash_start
      ELSE IF in_sram # {} THEN Min(in_sram) ELSE IF in_xip_sram # {} THEN Min(in_xip_sram) ELSE 0
OneProgram(f) == \E family \in DOMAIN meant[f].of : DOMAIN meant[f].of = {family}
MovedToOffset ==
  Finished("read") /\ job.ok /\ job.o.offset # NotSet /\ meant[job.from[1]].whole
    /\ OneProgram(job.from[1]) =>
      LET blocks == {b \in ToSet(disk[job.from[1]].blocks) : Passes(b)}
          begins == Begins(blocks)
          To(a) == (job.o.offset + a - begins) % Limit
      IN  begins # 0 /\ (\A b \in blocks : To(b.target_addr) + PageSize <= Limit) =>
            \A b \in AllOf(job.from[1]) : \A f \in DOMAIN shown : At(To(b.at), b.byte) \in shown[f]

\* Every command ends.
Ends == (pc # "idle") ~> (pc = "idle")
==============================================================================
