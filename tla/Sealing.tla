------------------------------- MODULE Sealing -------------------------------
(***************************************************************************)
(* The commands that read and extend the block loop of a file: seal (ELF   *)
(* and BIN), link (BIN) and info, with bintool.cpp below them.  Files live *)
(* on; a file may be sealed again, or be one that was linked before.       *)
(*                                                                         *)
(* A file is its segments, each a place in storage (at), a place where it  *)
(* runs (run) and words; a BIN has one.  A digest is the sequence of words *)
(* that was hashed, a signature holds the digest it was made for: neither  *)
(* can be forged and both can be compared.  A loop of the code that never  *)
(* advances takes no step here.                                            *)
(***************************************************************************)
EXTENDS Picobin

CONSTANTS
    Files, Disks,           \* file names, and what the files may hold at first
    SealOptions,            \* of seal: hash, sign, clear, pin, version, squash
    Aligns,                 \* of link: settings.link.align, powers of two
    MaxCommands,            \* how many commands are run
    MaxBlocks,              \* how many blocks a loop is followed for
    FirstRead,              \* how much of a file the readers take at first
    flash_start, flash_end, sram_start, sram_striped_end, sram_end, xip_sram_start, xip_sram_end

ASSUME RegionsAssumption ==
    /\ {flash_start, flash_end, sram_start, sram_striped_end, sram_end, xip_sram_start, xip_sram_end}
         \subseteq Nat \ {0}
    /\ flash_start < flash_end /\ xip_sram_start < xip_sram_end
    /\ sram_start < sram_striped_end /\ sram_striped_end <= sram_end
ASSUME DisksAssumption == \A d \in Disks : DOMAIN d = Files
ASSUME OptionsAssumption ==
    SealOptions \subseteq [hash : BOOLEAN, sign : BOOLEAN, clear : BOOLEAN, pin : BOOLEAN,
                           version : {"none", "plain", "rollback"}, squash : BOOLEAN]

VARIABLES
    disk,                   \* file -> its contents
    made,                   \* history: file -> the commands that made it, first to last
    pc, job,                \* the command that is executing, with its arguments
    img,                    \* the file in memory
    chunks, begin,          \* what find_first_block has left to look at, from index begin
    first, all_blocks,      \* the first block, and those found behind it
    next_block_addr,
    new_block, to_hash,     \* the block to add or to check, what is hashed before it
    first_blocks, output,   \* link: the first block of every file, what is linked so far
    verdict                 \* what the last command reported
vars == <<disk, made, pc, job, img, chunks, begin, first, all_blocks, next_block_addr,
          new_block, to_hash, first_blocks, output, verdict>>

None == [at |-> 0, rel |-> 0, index |-> 0, items |-> <<>>]

(***************************************************************************)
(* Files                                                                   *)
(***************************************************************************)
Size(seg) == Len(seg.words)
EndOf(seg) == seg.at + Size(seg)
In(a, from, to) == a >= from /\ a < to
sorted_segments(i) == SetToSortSeq(i.segs, LAMBDA s, t : s.at < t.at)
Holding(i, a) == {s \in i.segs : In(a, s.at, EndOf(s))}
Bin(at, words) == [kind |-> "bin", entry |-> at, segs |-> {[at |-> at, run |-> at, words |-> words]}]
BinStart(i) == Min({s.at : s \in i.segs})

\* The words of a file from `from' on; what it does not contain reads as zero.
Contents(i, from, n) ==
  [k \in 1 .. n |-> LET s == Holding(i, from + k - 1)
                    IN  IF s = {} THEN Zero
                        ELSE LET t == CHOOSE t \in s : TRUE IN t.words[from + k - t.at]]
\* From address `a' on, what the code can look at: the segment, or all that is read.
Behind(i, a) ==
  LET s == CHOOSE s \in Holding(i, a) : TRUE IN SubSeq(s.words, a - s.at + 1, Size(s))

Put(i, a, word) ==
  [i EXCEPT !.segs = {IF In(a, s.at, EndOf(s)) THEN [s EXCEPT !.words[a - s.at + 1] = word] ELSE s : s \in @}]

InFlash(s) == In(s.at, flash_start, flash_end)
InRam(s) == In(s.at, sram_start, sram_striped_end)
highest_address(i) ==
  LET ends(Where(_)) == {EndOf(s) : s \in {s \in i.segs : Size(s) > 0 /\ Where(s)}}
  IN  IF ends(InFlash) # {} THEN Max(ends(InFlash)) ELSE Max({0} \union ends(InRam))

\* The segments of an ELF for RAM are moved together, those for XIP SRAM to the end.
\* An empty one, or one that begins where the one before it did, stays where it is.
squash_seg(acc, s) ==
  LET to == IF acc.end = 0 THEN s.at ELSE acc.end
      alias == s.at = acc.start
  IN  IF Size(s) = 0 \/ alias THEN [acc EXCEPT !.start = s.at, !.segs = @ \union {s}]
      ELSE [start |-> s.at, end |-> to + Size(s), segs |-> acc.segs \union {[s EXCEPT !.at = to]}]
store_squashed(i) ==
  LET xip(s) == In(s.at, xip_sram_start, xip_sram_end)
      order == SelectSeq(sorted_segments(i), LAMBDA s : ~xip(s)) \o SelectSeq(sorted_segments(i), xip)
  IN  IF \E s \in i.segs : Size(s) > 0 /\ InFlash(s) THEN i
      ELSE [i EXCEPT !.segs = FoldLeft(squash_seg, [start |-> 0, end |-> 0, segs |-> {}], order).segs]

(***************************************************************************)
(* Placing a block                                                         *)
(***************************************************************************)
set_next_block_OverLast(i, block, to) == Put(i, block.at + block.index - 1, Rel(to - block.at))
set_next_block(i, block, to) == Put(i, block.at + block.index, Rel(to - block.at))

set_block_ignored(i, blocks) ==
  LET headers == {block.at + 1 : block \in ToSet(blocks)}
      Ignored(word) == IF Kind(word) = "partition_table" THEN word
                       ELSE <<"ignored", decode_size(word), {}>>
  IN  [i EXCEPT !.segs = {[s EXCEPT !.words = [k \in DOMAIN @ |->
         IF s.at + k - 1 \in headers THEN Ignored(@[k]) ELSE @[k]]] : s \in @}]

\* A BIN leaves out the first block of a loop, an ELF the last.
IgnoredBlocks(i) ==
  IF first.rel = 0 THEN <<first>>
  ELSE IF i.kind = "bin" THEN all_blocks
  ELSE <<first>> \o Front(all_blocks)

LinkFrom_First == first
LinkFrom == IF first.rel = 0 THEN first ELSE Last(all_blocks)

loop_start_rel_Last(at) == LinkFrom.at - at
loop_start_rel(at) == first.at - at

\* The items the new block starts with: those of the last block if it describes
\* an image, else of the first, without hash and signature.
CopiedItems ==
  LET source == IF first.rel # 0 /\ HasItem(Last(all_blocks), "image_def")
                THEN Last(all_blocks) ELSE first
  IN  SelectSeq(source.items, LAMBDA item : item.kind \notin {"signature", "hash_value", "hash_def"})

place_new_block(i, ignore) ==
  LET linked == set_next_block(i, LinkFrom, highest_address(i))
  IN  IF ignore THEN set_block_ignored(linked, IgnoredBlocks(i)) ELSE linked

(***************************************************************************)
(* Load map, hash and signature                                            *)
(***************************************************************************)
Entry(storage, runtime, size) == <<"entry", 1, <<storage, runtime, size>>>>
SramSize == sram_end - sram_start
PinEntry == Entry(0, xip_sram_start, 0)
IsGeneric(item) == item.data = <<PinEntry>>

\* The words of an ELF an entry is about, segment by segment as the code takes them.
Gathered(i, from, n) ==
  LET take[a \in Int, left \in Int] ==
        IF left <= 0 THEN <<>>
        ELSE LET s == CHOOSE s \in Holding(i, a) : TRUE
             IN  Behind(i, a) \o take[a + Size(s), left - Len(Behind(i, a))]
  IN  SubSeq(take[from, n], 1, n)
EntryData(i, e) ==
  IF e[3][1] = 0 THEN <<Num(e[3][3])>>
  ELSE IF i.kind = "elf" THEN Gathered(i, e[3][1], e[3][3])
  ELSE Contents(i, e[3][1], e[3][3])

\* The items with their load map, and what it makes the hash begin with.
get_lm_hash_data(i, items, clear, pin) ==
  LET maps == SelectSeq(items, LAMBDA item : item.kind = "load_map")
      pin_xip_sram == pin \/ (maps # <<>> /\ IsGeneric(maps[1]))
      given == (IF clear THEN <<Entry(0, sram_start, SramSize)>> ELSE <<>>)
               \o (IF pin_xip_sram THEN <<PinEntry>> ELSE <<>>)
      segs == [k \in 1 .. Cardinality(i.segs) |->
                 LET s == sorted_segments(i)[k] IN Entry(s.at, s.run, Size(s))]
      Data(entries) == FlattenSeq([k \in DOMAIN entries |-> EntryData(i, entries[k])])
  IN  IF maps # <<>> /\ ~pin_xip_sram
      THEN [items |-> items, to_hash |-> Data(maps[1].data)]
      ELSE [items |-> Append(Without(items, "load_map"), Item("load_map", {}, given \o segs)),
            to_hash |-> IF i.kind = "bin" THEN Data(segs) \o Data(given) ELSE Data(given \o segs)]

\* What is hashed: the data, then the block without its TBYB flag.
HashInput(data, items, words) ==
  data \o (IF items[1].kind = "image_def" THEN [words EXCEPT ![2][3] = @ \ {"tbyb"}] ELSE words)

hash_andor_sign_block(block, data, hash, sign) ==
  LET defined == [block EXCEPT !.items = Append(@, Item("hash_def", {}, <<Num(0)>>))]
      words == block_to_words(defined)
      digest == HashInput(data, defined.items, SubSeq(words, 1, Len(words) - 3))
  IN  IF ~hash /\ ~sign THEN block
      ELSE [defined EXCEPT !.items = @
              \o (IF sign THEN <<Item("signature", {}, <<<<"sig", 1, digest>>>>)>> ELSE <<>>)
              \o (IF hash THEN <<Item("hash_value", {}, <<<<"digest", 1, digest>>>>)>> ELSE <<>>)]

\* What verify_block says of a hash or a signature, when the words in front of the
\* block's are known.
Checked(block, data, kind) ==
  LET digest == HashInput(data, block.items,
                  SubSeq(block_to_words(block), 1, get_item(block, "hash_def").data[1][3]))
  IN  IF ~HasItem(block, "hash_def") \/ ~HasItem(block, kind) THEN "none"
      ELSE IF get_item(block, kind).data[1][3] = digest THEN "passed" ELSE "failed"

(***************************************************************************)
(* The items seal adds before the hash                                     *)
(***************************************************************************)
WithVersion(items, version) ==
  IF version = "none" THEN items
  ELSE Append(Without(items, "version"),
              Item("version", {}, <<Num(IF version = "rollback" THEN 1 ELSE 0)>>))

IsArm(items) == \E k \in DOMAIN items : items[k].kind = "image_def" /\ "arm" \in items[k].flags
\* The first word of the item of a kind, if there is one.
WordOf(items, kind, otherwise) ==
  LET found == SelectSeq(items, LAMBDA item : item.kind = kind)
  IN  IF found # <<>> THEN found[1].data[1][3] ELSE otherwise
DefaultVector(i, items) ==
  IF i.kind = "bin" THEN BinStart(i)
  ELSE IF i.entry >= sram_start THEN sram_start
  ELSE IF i.entry >= xip_sram_start THEN xip_sram_start
  ELSE flash_start + WordOf(items, "rolling_delta", 0)
VectorOf(i, items) == WordOf(items, "vector_table", DefaultVector(i, items))
\* The vector table is looked up where it runs.
Vectors(i, a) == {s \in i.segs : In(a, s.run, s.run + Size(s))}

\* Signing an Arm image asks for extra security and names the entry point.
WithEntryPoint(i, items) ==
  LET secure == [k \in DOMAIN items |->
                   IF items[k].kind = "image_def" THEN [items[k] EXCEPT !.flags = @ \union {"extra"}]
                   ELSE items[k]]
      at == VectorOf(i, items)
      s == CHOOSE s \in Vectors(i, at) : TRUE
      has(kind) == \E k \in DOMAIN items : items[k].kind = kind
  IN  IF ~IsArm(items) THEN items
      ELSE IF has("entry_point") THEN secure
      ELSE secure
           \o (IF has("vector_table") THEN <<>> ELSE <<Item("vector_table", {}, <<Num(at)>>)>>)
           \o <<Item("entry_point", {}, SubSeq(s.words, at - s.run + 1, at - s.run + 2))>>

(***************************************************************************)
(* Finding the blocks                                                      *)
(***************************************************************************)
NoImage == [kind |-> "bin", entry |-> 0, segs |-> {}]
NoJob == [op |-> "", files |-> <<>>, argument |-> <<>>, part |-> 0, n |-> 0]
NoVerdict == [file |-> "", best |-> 0, hash |-> "", sig |-> ""]

\* A command looks for the first block of a file, in the parts given.
Look(i, parts) ==
  /\ img' = i /\ chunks' = parts /\ begin' = 1 /\ pc' = "find"
  /\ first' = None /\ all_blocks' = <<>> /\ next_block_addr' = 0

\* A command ends, having reported r.
Done(r) ==
  /\ pc' = "idle" /\ verdict' = r
  /\ job' = [NoJob EXCEPT !.n = job.n]
  /\ img' = NoImage /\ chunks' = <<>> /\ begin' = 1
  /\ first' = None /\ all_blocks' = <<>> /\ next_block_addr' = 0
  /\ new_block' = None /\ to_hash' = <<>> /\ first_blocks' = <<>> /\ output' = <<>>
Fail ==
  /\ Done([file |-> job.files[1], best |-> 0, hash |-> "error", sig |-> "error"])
  /\ UNCHANGED <<disk, made>>
\* The next START, if the part looked at has one.
Starts == {k \in begin .. Len(chunks[1].words) : chunks[1].words[k] = Start}
Finding == pc = "find" /\ chunks # <<>>

NextChunk ==
  /\ Finding /\ Starts = {}
  /\ chunks' = Tail(chunks) /\ begin' = 1
  /\ UNCHANGED <<disk, made, pc, job, img, first, all_blocks, next_block_addr,
                 new_block, to_hash, first_blocks, output, verdict>>

NoBlock == pc = "find" /\ chunks = <<>> /\ Fail

\* A START that begins no block.  In a BIN a bad LAST item ends the search there, in
\* an ELF the loop stays at it; both stay at an item of size 0.
SkipBlock ==
  /\ Finding /\ Starts # {}
  /\ LET b == Min(Starts)
         e == Walked(chunks[1].words, b)
     IN  /\ ~IsBlock(chunks[1].words, b)
         /\ e > Len(chunks[1].words) \/ (img.kind = "bin" /\ e > 0)
         /\ begin' = b + 1
  /\ UNCHANGED <<disk, made, pc, job, img, chunks, first, all_blocks, next_block_addr,
                 new_block, to_hash, first_blocks, output, verdict>>

Collecting == job.op = "link" /\ Len(first_blocks) < Len(job.files)

FoundBlock ==
  /\ Finding /\ Starts # {} /\ IsBlock(chunks[1].words, Min(Starts))
  /\ first' = block_parse(chunks[1].words, Min(Starts), chunks[1].at)
  /\ next_block_addr' = NextAt(first')
  /\ pc' = IF Collecting THEN "collect"
           ELSE IF job.op = "seal" /\ first'.rel = 0 THEN "finish" ELSE "walk"
  /\ UNCHANGED <<disk, made, job, img, chunks, begin, all_blocks, new_block, to_hash,
                 first_blocks, output, verdict>>

BlockThere(a) == Holding(img, a) # {} /\ IsBlock(Behind(img, a), 1)

\* The loop is followed until it is back at the first block.
WalkBlock ==
  /\ pc = "walk" /\ BlockThere(next_block_addr) /\ Len(all_blocks) < MaxBlocks
  /\ LET block == block_parse(Behind(img, next_block_addr), 1, next_block_addr)
     IN  /\ all_blocks' = Append(all_blocks, block)
         /\ next_block_addr' = NextAt(block)
         /\ pc' = IF NextAt(block) = first.at THEN "finish" ELSE "walk"
  /\ UNCHANGED <<disk, made, job, img, chunks, begin, first, new_block, to_hash,
                 first_blocks, output, verdict>>

\* No START there, or no LAST item behind it.
LoopInvalid ==
  /\ pc = "walk"
  /\ LET there == Holding(img, next_block_addr)
         words == Behind(img, next_block_addr)
     IN  there = {} \/ words[1] # Start \/ Walked(words, 1) > Len(words)
  /\ Fail

(***************************************************************************)
(* seal and info                                                           *)
(***************************************************************************)
SegmentsOf(i) == [k \in 1 .. Cardinality(i.segs) |-> sorted_segments(i)[k]]
Begin(op, files, argument) ==
  /\ pc = "idle" /\ job.n < MaxCommands
  /\ job' = [op |-> op, files |-> files, argument |-> argument, part |-> 1, n |-> job.n + 1]
  /\ verdict' = NoVerdict
  /\ UNCHANGED <<disk, made, new_block, to_hash, first_blocks, output>>

StartSeal(f, o) ==
  /\ Begin("seal", <<f>>, o)
  /\ LET i == IF disk[f].kind = "elf" /\ o.squash THEN store_squashed(disk[f]) ELSE disk[f]
     IN  Look(i, SegmentsOf(i))

\* A reader takes the words from the start of the file, whatever its format.
LookToRead(i) ==
  Look([i EXCEPT !.kind = "bin"],
       << [at |-> BinStart(i), words |-> Contents(i, BinStart(i), FirstRead)] >>)
StartInfo(f) == Begin("info", <<f>>, <<>>) /\ LookToRead(disk[f])

Readable(i, items) ==
  \A k \in DOMAIN items : items[k].kind = "load_map" =>
    \A e \in ToSet(items[k].data) : e[3][1] = 0 \/ \A a \in e[3][1] .. e[3][1] + e[3][3] - 1 : Holding(i, a) # {}

\* hash_andor_sign: an ELF gets a segment, a BIN is continued.
WithBlock(i, block) ==
  LET words == block_to_words(block)
  IN  IF i.kind = "elf"
      THEN [i EXCEPT !.segs = @ \union {[at |-> block.at, run |-> block.at, words |-> words]}]
      ELSE [i EXCEPT !.segs = {[s EXCEPT !.words = @ \o words] : s \in @}]

Refused(o) ==
  \/ o.version = "rollback" /\ ~o.sign
  \/ /\ o.sign /\ IsArm(CopiedItems)
     /\ \A k \in DOMAIN CopiedItems : CopiedItems[k].kind # "entry_point"
     /\ LET at == VectorOf(img, CopiedItems) IN Vectors(img, at) = {} \/ Vectors(img, at + 1) = {}
  \/ ~Readable(img, CopiedItems)

At(op, at) == job.op = op /\ pc = at

\* The new block with the items seal puts in before it is hashed.
PlaceBlock ==
  /\ At("seal", "finish") /\ ~Refused(job.argument)
  /\ LET o == job.argument
         at == highest_address(img)
         items == WithVersion(CopiedItems, o.version)
     IN  /\ img' = place_new_block(img, o.version = "rollback")
         /\ new_block' = [at |-> at, rel |-> loop_start_rel(at), index |-> 0,
                          items |-> IF o.sign THEN WithEntryPoint(img, items) ELSE items]
  /\ pc' = "placed"
  /\ UNCHANGED <<disk, made, job, chunks, begin, first, all_blocks, next_block_addr, to_hash,
                 first_blocks, output, verdict>>

\* Both for a block that is made and for one that is checked.
MapBlock ==
  /\ pc = "placed"
  /\ LET sealing == job.op = "seal"
         lm == get_lm_hash_data(img, new_block.items, sealing /\ job.argument.clear,
                                sealing /\ job.argument.pin)
     IN  new_block' = [new_block EXCEPT !.items = lm.items] /\ to_hash' = lm.to_hash
  /\ pc' = "mapped"
  /\ UNCHANGED <<disk, made, job, img, chunks, begin, first, all_blocks, next_block_addr,
                 first_blocks, output, verdict>>

HashBlock ==
  /\ At("seal", "mapped")
  /\ new_block' = hash_andor_sign_block(new_block, to_hash, job.argument.hash, job.argument.sign)
  /\ pc' = "hashed"
  /\ UNCHANGED <<disk, made, job, img, chunks, begin, first, all_blocks, next_block_addr, to_hash,
                 first_blocks, output, verdict>>

\* The file is written, and then shown as info does.
Seal ==
  /\ At("seal", "hashed")
  /\ disk' = [disk EXCEPT ![job.files[1]] = WithBlock(img, new_block)]
  /\ made' = [made EXCEPT ![job.files[1]] = Append(@, [op |-> "seal", o |-> job.argument])]
  /\ pc' = "written"
  /\ UNCHANGED <<job, img, chunks, begin, first, all_blocks, next_block_addr, new_block, to_hash,
                 first_blocks, output, verdict>>
ShowSealed ==
  /\ At("seal", "written")
  /\ LookToRead(disk[job.files[1]])
  /\ job' = [job EXCEPT !.op = "info", !.argument = <<>>]
  /\ new_block' = None /\ to_hash' = <<>>
  /\ UNCHANGED <<disk, made, first_blocks, output, verdict>>

SealRefused == At("seal", "finish") /\ Refused(job.argument) /\ Fail

\* Blocks for Arm are preferred, later ones to earlier ones; the first block is
\* what is left when no other describes an image.
find_best_block ==
  LET images == SelectSeq(all_blocks, LAMBDA block : HasItem(block, "image_def"))
      arms == SelectSeq(images, LAMBDA block : IsArm(block.items))
  IN  IF arms # <<>> THEN Last(arms) ELSE IF images # <<>> THEN Last(images) ELSE first

PickBlock ==
  /\ At("info", "finish")
  /\ new_block' = find_best_block
  /\ pc' = IF HasItem(new_block', "hash_def") THEN "placed" ELSE "mapped"
  /\ UNCHANGED <<disk, made, job, img, chunks, begin, first, all_blocks, next_block_addr, to_hash,
                 first_blocks, output, verdict>>

VerifyBlock ==
  /\ At("info", "mapped")
  /\ Done([file |-> job.files[1], best |-> new_block.at,
           hash |-> Checked(new_block, to_hash, "hash_value"),
           sig |-> Checked(new_block, to_hash, "signature")])
  /\ UNCHANGED <<disk, made>>

(***************************************************************************)
(* link                                                                    *)
(***************************************************************************)
StartLink(files, align) ==
  /\ \A k \in DOMAIN files : disk[files[k]].kind = "bin"
  /\ Begin("link", files, [align |-> align, fits |-> TRUE, all_linked |-> TRUE])
  /\ Look(disk[files[1]], SegmentsOf(disk[files[1]]))

\* The first blocks of all files are collected, then the files are read again.
Collect ==
  /\ pc = "collect"
  /\ first_blocks' = Append(first_blocks, first)
  /\ LET f == job.files[(Len(first_blocks') % Len(job.files)) + 1]
     IN  Look(disk[f], SegmentsOf(disk[f]))
  /\ UNCHANGED <<disk, made, job, new_block, to_hash, output, verdict>>

\* Without an image in its last block a file is linked by its first: the block
\* placed then follows the one before the last, which leaves the loop.
Swapped == ~HasItem(Last(all_blocks), "image_def")
Described == IF Swapped THEN first ELSE Last(all_blocks)
Predecessor ==
  IF ~Swapped THEN Last(all_blocks)
  ELSE IF Len(all_blocks) = 1 THEN first ELSE all_blocks[Len(all_blocks) - 1]

\* Where the first block of the next file will be, after padding, relative to the
\* block placed here; behind the last file the loop goes back to the first.
next_first_block_rel(size, k, align) ==
  IF k < Len(job.files)
  THEN (first_blocks[k + 1].at - BinStart(img)) + (align - (size % align))
  ELSE (first_blocks[1].at - BinStart(img)) - (Len(output) + size)

\* Behind the first file an image is told how far it has been moved.
LinkedItems ==
  LET moved == Append(Described.items, Item("rolling_delta", {}, <<Num(Len(output))>>))
  IN  IF output = <<>> THEN Described.items
      ELSE IF IsArm(Described.items) /\ ~HasItem(Described, "vector_table")
      THEN Append(moved, Item("vector_table", {}, <<Num(BinStart(img))>>))
      ELSE moved

Padded(words, align) ==
  words \o [k \in 1 .. ((align - (Len(words) % align)) % align) |-> Zero]

\* The file's last block is linked to the one that is added to it.
PlaceLink ==
  /\ At("link", "finish") /\ (output = <<>> \/ HasItem(Described, "image_def"))
  /\ LET at == highest_address(img)
     IN  /\ img' = set_next_block(img, Predecessor, at)
         /\ new_block' = [at |-> at, index |-> 0, items |-> LinkedItems,
                          rel |-> next_first_block_rel(at - BinStart(img), job.part, job.argument.align)]
         /\ job' = [job EXCEPT !.argument.all_linked = @ /\ (~Swapped \/ Last(all_blocks).at = first.at)]
  /\ pc' = "mapped"
  /\ UNCHANGED <<disk, made, chunks, begin, first, all_blocks, next_block_addr, to_hash,
                 first_blocks, output, verdict>>

Fits(size, block, align) == (size % align) + Len(block_to_words(block)) <= align
LinkedFile(align) ==
  output \o Padded((CHOOSE s \in img.segs : TRUE).words \o block_to_words(new_block), align)

LinkNext ==
  /\ At("link", "mapped") /\ job.part < Len(job.files)
  /\ output' = LinkedFile(job.argument.align)
  /\ job' = [job EXCEPT !.part = @ + 1,
                        !.argument.fits = @ /\ Fits(new_block.at - BinStart(img), new_block, job.argument.align)]
  /\ Look(disk[job.files[job.part + 1]], SegmentsOf(disk[job.files[job.part + 1]]))
  /\ new_block' = None
  /\ UNCHANGED <<disk, made, to_hash, first_blocks, verdict>>

LinkLast ==
  /\ At("link", "mapped") /\ job.part = Len(job.files)
  /\ disk' = [disk EXCEPT ![job.files[1]] = Bin(flash_start, LinkedFile(job.argument.align))]
  /\ made' = [made EXCEPT ![job.files[1]] =
                @ \o made[job.files[2]] \o << [op |-> "link", o |-> job.argument] >>]
  /\ Done(NoVerdict)

\* Behind the first file the architecture of the image is looked at.
LinkRefused == At("link", "finish") /\ output # <<>> /\ ~HasItem(Described, "image_def") /\ Fail

(***************************************************************************)
(* Specification                                                           *)
(***************************************************************************)
Init ==
  /\ disk \in Disks /\ made = [f \in Files |-> <<>>]
  /\ pc = "idle" /\ job = NoJob /\ verdict = NoVerdict
  /\ img = NoImage /\ chunks = <<>> /\ begin = 1
  /\ first = None /\ all_blocks = <<>> /\ next_block_addr = 0
  /\ new_block = None /\ to_hash = <<>> /\ first_blocks = <<>> /\ output = <<>>

Step ==
  \/ NextChunk \/ NoBlock \/ SkipBlock \/ FoundBlock \/ WalkBlock \/ LoopInvalid
  \/ PlaceBlock \/ MapBlock \/ HashBlock \/ Seal \/ ShowSealed \/ SealRefused
  \/ PickBlock \/ VerifyBlock
  \/ Collect \/ PlaceLink \/ LinkNext \/ LinkLast \/ LinkRefused
Command ==
  \/ \E f \in Files : StartInfo(f) \/ \E o \in SealOptions : StartSeal(f, o)
  \/ \E f, g \in Files, align \in Aligns : f # g /\ StartLink(<<f, g>>, align)
Next == Step \/ Command

Spec == Init /\ [][Next]_vars
FairSpec == Spec /\ WF_vars(Step)

(***************************************************************************)
(* Properties                                                              *)
(***************************************************************************)
StateOK ==
  /\ DOMAIN disk = Files /\ DOMAIN made = Files
  /\ pc \in {"idle", "find", "collect", "walk", "finish", "placed", "mapped", "hashed", "written"}
  /\ job.op \in {"", "seal", "info", "link"} /\ (pc = "idle") <=> (job.op = "")
  /\ job.n \in 0 .. MaxCommands /\ job.part \in 0 .. 2 /\ begin \in Nat \ {0}
  /\ Len(all_blocks) <= MaxBlocks /\ Len(first_blocks) <= 2
  /\ \A f \in Files : disk[f].kind \in {"bin", "elf"} /\ \A s \in disk[f].segs : s.at \in Nat /\ s.run \in Nat

Blocks(i) == {a \in UNION {s.at .. EndOf(s) - 1 : s \in i.segs} : IsBlock(Behind(i, a), 1)}
BlockAt(i, a) == block_parse(Behind(i, a), 1, a)
OneLoop(i) ==
  LET blocks == Blocks(i)
      next == [a \in blocks |-> NextAt(BlockAt(i, a))]
      reached[n \in Nat] ==
        IF n = 0 THEN {Min(blocks)}
        ELSE LET r == reached[n - 1] IN r \union {next[a] : a \in r \intersect blocks}
  IN  reached[Cardinality(blocks)] = blocks /\ Range(next) = blocks
LastMade(f) == IF made[f] = <<>> THEN "sdk" ELSE Last(made[f]).op
Seals(f) == {k \in DOMAIN made[f] : made[f][k].op = "seal"}

\* However often a file is sealed and linked, every block in it is on one loop that
\* returns to the first, so that the boot ROM and every reader find all of them.
\* Left out are links whose padding is too small and files linked by their first
\* block, see Linked.
LoopCloses ==
  \A f \in Files :
    (\A k \in DOMAIN made[f] : made[f][k].op = "link" => made[f][k].o.fits /\ made[f][k].o.all_linked)
      => Blocks(disk[f]) = {} \/ OneLoop(disk[f])

\* Nothing is put where something else is, neither the new block nor a segment
\* that is moved.
Disjoint ==
  \A f \in Files : \A s, t \in disk[f].segs : s = t \/ EndOf(s) <= t.at \/ EndOf(t) <= s.at

\* What picotool leaves on disk is a file whose blocks are all found and whose parts
\* do not overlap, after every sequence of seals and links.
WellFormed == StateOK /\ LoopCloses /\ Disjoint

Architectures(i) ==
  {IsArm(BlockAt(i, a).items) : a \in {a \in Blocks(i) : HasItem(BlockAt(i, a), "image_def")}}

\* What info shows of a file that was sealed last is the block the seal added, with
\* the hash and the signature that were asked for, and both are right when they
\* are checked against the file as it is on disk.
AsSealed(f) ==
  LET o == Last(made[f]).o
  IN  verdict = [file |-> f, best |-> Max(Blocks(disk[f])),
                 hash |-> IF o.hash THEN "passed" ELSE "none", sig |-> IF o.sign THEN "passed" ELSE "none"]
Shown(f) == verdict.file = f /\ verdict.hash # "error" /\ LastMade(f) = "seal"
\* Left out are BINs whose load map also clears or pins memory: the sizes of
\* these are hashed in front of the data but come first in the map (bintool.cpp:849).
ClearsOrPins(f) ==
  \E e \in ToSet(get_item(BlockAt(disk[f], Max(Blocks(disk[f]))), "load_map").data) : e[3][1] = 0
SealedVerifies ==
  \A f \in Files :
    Shown(f) /\ Cardinality(Architectures(disk[f])) = 1 /\ ~(disk[f].kind = "bin" /\ ClearsOrPins(f))
      => AsSealed(f)

\* The load map of a block that seal added to a file without one names, read back
\* from the file, every word but that block's, at the address it runs at.
MapCovers ==
  \A f \in Files :
    made[f] # <<>> /\ Len(made[f]) = 1 /\ LastMade(f) = "seal" =>
      LET new == BlockAt(disk[f], Max(Blocks(disk[f])))
          entries == {e[3] : e \in {e \in ToSet(get_item(new, "load_map").data) : e[3][1] # 0}}
      IN  \A s \in disk[f].segs : \A a \in s.at .. EndOf(s) - 1 :
            (\E e \in entries : In(a, e[1], e[1] + e[3]) /\ a - e[1] + e[2] = a - s.at + s.run)
              <=> a < new.at \/ a > new.at + Len(block_to_words(new))

\* Linked files are one loop.
Linked == \A f \in Files : LastMade(f) = "link" => OneLoop(disk[f])

\* Sealing changes nothing of what a file held: not where it runs, and of its words
\* only links and, for a rollback version, the first items of blocks.
ContentKept ==
  [][\A f \in Files : made'[f] # made[f] /\ LastMade(f)' = "seal" =>
       \A s \in disk[f].segs : \E t \in disk'[f].segs :
         /\ t.run = s.run /\ Size(t) >= Size(s)
         /\ \A k \in DOMAIN s.words : \/ t.words[k] = s.words[k] \/ Kind(s.words[k]) = "rel"
                                      \/ Last(made'[f]).o.version = "rollback" /\ s.words[k - 1] = Start]_vars

\* Every command ends.
Ends == (pc # "idle") ~> (pc = "idle")
==============================================================================
