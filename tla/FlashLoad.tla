------------------------------ MODULE FlashLoad ------------------------------
(***************************************************************************)
(* picotool load, save, erase and verify: load_command::execute, load_guts *)
(* with get_coalesced_ranges, calculate_chunk_size and guess_flash_size,   *)
(* and the execute of the other three commands, of main.cpp.  A load       *)
(* finds its place, which may be a partition of the device; the ranges of  *)
(* the file are checked against the device, then written batch by batch    *)
(* (flash is erased in whole sectors first), then verified, then the file  *)
(* is executed.  Every call on the connection may fail, which ends the     *)
(* command wherever it is.                                                 *)
(*                                                                         *)
(* The device, an RP2350, is a flash of FlashSize cells that shows up      *)
(* again and again in the window of the first chip select, PSRAM in the    *)
(* window of the second, and RAM.  It may hold a partition table that      *)
(* partition create has made.                                              *)
(*                                                                         *)
(* Abstracted: the search for binary info (its result is binary_end), the  *)
(* XIP SRAM (as RAM), ROM and unstriped RAM (as invalid), progress bars.   *)
(***************************************************************************)
EXTENDS AddressMap, PartitionTable

CONSTANTS
    FlashSize,              \* of the flash chip, in cells
    MinGuess, MaxGuess,     \* min_size and max_size of guess_flash_size
    Batches,                \* 100 in calculate_chunk_size
    Inputs,                 \* commands with their file and the device's partition table
    ProgramLengths          \* lengths of programs found on the device

ASSUME DeviceAssumption ==
    /\ FlashSize \in Nat \ {0} /\ FlashSize % Sector = 0
    /\ Batches \in Nat \ {0}
    /\ MinGuess \in Nat \ {0} /\ MaxGuess \in Nat /\ MaxGuess >= MinGuess
    /\ FlashStart + FlashSize <= FlashEndRP2040
    /\ FlashStart + MaxGuess + 1 < FlashEndRP2040
    /\ 0 \in ProgramLengths /\ ProgramLengths \subseteq 0..FlashSize
\* An offset of 0 and a partition of -1 are not given.  The boot ROM
\* downloads the file's family to one of the partitions, to no partition in particular,
\* or, with a negative number, nowhere.  A file has finitely many ranges, which do not
\* overlap; one that is moved has a place to count from.
PARTITION_TABLE_NO_PARTITION_INDEX == 255
Settings ==
    [command : {"load", "save", "erase", "verify"}, all : BOOLEAN, no_overwrite : BOOLEAN,
     no_overwrite_force : BOOLEAN, update : BOOLEAN, verify : BOOLEAN, execute : BOOLEAN,
     partition : Nat \union {-1}, ignore_pt : BOOLEAN, offset : Nat,
     range_set : BOOLEAN, from : Nat, to : Nat]
\* What get_partitions reads from a device with the table of a JSON file.
PartitionsOf(json) ==
    get_partitions(IF json = no_partition THEN no_partition
                   ELSE to_words(partition_create(json).partitions))
ASSUME InputAssumption ==
    \A in \in Inputs :
        /\ in.settings \in Settings /\ in.target \in Int
        /\ in.settings.update \/ in.settings.no_overwrite \/ in.settings.no_overwrite_force
           => in.settings.command = "load"
        /\ in.file \subseteq Ranges /\ IsFiniteSet(in.file) /\ \A r \in in.file : r.from < r.to
        /\ \A r, s \in in.file : r = s \/ r.to <= s.from \/ s.to <= r.from
        /\ \/ in.target < 0 \/ in.target = PARTITION_TABLE_NO_PARTITION_INDEX
           \/ PartitionsOf(in.table) # no_partition /\ in.target + 1 \in DOMAIN PartitionsOf(in.table)
        /\ in.settings.command \in {"load", "verify"} => in.file # {}
        /\ in.settings.command = "load" /\ (in.settings.partition >= 0 \/ in.settings.offset # 0)
           => find_binary_start(in.file) # 0
        /\ in.table # no_partition =>
              /\ in.table \in Seq(JsonPartitions) /\ ~partition_create(in.table).refused
              /\ PartitionsOf(in.table) \in
                    {no_partition} \cup Seq([start : Nat, end : Nat, families : SUBSET STRING])

VARIABLES
    mem,            \* contents of the device
    before,         \* those contents before the command
    binary_end,     \* end of the program found by find_binary_info, 0 if unknown
    block_end,      \* end of the last block of its loop, 0 if there is none
    table,          \* JSON file of the device's partition table, or no_partition
    partitions,     \* what get_partitions reads from that table
    target,         \* where the boot ROM would download the file's family to
    file,           \* ranges of the file
    settings,       \* the command line
    rmap,           \* ranges of the file, moved to its place
    offset, partition_size, \* of settings, as load_command::execute leaves them
    saved,          \* what save has written to its file
    ranges,         \* get_coalesced_ranges
    i, base,        \* range being written, and how far
    pc, reason      \* where load_guts is, and why it failed

input == <<before, binary_end, block_end, table, partitions, target, file, settings>>
place == <<rmap, offset, partition_size>>
vars == <<mem, input, place, saved, ranges, i, base, pc, reason>>

-----------------------------------------------------------------------------
(* The device (code outside the repository).                               *)

Addresses == FlashStart..(FlashEndRP2350 - 1) \cup SramStart..(SramEnd - 1)
Locs == FlashStart..(FlashStart + FlashSize - 1)
        \cup FlashEndRP2040..(FlashEndRP2350 - 1) \cup SramStart..(SramEnd - 1)
Loc(a) == IF a \in FlashStart..(FlashEndRP2040 - 1)
          THEN FlashStart + ((a - FlashStart) % FlashSize)
          ELSE a
Read(m, a) == m[Loc(a)]
Put(m, values) ==
    [l \in DOMAIN m |-> LET at == {a \in DOMAIN values : Loc(a) = l}
                        IN  IF at = {} THEN m[l] ELSE values[Max(at)]]

\* Cell contents: erased, zero, the data of the file, an older program.
Erased == -1
Zero == 0
Data(a) == a
Old(l) == -1 - l

-----------------------------------------------------------------------------
\* What the file stands for at an address, holes filled with zeros.
InFile(a) == \E r \in rmap : a \in Cells(r)
Wanted(a) == IF InFile(a) THEN Data(a) ELSE Zero

IsFlash(r) == get_memory_type(r.from) = "flash"
FlashRanges == {r \in ToSet(ranges) : IsFlash(r)}
flash_min == Min({r.from : r \in FlashRanges})
flash_max == Max({r.to : r \in FlashRanges})

\* guess_flash_size: the largest power of two at which the first two pages are
\* not seen again, doubled; 0 when those two pages are alike.
FirstPages(m, at) == <<Read(m, FlashStart + at), Read(m, FlashStart + at + 1)>>
GuessedSizes == {s \in MinGuess..MaxGuess : \E k \in 0..MaxGuess : s * 2^k = MaxGuess}
\* Each of them is half of another, down to the smallest, and the size of a chip is
\* a power of two as well.
ASSUME GuessAssumption ==
    /\ \A s \in GuessedSizes : s % Sector = 0 /\ (s = MaxGuess \/ 2 * s \in GuessedSizes)
    /\ MinGuess \in GuessedSizes /\ MinGuess <= FlashSize /\ FlashSize <= 2 * MaxGuess
    /\ \A s \in GuessedSizes : s % FlashSize = 0 \/ 2 * s <= FlashSize
guess_flash_size(m) ==
    LET fresh == {s \in GuessedSizes : FirstPages(m, s) # FirstPages(m, 0)}
    IN  IF FirstPages(m, 0)[1] = FirstPages(m, 0)[2] THEN 0
        ELSE IF fresh = {} THEN MinGuess ELSE 2 * Max(fresh)

-----------------------------------------------------------------------------
(* load_command::execute: where the file goes.                             *)

PartitionRefusal ==
    CASE settings.partition >= 0 /\ partitions = no_partition -> "no_table"
      [] settings.partition >= 0 /\ partitions # no_partition
         /\ settings.partition >= Len(partitions) -> "no_such_partition"
      [] OTHER -> "none"

\* Without a place given, the boot ROM is asked for one, if the file is a program
\* for flash and the device knows partition tables.
AsksDevice ==
    /\ settings.partition < 0 /\ ~settings.ignore_pt /\ settings.offset = 0
    /\ find_binary_start(file) = FlashStart
    /\ FlashEnd = FlashEndRP2350
LoadRefusal ==
    IF PartitionRefusal = "none" /\ AsksDevice /\ target < 0 THEN "not_downloadable"
    ELSE PartitionRefusal

UsesPartition == settings.partition >= 0 \/ AsksDevice
Partition ==
    CASE settings.partition >= 0 -> partitions[settings.partition + 1]
      [] settings.partition < 0 /\ target = PARTITION_TABLE_NO_PARTITION_INDEX ->
            [start |-> 0, end |-> 2^LocationBits]
      [] OTHER -> partitions[target + 1]
PlaceOffset == IF UsesPartition THEN FlashStart + (Partition.start * Sector) ELSE settings.offset
PlaceSize == IF UsesPartition THEN (Partition.end - Partition.start) * Sector ELSE 0

\* get_iostream_memory_access: what the file counts from becomes the offset.
MovedTo(place_offset) ==
    LET by == IF place_offset = 0 THEN 0 ELSE place_offset - find_binary_start(file)
    IN  {[from |-> r.from + by, to |-> r.to + by] : r \in file}

Fail(why) == pc' = "failed" /\ reason' = why

LoadCommand ==
    /\ pc = "start" /\ settings.command = "load"
    /\ \/ /\ LoadRefusal = "none"
          /\ offset' = PlaceOffset /\ partition_size' = PlaceSize
          /\ rmap' = MovedTo(PlaceOffset)
          /\ ranges' = CoalescedRanges(rmap')
          /\ pc' = "check" /\ UNCHANGED reason
       \/ /\ LoadRefusal # "none"
          /\ Fail(LoadRefusal)
          /\ UNCHANGED <<place, ranges>>
    /\ UNCHANGED <<mem, input, saved, i, base>>

-----------------------------------------------------------------------------
(* The checks, all of them before anything is written.                     *)

no_overwrite == settings.no_overwrite \/ settings.no_overwrite_force
flash_binary_range ==
    [from |-> FlashStart, to |-> IF binary_end = 0 THEN FlashEndRP2350 ELSE binary_end]

Clashes_StartOnly(r) == no_overwrite /\ r.from = FlashStart
Clashes(r) == no_overwrite /\ Intersects(r, flash_binary_range)

RangeRefusal(r) ==
    CASE get_memory_type(r.from) # get_memory_type(r.to) -> "invalid_range"
      [] get_memory_type(r.from) = "invalid" -> "invalid_range"
      [] OTHER ->
            CASE Clashes(r) /\ binary_end # 0 -> "clash"
              [] Clashes(r) /\ binary_end = 0 /\ ~settings.no_overwrite_force -> "unknown_end"
              [] OTHER -> "none"

TooBigForFlash(size_guess) ==
    LET flash_start_offset == flash_min - FlashStart
    IN  /\ size_guess > 0
        /\ flash_start_offset < FlashEndRP2040
        /\ flash_start_offset + (flash_max - flash_min) > size_guess
TooBigForPartition_LargestRange ==
    /\ partition_size > 0
    /\ \E r \in FlashRanges : Size(r) > partition_size
TooBigForPartition ==
    partition_size > 0 /\ flash_max - flash_min > partition_size

RefusedRanges == {k \in DOMAIN ranges : RangeRefusal(ranges[k]) # "none"}
SizeRefusal ==
    CASE FlashRanges # {} /\ TooBigForFlash(guess_flash_size(mem)) -> "too_big"
      [] FlashRanges # {} /\ ~TooBigForFlash(guess_flash_size(mem)) /\ TooBigForPartition ->
            "too_big_for_partition"
      [] OTHER -> "none"

\* The n-th range is the next to be written, if there is one.
ToRange(n) ==
    IF n \in DOMAIN ranges
    THEN pc' = "load" /\ i' = n /\ base' = ranges[n].from
    ELSE pc' = "verify" /\ UNCHANGED <<i, base>>

Check ==
    /\ pc = "check"
    /\ \/ /\ RefusedRanges = {} /\ SizeRefusal = "none"
          /\ ToRange(1)
          /\ UNCHANGED reason
       \/ /\ RefusedRanges # {}
          /\ Fail(RangeRefusal(ranges[Min(RefusedRanges)]))
          /\ UNCHANGED <<i, base>>
       \/ /\ RefusedRanges = {} /\ SizeRefusal # "none"
          /\ Fail(SizeRefusal)
          /\ UNCHANGED <<i, base>>
    /\ UNCHANGED <<mem, input, place, saved, ranges>>

-----------------------------------------------------------------------------
(* Writing.                                                                *)

this_batch_Unclamped == ChunkSize(Size(ranges[i]), Batches)
this_batch == Min({ranges[i].to - base, ChunkSize(Size(ranges[i]), Batches)})
read_range == [from |-> base, to |-> base + this_batch]
aligned_range == AlignedRange(read_range)

\* The file's data for the batch, filled up with zeros to whole sectors.
file_buf(a) == IF a \in Cells(read_range) THEN Wanted(a) ELSE Zero

\* --update: nothing is done when the device already holds the whole batch.
Skip_FirstCell ==
    settings.update /\ Read(mem, base) = file_buf(base)
Skip_Unpadded ==
    /\ settings.update /\ aligned_range = read_range
    /\ \A a \in Cells(aligned_range) : Read(mem, a) = file_buf(a)
Skip ==
    settings.update /\ \A a \in Cells(aligned_range) : Read(mem, a) = file_buf(a)

Advance ==
    IF base + this_batch < ranges[i].to
    THEN pc' = "load" /\ base' = base + this_batch /\ UNCHANGED i
    ELSE ToRange(i + 1)

SkipBatch ==
    /\ pc = "load" /\ IsFlash(ranges[i]) /\ Skip
    /\ Advance
    /\ UNCHANGED <<mem, input, place, saved, ranges, reason>>

EraseBatch ==
    /\ pc = "load" /\ IsFlash(ranges[i]) /\ ~Skip
    /\ mem' = Put(mem, [a \in Cells(aligned_range) |-> Erased])
    /\ pc' = "program"
    /\ UNCHANGED <<input, place, saved, ranges, i, base, reason>>

ProgramBatch ==
    /\ pc = "program"
    /\ mem' = Put(mem, [a \in Cells(aligned_range) |-> file_buf(a)])
    /\ Advance
    /\ UNCHANGED <<input, place, saved, ranges, reason>>

WriteRamBatch ==
    /\ pc = "load" /\ ~IsFlash(ranges[i])
    /\ mem' = Put(mem, [a \in Cells(read_range) |-> Data(a)])
    /\ Advance
    /\ UNCHANGED <<input, place, saved, ranges, reason>>

\* A call on the connection throws; an erase has then got as far as some
\* sector, a write as far as some cell.
ConnectionFails ==
    /\ pc \notin {"done", "failed"}
    /\ CASE pc = "load" /\ IsFlash(ranges[i]) ->
              \E k \in {a \in Cells(aligned_range) : a % Sector = 0} :
                 mem' = IF Skip THEN mem
                        ELSE Put(mem, [a \in aligned_range.from..(k - 1) |-> Erased])
         [] pc = "load" /\ ~IsFlash(ranges[i]) ->
              \E k \in Cells(read_range) : mem' = Put(mem, [a \in base..(k - 1) |-> Data(a)])
         [] pc = "erase" ->
              \E k \in {base, base + Sector} : mem' = Put(mem, [a \in base..(k - 1) |-> Erased])
         [] pc = "program" ->
              \E k \in Cells(aligned_range) :
                 mem' = Put(mem, [a \in aligned_range.from..(k - 1) |-> file_buf(a)])
         [] OTHER -> mem' = mem
    /\ Fail("connection")
    /\ UNCHANGED <<input, place, saved, ranges, i, base>>

-----------------------------------------------------------------------------
(* After the writing.                                                      *)

MatchesIn(r) == \A a \in Cells(r) : Read(mem, a) = Wanted(a)
Matches == \A r \in ToSet(ranges) : MatchesIn(r)

\* verify may be given ranges that are nowhere; load has refused them before.
Unverifiable(r) ==
    \/ get_memory_type(r.from) # get_memory_type(r.to)
    \/ get_memory_type(r.from) = "invalid"
Wrong ==
    IF settings.command = "load" /\ ~settings.verify THEN <<>>
    ELSE SelectSeq(ranges, LAMBDA r : Unverifiable(r) \/ ~MatchesIn(r))
Verify ==
    /\ pc = "verify"
    /\ \/ /\ Wrong = <<>>
          /\ pc' = IF settings.command = "load" THEN "execute" ELSE "done"
          /\ UNCHANGED reason
       \/ /\ Wrong # <<>>
          /\ Fail(IF Unverifiable(Head(Wrong)) THEN "invalid_range" ELSE "verification")
    /\ UNCHANGED <<mem, input, place, saved, ranges, i, base>>

\* Only now is it asked whether the file can be executed at all.
binary_start == IF offset # 0 THEN offset ELSE find_binary_start(rmap)
Execute ==
    /\ pc = "execute"
    /\ \/ /\ settings.execute => binary_start # 0
          /\ pc' = "done"
          /\ UNCHANGED reason
       \/ /\ settings.execute /\ binary_start = 0
          /\ Fail("not_executable")
    /\ UNCHANGED <<mem, input, place, saved, ranges, i, base>>

-----------------------------------------------------------------------------
(* verify_command::execute and erase_command::execute                      *)

\* range::intersect
Clamped(r, a) == Min({r.to, Max({r.from, a})})
Within(r, filter) == [from |-> Clamped(filter, r.from), to |-> Clamped(filter, r.to)]
VerifyCommand ==
    /\ pc = "start" /\ settings.command = "verify"
    /\ offset' = settings.offset /\ rmap' = MovedTo(settings.offset)
    /\ LET all == CoalescedRanges(rmap')
           filter == [from |-> settings.from, to |-> settings.to]
           some == [k \in DOMAIN all |-> Within(all[k], filter)]
       IN  ranges' = IF settings.range_set THEN SelectSeq(some, LAMBDA r : r.from < r.to) ELSE all
    /\ pc' = "verify"
    /\ UNCHANGED <<mem, input, saved, partition_size, i, base, reason>>

ToErase(m) ==
    CASE settings.partition >= 0 ->
            [from |-> FlashStart + (Partition.start * Sector),
             to |-> FlashStart + (Partition.end * Sector)]
      [] settings.partition < 0 /\ settings.range_set ->
            AlignedRange([from |-> settings.from, to |-> settings.to])
      [] OTHER -> [from |-> FlashStart, to |-> FlashStart + guess_flash_size(m)]
EraseRefusal ==
    IF PartitionRefusal # "none" THEN PartitionRefusal
    ELSE LET r == ToErase(mem)
         IN  CASE r.to <= r.from -> "empty_range"
               [] ~(r.to <= r.from) /\ {get_memory_type(r.from), get_memory_type(r.to)} # {"flash"} ->
                     "not_flash"
               [] OTHER -> "none"
EraseCommand ==
    /\ pc = "start" /\ settings.command = "erase"
    /\ \/ /\ EraseRefusal = "none"
          /\ ranges' = <<ToErase(mem)>> /\ i' = 1 /\ base' = ToErase(mem).from
          /\ pc' = "erase" /\ UNCHANGED reason
       \/ /\ EraseRefusal # "none"
          /\ Fail(EraseRefusal)
          /\ UNCHANGED <<ranges, i, base>>
    /\ UNCHANGED <<mem, input, place, saved>>
EraseSector ==
    /\ pc = "erase"
    /\ mem' = Put(mem, [a \in base..(base + Sector - 1) |-> Erased])
    /\ base' = base + Sector
    /\ pc' = IF base' < ranges[i].to THEN "erase" ELSE "done"
    /\ UNCHANGED <<input, place, saved, ranges, i, reason>>

-----------------------------------------------------------------------------
(* save_command::execute                                                   *)

\* All of flash, the range asked for, or the program to the end of what belongs to it.
SaveRange ==
    CASE settings.all -> [from |-> FlashStart, to |-> FlashStart + guess_flash_size(mem)]
      [] ~settings.all /\ settings.range_set -> [from |-> settings.from, to |-> settings.to]
      [] OTHER -> [from |-> FlashStart, to |-> Max({binary_end, block_end})]
SaveRefusal ==
    CASE SaveRange.to <= SaveRange.from -> "empty_range"
      [] ~(SaveRange.to <= SaveRange.from) /\ Unverifiable(SaveRange) -> "invalid_range"
      [] OTHER -> "none"
AfterSaving == pc' = IF settings.verify THEN "compare" ELSE "done"
\* Nothing is said when the file cannot be opened.
SaveCommand ==
    /\ pc = "start" /\ settings.command = "save"
    /\ \/ /\ SaveRefusal = "none"
          /\ ranges' = <<SaveRange>> /\ i' = 1 /\ base' = SaveRange.from
          /\ pc' = "save" \/ AfterSaving
          /\ UNCHANGED reason
       \/ /\ SaveRefusal # "none"
          /\ Fail(SaveRefusal)
          /\ UNCHANGED <<ranges, i, base>>
    /\ UNCHANGED <<mem, input, place, saved>>
SaveChunk ==
    /\ pc = "save"
    /\ saved' = saved \cup {[at |-> a, value |-> Read(mem, a)] : a \in Cells(read_range)}
    /\ IF base + this_batch < ranges[i].to
       THEN base' = base + this_batch /\ UNCHANGED pc
       ELSE AfterSaving /\ UNCHANGED base
    /\ UNCHANGED <<mem, input, place, ranges, i, reason>>
\* The file is read back and compared with the device.
SaveVerify ==
    /\ pc = "compare"
    /\ \/ /\ saved # {} /\ \A s \in saved : s.value = Read(mem, s.at)
          /\ pc' = "done"
          /\ UNCHANGED reason
       \/ /\ saved = {} \/ \E s \in saved : s.value # Read(mem, s.at)
          /\ Fail(IF saved = {} THEN "no_file" ELSE "verification")
    /\ UNCHANGED <<mem, input, place, saved, ranges, i, base>>

-----------------------------------------------------------------------------
\* What the command is to write: the sectors or the cells of a file, or what is to
\* be erased.
PlannedCells(f) ==
    LET cells(r) == IF IsFlash(r) THEN Cells(AlignedRange(r)) ELSE Cells(r)
    IN  Addresses \cap UNION {cells(r) : r \in ToSet(CoalescedRanges(f))}
Planned ==
    CASE settings.command = "load" /\ LoadRefusal = "none" -> PlannedCells(MovedTo(PlaceOffset))
      [] settings.command = "erase" /\ PartitionRefusal = "none" -> Cells(ToErase(before))
      [] OTHER -> {}

\* A device that holds a program of some length, whose end may be known, maybe one
\* that is twice in its flash, and that may already hold the file, or all of it but
\* one cell.
Holding(f, needed, n, loaded) ==
    [l \in Locs |->
        CASE l \in loaded /\ l \in needed -> IF \E r \in f : l \in Cells(r) THEN Data(l) ELSE Zero
          [] l \notin loaded /\ l \in FlashStart..(FlashStart + n - 1) -> Old(l)
          [] OTHER -> Erased]
Unknown(f, needed) == {[mem |-> Holding(f, needed, n, {}), end |-> 0] : n \in ProgramLengths}
Known(f, needed, s) ==
    {[mem |-> Holding(f, needed, n, {}), end |-> FlashStart + n] :
        n \in {k \in ProgramLengths \ {0} : s.command \in {"load", "save"}}}
Twice(s) ==
    {d \in {[mem |-> [l \in Locs |-> IF l \in FlashStart..(FlashStart + FlashSize - 1)
                                     THEN Old((l - FlashStart) % (FlashSize \div 2)) ELSE Erased],
             end |-> 0]} : s.command \in {"save", "erase"}}
Loaded(f, needed, s) ==
    {[mem |-> Holding(f, needed, 0, Locs \ x), end |-> 0] :
        x \in {{}} \cup {{l} : l \in {k \in Locs : s.update \/ s.command = "verify"}}}
Devices(f, needed, s) ==
    Unknown(f, needed) \cup Known(f, needed, s) \cup Twice(s) \cup Loaded(f, needed, s)

Init ==
    /\ \E in \in Inputs :
        /\ settings = in.settings /\ file = in.file
        /\ table = in.table /\ target = in.target
        /\ partitions = PartitionsOf(table)
    /\ \E f \in {IF settings.command \in {"load", "verify"} /\ LoadRefusal = "none" THEN MovedTo(PlaceOffset)
                 ELSE file} :
       \E needed \in {{Loc(a) : a \in PlannedCells(f)}} :
       \E d \in Devices(f, needed, settings) : mem = d.mem /\ binary_end = d.end
    /\ block_end \in {0} \cup {FlashStart + n : n \in IF settings.command = "save"
                                                    THEN ProgramLengths \ {0} ELSE {}}
    /\ before = mem
    /\ rmap = {} /\ offset = 0 /\ partition_size = 0 /\ saved = {}
    /\ ranges = <<>>
    /\ i = 0
    /\ base = 0
    /\ pc = "start"
    /\ reason = "none"

Next ==
    \/ LoadCommand \/ VerifyCommand \/ EraseCommand
    \/ Check
    \/ SkipBatch \/ EraseBatch \/ ProgramBatch \/ WriteRamBatch
    \/ Verify
    \/ Execute
    \/ EraseSector
    \/ SaveCommand \/ SaveChunk \/ SaveVerify
    \/ ConnectionFails

Spec == Init /\ [][Next]_vars

\* Every call on the connection returns or throws, so the command goes on.
FairSpec == Spec /\ WF_vars(Next)

-----------------------------------------------------------------------------
(* Properties.                                                             *)

SizeKnown == guess_flash_size(before) # 0
Fits == FlashRanges # {} => flash_max - FlashStart <= FlashSize \/ flash_min >= FlashEndRP2040

\* A range whose batches do not share a sector.
Regular(r) ==
    \/ ~IsFlash(r)
    \/ r.from % Sector = 0
    \/ Size(r) <= ChunkSize(Size(r), Batches)

\* What a command on all of flash is for: what the chip holds, unless its size is
\* guessed too small because its first pages are found again in it.
SeenAgain == \E s \in GuessedSizes : s < FlashSize /\ FirstPages(before, s) = FirstPages(before, 0)
AllOfFlash == FlashStart..(FlashStart + FlashSize - 1)
Whole == settings.partition < 0 /\ ~settings.range_set
ToBeErased == IF Whole /\ ~SeenAgain THEN AllOfFlash ELSE Planned
ToBeSaved ==
    CASE settings.all /\ ~SeenAgain -> AllOfFlash
      [] settings.all /\ SeenAgain -> FlashStart..(FlashStart + guess_flash_size(before) - 1)
      [] ~settings.all /\ ~settings.range_set ->
            FlashStart..(Max({binary_end, block_end}) - 1)
      [] OTHER -> settings.from..(settings.to - 1)

\* A load that succeeds has put every byte of the file where it belongs, the
\* zeros of its holes included, whatever the order and the sizes of the batches
\* that were written or skipped; a file too big for the flash is refused when
\* the size could be guessed.  An erase that succeeds has erased all that was asked,
\* and a save has written all that was asked, and as it is, or, without
\* --verify, no file at all.
LoadedExactly ==
    /\ settings.command = "load" /\ pc = "done"
       /\ (\A r \in ToSet(ranges) : Regular(r)) /\ (SizeKnown \/ Fits)
       => Matches
    /\ settings.command = "erase" /\ pc = "done"
       => \A a \in ToBeErased : Read(mem, a) = Erased
    /\ settings.command = "save" /\ pc = "done" /\ (settings.verify \/ saved # {})
       => saved = {[at |-> a, value |-> Read(before, a)] : a \in ToBeSaved}

\* Not a cell outside the sectors the file needs, or outside those that were to be
\* erased, changes at any moment.
Confined ==
    LET changed == {l \in Locs : mem[l] # before[l]}
    IN  changed # {} => changed \subseteq {Loc(a) : a \in Planned}

\* The partitions as the JSON file has them: their sectors, counted from the end of
\* the one before if no start is given, numbers of 4096 and more being bytes.
Sectors(n) == IF n >= 4096 THEN n \div 4096 ELSE n
AskedEnd[n \in 0..Len(table)] ==
    IF n = 0 THEN 2
    ELSE Sectors(table[n].size)
         + IF table[n].start = NotGiven THEN AskedEnd[n - 1] ELSE Sectors(table[n].start)
AskedPartition(n) ==
    FlashStart + ((AskedEnd[n] - Sectors(table[n].size)) * Sector)
        .. FlashStart + (AskedEnd[n] * Sector) - 1
UsedPartition ==
    IF settings.partition >= 0 THEN settings.partition + 1
    ELSE IF settings.command = "load" /\ AsksDevice
            /\ target # PARTITION_TABLE_NO_PARTITION_INDEX
    THEN target + 1 ELSE 0
\* What is loaded into a partition, or erased with it, stays inside the partition
\* that the JSON file of the table describes.
ConfinedToPartition ==
    /\ table # no_partition /\ settings.command \in {"load", "erase"}
    /\ UsedPartition \in DOMAIN table
    /\ SizeKnown \/ Fits
    => LET changed == {a \in FlashStart..(FlashStart + FlashSize - 1) : mem[a] # before[a]}
       IN  changed # {} => changed \subseteq AskedPartition(UsedPartition)

\* -n and -N keep a program whose end is known and at a sector boundary, and -n
\* keeps all of flash when the end is not known, while the load runs and however
\* it ends.
ProgramKept ==
    /\ no_overwrite /\ binary_end # 0 /\ binary_end % Sector = 0 /\ (SizeKnown \/ Fits)
       => \A a \in FlashStart..(binary_end - 1) : Read(mem, a) = Read(before, a)
    /\ no_overwrite /\ binary_end = 0 /\ ~settings.no_overwrite_force
       => \A a \in FlashStart..(FlashStart + FlashSize - 1) : mem[a] = before[a]

\* An update with the image the device already holds erases and writes nothing: if
\* anything changed, a word that was to be written was not there yet.
UpdateIsIdempotent ==
    settings.update /\ mem # before /\ (\A r \in ToSet(ranges) : Regular(r))
    => \E a \in Planned : Read(before, a) # Wanted(a)

\* The command ends: the batches make progress through every range.
Terminates == <>(pc \in {"done", "failed"})

-----------------------------------------------------------------------------
(* What the documentation says of load, and the code does not keep.        *)

\* "Load the program / memory range stored in a file onto the device."
LoadedContents == pc = "done" /\ Fits => Matches

\* "assert(extra_families.size() == ...)" (metadata.h:213): the flags of a partition
\* say how many extra families follow.
ExtraFamiliesCounted ==
    table # no_partition =>
        \A p \in ToSet(partition_create(table).partitions) : p.num_extra = Len(p.extra)
=============================================================================
