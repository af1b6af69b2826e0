# A TLA+ development of picotool

picotool inspects RP2040 and RP2350 binaries and talks to RP-series devices
over USB. This directory holds TLA+ modules translated from its source, the TLC
configurations that check them, and TLAPS proofs about them. Line numbers below
and in `PROJECT.json` refer to `src/`; numbers without a file are of `main.cpp`.

Run a check with `tlc -config X.cfg MODULE.tla` (the module is the part of the
cfg's name before the underscore) and a proof with `tlapm MODULE.tla`.

## 1. Inventory

| Component | State it keeps | Operations | Hard part | What makes it correct |
|---|---|---|---|---|
| PICOBOOT protocol, `picoboot_connection.c` | `xip_state`, `definitely_exclusive`, endpoints, token (file-static, one set for all devices) | one command at a time: send, data, ack; `exit_xip`, `flash_id`, `reset`, `open_device` | every transfer can fail or time out while the device goes on | cached beliefs are true when used; no abandoned command is carried out later |
| class `connection`, `picoboot_connection_cxx` | `exclusive` | constructor, `wrap_call` around each command, destructor | recovery inside recovery, exceptions out of a destructor | the lock is given back; a call returns |
| `main()` | `settings`, `tries`, the map of devices | enumerate, decide, reset and retry, execute, reboot back | devices move, change ids, vanish while the program sleeps | the command runs on the right device, which is sent back; failure is reported |
| `range`, `range_map` | sorted map of ranges | `insert`, `insert_overwrite`, `get`, `next`, `offset_by` | exclusive ends, `upper_bound` searches, cutting | entries never overlap; what is looked up is what was inserted |
| memory access layers | read cache, remap tables, file streams | read, write (with erase and rewrite of flash sectors) | stale cache; power lost between erase and write | a read returns what was last written |
| `load`, `save`, `erase`, `verify` | progress through ranges and batches | find a place, check, erase, program, verify, execute | rounding to sectors, batches, size guesses, partitions | the file arrives, nothing else changes |
| block loop, hashing and signing (`bintool`, `seal`, `link`, `info`) | linked list of metadata blocks in an image | find first and last block, append, hash, sign, check | offsets relative to runtime and storage addresses | the loop closes, covers the image and verifies |
| partition tables | list of partitions | create, write as words, read back | sizes and gaps in sectors or bytes, families | a load stays in the partition that was described |
| UF2 and ELF conversion | pages, segments, block numbers | `elf2uf2`, `bin2uf2`, `uf2 combine`, reading | page and sector padding, families, renumbering | every byte comes back at its address |
| OTP | rows | get, set, load, dump, white-label, permissions | ECC, redundant rows, bits that can only be set | written values read back; a white label is never half there |
| bdev commands | littlefs or FatFs on a block device in a partition | ls, cp, rm, format ... | vendored file systems over the access layers | confined to the partition |
| self-decrypting bootloader, `flash_id`, `xip_ram_perms` | registers | run on the device | assembly, hardware | - |
| command line, JSON, errors, vendored `lib/` | - | parsing, printing | - | - |

Interaction: `main()` enumerates with `picoboot_open_device`, which may itself
send commands; a command's `execute` builds one `connection` and drives it
through `picoboot_memory_access`; a file is an `iostream_memory_access` over a
`range_map`; what `load` writes, `seal`, `link`, `uf2 convert` or `uf2 combine`
have written before. There are no threads. All concurrency is between the
program, the devices, the operating system (which may use the BOOTSEL drive) and
the user.

`PROJECT.json` lists the hazards with their lines and the properties that watch
them; section 4 names those that no property watches.

## 2. Modules

| Module | Models | Correspondence |
|---|---|---|
| `PicobootConnection` | `picoboot_connection.c`, `connection` | the host's globals are variables; `picoboot_cmd` is the steps `SendOk`/`SendFails`, `DataOk`, `AckOk`, `TransferFails`; `picoboot_flash_id` is a program counter `fid`; `wrap_call` is `failed` -> `recover` -> back to the caller; constructor, calls and destructor are `Connect`, `Call`, `CallReset`, `CallFlashId`, `Destroy` |
| `DeviceSession` | the loop of `main()`, the selection in `picoboot_open_device`, `reboot_device` | one action per way through the body of the loop: `NoDevice`, `Ambiguous`, `ResetDevice`, `Wait`, `Execute`, then `RebootBack`; `DeviceChanges` moves devices between enumerations |
| `AddressMap` | `range`, regions, sector rounding, batches, coalescing | operators only |
| `PartitionTable` | `partition create`, `partition_table_item`, `get_partition_info` | operators: `partition_create` from a JSON file, `to_words`, `parse`, `get_partitions`; a word is a record of what it is for |
| `FlashLoad` | `load_command`, `load_guts`, `save_command`, `erase_command`, `verify_command`, `guess_flash_size`, `get_target_partition` | `LoadCommand` finds the place; `Check` is everything before the first write, in the code's order; a batch is `SkipBatch`, or `EraseBatch` then `ProgramBatch`, or `WriteRamBatch`; then `Verify`, `Execute`. An erase is `EraseCommand` and one `EraseSector` per sector, a save `SaveCommand`, one `SaveChunk` per chunk and `SaveVerify`. `ConnectionFails` may come anywhere and leaves an erase or a write half done |
| `StorageMap` | what a `range_map` promises (abstract) | a partial function from addresses to storage |
| `RangeMap` | `range_map` | `m` is the `std::map`; the loops' searches are `LastBefore`, `Scanned`, `Hit` |
| `MemoryAccess` | `picoboot_memory_access`, `remapped_memory_access`, `partition_memory_access`; the reads of `info`, the writes of `config`, the block device callbacks of `bdev` | a call is `CallRead`, `CallWrite`, `DiskTrim` or `LfsErase`; `NextPiece` is an iteration of the layers' loop; `ReadSplit` and `ReadPiece` are `read_cached`; `SkipUnchanged`, `SaveAround`, `FlashErase`, `WithoutErase`, `FlashWrite` are the ways through `write`; `ConnectionFails` leaves an erase or a write half done |
| `Picobin` | blocks and items of `metadata.h` | words, `block_parse`, `block_to_words` |
| `Sealing` | `seal`, `link` and `info` with `bintool.cpp` and the relayout of `elf_file.cpp` | finding the first block is `NextChunk`, `SkipBlock`, `FoundBlock`; following the loop `WalkBlock`, `LoopInvalid`; sealing `PlaceBlock`, `MapBlock`, `HashBlock`, `Seal`; linking `Collect`, `PlaceLink`, `LinkNext`, `LinkLast`; checking `PickBlock`, `VerifyBlock`, `ShowSealed` |
| `Uf2` | `elf2uf2.cpp`, `uf2 combine`, `build_rmap_elf`, `build_rmap_uf2`, `get_iostream_memory_access` | converting is `PlacePages`, `PlaceFails` (`BinEmpty` for a BIN), `WriteAbsolute`, `WritePage`, and `WriteFails`, as it looks whether it could write; combining `CountBlocks`, `WriteCombinedAbsolute`, `CopyBlock`, `NextFile`, which do not look; both end in `Close`, which may leave any beginning of the file and is not looked at either; reading `MapFile`, `ReadFirst`, `ReadFamilies`, `ShowFamily` |
| `Otp` | `otp set`, `get`, `load`, `dump` of a JSON file, `white-label` | a command computes its writes (`OtpSet`, `NextEntry`, `NextWrite`, ...) and the device takes them row by row: `DeviceWritesRow`, `DeviceRefusesRow`, `ConnectionFails`; `OtpGet` and `ShowMatch` read with the page buffer |
| `MC*` | - | finite inputs for TLC |
| `FoldTheorems` | - | lemmas about quotients and remainders, least and largest elements, and folds over sequences, which the proofs share |
| `*Proofs` | - | theorems |

`FlashLoad` extends `AddressMap` and `PartitionTable`: the partition a file is
loaded into is what a reader makes of the words that `partition create` wrote.
`Sealing` extends `Picobin`. `RangeMap` implements `StorageMap` under the
refinement mapping `where <- Contents(m)`. `MemoryAccess` looks addresses up with
the operators of `RangeMap`, the map being the constant `reverse_copy_mapping`.
The modules that work on files (`Sealing`, `Uf2`, `Otp`) run several commands on
the same files or rows, so that one command finds what another left.

## 3. Runs

| Run | Checks | Bounds and why they are enough |
|---|---|---|
| `connection` | `SkipIsSound`, `BelievedLockIsHeld`, `NothingPending`, `ReleasedWhenDestroyed`, `CallReturns` | none: the model is finite (38 335 states) |
| `session` | `RunsOnTarget`, `FoundAgain`, `SentBack`, `OkMeansExecutedOrStuck`, `Ends` | two devices of every kind (the one asked for and one in the way), two addresses, 2 tries instead of 5: a first try, one that waits, the last (1.2 million states) |
| `load` | `LoadedExactly`, `Confined`, `ConfinedToPartition`, `ProgramKept`, `UpdateIsIdempotent`, `Terminates` | a cell is a page; a flash of 4 sectors of 2 cells whose window repeats it twice; files of one to three ranges that start and end at every cell; 2 batches instead of 100 (a range has a first and a last one); tables of 2 or 3 partitions in sectors, in bytes and with families, ids and names in between; saves and erases of all, of ranges and of partitions; a device whose first pages are repeated (105 000 states) |
| `range_map` | `NoOverlap`, `LookupFinds`, `ImplementsStorageMap` | six addresses: two entries, a gap, and a range cut by or around them |
| `memory` | `ReadExact`, `WriteExact`, `Confined` | bits as cells, pages of 2, sectors of 4, a chip of 2 sectors repeated in the window: every content of the chip, every place and size up to a sector, devices that begin at and between sectors. For the cache one content, different at every offset, and any sequence of reads of up to 5 cells (526 000 states) |
| `seal` | `WellFormed`, `SealedVerifies`, `MapCovers`, `ContentKept`, `Ends` | two files of a few words (one or two blocks, a false START, Arm and RISC-V, ELFs for flash and RAM), two commands: a file is made, then sealed, linked or shown again; loops of up to 8 blocks (19 000 states) |
| `uf2` | `WellFormed`, `CutOffShows`, `ReadsBack`, `SectorsByNumber`, `MovedToOffset`, `Ends` | three files, pages of 2 bytes, sectors of 2 pages, at most one convert, one combine and one read: what is converted can be combined with another file or itself and read back, and each write can fail (150 000 states) |
| `otp` | `Confined`, `SetIsShown`, `RefusedForCause`, `DumpForetells`, `WhiteLabelComplete`, `ShownIsVoted`, `EccDistance` | three pages of 16 rows of 24 real bits, the real parity masks, registers with 1, 3 and 8 copies, a key of two rows, a page of locks; two commands, so that one finds what another, or half of another, has written (38 000 states) |
| `load_unaligned`, `link_aligned`, `otp_bits`, `partition_families` | refute `LoadedContents`, `Linked`, `SetIsShown`, `ExtraFamiliesCounted` | as the run of the same module, with the inputs that show it |

Deadlock is not checked where the program ends (all but `range_map`).

What the invariants say is about anything that may go wrong. `SkipIsSound`:
picotool never leaves out EXIT_XIP while the flash is still mapped.
`NothingPending`: after a timeout and recovery the device will not carry out an
erase the program believes failed. `ReleasedWhenDestroyed`: the operating system
gets its drive back however many calls failed. `RunsOnTarget`: between reset and
re-enumeration no other device is mistaken for the one that was reset.
`Confined` (of `FlashLoad`, `MemoryAccess` and `Otp`): not a cell outside what a
command needs changes at any moment, also when the command is cut off.
`ConfinedToPartition` compares what a load changes with the JSON file the table
was made from, through writing, parsing, choosing and rounding. `SealedVerifies`
compares what `info` finds on disk with what was asked of `seal`, `ReadsBack` the
bytes of a file with those that went in, `WhiteLabelComplete` what a boot ROM
could see at any moment with what was to be written. `CutOffShows`: a UF2 whose
writing failed, though the command may have succeeded, is told from a whole one by
its count, through any number of combinations. The others are described at
their definitions.

### Fairness

- `PicobootConnection!FairSpec`: the host's own steps are weakly fair, because
  every libusb call has a timeout (1, 3 or 10 s, `picoboot_connection.c:242-354`).
  `CooperativeSpec` adds strong fairness of a successful reset. The code does not
  guarantee that: it is an assumption about the device. Without it `wrap_call`,
  which recovers by a `reset()` that is itself a `wrap_call`
  (`picoboot_connection_cxx.cpp:72`), goes on for ever with a device that answers
  status requests and refuses resets.
- `DeviceSession!FairSpec`, WF of `Main`: `main()` waits for nothing but `sleep_ms`.
- `FlashLoad!FairSpec`, WF of `Next`: every call on the connection returns or throws.
- `Sealing!FairSpec` and `Uf2!FairSpec`, WF of `Step`: a command that was begun goes
  on; nothing says that another one is given. A loop of the code that does not
  advance takes no step in the model, so `Ends` would show it.

### Deviations the runs show

1. `load_unaligned`: a file range that starts inside a sector and needs more than
   one batch loses the tail of each batch but the last (5302).
2. `link_aligned`: `link --align` computes the distance to the next binary before
   the block is added that is padded with it (6348, 6364).
3. `otp_bits`: `otp set ROW.n-m` writes the value to the whole row (9664).
4. `partition_families`: two extra families are counted as three (7869).

### Deviations seen while modelling

They are in the model as the code has them, or outside of what is modelled, and
have no run of their own.

Connection and session: `~connection()` may throw, which terminates the program.
A device that never comes back in BOOTSEL mode while one that can be reset is
still seen makes picotool succeed without having run, when all tries are used up
(`OkMeansExecutedOrStuck` allows this and nothing more). `--ser` does not restrict what `-f` resets when the
device has its own vid and pid. A command that throws leaves the device it was
reset for in BOOTSEL mode (10396).

Load, save, erase: `-n` protects the bytes of a program, not its last sector, and
refuses a file that starts exactly at the program's end (`range::intersects`,
290). The check of the flash size is not skipped for PSRAM (5274 compares an offset
with an address). `-u` skips batches, not sectors (5316). `save` succeeds without a
word when its file cannot be opened (5038). A chip whose first pages are repeated
at half its size is taken for half as big (3186), so `save --all`, `erase` and the
limit of a load leave its second half out. `erase --range` is not checked against
the size of the chip, so that it comes round to other sectors. Whether a file can
be executed is asked only after it was written (5374).

Memory access: `config` refuses a value that only clears bits at an address that
is not page aligned (2573). A write that ends at a sector boundary also rewrites
the sector behind (2542). A trim never erases the last sector, since FatFs names
the last block and not the one behind (6625).

Blocks: sealing a file with a load map ignores `--clear`; `link` drops the old last
block when it has no image definition; linking a sealed file makes its hash fail;
the hash of a BIN whose load map clears or pins memory has the sizes in another
order than the map (bintool.cpp:849); pinning drops an existing load map;
sealing with `--major` loses a rollback version (5509); not all other blocks
are marked ignored for RP2350-E13; `squash` can break the block links of an ELF
for RAM; `set_block_ignored` on an empty block makes an item of size 0. A bad LAST
item (bintool.cpp:115), an item of size 0, or a loop that never returns to its
first block keep the readers busy for ever; a missing segment is a null
dereference in the ELF traversal (319). `find_best_block` never considers the
first block when there are others.

UF2: a convert or combine that fails has already emptied its output, also when that
is one of its inputs; `combine` never looks whether it could write (8167, 8198), nor
does either command look whether it could close its output (8093, 8207), so that a
command succeeds and its file lacks its end; a UF2 that ends early is read without
looking at its block count; a UF2 of nothing but an absolute block cannot be combined,
as the failed read behind it (8153) is never cleared; files for families A B A
lose B; a block that is not for flash behind the last one makes `info` go round
for ever (4745); a package address that is not sector aligned, and `combine`,
break the grouping of numbers by sector; combining a file of several families
makes block numbers reach the block count (8157; `Numbered` leaves that out); the type
of the third file of `combine` is not looked at (8099); `combine` does not look for overlap and
adds an absolute block for the absolute family too. A file that contains neither
FLASH_START nor RAM is moved by an offset from 0, modulo 2^32 (3414).

OTP: a second selected field of a row is shown as 0 (9154); bits of a value that are
shifted beyond the 32 of a word are neither refused nor written (9676); an ECC value of more
than 16 bits is cut off silently (9698); the old value is looked at in the first
copy only (9604, 9688); revisions below 1.00 get wrong digits (7389); offsets of
strings above 255 wrap (7487); `otp get -c` of special pages shows rows that were
not read; a JSON file is checked entry by entry while it is written; a dump to a
file writes 0 for rows that may not be read.

Partitions: an empty name sets the flag of a name without words for it; more than
15 partitions garble the count; sectors above 8191 wrap; overlap is not checked.

## 4. Hazards that no property watches

A command of which libusb sends only a part without an error is taken as sent
(`picoboot_connection.c:309`); endpoints are global and are those of the device
enumerated last (:159); the timeout of an OTP write stays for a later command when
the write cannot be sent (:526): one device with whole transfers is modelled.
The result of reading a serial number is not looked at (10349): descriptors are
readable in the model. `load_guts` takes its connection by value, so the copy's
destructor gives the lock back while the caller believes to have it (5217): nothing
is sent afterwards but the reboot, which needs no lock. Readers of blocks beyond
the first window assume ascending addresses (bintool.cpp:373, 878): the window is
modelled only for the first search.

## 5. Proofs

TLAPS proves, for every value of the constants:

- `PicobootConnectionProofs`: `InvariantHolds` (`Spec => []IInv`) and from it
  `TypeCorrect`, `SkipSound`, `LockSound`, `NoneLeftPending`, `DestructorReleases`.
  None of these is inductive alone: whether the caches are true when a call
  returns depends on what was saved when its command went out and on what the
  device may still do. `IInv` adds `ControlInv` (which command is under way in
  which stage), `CacheInv` (where between calls the caches must be true),
  `TransferInv` (inside a transfer the caches are cleared, the saved values are
  true, and the device's pending command can only be this one) and `PendingInv`
  (what may be left behind). There is one lemma per group of actions.
- `DeviceSessionProofs`: `SessionInvariant`, and from it `TargetOnly`,
  `NotGivenUpOn`, `GoesBackToItsApplication`, `SuccessIsExecution` (no success without
  having run, unless a device was reset and all tries were used up): all four safety
  properties of the session, for any number of devices, addresses and tries.
  `SessionInv` adds `Tracking`, how the settings by which devices are looked for
  follow the device that was reset, `Listed`, that what was enumerated is still
  there while it is decided on, and `Control`, what each program counter says of
  the outcome. Without `Tracking` a state in which another device matches the
  settings would be allowed, and `RunsOnTarget` would not survive `Execute`.
- `FlashLoadProofs`: `FlashInvariant` and `ConfinedTheorem`: wherever a load or an
  erase is cut off, only the cells it was to write have changed, and a save and a
  verify change nothing. The argument is about rounding. The checks before the
  first write put both ends of a range into one region (`Loading`); regions begin
  and end at a sector; so a batch rounded to sectors stays in its range rounded to
  sectors (`BatchInRange`, `BatchPlanned`). An erase stays at sector boundaries
  and below its end (`Erasing`).
  `ExactInvariant` (`Spec => []ExactInv`) is about contents, and gives
  `LoadedExactlyTheorem`, `ProgramKeptTheorem` and `UpdateIdempotentTheorem`, for
  every device, place and number of batches, and every file, the first and the last but
  for those of which a range starts inside a sector and takes several batches
  (`Regular`), which lose words (run `load_unaligned`). `LoadInv` says of the files and
  the input what the commands take for granted, and that nothing is written before
  all checks have passed (`AcceptInv`); `LoadedInv` that up to `base` the memory
  holds what the file wants, `UpdateInv` that an update writes only if something
  differs, `EraseInv` and `SaveInv` how far an erase and a save have come. What is
  done stays done because no batch undoes another one: `Coalesced` shows that the
  ranges `get_coalesced_ranges` returns stand for all of the file's and that no two
  of them share a sector. It goes along the fold range by range
  (`ExtendedStandsFor`). And no two addresses of a load are one cell, because the
  guessed size is not above the real one (`GuessAssumption`).
  `ConfinedToPartitionTheorem` (`Spec => [](UnambiguousTable /\ PlainFile /\ EraseInChip
  => ConfinedToPartition)`) follows a table of any length on its way: `partition_create`
  is a fold, and after every prefix of the JSON file its partitions are where the file
  has them (`MadeAsAsked`, `Made`); the words of a partition are as many as its flags
  say, so that the device finds each partition where the one before ends and reads what
  was written (`Flattened`, `Parsed`, `AskedIsRead`). A load in its place begins there
  (`BeginsInPartition`), and the check of its size, which it has passed before anything
  is written (`FittingInv`), keeps it from reaching the end, rounded to sectors too.
  Each hypothesis is needed. `UnambiguousTable`: the number of extra families is one the
  flags can hold, which two are not (run `partition_families`); start and size of a
  partition are both sectors or both bytes; and no partition ends behind sector 4095,
  where the place of the next one would be taken for bytes. `PlainFile`: no range of the
  file lies below the address it is counted from, `find_binary_start`, as then a part of
  it is put in front of the partition. `EraseInChip`: a partition that is erased is in
  the chip, as flash behind its end shows its beginning again; a load has that checked.
- `RangeMapProofs`: `InvariantHolds` (types and separation are inductive),
  `RangesNeverOverlap`, `LookupSound`, and `Implementation`
  (`Spec => ImplementsStorageMap`), for every address space and set of storage
  positions. Separation makes the entry that covers an address unique
  (`ContentsAt`), so the entries the loops scan are all the ones a range overlaps
  (`HitAll`), and each of `insert`, `insert_overwrite` and `offset_by` then changes
  `Contents(m)` exactly as the abstract action.
- `MemoryAccessProofs`: `ConfinedTheorem` (`Spec => []Confined`): wherever a call on the connection fails,
  the flash has changed only where the call may change it. `ConfinedInv` adds that a
  write walks through what it was asked for in pieces that lead every address to the
  flash it stands for (`PieceLeads`, which needs the entries of the map apart), that
  the range the connection is given lies in the sectors those cells touch
  (`SavedWithin`, `CellsWithin`), and that what is left to erase is whole sectors
  (`SectorLeft`): a trim or an erase of anything else would run past its end.
  `WriteExactTheorem` (`Spec => [](Distinct /\ ChipHolds => WriteExact)`): a write
  that returns has written what it was asked to and nothing else. `ExactInv` compares
  the flash with what it was: up to the address reached it holds the data, behind it
  what it held before, and between an erase and its program the buffer holds the
  difference. `Distinct` says that no two of the addresses written stand for one cell
  of the chip, `ChipHolds` that the sectors around a write fit in it: neither holds of
  a write that is longer than the chip, which the code does not refuse, and of a copy
  mapping that leads two addresses to one place.
  `ReadExactTheorem` (`Spec => []ReadExact`), without hypothesis: a read that returns
  has what is in the flash, however the layers cut it and the cache cuts the pieces.
  It rests on `CacheInv`: what is cached is what the flash holds, as a session with the
  cache never writes and one without it keeps it empty. The erases do not clear the
  cache, but only `info_guts` turns it on, and it only reads.
  `read_cached` narrows a piece entry by entry, which is a fold over the cache; `ReadInv`
  needs of its result that what is left to be read, and where the piece is to be looked
  up again, is covered by no entry before it.
- `OtpProofs`: `ConfinedTheorem` (`Spec => []Confined`): however a command ends only
  rows it was asked for have changed, and no row has lost a bit. The invariant adds
  what the device is still to write: rows of the command, and bits of a row.
  `OtpInvariant` (`Spec => []OtpInv`) follows a set and a JSON file row by row: the
  writes are those that the rows found at the beginning call for, and those of them
  the device was given are in the rows, up to the row it is at (`Progress`); a command
  that succeeded has nothing left (`DoneInv`). From it `RefusedTheorem`: a modification
  is refused only for what was there before the command, so that a load that was cut
  off can be repeated; `DumpTheorem`: loading a file into a blank device leaves what a
  dump of the file shows, for every file; and `SetShownTheorem`
  (`Spec => [](PlainSet(job) => SetIsShown)`). `PlainSet` is a named field or a whole row, not
  with `-e` and `-r` at once, of a row with error correction its low half and its one
  copy; bits that are no named field are what the run `otp_bits` refutes it for.
  `ShownTheorem` (`Spec => [](PlainGet(job) => ShownIsVoted)`) follows a get row by row:
  `BufferOk` says that the buffer is the page it was read from until a row of a special
  page is put in it, which `last_page` does not tell, and the rows come in ascending
  order, as the keys of a map, so that no page is looked at again after that. `PlainGet`
  leaves out two selected fields of one row (the second is shown as 0), a field that is a
  whole row with several copies, and `-c` where the copies are not in what was read: of
  rows with error correction, of special pages and across the end of a page.
  `EccTheorem` (`Spec => []EccDistance`) is about all 2^16 values, not a sample of them:
  the code of `otp_calculate_ecc` is linear, no two of the bits of a word have the same
  five parity masks and each is in two or more, and the sixth bit makes the number of
  ones even, so that the codes of any two values are four bits apart or more (`EccApart`).
  `WhiteLabelTheorem`
  (`Spec => []((OnlyWhiteLabels /\ \A w \in WhiteLabels : PlainLabel(w)) => WhiteLabelComplete)`)
  follows the three writes of a label: its values, the row that says where they are,
  the flags. `LabelInv` says that every copy of the flags has only flags of the first one
  and these of a label that is there (`FlagsOk`), that what is on its way to the device is
  the rest of one of the three writes, with the earlier ones done (`LabelOk`), and that no
  other command writes there (`OthersOk`). What was written of a label stays, as the
  device takes a value with error correction only over itself or over a zero. What is in
  the rows is then what the file had: `wl_do_fields` is a fold over the fields, followed
  by `FilledUpTo`; a word that holds a place and a length comes apart again as
  `BitsOfSum` says of a * 2^k + b; and of the recursions of `get_json_bcd` it is proved
  that a revision of three or four digits has one digit in each half byte.
  `OnlyWhiteLabels`: the other commands write neither rows of labels nor their flags,
  there is no label at first, and labels that share rows put zeros at the same places.
  `PlainLabel`: fewer than 256 words with the strings, revisions from 1.00. Both are true
  of the commands of `MCOtp`, but the code checks neither part of `PlainLabel`: strings of
  the largest lengths it allows take more than 256 words, and the place of one behind
  them is cut to 8 bits (`data.size() << 8` in a `uint16_t`, 7485).
- `Uf2Proofs`: `WellFormedTheorem` (`Spec => []WellFormed`), `CutOffTheorem`
  (`Spec => []CutOffShows`) and `SectorsTheorem` (`Spec => []SectorsByNumber`), for all
  files, options and sizes, wherever writing fails. None is
  inductive: that a finished file is numbered needs that the unfinished one is, and
  that the count in its blocks is the one it will reach. `CountInv` says so while a
  file is written: `Converting`, block n is the page with n pages below it;
  `Combining`, it is the n-th block that counts of the two files, and both were
  counted before. That numbers fall into sectors rests on `Full`: with the padding
  every sector that is touched has all its pages up to the last page, so pages come in
  runs of `SectorPages` (`AllGrouped`), and a move by whole sectors keeps that
  (`MovedStaysFull`).
  `ReadsBackTheorem` (`Spec => [](meant[job.from[1]].ours => ReadsBack)`) and
  `MovedTheorem` (`Spec => []MovedToOffset`) are about the contents. `KeepInv` follows
  the bytes through every conversion: the fragments of a page are the bytes of the
  segments taken so far (`PagesHold`), a file that was written is its pages
  (`WrittenIsKept`), what `combine` has copied is what was in its files (`Copying`), and
  what has been read is the blocks up to the position (`MappedTo`). `ours` says that the
  program wrote the file, or combined it of such: blocks of other programs may lie over
  each other. `ReadsBack` itself leaves out files that were cut off, and what is combined
  of them, of which `CutOffTheorem` says that they show it. `StartFound` shows that the loop of `find_binary_start` finds what
  `Begins` says without a loop; `MovedToOffset` leaves out a file in none of the places
  the loop knows, and a move that puts a block across 2^32.

The only assumptions are the `ASSUME`s of the modules, which TLC evaluates on
every run:

- `FlashLoad`: `SectorAssumption`, `LayoutAssumption` (regions of flash begin at a
  sector, and not at address 0, which stands for "no place"), `DeviceAssumption`, `GuessAssumption` (the sizes that can be guessed are
  whole sectors, each half of the next, and each is a multiple of the chip's size or at
  most half of it, as with powers of 2) and `InputAssumption` (a file has
  finitely many ranges that do not overlap, which `RangeMapProofs` shows; `-n`, `-N`
  and `-u` are given to a load only). It includes the type of what `get_partitions`
  returns, for tables that are not unambiguous: their words are selected with
  `SelectSeq`, which tlapm cannot unfold.
- `Otp`: `PagesAssumption`, `RowsAssumption`, `CommandsAssumption` and
  `WhiteLabelsAssumption`.
- `DeviceSession`: `SessionAssumption`.
- `MemoryAccess`: `SizesAssumption`, `SessionsAssumption`, `ImagesAssumption` and
  `MappingAssumption` (the copy mapping is a map as `insert` makes it, which
  `RangeMapProofs` shows to keep its entries apart).
- `Uf2`: `SizesAssumption`, `MemoryAssumption` (the regions are in this order, flash
  begins at a sector), `OptionsAssumption` and `FilesAssumption` (what may be on the
  disk: a BIN is one segment, only a UF2 has blocks, and these may be any).

What a fold computes can be proved, by going from one prefix of its sequence to the
next: `FoldTheorems` does so for the folds of the community modules, with an induction
over a set of numbers. A recursive function is followed the same way, once it is shown
that there is a function its definition describes (`AskedEnds`, `Parses`). What a
RECURSIVE operator computes cannot be proved.

Only model-checked: liveness (`CallReturns`, `Ends`, `Terminates`: fairness and ENABLED
are out of the prover's reach here); and the properties of `Sealing`: what looks like a
block depends on every word of the disk, and the blocks, items and load maps are read
and written by recursions and sorted or selected sequences, of which the library states
nothing that the provers could use. The runs check `WriteExact`, `SetIsShown`,
`ShownIsVoted`, `WhiteLabelComplete`, `ReadsBack` and `ConfinedToPartition` without the
hypotheses of their theorems, on inputs for which they hold.

## 6. Abstractions

- `PicobootConnection`: one device; a transfer that reports success has moved all
  its bytes; timeouts are failures at any moment; opening another device starts
  from a device in any state. The device takes a command only when it is not
  busy, and forgets a pending one on reset.
- `DeviceSession`: descriptors can be read; the command is a choice of `rebooted`,
  `stayed`, `threw`; devices change between enumerations, which is when the
  program sleeps.
- `FlashLoad`: an RP2350. Addresses in pages, so the widening of a UF2's range to
  pages by `save` is not seen; contents told apart as erased, zero, file data and
  old program; binary info and the last block are their results; the partition
  the boot ROM names for a family is an input; XIP SRAM behaves as RAM, ROM as
  invalid. `load --offset` of a UF2 to an RP2040, which is refused, and saving as
  ELF, also refused, are left out. Files that are moved have a place to count from.
- `PartitionTable`: permissions, links and other flags are left out, a name is a
  number of words. No table of the run `load` has a partition with exactly two
  extra families, which is what `partition_families` shows.
- `MemoryAccess`: flash only (RAM and ROM are read without cache or translation);
  buffers are functions of the addresses they are for; littlefs programs only what
  it has erased and both file systems stay inside the device, as their sources do.
- `RangeMap`: no range reaches 2^32, where no device has memory. A release build
  does not check `r.to > r.from` (306).
- `Sealing`: a digest is the sequence of words that was hashed and a signature the
  digest it was made for; one word for an entry of a load map and for a digest;
  one segment for a physical address, or where there are more (`squash` looks for
  aliases), one of the orders `std::sort` may leave them in; only relative load maps are
  written; the
  image flags are Arm, RISC-V and try-before-you-buy. Encrypting, the sections of
  an ELF and the holes between its segments are not modelled.
- `Uf2`: a byte is the number of its place in the files that went in; the package
  header is its family, number, count and address. A BIN without contents is refused
  (`BinEmpty`, `elf2uf2.cpp:204-212`). `combine` takes the count from the first block of
  a file, also when it leaves that block out. A file of another program counts as
  numbered only if its blocks are, from 0, and its first block is one of those. A file
  is cut off between blocks: what is left of half a block is not read. The addresses at
  which RAM ends are those of one chip; only RP2040 has banked RAM.
- `Otp`: rows are written whole; whether the device takes the same ECC value again
  is left open; read permissions and `-c` beyond the page buffer are not modelled.

## 7. Not modelled, and why

- `lib/` (littlefs, FatFs, JSON, mbedtls configuration, whereami) and
  `otp_header_parser/rp2350.json.h`, generated: code of others and data. They are
  over 90 000 of the 110 000 lines, which is why the map covers a small share of
  all lines; of `main.cpp`, `bintool`, `elf2uf2` and the connection it covers the
  parts that change state.
- Encryption, the self-decrypting bootloader, `flash_id`, `xip_ram_perms`: assembly,
  registers and cryptography, with no state that the host shares.
- The command line and the help, `info`'s printing of binary info, JSON schemas and
  settings, register lists: input and output without a state of their own.
- `otp permissions` (code run on the device), `partition info`, `coprodis`, `reboot`
  beyond what `DeviceSession` says of it, `version`.
- The commands of bdev above the block device: their states are those of the
  vendored file systems.

## 8. Plan

What could follow: proofs about `Sealing`, first that sealing keeps what a file held
(`ContentKept`), then that the loop of blocks closes; `load` composed with
`PicobootConnection`, for the copied connection of 5217; the RP2040 in `FlashLoad`; the
windows of the readers of blocks beyond the first.
