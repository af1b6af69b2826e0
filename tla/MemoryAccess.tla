---------------------------- MODULE MemoryAccess ----------------------------
(***************************************************************************)
(* picoboot_memory_access of main.cpp, which reads and writes the flash of *)
(* a device through a connection, with a cache of what was read or with    *)
(* the "flash translation layer" that erases for the caller; the layers    *)
(* stacked on it (remapped_memory_access, partition_memory_access); and    *)
(* the commands that use it: info, config and the block devices of bdev.   *)
(*                                                                         *)
(* A cell is a bit and 1 is erased.  Addresses are relative to FLASH_START. *)
(* The chip repeats in the window of addresses it is mapped to.  Buffers   *)
(* are functions from the addresses they are for.                          *)
(***************************************************************************)
EXTENDS Integers, Sequences, SequencesExt, FiniteSetsExt

CONSTANTS
    Page,               \* PAGE_SIZE
    Sector,             \* FLASH_SECTOR_ERASE_SIZE
    Block,              \* SECTOR_SIZE of FatFs
    Chip,               \* size of the flash chip
    Window,             \* flash_end - FLASH_START
    Limit,              \* end of the address space
    reverse_copy_mapping,   \* where the initial values of data in RAM are in flash
    Sessions, Images(_),    \* what the program does, on which contents of the flash
    ReadSizes(_), WriteSizes(_) \* how many cells a session reads or writes in a call

ASSUME SizesAssumption ==
    /\ {Page, Sector, Block, Chip, Window, Limit} \subseteq Nat \ {0}
    /\ Sector % Page = 0 /\ Block % Page = 0 /\ Sector % Block = 0
    /\ Chip % Sector = 0 /\ Window % Chip = 0 /\ Window < Limit
ASSUME SessionsAssumption ==
    Sessions \subseteq [client : {"info", "config", "fatfs", "littlefs"},
                        base : Nat, size : Nat, writeable : BOOLEAN]
ASSUME ImagesAssumption ==
    \A s \in Sessions : Images(s.client) \subseteq [0..(Chip - 1) -> {0, 1}]

VARIABLES
    session,            \* client; base and size of the partition or block device
    flash,              \* what the chip holds
    flash_cache,        \* the cached ranges, each a function of its addresses
    pc,                 \* the call that is executing
    ask,                \* what was asked: a range, for a write its data
    rest,               \* the range of it the outer loop has left
    todo,               \* the pieces of the current iteration that are left
    got,                \* read: the buffer so far
    buf,                \* write: what connection.write is given
    before              \* history: the flash when the call began
vars == <<session, flash, flash_cache, pc, ask, rest, todo, got, buf, before>>

Locs == 0..(Chip - 1)
Bits == {0, 1}
Nothing == [a \in {} |-> 0]

use_flash_cache == session.client = "info"                  \* set by info_guts
enable_ftl == session.client \in {"config", "fatfs"}
IsBdev == session.client \in {"fatfs", "littlefs"}

RoundDown(a) == a - (a % Sector)
Read(f, a) == f[a % Chip]
\* The flash f with the data d at the addresses of d.
Put(f, d) ==
    [l \in Locs |-> IF \E a \in DOMAIN d : a % Chip = l
                    THEN d[Max({a \in DOMAIN d : a % Chip = l})] ELSE f[l]]
\* Programming can only clear bits.
Program(f, d) == Put(f, [a \in DOMAIN d |-> IF d[a] = 0 THEN 0 ELSE Read(f, a)])
Erased(from, to) == [a \in from..(to - 1) |-> 1]

is_transfer_aligned(a) == a \in 0..Window /\ a % Page = 0

-----------------------------------------------------------------------------
(* The layers.  A piece is a range of the caller's addresses and how far   *)
(* from there the flash it stands for begins.                              *)

\* get_remapped; outside the map an address is its own, up to the next entry.
Map == INSTANCE RangeMap WITH m <- reverse_copy_mapping, refused <- FALSE, Storage <- 0..Limit
\* It was made by insert, which keeps its entries apart.
ASSUME MappingAssumption ==
    /\ DOMAIN reverse_copy_mapping \subseteq 0..(Limit - 1)
    /\ reverse_copy_mapping \in
          [DOMAIN reverse_copy_mapping -> [to : 0..(Limit - 1), storage : Nat]]
    /\ Map!Separate(reverse_copy_mapping)
Remapped(p) ==
    IF Map!Found(p) # {}
    THEN Map!Get(p, CHOOSE k \in Map!Found(p) : TRUE)
    ELSE [offset |-> 0, storage |-> p,
          max_offset |-> (CHOOSE n \in 0..Limit : Map!IsNext(n, p)) - p]

\* An iteration of remapped_memory_access::read or write, and what the layer of
\* partition_memory_access adds. A block device has neither.
Piece_WholeRange(p, to) ==
    LET r == Remapped(p)
    IN  [from |-> p, to |-> to,
         shift |-> IF IsBdev THEN 0 ELSE r.storage + r.offset + session.base - p]
Piece(p, to) ==
    LET r == Remapped(p)
        end == p + r.max_offset - r.offset
    IN  IF IsBdev THEN [from |-> p, to |-> to, shift |-> 0]
        ELSE [from |-> p, to |-> IF end < to THEN end ELSE to,
              shift |-> r.storage + r.offset + session.base - p]

\* What a caller means by an address.
Target(p) ==
    CASE IsBdev -> p
      [] ~IsBdev /\ p \in Map!Covered(reverse_copy_mapping) ->
            Map!Contents(reverse_copy_mapping)[p] + session.base
      [] OTHER -> p + session.base
Asked == ask.from..(ask.to - 1)

-----------------------------------------------------------------------------
(* What the commands ask for.                                              *)

\* Addresses of the program: its flash, and data that has its values in flash.
ProgramCells == 0..(session.size - 1) \cup Map!Covered(reverse_copy_mapping)
DeviceCells == session.base..(session.base + session.size - 1)
\* littlefs reads in parts of a page; FatFs in whole blocks.
Askable(sizes) ==
    {r \in [from : 0..(Limit - 1), to : 1..Limit] :
        /\ r.to - r.from \in sizes
        /\ r.from..(r.to - 1) \subseteq (IF IsBdev THEN DeviceCells ELSE ProgramCells)
        /\ session.client = "fatfs" =>
              (r.from - session.base) % Block = 0 /\ (r.to - r.from) % Block = 0}

\* lfs_prog programs a page of a block that was erased; FatFs and config write
\* over anything.
Writable(r) ==
    /\ session.client # "info"
    /\ session.client = "littlefs" =>
          /\ (r.from - session.base) % Page = 0 /\ r.to - r.from = Page
          /\ \A a \in r.from..(r.to - 1) : Read(flash, a) = 1

Ask(r, data) == [from |-> r.from, to |-> r.to, data |-> data]
Whole(r) == [from |-> r.from, to |-> r.to]
NoRange == [from |-> 0, to |-> 0]

CallRead ==
    /\ pc = "idle"
    /\ \E r \in Askable(ReadSizes(session.client)) :
          ask' = Ask(r, Nothing) /\ rest' = Whole(r)
    /\ pc' = "read" /\ got' = Nothing
    /\ before' = flash
    /\ UNCHANGED <<session, flash, flash_cache, todo, buf>>

\* disk_write, lfs_prog and the writes of bi_modifier.
CallWrite ==
    /\ pc = "idle"
    /\ \E r \in {q \in Askable(WriteSizes(session.client)) : Writable(q)} :
       \E data \in [r.from..(r.to - 1) -> Bits] :
          ask' = Ask(r, data) /\ rest' = Whole(r)
    /\ pc' = IF IsBdev /\ ~session.writeable THEN "refused" ELSE "write"
    /\ before' = flash
    /\ UNCHANGED <<session, flash, flash_cache, todo, got, buf>>

\* disk_ioctl(CTRL_TRIM): FatFs names the first and the last block.
TrimStart_RoundedDown(first) == RoundDown(first * Block + session.base)
TrimStart(first) == RoundDown(first * Block + session.base + Sector - 1)
TrimEnd(last) == RoundDown(last * Block + session.base)
DiskTrim ==
    /\ pc = "idle" /\ session.client = "fatfs"
    /\ \E first, last \in 0..(session.size \div Block - 1) :
          /\ first <= last
          /\ ask' = Ask([from |-> session.base + first * Block,
                         to |-> session.base + (last + 1) * Block], Nothing)
          /\ rest' = [from |-> TrimStart(first), to |-> TrimEnd(last)]
    /\ pc' = IF session.writeable THEN "erase_all" ELSE "refused"
    /\ before' = flash
    /\ UNCHANGED <<session, flash, flash_cache, todo, got, buf>>

\* lfs_erase of a block, which is a sector.
LfsErase ==
    /\ pc = "idle" /\ session.client = "littlefs"
    /\ \E b \in 0..(session.size \div Sector - 1) :
          LET r == [from |-> session.base + b * Sector, to |-> session.base + (b + 1) * Sector]
          IN  ask' = Ask(r, Nothing) /\ rest' = r
    /\ pc' = IF session.writeable THEN "erase_all" ELSE "refused"
    /\ before' = flash
    /\ UNCHANGED <<session, flash, flash_cache, todo, got, buf>>

\* The next iteration of the layers' loop.
Left == rest.from < rest.to
NextPiece ==
    /\ pc \in {"read", "write"} /\ todo = <<>> /\ Left
    /\ LET p == Piece(rest.from, rest.to)
       IN  todo' = <<p>> /\ rest' = [rest EXCEPT !.from = p.to]
    /\ UNCHANGED <<session, flash, flash_cache, pc, ask, got, buf, before>>

-----------------------------------------------------------------------------
(* picoboot_memory_access::read                                            *)

Head1 == Head(todo)
Cells(p) == (p.from + p.shift)..(p.to + p.shift - 1)

\* The loop of read_cached over the cache for the addresses [from, to): what is
\* left of them, with the point to split at if an entry lies in their middle.
Narrow(s, from, to) == [s EXCEPT !.from = from, !.to = to]
Untouched(s, e) == s.from = s.to \/ s.split # 0 \/ DOMAIN e \cap s.from..(s.to - 1) = {}
CacheLoop(s, e) ==
    LET start == Min(DOMAIN e)
        end == Max(DOMAIN e) + 1
    IN  IF Untouched(s, e) THEN s
        ELSE CASE start <= s.from -> Narrow(s, Min({end, s.to}), s.to)
               [] s.from < start /\ s.to <= end -> Narrow(s, s.from, start)
               [] s.from < start /\ end < s.to -> [s EXCEPT !.split = start]
Looked(p) ==
    LET all == [from |-> p.from + p.shift, to |-> p.to + p.shift, split |-> 0]
    IN  IF use_flash_cache THEN FoldLeft(CacheLoop, all, flash_cache) ELSE all

\* What the cache gave for the other cells, and what is read from the device.
Cached(a) == LET e == CHOOSE c \in ToSet(flash_cache) : a \in DOMAIN c IN e[a]
Filled(p, left) ==
    [q \in p.from..(p.to - 1) |->
        IF q + p.shift \in left THEN Read(flash, q + p.shift) ELSE Cached(q + p.shift)]
Over(f, g) == [x \in DOMAIN f \cup DOMAIN g |-> IF x \in DOMAIN g THEN g[x] ELSE f[x]]

\* "Middle of data already cached": two calls of read_cached.
Halves(p, at) == <<[p EXCEPT !.to = at], [p EXCEPT !.from = at]>>
ReadSplit ==
    /\ pc = "read" /\ todo # <<>>
    /\ Looked(Head1).split # 0
    /\ todo' = Halves(Head1, Looked(Head1).split - Head1.shift) \o Tail(todo)
    /\ UNCHANGED <<session, flash, flash_cache, pc, ask, rest, got, buf, before>>

\* All of it from the cache, or the rest read and cached.
ReadPiece ==
    /\ pc = "read" /\ todo # <<>>
    /\ Looked(Head1).split = 0
    /\ LET left == Looked(Head1).from..(Looked(Head1).to - 1)
       IN  /\ got' = Over(got, Filled(Head1, left))
           /\ flash_cache' = IF use_flash_cache /\ left # {}
                             THEN Append(flash_cache, [a \in left |-> Read(flash, a)])
                             ELSE flash_cache
    /\ todo' = Tail(todo)
    /\ UNCHANGED <<session, flash, pc, ask, rest, buf, before>>

-----------------------------------------------------------------------------
(* picoboot_memory_access::write                                           *)

NewData == [a \in Cells(Head1) |-> ask.data[a - Head1.shift]]
Same == \A a \in Cells(Head1) : NewData[a] = Read(flash, a)
\* "check for bits that need to be set"
do_erase == \E a \in Cells(Head1) : NewData[a] = 1 /\ Read(flash, a) = 0

\* A range that ends at the start of a sector takes that sector in as well.
AlignedRange(p) ==
    [from |-> RoundDown(p.from + p.shift), to |-> RoundDown(p.to + p.shift) + Sector]
aligned_range == AlignedRange(Head1)
\* The changed data among what is saved from around it.
write_data_WithoutTail ==
    [a \in aligned_range.from..(aligned_range.to - 1) |->
        IF a \in Cells(Head1) THEN NewData[a]
        ELSE IF a < Head1.from + Head1.shift THEN Read(flash, a) ELSE 1]
write_data ==
    [a \in aligned_range.from..(aligned_range.to - 1) |->
        IF a \in Cells(Head1) THEN NewData[a] ELSE Read(flash, a)]

SkipUnchanged ==
    /\ pc = "write" /\ todo # <<>> /\ enable_ftl /\ Same
    /\ todo' = Tail(todo)
    /\ UNCHANGED <<session, flash, flash_cache, pc, ask, rest, got, buf, before>>

\* Reading what lies behind the window fails, before anything is erased.
SaveAround ==
    /\ pc = "write" /\ todo # <<>> /\ enable_ftl /\ do_erase
    /\ aligned_range.to <= Window
    /\ buf' = write_data
    /\ pc' = "erase"
    /\ UNCHANGED <<session, flash, flash_cache, ask, rest, todo, got, before>>

FlashErase ==
    /\ pc = "erase"
    /\ flash' = Put(flash, [a \in DOMAIN buf |-> 1])
    /\ pc' = "program"
    /\ UNCHANGED <<session, flash_cache, ask, rest, todo, got, buf, before>>

\* Nothing to erase: the data is written as it comes, if its ends are aligned.
WithoutErase ==
    /\ pc = "write" /\ todo # <<>>
    /\ enable_ftl => ~Same /\ ~do_erase
    /\ IF is_transfer_aligned(Head1.from + Head1.shift)
          /\ is_transfer_aligned(Head1.to + Head1.shift)
       THEN pc' = "program" /\ buf' = NewData
       ELSE pc' = "refused" /\ buf' = buf           \* throws invalid_argument
    /\ UNCHANGED <<session, flash, flash_cache, ask, rest, todo, got, before>>

FlashWrite ==
    /\ pc = "program"
    /\ flash' = Program(flash, buf)
    /\ flash_cache' = <<>>                          \* clear_cache
    /\ todo' = Tail(todo)
    /\ pc' = "write" /\ buf' = Nothing
    /\ UNCHANGED <<session, ask, rest, got, before>>

-----------------------------------------------------------------------------
\* The loops of CTRL_TRIM and lfs_erase, straight to the connection.
EraseSector ==
    /\ pc = "erase_all" /\ Left
    /\ flash' = Put(flash, Erased(rest.from, rest.from + Sector))
    /\ rest' = [rest EXCEPT !.from = rest.from + Sector]
    /\ UNCHANGED <<session, flash_cache, pc, ask, todo, got, buf, before>>

Return ==
    /\ pc \in {"read", "write", "erase_all"} /\ todo = <<>> /\ ~Left
    /\ pc' = "idle" /\ ask' = Ask(NoRange, Nothing) /\ rest' = NoRange
    /\ got' = Nothing /\ before' = flash
    /\ UNCHANGED <<session, flash, flash_cache, todo, buf>>

\* A call on the connection throws.  An erase has got as far as some sector, a
\* write as far as some cell.
ConnectionFails ==
    /\ \/ /\ pc \in {"read", "write"} /\ todo # <<>>
          /\ flash' = flash
       \/ /\ pc = "erase_all" /\ Left
          /\ flash' \in {flash, Put(flash, Erased(rest.from, rest.from + Sector))}
       \/ /\ pc = "erase"
          /\ \E k \in {a \in DOMAIN buf : a % Sector = 0} :
                flash' = Put(flash, Erased(Min(DOMAIN buf), k))
       \/ /\ pc = "program"
          /\ \E k \in DOMAIN buf :
                flash' = Program(flash, [a \in Min(DOMAIN buf)..(k - 1) |-> buf[a]])
    /\ pc' = "failed"
    /\ UNCHANGED <<session, flash_cache, ask, rest, todo, got, buf, before>>

-----------------------------------------------------------------------------
Init ==
    /\ session \in Sessions
    /\ flash \in Images(session.client)
    /\ flash_cache = <<>>
    /\ pc = "idle" /\ ask = Ask(NoRange, Nothing) /\ rest = NoRange
    /\ todo = <<>> /\ got = Nothing /\ buf = Nothing
    /\ before = flash

Next ==
    \/ CallRead \/ NextPiece \/ ReadSplit \/ ReadPiece
    \/ CallWrite \/ SkipUnchanged \/ SaveAround \/ FlashErase \/ WithoutErase \/ FlashWrite
    \/ DiskTrim \/ LfsErase \/ EraseSector
    \/ Return
    \/ ConnectionFails

Spec == Init /\ [][Next]_vars

-----------------------------------------------------------------------------
(* Properties.                                                             *)

\* A read that returns has filled the whole buffer with what is in the flash the
\* caller's addresses stand for, however much of it came from the cache.
ReadExact ==
    (pc = "read" /\ todo = <<>> /\ ~Left) => got = [p \in Asked |-> Read(flash, Target(p))]

\* A write that returns has changed what it was asked to change and nothing else:
\* erasing whole sectors loses nothing around it, programming clears nothing more.
WriteExact ==
    (pc = "write" /\ todo = <<>> /\ ~Left) =>
        flash = Put(before, [a \in {Target(p) : p \in Asked} |->
                                ask.data[CHOOSE p \in Asked : Target(p) = a]])

\* At any moment, also after a failure half way, the flash differs from what it
\* was only where the call may change it: in the sectors a write to be erased for
\* touches, and the one behind if it ends at a sector's end; in the pages of a
\* write that needs no erase; in the blocks that were trimmed or erased.
MayChange ==
    CASE pc = "idle" -> {}
      [] pc # "idle" /\ ask.data = Nothing -> Asked
      [] pc # "idle" /\ ask.data # Nothing /\ ~enable_ftl -> {Target(p) : p \in Asked}
      [] OTHER -> UNION {RoundDown(Target(p))..(RoundDown(Target(p) + 1) + Sector - 1) : p \in Asked}
Confined ==
    pc # "idle" =>
        \A l \in Locs : flash[l] # before[l] => \E a \in MayChange : a % Chip = l
=============================================================================
