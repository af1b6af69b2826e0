----------------------------- MODULE AddressMap -----------------------------
(***************************************************************************)
(* The address space the memory commands work in: the regions of           *)
(* model/model.h and model/addresses.h, struct range of main.cpp and the   *)
(* rounding of ranges to flash sectors.                                    *)
(*                                                                         *)
(* Addresses are counted in cells, a cell standing for the smallest unit   *)
(* the properties tell apart (a page of 256 bytes); Sector is              *)
(* FLASH_SECTOR_ERASE_SIZE in cells.  A range is a record [from, to), to   *)
(* exclusive as in the code.                                               *)
(***************************************************************************)
EXTENDS Integers, FiniteSetsExt, SequencesExt

CONSTANTS
    Sector,             \* FLASH_SECTOR_ERASE_SIZE
    FlashStart,         \* FLASH_START
    FlashEndRP2040,     \* FLASH_END_RP2040: end of the first chip select's window
    FlashEndRP2350,     \* FLASH_END_RP2350: end of the second one's
    FlashEnd,           \* flash_end() of the connected model
    SramStart, SramEnd  \* sram_start(), sram_end()

ASSUME SectorAssumption == Sector \in Nat \ {0}
ASSUME LayoutAssumption ==
    /\ {FlashStart, FlashEndRP2040, FlashEndRP2350, FlashEnd, SramStart, SramEnd} \subseteq Nat
    /\ 0 < FlashStart /\ FlashStart < FlashEndRP2040 /\ FlashEndRP2040 < FlashEndRP2350
    /\ FlashEndRP2350 < SramStart /\ SramStart < SramEnd
    /\ FlashEnd \in {FlashEndRP2040, FlashEndRP2350}
    /\ \A a \in {FlashStart, FlashEndRP2040, FlashEndRP2350} : a % Sector = 0

\* model_rp::get_memory_type: the ends are included.
get_memory_type(addr) ==
    CASE addr \in FlashStart..FlashEnd -> "flash"
      [] addr \in SramStart..SramEnd -> "sram"
      [] OTHER -> "invalid"

-----------------------------------------------------------------------------
(* struct range                                                            *)

Ranges == [from : Nat, to : Nat]
Cells(r) == r.from..(r.to - 1)
Size(r) == r.to - r.from

\* range::intersects, which counts a range that ends where r begins.
Intersects(r, other) == ~(other.from >= r.to \/ other.to < r.from)

RoundDown(a) == a - (a % Sector)
RoundUp(a) == RoundDown(a + Sector - 1)
AlignedRange(r) == [from |-> RoundDown(r.from), to |-> RoundUp(r.to)]

\* calculate_chunk_size: a Batches-th of the size, in whole sectors.
ChunkSize_RoundedDown(size, batches) == RoundDown((size + batches - 1) \div batches)
ChunkSize(size, batches) == RoundUp((size + batches - 1) \div batches)

-----------------------------------------------------------------------------
(* A file: the ranges of its range_map, which do not overlap.              *)

\* range_map::ranges yields them in the order of their start.
Sorted(rmap) ==
    CHOOSE s \in [1..Cardinality(rmap) -> rmap] :
        \A j, k \in DOMAIN s : j < k => s[j].from < s[k].from

\* get_coalesced_ranges: a range of flash swallows its successor when that
\* begins in the sector this one ends in, so that no sector is erased for two
\* ranges; elsewhere only ranges that touch become one.
Joins(r, next) ==
    LET erase_size == IF get_memory_type(r.from) = "flash" THEN Sector ELSE 1
    IN  r.to \div erase_size = next.from \div erase_size
CoalescedRanges(rmap) ==
    LET add(done, next) ==
            IF done # <<>> /\ Joins(Last(done), next)
            THEN Front(done) \o <<[Last(done) EXCEPT !.to = next.to]>>
            ELSE Append(done, next)
    IN  FoldLeft(add, <<>>, Sorted(rmap))

\* find_binary_start: where execution of a file begins, 0 if nowhere.
find_binary_start(rmap) ==
    LET inSram == {r.from : r \in {q \in rmap : q.from \in SramStart..(SramEnd - 1)}}
    IN  CASE \E r \in rmap : FlashStart \in Cells(r) -> FlashStart
          [] (\A r \in rmap : FlashStart \notin Cells(r)) /\ inSram # {} -> Min(inSram)
          [] OTHER -> 0
=============================================================================
