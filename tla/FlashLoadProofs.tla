--------------------------- MODULE FlashLoadProofs ---------------------------
(***************************************************************************)
(* Theorems about FlashLoad, for any device, file, partition table and     *)
(* number of batches.  Whatever fails and whenever, load changes nothing   *)
(* but the sectors and cells its file needs, erase nothing but what it is  *)
(* to erase, save and verify nothing at all; what succeeds has done just   *)
(* what was asked; a program that is to be kept is kept; and an update     *)
(* writes nothing that is there already.                                   *)
(*                                                                         *)
(* The argument is about rounding: the checks before the first write put   *)
(* both ends of a range into one region, the regions of flash begin and    *)
(* end at a sector, so that a batch rounded to sectors stays within its    *)
(* range rounded to sectors, and that one within flash.  For the contents  *)
(* it has to be known of get_coalesced_ranges that no two of its ranges    *)
(* share a sector, so that no batch undoes another one, and of the guessed *)
(* size that it is not too large, so that no two addresses of a load are   *)
(* one cell.                                                               *)
(*                                                                         *)
(* The last part follows a partition table from its JSON file to the words *)
(* partition_create makes of it and the partitions the device reads in     *)
(* them: a load into a partition, or the erase of one, stays inside the    *)
(* partition as the JSON file has it.                                      *)
(***************************************************************************)
EXTENDS FlashLoad, FoldTheorems, SequenceTheorems

Placed(r) ==
    /\ get_memory_type(r.from) = get_memory_type(r.to)
    /\ get_memory_type(r.from) # "invalid"

\* A load that has found its place and may have passed the checks.
Loading ==
    /\ pc = "start" => mem = before
    /\ pc \in {"check", "load", "program"} =>
          /\ settings.command = "load" /\ LoadRefusal = "none"
          /\ ranges = CoalescedRanges(MovedTo(PlaceOffset))
    /\ pc \in {"load", "program"} =>
          /\ i \in DOMAIN ranges /\ \A k \in DOMAIN ranges : Placed(ranges[k])
          /\ base \in Int /\ ranges[i].from <= base
    /\ pc = "program" => IsFlash(ranges[i])

\* An erase works its way through whole sectors.
Erasing ==
    pc = "erase" =>
        /\ settings.command = "erase" /\ PartitionRefusal = "none"
        /\ ranges = <<ToErase(before)>> /\ i = 1
        /\ base \in Int /\ base % Sector = 0
        /\ ToErase(before).from \in Int /\ ToErase(before).to \in Int
        /\ ToErase(before).from <= base /\ base < ToErase(before).to
        /\ ToErase(before).to % Sector = 0

InputTyped ==
    /\ settings \in Settings
    /\ partitions \in {no_partition} \cup Seq([start : Nat, end : Nat, families : SUBSET STRING])

FlashInv == DOMAIN mem = Locs /\ InputTyped /\ Loading /\ Erasing /\ Confined

-----------------------------------------------------------------------------
(* Rounding                                                                *)

LEMMA Division ==
    ASSUME NEW a \in Int
    PROVE  /\ a \div Sector \in Int /\ a % Sector \in 0..(Sector - 1)
           /\ a = Sector * (a \div Sector) + (a % Sector)
BY SectorAssumption

LEMMA WholeSectors ==
    ASSUME NEW a \in Int, a % Sector = 0
    PROVE  a \div Sector \in Int /\ a = Sector * (a \div Sector)
<1>1. a \div Sector \in Int /\ a = Sector * (a \div Sector) + (a % Sector) BY Division
<1>2. Sector * (a \div Sector) \in Int BY <1>1, SectorAssumption
<1> QED BY <1>1, <1>2

LEMMA Multiples ==
    ASSUME NEW p \in Int, NEW q \in Int, p < q
    PROVE  (Sector * p) + Sector <= Sector * q
<1>1. p + 1 <= q OBVIOUS
<1>2. Sector \in Nat BY SectorAssumption
<1>3. Sector * (p + 1) <= Sector * q BY <1>1, <1>2
<1>4. Sector * (p + 1) = (Sector * p) + Sector BY <1>2
<1> QED BY <1>3, <1>4

LEMMA Remainder ==
    ASSUME NEW q \in Int, NEW r \in 0..(Sector - 1)
    PROVE  ((Sector * q) + r) % Sector = r
BY SectorAssumption, RemainderOf

LEMMA RoundingDown ==
    ASSUME NEW a \in Int
    PROVE  /\ RoundDown(a) \in Int /\ RoundDown(a) % Sector = 0
           /\ RoundDown(a) <= a /\ a < RoundDown(a) + Sector
           /\ RoundDown(a) = Sector * (a \div Sector)
<1>1. Sector \in Nat \ {0} BY SectorAssumption
<1>2. /\ a \div Sector \in Int /\ a % Sector \in 0..(Sector - 1)
      /\ a = Sector * (a \div Sector) + (a % Sector)
    BY Division
<1>3. Sector * (a \div Sector) \in Int BY <1>1, <1>2
<1>4. RoundDown(a) = Sector * (a \div Sector) BY <1>2, <1>3 DEF RoundDown
<1>5. 0 \in 0..(Sector - 1) BY <1>1
<1>6. (Sector * (a \div Sector) + 0) % Sector = 0 BY <1>2, <1>5, Remainder
<1> QED BY <1>1, <1>2, <1>3, <1>4, <1>6

LEMMA RoundDownMonotone ==
    ASSUME NEW a \in Int, NEW b \in Int, a <= b
    PROVE  RoundDown(a) <= RoundDown(b)
<1>1. Sector \in Nat \ {0} BY SectorAssumption
<1>2. a \div Sector \in Int /\ b \div Sector \in Int BY Division
<1>3. ASSUME b \div Sector < a \div Sector PROVE FALSE
    <2>1. Sector * (b \div Sector) + Sector <= Sector * (a \div Sector)
        BY <1>2, <1>3, Multiples
    <2>2. RoundDown(b) + Sector <= RoundDown(a) BY <2>1, RoundingDown
    <2> QED BY <1>1, <2>2, RoundingDown
<1>4. CASE a \div Sector = b \div Sector BY <1>4, RoundingDown
<1>5. CASE a \div Sector < b \div Sector
    <2>1. Sector * (a \div Sector) + Sector <= Sector * (b \div Sector)
        BY <1>2, <1>5, Multiples
    <2>2. RoundDown(a) + Sector <= RoundDown(b) BY <2>1, RoundingDown
    <2> QED BY <1>1, <2>2, RoundingDown
<1> QED BY <1>2, <1>3, <1>4, <1>5

LEMMA RoundingUp ==
    ASSUME NEW a \in Int
    PROVE  RoundUp(a) \in Int /\ RoundUp(a) % Sector = 0 /\ a <= RoundUp(a)
<1>1. Sector \in Nat \ {0} /\ a + Sector - 1 \in Int BY SectorAssumption
<1> QED BY <1>1, RoundingDown DEF RoundUp

LEMMA RoundUpMonotone ==
    ASSUME NEW a \in Int, NEW b \in Int, a <= b
    PROVE  RoundUp(a) <= RoundUp(b)
<1>1. a + Sector - 1 \in Int /\ b + Sector - 1 \in Int /\ a + Sector - 1 <= b + Sector - 1
    BY SectorAssumption
<1> QED BY <1>1, RoundDownMonotone DEF RoundUp

LEMMA RoundedAlready ==
    ASSUME NEW a \in Int, a % Sector = 0
    PROVE  RoundDown(a) = a /\ RoundUp(a) = a
<1>1. Sector \in Nat \ {0} BY SectorAssumption
<1>2. a \div Sector \in Int /\ a = Sector * (a \div Sector) BY WholeSectors
<1>3. Sector - 1 \in 0..(Sector - 1) BY <1>1
<1>4. ((Sector * (a \div Sector)) + (Sector - 1)) % Sector = Sector - 1
    BY <1>2, <1>3, Remainder
<1>5. (a + Sector - 1) % Sector = Sector - 1 BY <1>1, <1>2, <1>4
<1> QED BY <1>1, <1>5 DEF RoundDown, RoundUp

\* Between two sector boundaries there is room for a sector.
LEMMA RoomForSector ==
    ASSUME NEW a \in Int, NEW b \in Int, a % Sector = 0, b % Sector = 0, a < b
    PROVE  a + Sector <= b
<1>1. /\ a \div Sector \in Int /\ a = Sector * (a \div Sector)
      /\ b \div Sector \in Int /\ b = Sector * (b \div Sector)
    BY WholeSectors
<1>2. Sector \in Nat \ {0} BY SectorAssumption
<1>3. ASSUME b \div Sector < a \div Sector PROVE FALSE BY <1>1, <1>2, <1>3, Multiples
<1>4. a \div Sector < b \div Sector BY <1>1, <1>3
<1>5. Sector * (a \div Sector) + Sector <= Sector * (b \div Sector)
    BY <1>1, <1>4, Multiples
<1> QED BY <1>1, <1>5

LEMMA SumOfMultiples ==
    ASSUME NEW a \in Int, NEW b \in Int, a % Sector = 0, b % Sector = 0
    PROVE  (a + b) % Sector = 0
<1>1. /\ a \div Sector \in Int /\ a = Sector * (a \div Sector)
      /\ b \div Sector \in Int /\ b = Sector * (b \div Sector)
    BY WholeSectors
<1>2. Sector \in Nat \ {0} BY SectorAssumption
<1>3. a + b = Sector * ((a \div Sector) + (b \div Sector)) + 0 BY <1>1, <1>2
<1>4. 0 \in 0..(Sector - 1) /\ (a \div Sector) + (b \div Sector) \in Int BY <1>1, <1>2
<1>5. (Sector * ((a \div Sector) + (b \div Sector)) + 0) % Sector = 0 BY <1>4, Remainder
<1> QED BY <1>3, <1>5

-----------------------------------------------------------------------------
(* What the operators of FlashLoad return.                                 *)

LEMMA Smaller == ASSUME NEW a \in Int, NEW b \in Int
                 PROVE  Min({a, b}) = IF a <= b THEN a ELSE b
<1> DEFINE m == IF a <= b THEN a ELSE b
<1>1. m \in {a, b} /\ \A y \in {a, b} : m <= y OBVIOUS
<1>2. \A x \in {a, b} : (\A y \in {a, b} : x <= y) => x = m OBVIOUS
<1> QED BY <1>1, <1>2 DEF Min

\* The guessed size is a number of sectors.
LEMMA GuessInSectors ==
    ASSUME NEW m
    PROVE  guess_flash_size(m) \in Nat /\ guess_flash_size(m) % Sector = 0
<1> DEFINE fresh == {s \in GuessedSizes : FirstPages(m, s) # FirstPages(m, 0)}
<1>1. MinGuess \in Nat /\ MaxGuess \in Nat /\ Sector \in Nat \ {0}
    BY DeviceAssumption, SectorAssumption
<1>2. fresh \subseteq 0..MaxGuess BY <1>1 DEF GuessedSizes
<1>3. 0 % Sector = 0
    <2>1. 0 \in 0..(Sector - 1) BY <1>1
    <2>2. ((Sector * 0) + 0) % Sector = 0 BY <2>1, Remainder
    <2>3. (Sector * 0) + 0 = 0 BY <1>1
    <2> QED BY <2>2, <2>3
<1>4. ASSUME fresh # {} PROVE 2 * Max(fresh) \in Nat /\ (2 * Max(fresh)) % Sector = 0
    <2>1. Max(fresh) \in fresh
        <3>1. fresh \in SUBSET (0..MaxGuess) /\ 0 \in Int /\ MaxGuess \in Int BY <1>1, <1>2
        <3> HIDE DEF fresh
        <3> QED BY <1>4, <3>1, Largest
    <2>2. Max(fresh) \in Nat /\ Max(fresh) % Sector = 0
        BY <1>1, <2>1, GuessAssumption DEF GuessedSizes
    <2>3. (Max(fresh) + Max(fresh)) % Sector = 0 BY <2>2, SumOfMultiples
    <2>4. 2 * Max(fresh) = Max(fresh) + Max(fresh) BY <2>2
    <2> QED BY <2>2, <2>3, <2>4
<1> QED BY <1>1, <1>3, <1>4, GuessAssumption DEF guess_flash_size

\* A batch is not negative, or at least not before the end of its range.
LEMMA ChunkBounds ==
    ASSUME NEW size \in Int
    PROVE  /\ ChunkSize(size, Batches) \in Int
           /\ size <= ChunkSize(size, Batches) \/ 0 <= ChunkSize(size, Batches)
<1> DEFINE q == (size + Batches - 1) \div Batches
<1>1. Batches \in Nat \ {0} BY DeviceAssumption
<1>2. q \in Int /\ size + Batches - 1 = (Batches * q) + ((size + Batches - 1) % Batches)
      /\ (size + Batches - 1) % Batches \in 0..(Batches - 1)
    BY <1>1
<1>3. q <= RoundUp(q) /\ RoundUp(q) \in Int BY <1>2, RoundingUp
<1>4. Batches * q \in Int BY <1>1, <1>2
<1>5. size <= (Batches * q) BY <1>1, <1>2, <1>4
<1>6. CASE 0 <= q BY <1>2, <1>3, <1>6 DEF ChunkSize
<1>7. CASE q < 0
    <2>1. Batches * q <= q BY <1>1, <1>2, <1>7
    <2> QED BY <1>2, <1>3, <1>4, <1>5, <2>1 DEF ChunkSize
<1> QED BY <1>2, <1>6, <1>7

\* Both ends of a range that is placed are in the same region.
LEMMA PlacedRegion ==
    ASSUME NEW r, Placed(r)
    PROVE  /\ IsFlash(r) => r.from \in FlashStart..FlashEnd /\ r.to \in FlashStart..FlashEnd
           /\ ~IsFlash(r) => r.from \in SramStart..SramEnd /\ r.to \in SramStart..SramEnd
           /\ r.from \in Int /\ r.to \in Int
<1>1. \A a : /\ get_memory_type(a) = "flash" => a \in FlashStart..FlashEnd
             /\ get_memory_type(a) = "sram" => a \in SramStart..SramEnd
             /\ get_memory_type(a) \in {"flash", "sram", "invalid"}
    BY DEF get_memory_type
<1>2. {FlashStart, FlashEnd, SramStart, SramEnd} \subseteq Nat BY LayoutAssumption
<1>3. /\ get_memory_type(r.from) = "flash" => r.from \in FlashStart..FlashEnd
      /\ get_memory_type(r.to) = "flash" => r.to \in FlashStart..FlashEnd
      /\ get_memory_type(r.from) = "sram" => r.from \in SramStart..SramEnd
      /\ get_memory_type(r.to) = "sram" => r.to \in SramStart..SramEnd
      /\ get_memory_type(r.from) \in {"flash", "sram", "invalid"}
    BY <1>1
<1> QED BY <1>2, <1>3 DEF Placed, IsFlash

\* The sectors of a range in flash are in flash.
LEMMA SectorsInFlash ==
    ASSUME NEW r, Placed(r), IsFlash(r)
    PROVE  Cells(AlignedRange(r)) \subseteq Addresses
<1>1. r.from \in FlashStart..FlashEnd /\ r.to \in FlashStart..FlashEnd BY PlacedRegion
<1>2. /\ FlashStart \in Nat /\ FlashEnd \in Nat /\ FlashEndRP2350 \in Nat
      /\ FlashEnd <= FlashEndRP2350 /\ FlashStart % Sector = 0 /\ FlashEnd % Sector = 0
    BY LayoutAssumption
<1>3. r.from \in Int /\ r.to \in Int BY <1>1, <1>2
<1>4. RoundDown(FlashStart) = FlashStart /\ RoundUp(FlashEnd) = FlashEnd
    BY <1>2, RoundedAlready
<1>5. FlashStart <= RoundDown(r.from) BY <1>1, <1>2, <1>3, <1>4, RoundDownMonotone
<1>6. RoundUp(r.to) <= FlashEnd BY <1>1, <1>2, <1>3, <1>4, RoundUpMonotone
<1>7. RoundDown(r.from) \in Int /\ RoundUp(r.to) \in Int
    BY <1>3, RoundingDown, RoundingUp
<1> QED BY <1>2, <1>5, <1>6, <1>7 DEF Cells, AlignedRange, Addresses

\* The batch that is written next is not behind the end of its range, nor its
\* sectors behind those of the range.
LEMMA BatchInRange ==
    ASSUME Loading, pc \in {"load", "program"}
    PROVE  /\ this_batch \in Int /\ base + this_batch <= ranges[i].to
           /\ base + this_batch < ranges[i].to => base <= base + this_batch
           /\ Cells(read_range) \subseteq Cells(ranges[i])
           /\ Cells(aligned_range) \subseteq Cells(AlignedRange(ranges[i]))
<1> DEFINE r == ranges[i]
<1>1. Placed(r) /\ base \in Int /\ r.from <= base BY DEF Loading
<1>2. r.from \in Int /\ r.to \in Int BY <1>1, PlacedRegion
<1>3. Size(r) \in Int BY <1>2 DEF Size
<1> DEFINE chunk == ChunkSize(Size(r), Batches)
<1>4. chunk \in Int /\ (Size(r) <= chunk \/ 0 <= chunk) BY <1>3, ChunkBounds
<1>5. this_batch = IF r.to - base <= chunk THEN r.to - base ELSE chunk
    BY <1>1, <1>2, <1>4, Smaller DEF this_batch
<1> HIDE DEF chunk
<1>6. this_batch \in Int /\ base + this_batch <= r.to BY <1>1, <1>2, <1>4, <1>5
<1>7. base + this_batch < r.to => base <= base + this_batch
    BY <1>1, <1>2, <1>4, <1>5 DEF Size
<1>8. read_range.from = base /\ read_range.to = base + this_batch BY DEF read_range
<1>9. Cells(read_range) \subseteq Cells(r) BY <1>1, <1>2, <1>6, <1>8 DEF Cells
<1>10. RoundDown(r.from) <= RoundDown(base) /\ RoundUp(base + this_batch) <= RoundUp(r.to)
    BY <1>1, <1>2, <1>6, RoundDownMonotone, RoundUpMonotone
<1>11. /\ RoundDown(r.from) \in Int /\ RoundDown(base) \in Int
       /\ RoundUp(base + this_batch) \in Int /\ RoundUp(r.to) \in Int
    BY <1>1, <1>2, <1>6, RoundingDown, RoundingUp
<1>12. Cells(aligned_range) \subseteq Cells(AlignedRange(r))
    BY <1>8, <1>10, <1>11 DEF Cells, AlignedRange, aligned_range
<1> QED BY <1>6, <1>7, <1>9, <1>12

\* What is to be erased begins and ends with a sector, if it is in flash at all.
LEMMA ErasesSectors ==
    ASSUME InputTyped, PartitionRefusal = "none",
           ToErase(before).from \in FlashStart..FlashEnd,
           ToErase(before).to \in FlashStart..FlashEnd
    PROVE  ToErase(before).from % Sector = 0 /\ ToErase(before).to % Sector = 0
<1>1. FlashStart \in Nat /\ FlashStart % Sector = 0 BY LayoutAssumption
<1>2. /\ settings.from \in Nat /\ settings.to \in Nat
      /\ settings.partition \in Nat \cup {-1}
    BY DEF InputTyped, Settings
<1>3. CASE settings.partition >= 0
    <2>1. /\ partitions \in Seq([start : Nat, end : Nat, families : SUBSET STRING])
          /\ settings.partition + 1 \in 1..Len(partitions)
        <3>1. partitions # no_partition /\ ~(settings.partition >= Len(partitions))
            BY <1>3 DEF PartitionRefusal
        <3>2. partitions \in Seq([start : Nat, end : Nat, families : SUBSET STRING])
            BY <3>1 DEF InputTyped
        <3>3. Len(partitions) \in Nat BY <3>2
        <3>4. settings.partition \in Int /\ 0 <= settings.partition
              /\ settings.partition < Len(partitions)
            BY <1>2, <1>3, <3>1, <3>3
        <3>5. settings.partition + 1 \in 1..Len(partitions) BY ONLY <3>3, <3>4
        <3> QED BY <3>2, <3>5
    <2>2. Partition \in [start : Nat, end : Nat, families : SUBSET STRING]
        <3>1. Partition = partitions[settings.partition + 1] BY <1>2, <1>3 DEF Partition
        <3> QED BY <2>1, <3>1, ElementOfSeq
    <2>3. ASSUME NEW n \in Nat PROVE (FlashStart + (n * Sector)) % Sector = 0
        <3>1. Sector \in Nat \ {0} /\ n * Sector \in Int /\ n * Sector = Sector * n
            BY SectorAssumption
        <3>2. ((Sector * n) + 0) % Sector = 0
            <4>1. 0 \in 0..(Sector - 1) BY <3>1
            <4> QED BY <4>1, Remainder
        <3>3. (n * Sector) % Sector = 0 BY <3>1, <3>2
        <3> DEFINE b == n * Sector
        <3>4. b \in Int /\ b % Sector = 0 BY <3>1, <3>3
        <3> HIDE DEF b
        <3>5. (FlashStart + b) % Sector = 0 BY <1>1, <3>4, SumOfMultiples
        <3> QED BY <3>5 DEF b
    <2>4. /\ ToErase(before).from = FlashStart + (Partition.start * Sector)
          /\ ToErase(before).to = FlashStart + (Partition.end * Sector)
        BY <1>2, <1>3 DEF ToErase
    <2> QED BY <2>2, <2>3, <2>4
<1>4. CASE settings.partition < 0 /\ settings.range_set
    BY <1>2, <1>4, RoundingDown, RoundingUp DEF ToErase, AlignedRange
<1>5. CASE settings.partition < 0 /\ ~settings.range_set
    <2>1. (FlashStart + guess_flash_size(before)) % Sector = 0
        BY <1>1, GuessInSectors, SumOfMultiples
    <2>2. /\ ToErase(before).from = FlashStart
          /\ ToErase(before).to = FlashStart + guess_flash_size(before)
        BY <1>2, <1>5 DEF ToErase
    <2> QED BY <1>1, <2>1, <2>2
<1> QED BY <1>2, <1>3, <1>4, <1>5

-----------------------------------------------------------------------------
(* What a write can change.                                                *)

PlanUnchanged ==
    /\ UNCHANGED <<Planned, LoadRefusal, PartitionRefusal, PlaceOffset>>
    /\ MovedTo(PlaceOffset)' = MovedTo(PlaceOffset)
    /\ ToErase(before)' = ToErase(before)

LEMMA InputKeepsPlan == ASSUME UNCHANGED input PROVE PlanUnchanged
BY DEF PlanUnchanged, input, Planned, PlannedCells, LoadRefusal, PartitionRefusal, PlaceOffset,
       MovedTo, ToErase, Partition, UsesPartition, AsksDevice, IsFlash

\* A write to planned cells, or none, changes nothing else.
LEMMA WriteConfined ==
    ASSUME FlashInv, UNCHANGED input, NEW values, DOMAIN values \subseteq Planned,
           mem' = Put(mem, values)
    PROVE  DOMAIN mem' = Locs /\ Confined' /\ InputTyped'
<1>1. Planned' = Planned /\ before' = before BY InputKeepsPlan DEF PlanUnchanged, input
<1>2. DOMAIN mem' = Locs /\ InputTyped' BY DEF FlashInv, Put, InputTyped, input
<1>3. ASSUME NEW l \in Locs, mem'[l] # before[l]
      PROVE  \E a \in Planned : Loc(a) = l
    <2>1. CASE mem[l] # before[l]
        BY <2>1 DEF FlashInv, Confined
    <2>2. CASE mem'[l] # mem[l]
        <3>1. {a \in DOMAIN values : Loc(a) = l} # {} BY <2>2 DEF Put, FlashInv
        <3> QED BY <3>1
    <2> QED BY <1>3, <2>1, <2>2
<1> QED BY <1>1, <1>2, <1>3 DEF Confined

LEMMA NothingWritten ==
    ASSUME FlashInv, UNCHANGED <<input, mem>>
    PROVE  DOMAIN mem' = Locs /\ Confined' /\ InputTyped'
<1>1. Planned' = Planned BY InputKeepsPlan DEF PlanUnchanged
<1> QED BY <1>1 DEF FlashInv, Confined, InputTyped, input

\* The sectors of a batch, and the cells of one in RAM, are planned.
LEMMA BatchPlanned ==
    ASSUME FlashInv, pc \in {"load", "program"}
    PROVE  /\ IsFlash(ranges[i]) => Cells(aligned_range) \subseteq Planned
           /\ ~IsFlash(ranges[i]) => Cells(read_range) \subseteq Planned
<1> DEFINE r == ranges[i]
           cells(q) == IF IsFlash(q) THEN Cells(AlignedRange(q)) ELSE Cells(q)
<1>1. Loading /\ Placed(r) BY DEF FlashInv, Loading
<1>2. r \in ToSet(CoalescedRanges(MovedTo(PlaceOffset))) BY <1>1 DEF Loading, ToSet
<1>3. cells(r) \cap Addresses \subseteq PlannedCells(MovedTo(PlaceOffset))
    BY <1>2 DEF PlannedCells
<1>4. Planned = PlannedCells(MovedTo(PlaceOffset)) BY <1>1 DEF Loading, Planned
<1>5. cells(r) \subseteq Addresses
    <2>1. CASE IsFlash(r) BY <1>1, <2>1, SectorsInFlash
    <2>2. CASE ~IsFlash(r)
        <3>1. r.from \in SramStart..SramEnd /\ r.to \in SramStart..SramEnd
            BY <1>1, <2>2, PlacedRegion
        <3> QED BY <2>2, <3>1, LayoutAssumption DEF Cells, Addresses
    <2> QED BY <2>1, <2>2
<1> QED BY <1>1, <1>3, <1>4, <1>5, BatchInRange

\* And so is every part of them that an interrupted write has reached.
LEMMA PartOfBatch ==
    ASSUME FlashInv, pc \in {"load", "program"}
    PROVE  /\ IsFlash(ranges[i]) => \A k \in Cells(aligned_range) :
                aligned_range.from..(k - 1) \subseteq Planned
           /\ ~IsFlash(ranges[i]) => \A k \in Cells(read_range) :
                base..(k - 1) \subseteq Planned
<1>1. base \in Int /\ this_batch \in Int
    BY BatchInRange DEF FlashInv, Loading
<1>2. base + this_batch \in Int BY <1>1
<1>3. /\ aligned_range.from = RoundDown(base) /\ aligned_range.to = RoundUp(base + this_batch)
      /\ read_range.from = base /\ read_range.to = base + this_batch
    BY DEF aligned_range, AlignedRange, read_range
<1>4. RoundDown(base) \in Int /\ RoundUp(base + this_batch) \in Int
    BY <1>1, <1>2, RoundingDown, RoundingUp
<1>5. \A k \in Cells(aligned_range) :
         aligned_range.from..(k - 1) \subseteq Cells(aligned_range)
    BY <1>3, <1>4 DEF Cells
<1>6. \A k \in Cells(read_range) : base..(k - 1) \subseteq Cells(read_range)
    BY <1>1, <1>2, <1>3 DEF Cells
<1> QED BY <1>5, <1>6, BatchPlanned

-----------------------------------------------------------------------------

LEMMA Initially == Init => FlashInv
<1> SUFFICES ASSUME Init PROVE FlashInv OBVIOUS
<1>1. PICK in \in Inputs :
        settings = in.settings /\ table = in.table /\ partitions = PartitionsOf(table)
    BY DEF Init
<1>2. InputTyped
    <2>1. settings \in Settings BY <1>1, InputAssumption
    <2>2. CASE in.table # no_partition BY <1>1, <2>1, <2>2, InputAssumption DEF InputTyped
    <2>3. CASE in.table = no_partition
        <3>1. PartitionsOf(table) = no_partition
            BY <1>1, <2>3 DEF PartitionsOf, get_partitions, HasTable
        <3> QED BY <1>1, <2>1, <3>1 DEF InputTyped
    <2> QED BY <2>2, <2>3
<1>3. pc = "start" /\ before = mem BY DEF Init
<1>4. DOMAIN mem = Locs
    <2>1. PICK f, needed : \E d \in Devices(f, needed, settings) : mem = d.mem
        BY DEF Init
    <2> QED BY <2>1 DEF Devices, Unknown, Known, Twice, Loaded, Holding
<1>5. Loading /\ Erasing BY <1>3 DEF Loading, Erasing
<1>6. Confined BY <1>3 DEF Confined
<1> QED BY <1>2, <1>4, <1>5, <1>6 DEF FlashInv

\* A range after the last leaves the writing, every other is placed.
LEMMA ToRangeKeeps ==
    ASSUME FlashInv, pc \in {"check", "load", "program"}, NEW n, ToRange(n),
           \A k \in DOMAIN ranges : Placed(ranges[k]), UNCHANGED <<input, ranges>>
    PROVE  Loading' /\ Erasing'
<1>1. PlanUnchanged BY InputKeepsPlan
<1>2. CASE n \in DOMAIN ranges
    <2>1. pc' = "load" /\ i' = n /\ base' = ranges[n].from BY <1>2 DEF ToRange
    <2>2. ranges[n].from \in Int BY <1>2, PlacedRegion
    <2>3. Loading'
        BY <1>1, <1>2, <2>1, <2>2 DEF FlashInv, Loading, PlanUnchanged, input, Placed
    <2> QED BY <2>1, <2>3 DEF Erasing
<1>3. CASE n \notin DOMAIN ranges BY <1>3 DEF ToRange, Loading, Erasing
<1> QED BY <1>2, <1>3

LEMMA AdvanceKeeps ==
    ASSUME FlashInv, pc \in {"load", "program"}, Advance, UNCHANGED <<input, ranges>>
    PROVE  Loading' /\ Erasing'
<1>1. PlanUnchanged BY InputKeepsPlan
<1>2. Loading /\ \A k \in DOMAIN ranges : Placed(ranges[k]) BY DEF FlashInv, Loading
<1>3. CASE base + this_batch < ranges[i].to
    <2>1. pc' = "load" /\ base' = base + this_batch /\ i' = i BY <1>3 DEF Advance
    <2>2. base \in Int /\ ranges[i].from \in Int /\ ranges[i].from <= base
        BY <1>2, PlacedRegion DEF Loading
    <2>3. base' \in Int /\ ranges[i].from <= base' BY <1>2, <1>3, <2>1, <2>2, BatchInRange
    <2>4. Loading'
        BY <1>1, <1>2, <2>1, <2>3 DEF Loading, PlanUnchanged, input, Placed
    <2> QED BY <2>1, <2>4 DEF Erasing
<1>4. CASE ~(base + this_batch < ranges[i].to)
    BY <1>2, <1>4, ToRangeKeeps DEF Advance
<1> QED BY <1>3, <1>4

\* A step that neither writes nor is in the middle of writing.
LEMMA QuietKeeps ==
    ASSUME FlashInv, UNCHANGED <<input, mem>>,
           pc' \in {"verify", "execute", "save", "compare", "done", "failed"}
    PROVE  FlashInv'
BY NothingWritten DEF FlashInv, Loading, Erasing

\* The file's place is found, and nothing written.
LEMMA LoadCommandKeeps == FlashInv /\ LoadCommand => FlashInv'
<1> SUFFICES ASSUME FlashInv, LoadCommand PROVE FlashInv' OBVIOUS
<1>1. UNCHANGED <<input, mem>> /\ settings.command = "load" BY DEF LoadCommand
<1>2. CASE pc' = "failed" BY <1>1, <1>2, QuietKeeps
<1>3. CASE pc' = "check" /\ LoadRefusal = "none"
           /\ rmap' = MovedTo(PlaceOffset) /\ ranges' = CoalescedRanges(rmap')
    <2>1. PlanUnchanged BY <1>1, InputKeepsPlan
    <2>2. ranges' = CoalescedRanges(MovedTo(PlaceOffset)) BY <1>3
    <2>3. Loading' BY <1>1, <1>3, <2>1, <2>2 DEF Loading, PlanUnchanged, input
    <2>4. Erasing' BY <1>3 DEF Erasing
    <2> QED BY <1>1, <2>3, <2>4, NothingWritten DEF FlashInv
<1> QED BY <1>2, <1>3 DEF LoadCommand, Fail

\* The checks place every range before the first of them is written.
LEMMA CheckKeeps == FlashInv /\ Check => FlashInv'
<1> SUFFICES ASSUME FlashInv, Check PROVE FlashInv' OBVIOUS
<1>1. UNCHANGED <<input, mem, ranges>> /\ pc = "check" BY DEF Check, place
<1>2. CASE pc' = "failed" BY <1>1, <1>2, QuietKeeps
<1>3. CASE RefusedRanges = {} /\ ToRange(1)
    <2>1. ASSUME NEW k \in DOMAIN ranges PROVE Placed(ranges[k])
        <3>1. RangeRefusal(ranges[k]) = "none" BY <1>3 DEF RefusedRanges
        <3> QED BY <3>1 DEF RangeRefusal, Placed
    <2>2. Loading' /\ Erasing' BY <1>1, <1>3, <2>1, ToRangeKeeps
    <2> QED BY <1>1, <2>2, NothingWritten DEF FlashInv
<1> QED BY <1>2, <1>3 DEF Check, Fail

LEMMA SkipKeeps == FlashInv /\ SkipBatch => FlashInv'
<1> SUFFICES ASSUME FlashInv, SkipBatch PROVE FlashInv' OBVIOUS
<1>1. UNCHANGED <<input, mem, ranges>> /\ pc = "load" /\ Advance BY DEF SkipBatch
<1>2. Loading' /\ Erasing' BY <1>1, AdvanceKeeps
<1> QED BY <1>1, <1>2, NothingWritten DEF FlashInv

\* Sectors are erased that belong to the plan.
LEMMA EraseBatchKeeps == FlashInv /\ EraseBatch => FlashInv'
<1> SUFFICES ASSUME FlashInv, EraseBatch PROVE FlashInv' OBVIOUS
<1>1. /\ UNCHANGED <<input, ranges, i, base>> /\ pc = "load" /\ IsFlash(ranges[i])
      /\ pc' = "program"
      /\ mem' = Put(mem, [a \in Cells(aligned_range) |-> Erased])
    BY DEF EraseBatch
<1>2. Cells(aligned_range) \subseteq Planned BY <1>1, BatchPlanned
<1>3. DOMAIN mem' = Locs /\ Confined' /\ InputTyped' BY <1>1, <1>2, WriteConfined
<1>4. PlanUnchanged BY <1>1, InputKeepsPlan
<1>5. Loading' BY <1>1, <1>4 DEF FlashInv, Loading, PlanUnchanged, input, Placed, IsFlash
<1>6. Erasing' BY <1>1 DEF Erasing
<1> QED BY <1>3, <1>5, <1>6 DEF FlashInv

LEMMA ProgramKeeps == FlashInv /\ ProgramBatch => FlashInv'
<1> SUFFICES ASSUME FlashInv, ProgramBatch PROVE FlashInv' OBVIOUS
<1>1. /\ UNCHANGED <<input, ranges>> /\ pc = "program" /\ Advance
      /\ mem' = Put(mem, [a \in Cells(aligned_range) |-> file_buf(a)])
    BY DEF ProgramBatch
<1>2. Cells(aligned_range) \subseteq Planned
    BY <1>1, BatchPlanned DEF FlashInv, Loading
<1>3. DOMAIN mem' = Locs /\ Confined' /\ InputTyped' BY <1>1, <1>2, WriteConfined
<1>4. Loading' /\ Erasing' BY <1>1, AdvanceKeeps
<1> QED BY <1>3, <1>4 DEF FlashInv

LEMMA WriteRamKeeps == FlashInv /\ WriteRamBatch => FlashInv'
<1> SUFFICES ASSUME FlashInv, WriteRamBatch PROVE FlashInv' OBVIOUS
<1>1. /\ UNCHANGED <<input, ranges>> /\ pc = "load" /\ ~IsFlash(ranges[i]) /\ Advance
      /\ mem' = Put(mem, [a \in Cells(read_range) |-> Data(a)])
    BY DEF WriteRamBatch
<1>2. Cells(read_range) \subseteq Planned BY <1>1, BatchPlanned
<1>3. DOMAIN mem' = Locs /\ Confined' /\ InputTyped' BY <1>1, <1>2, WriteConfined
<1>4. Loading' /\ Erasing' BY <1>1, AdvanceKeeps
<1> QED BY <1>3, <1>4 DEF FlashInv

\* The range to erase is in flash, so it is whole sectors.
LEMMA EraseCommandKeeps == FlashInv /\ EraseCommand => FlashInv'
<1> SUFFICES ASSUME FlashInv, EraseCommand PROVE FlashInv' OBVIOUS
<1>1. UNCHANGED <<input, mem>> /\ pc = "start" /\ settings.command = "erase"
    BY DEF EraseCommand
<1>2. CASE pc' = "failed" BY <1>1, <1>2, QuietKeeps
<1>3. CASE /\ EraseRefusal = "none" /\ pc' = "erase"
           /\ ranges' = <<ToErase(mem)>> /\ i' = 1 /\ base' = ToErase(mem).from
    <2>1. PlanUnchanged BY <1>1, InputKeepsPlan
    <2>2. mem = before BY <1>1 DEF FlashInv, Loading
    <2> DEFINE r == ToErase(before)
    <2>3. /\ PartitionRefusal = "none" /\ ~(r.to <= r.from)
          /\ get_memory_type(r.from) = "flash" /\ get_memory_type(r.to) = "flash"
        <3>1. PartitionRefusal = "none" BY <1>3 DEF EraseRefusal
        <3>2. EraseRefusal =
                CASE r.to <= r.from -> "empty_range"
                  [] ~(r.to <= r.from) /\ {get_memory_type(r.from), get_memory_type(r.to)} # {"flash"} ->
                        "not_flash"
                  [] OTHER -> "none"
            BY <2>2, <3>1 DEF EraseRefusal
        <3>3. ~(r.to <= r.from) /\ {get_memory_type(r.from), get_memory_type(r.to)} = {"flash"}
            BY <1>3, <3>2
        <3> QED BY <3>1, <3>3
    <2>4. r.from \in FlashStart..FlashEnd /\ r.to \in FlashStart..FlashEnd
        <3>1. \A a : get_memory_type(a) = "flash" => a \in FlashStart..FlashEnd
            BY DEF get_memory_type
        <3> QED BY <2>3, <3>1
    <2>5. r.from % Sector = 0 /\ r.to % Sector = 0 /\ r.from \in Int /\ r.to \in Int
        BY <2>3, <2>4, ErasesSectors, LayoutAssumption DEF FlashInv
    <2>6. Erasing' BY <1>1, <1>3, <2>1, <2>2, <2>3, <2>5 DEF Erasing, PlanUnchanged, input
    <2>7. Loading' BY <1>3 DEF Loading
    <2> QED BY <1>1, <2>6, <2>7, NothingWritten DEF FlashInv
<1> QED BY <1>2, <1>3 DEF EraseCommand, Fail

\* The sector that is erased next is all in the range.
LEMMA SectorPlanned ==
    ASSUME FlashInv, pc = "erase"
    PROVE  /\ base..(base + Sector - 1) \subseteq Planned
           /\ base + Sector \in Int /\ (base + Sector) % Sector = 0
           /\ ToErase(before).from <= base + Sector
<1> DEFINE r == ToErase(before)
<1>1. /\ settings.command = "erase" /\ PartitionRefusal = "none"
      /\ base \in Int /\ base % Sector = 0 /\ r.from <= base /\ base < r.to
      /\ r.from \in Int /\ r.to \in Int /\ r.to % Sector = 0
    BY DEF FlashInv, Erasing
<1>2. Sector \in Nat \ {0} BY SectorAssumption
<1>3. base + Sector <= r.to BY <1>1, RoomForSector
<1>4. Planned = Cells(r) BY <1>1 DEF Planned
<1>5. base..(base + Sector - 1) \subseteq Cells(r) BY <1>1, <1>2, <1>3 DEF Cells
<1>6. Sector % Sector = 0
    <2>1. 0 \in 0..(Sector - 1) BY <1>2
    <2>2. ((Sector * 1) + 0) % Sector = 0 BY <2>1, Remainder
    <2>3. (Sector * 1) + 0 = Sector BY <1>2
    <2> QED BY <2>2, <2>3
<1>7. (base + Sector) % Sector = 0 BY <1>1, <1>2, <1>6, SumOfMultiples
<1> QED BY <1>1, <1>2, <1>4, <1>5, <1>7

LEMMA EraseSectorKeeps == FlashInv /\ EraseSector => FlashInv'
<1> SUFFICES ASSUME FlashInv, EraseSector PROVE FlashInv' OBVIOUS
<1>1. /\ UNCHANGED <<input, ranges, i>> /\ pc = "erase"
      /\ mem' = Put(mem, [a \in base..(base + Sector - 1) |-> Erased])
      /\ base' = base + Sector
      /\ pc' = IF base' < ranges[i].to THEN "erase" ELSE "done"
    BY DEF EraseSector
<1>2. DOMAIN mem' = Locs /\ Confined' /\ InputTyped'
    <2>1. DOMAIN [a \in base..(base + Sector - 1) |-> Erased] \subseteq Planned
        BY <1>1, SectorPlanned
    <2> QED BY <1>1, <2>1, WriteConfined
<1>3. PlanUnchanged BY <1>1, InputKeepsPlan
<1>4. ranges[i] = ToErase(before) BY <1>1 DEF FlashInv, Erasing
<1>5. Erasing'
    BY <1>1, <1>3, <1>4, SectorPlanned DEF FlashInv, Erasing, PlanUnchanged, input
<1>6. Loading' BY <1>1 DEF Loading
<1> QED BY <1>2, <1>5, <1>6 DEF FlashInv

\* What an interrupted erase or write has reached is part of what it was to reach.
LEMMA FailureKeeps == FlashInv /\ ConnectionFails => FlashInv'
<1> SUFFICES ASSUME FlashInv, ConnectionFails PROVE FlashInv' OBVIOUS
<1>1. UNCHANGED input /\ pc' = "failed" BY DEF ConnectionFails, Fail
<1>2. Loading' /\ Erasing' BY <1>1 DEF Loading, Erasing
<1>3. ASSUME mem' = mem PROVE FlashInv' BY <1>1, <1>3, QuietKeeps
<1>4. ASSUME NEW values, DOMAIN values \subseteq Planned, mem' = Put(mem, values)
      PROVE  FlashInv'
    BY <1>1, <1>2, <1>4, WriteConfined DEF FlashInv
<1>5. CASE pc = "load" /\ IsFlash(ranges[i])
    <2>1. PICK k \in Cells(aligned_range) :
            mem' = IF Skip THEN mem ELSE Put(mem, [a \in aligned_range.from..(k - 1) |-> Erased])
        BY <1>5 DEF ConnectionFails
    <2>2. aligned_range.from..(k - 1) \subseteq Planned
        BY <1>5, PartOfBatch
    <2>3. DOMAIN [a \in aligned_range.from..(k - 1) |-> Erased] \subseteq Planned BY <2>2
    <2> QED BY <1>3, <1>4, <2>1, <2>3
<1>6. CASE pc = "load" /\ ~IsFlash(ranges[i])
    <2>1. PICK k \in Cells(read_range) : mem' = Put(mem, [a \in base..(k - 1) |-> Data(a)])
        BY <1>6 DEF ConnectionFails
    <2>2. base..(k - 1) \subseteq Planned
        BY <1>6, PartOfBatch
    <2>3. DOMAIN [a \in base..(k - 1) |-> Data(a)] \subseteq Planned BY <2>2
    <2> QED BY <1>4, <2>1, <2>3
<1>7. CASE pc = "erase"
    <2>1. PICK k \in {base, base + Sector} :
            mem' = Put(mem, [a \in base..(k - 1) |-> Erased])
        BY <1>7 DEF ConnectionFails
    <2>2. base \in Int /\ Sector \in Nat BY <1>7, SectorAssumption DEF FlashInv, Erasing
    <2>3. base..(k - 1) \subseteq base..(base + Sector - 1) BY <2>2
    <2>4. base..(k - 1) \subseteq Planned BY <1>7, <2>3, SectorPlanned
    <2>5. DOMAIN [a \in base..(k - 1) |-> Erased] \subseteq Planned BY <2>4
    <2> QED BY <1>4, <2>1, <2>5
<1>8. CASE pc = "program"
    <2>1. PICK k \in Cells(aligned_range) :
            mem' = Put(mem, [a \in aligned_range.from..(k - 1) |-> file_buf(a)])
        BY <1>8 DEF ConnectionFails
    <2>2. aligned_range.from..(k - 1) \subseteq Planned
        BY <1>8, PartOfBatch DEF FlashInv, Loading
    <2>3. DOMAIN [a \in aligned_range.from..(k - 1) |-> file_buf(a)] \subseteq Planned BY <2>2
    <2> QED BY <1>4, <2>1, <2>3
<1>9. CASE pc \notin {"load", "erase", "program"}
    BY <1>3, <1>9 DEF ConnectionFails
<1> QED BY <1>5, <1>6, <1>7, <1>8, <1>9

LEMMA StutterKeeps == FlashInv /\ UNCHANGED vars => FlashInv'
<1> SUFFICES ASSUME FlashInv, UNCHANGED vars PROVE FlashInv' OBVIOUS
<1>1. PlanUnchanged BY InputKeepsPlan DEF vars
<1>2. Loading' /\ Erasing'
    BY <1>1 DEF FlashInv, Loading, Erasing, PlanUnchanged, vars, input, Placed, IsFlash
<1> QED BY <1>2, NothingWritten DEF FlashInv, vars

LEMMA FlashStep == FlashInv /\ [Next]_vars => FlashInv'
<1> SUFFICES ASSUME FlashInv, [Next]_vars PROVE FlashInv' OBVIOUS
<1>1. CASE Verify \/ Execute
    <2>1. UNCHANGED <<input, mem>> /\ pc' \in {"execute", "done", "failed"}
        BY <1>1 DEF Verify, Execute, Fail
    <2> QED BY <2>1, QuietKeeps
<1>2. CASE VerifyCommand
    <2>1. UNCHANGED <<input, mem>> /\ pc' = "verify" BY <1>2 DEF VerifyCommand
    <2> QED BY <2>1, QuietKeeps
<1>3. CASE SaveCommand \/ SaveChunk \/ SaveVerify
    <2>1. UNCHANGED <<input, mem>> /\ pc' \in {"save", "compare", "done", "failed"}
        BY <1>3 DEF SaveCommand, SaveChunk, SaveVerify, AfterSaving, Fail
    <2> QED BY <2>1, QuietKeeps
<1> QED BY <1>1, <1>2, <1>3, LoadCommandKeeps, CheckKeeps, SkipKeeps, EraseBatchKeeps, ProgramKeeps,
           WriteRamKeeps, EraseCommandKeeps, EraseSectorKeeps, FailureKeeps, StutterKeeps
        DEF Next

\* The inductive invariant.
THEOREM FlashInvariant == Spec => []FlashInv
BY Initially, FlashStep, PTL DEF Spec

\* load, save, erase and verify change no cell outside the sectors and cells that are
\* needed for the file, or that were to be erased, wherever a command is interrupted.
THEOREM ConfinedTheorem == Spec => []Confined
BY FlashInvariant, PTL DEF FlashInv

-----------------------------------------------------------------------------
(* The ranges of a file, in order and coalesced.                           *)

\* A file as range_map keeps it, moved to its place.
FileRanges == [from : Int, to : Int]
Proper(f) ==
    /\ f \subseteq FileRanges /\ IsFiniteSet(f)
    /\ \A r \in f : r.from < r.to
    /\ \A r, s \in f : r = s \/ r.to <= s.from \/ s.to <= r.from
    /\ \E low \in Int : \A r \in f : low <= r.from

InOrder(s) == \A j, k \in DOMAIN s : j < k => s[j].from < s[k].from

LEMMA Orderable ==
    ASSUME NEW f, Proper(f)
    PROVE  \E s \in [1..Cardinality(f) -> f] : InOrder(s)
<1> DEFINE n == Cardinality(f)
           Can(k) == \A T \in SUBSET f : Cardinality(T) = k => \E s \in [1..k -> T] : InOrder(s)
           K == {k \in 0..n : Can(k)}
<1>1. n \in Nat /\ IsFiniteSet(f) BY FS_CardinalityType DEF Proper
<1>2. \A T \in SUBSET f : IsFiniteSet(T) BY <1>1, FS_Subset
<1>3. 0 \in K
    <2>1. ASSUME NEW T \in SUBSET f PROVE \E s \in [1..0 -> T] : InOrder(s)
        <3> DEFINE s == [j \in 1..0 |-> CHOOSE r \in T : TRUE]
        <3>1. s \in [1..0 -> T] /\ InOrder(s) BY DEF InOrder
        <3> QED BY <3>1
    <2>2. Can(0) BY <2>1
    <2>3. 0 \in 0..n BY <1>1
    <2> HIDE DEF Can, n
    <2> QED BY <2>2, <2>3
<1>4. ASSUME NEW k \in 0..(n - 1), k \in K PROVE k + 1 \in K
    <2>1. k \in Nat /\ k + 1 \in 0..n BY <1>1
    <2>2. ASSUME NEW T \in SUBSET f, Cardinality(T) = k + 1
          PROVE  \E s \in [1..(k + 1) -> T] : InOrder(s)
        <3>1. IsFiniteSet(T) /\ T # {} BY <1>2, <2>1, <2>2, FS_EmptySet
        <3>2. PICK low \in Int : \A r \in f : low <= r.from BY DEF Proper
        <3>3. \A r \in T : r.from \in Int /\ low <= r.from BY <3>2 DEF Proper, FileRanges
        <3> DEFINE starts == {r.from - low : r \in T}
        <3>4. starts \in SUBSET Nat /\ starts # {}
            <4>1. \A r \in T : r.from - low \in Nat BY <3>3
            <4> QED BY <3>1, <4>1
        <3>5. PICK x \in starts : \A y \in starts : x <= y BY <3>4, Least
        <3>6. PICK first \in T : x = first.from - low BY <3>5
        <3>7. ASSUME NEW r \in T, r # first PROVE first.from < r.from
            <4>1. first.from - low <= r.from - low BY <3>5, <3>6
            <4>2. first.from <= r.from BY <3>3, <4>1
            <4>3. first.from < first.to /\ r.from < r.to BY DEF Proper
            <4>4. first.to <= r.from \/ r.to <= first.from BY <3>7 DEF Proper
            <4>5. first.to \in Int /\ r.to \in Int BY DEF Proper, FileRanges
            <4> QED BY <3>3, <4>2, <4>3, <4>4, <4>5
        <3>8. Cardinality(T \ {first}) = k
            <4>1. Cardinality(T \ {first}) = Cardinality(T) - 1 BY <3>1, FS_RemoveElement
            <4> QED BY <2>1, <2>2, <4>1
        <3>9. PICK s \in [1..k -> T \ {first}] : InOrder(s) BY <1>4, <3>8
        <3> DEFINE longer == [j \in 1..(k + 1) |-> IF j = 1 THEN first ELSE s[j - 1]]
        <3>10. \A j \in 1..(k + 1) : j # 1 => j - 1 \in 1..k BY <2>1
        <3>11. longer \in [1..(k + 1) -> T] BY <3>9, <3>10
        <3>12. ASSUME NEW j \in 1..(k + 1), NEW l \in 1..(k + 1), j < l
               PROVE  longer[j].from < longer[l].from
            <4>1. l # 1 /\ l - 1 \in 1..k /\ longer[l] = s[l - 1] BY <2>1, <3>12
            <4>2. CASE j = 1 BY <3>7, <3>9, <4>1, <4>2
            <4>3. CASE j # 1
                <5>1. j - 1 \in 1..k /\ j - 1 < l - 1 /\ longer[j] = s[j - 1] BY <2>1, <3>12, <4>3
                <5> QED BY <3>9, <4>1, <5>1 DEF InOrder
            <4> QED BY <4>2, <4>3
        <3>13. DOMAIN longer = 1..(k + 1) OBVIOUS
        <3> HIDE DEF longer
        <3> QED BY <3>11, <3>12, <3>13 DEF InOrder
    <2>3. Can(k + 1) BY <2>2
    <2> HIDE DEF Can, n
    <2> QED BY <2>1, <2>3
<1>5. n \in K
    <2> HIDE DEF K
    <2>1. \A k \in 0..n : k \in K BY <1>1, <1>3, <1>4, UpTo
    <2> QED BY <1>1, <2>1
<1> QED BY <1>5

LEMMA SortedRanges ==
    ASSUME NEW f, Proper(f)
    PROVE  /\ Cardinality(f) \in Nat
           /\ Sorted(f) \in [1..Cardinality(f) -> f]
           /\ \A j, k \in 1..Cardinality(f) : j < k => Sorted(f)[j].to <= Sorted(f)[k].from
           /\ \A r \in f : \E k \in 1..Cardinality(f) : Sorted(f)[k] = r
<1> DEFINE n == Cardinality(f)
           s == Sorted(f)
<1>1. n \in Nat /\ IsFiniteSet(f) BY FS_CardinalityType DEF Proper
<1>2. s \in [1..n -> f] /\ InOrder(s)
    <2>1. \E t \in [1..n -> f] : \A j, k \in DOMAIN t : j < k => t[j].from < t[k].from
        BY Orderable DEF InOrder
    <2> HIDE DEF n
    <2> QED BY <2>1, Zenon DEF Sorted, InOrder, n
<1>3. DOMAIN s = 1..n BY <1>2
<1>4. \A j \in 1..n : s[j] \in f BY <1>2
<1>5. \A j, k \in 1..n : j < k => s[j].from < s[k].from BY <1>2, <1>3, Zenon DEF InOrder
<1> HIDE DEF s, n
<1>6. ASSUME NEW j \in 1..n, NEW k \in 1..n, j < k PROVE s[j].to <= s[k].from
    <2>1. s[j] \in f /\ s[k] \in f /\ s[j].from < s[k].from BY <1>4, <1>5, <1>6
    <2>2. /\ s[j].from \in Int /\ s[j].to \in Int /\ s[k].from \in Int /\ s[k].to \in Int
          /\ s[j].from < s[j].to /\ s[k].from < s[k].to
        BY <2>1 DEF Proper, FileRanges
    <2>3. s[j] # s[k] BY <2>1, <2>2
    <2>4. s[j].to <= s[k].from \/ s[k].to <= s[j].from BY <2>1, <2>3 DEF Proper
    <2> QED BY <2>1, <2>2, <2>4
<1>7. ASSUME NEW r \in f PROVE \E k \in 1..n : s[k] = r
    <2>1. \A j \in 1..n : s[j].from \in Int BY <1>4 DEF Proper, FileRanges
    <2>2. \A j, k \in 1..n : s[j] = s[k] => j = k BY <1>1, <1>5, <2>1
    <2>3. s \in Injection(1..n, f) BY <1>2, <1>3, <2>2 DEF Injection, IsInjective
    <2>4. IsFiniteSet(1..n) /\ Cardinality(1..n) = n BY <1>1, FS_Interval
    <2>5. s \in Surjection(1..n, f) BY <1>1, <2>3, <2>4, FS_Injection DEF n
    <2> QED BY <2>5 DEF Surjection
<1> QED BY <1>1, <1>2, <1>6, <1>7 DEF s, n

\* What the loop makes of the ranges so far and the next.
Extended(done, next) ==
    IF done # <<>> /\ Joins(Last(done), next)
    THEN Front(done) \o <<[Last(done) EXCEPT !.to = next.to]>>
    ELSE Append(done, next)

LEMMA CoalescedIsFold ==
    ASSUME NEW f
    PROVE  CoalescedRanges(f) =
             (CHOOSE iter : iter = [s \in SUBSET (DOMAIN Sorted(f)) |->
                IF s = {} THEN <<>>
                ELSE Extended(iter[s \ {Max(s)}], Sorted(f)[Max(s)])])[DOMAIN Sorted(f)]
BY Zenon DEF CoalescedRanges, FoldLeft, MapThenFoldSet, Extended

LEMMA ExtendedShape ==
    ASSUME NEW d \in Seq(FileRanges), NEW r \in FileRanges
    PROVE  /\ Extended(d, r) \in Seq(FileRanges)
           /\ d # <<>> /\ Joins(d[Len(d)], r) =>
                 /\ Len(Extended(d, r)) = Len(d)
                 /\ \A j \in 1..(Len(d) - 1) : Extended(d, r)[j] = d[j]
                 /\ Extended(d, r)[Len(d)] = [from |-> d[Len(d)].from, to |-> r.to]
           /\ d = <<>> \/ ~Joins(d[Len(d)], r) =>
                 /\ Len(Extended(d, r)) = Len(d) + 1
                 /\ \A j \in 1..Len(d) : Extended(d, r)[j] = d[j]
                 /\ Extended(d, r)[Len(d) + 1] = r
<1>1. CASE d # <<>> /\ Joins(d[Len(d)], r)
    <2> DEFINE l == Len(d)
               new == [from |-> d[l].from, to |-> r.to]
               front == SubSeq(d, 1, l - 1)
    <2>1. l \in Nat \ {0} BY <1>1, EmptySeq
    <2>2. \A j \in 1..l : d[j] \in FileRanges BY ElementOfSeq
    <2>3. d[l] \in FileRanges /\ r.to \in Int BY <2>1, <2>2 DEF FileRanges
    <2>4. [Last(d) EXCEPT !.to = r.to] = new /\ new \in FileRanges
        BY <2>3 DEF Last, FileRanges
    <2>5. Extended(d, r) = front \o <<new>> BY <1>1, <2>4 DEF Extended, Last, Front
    <2>6. /\ front \in Seq(FileRanges) /\ Len(front) = l - 1
          /\ \A j \in 1..(l - 1) : front[j] = d[j]
        <3> HIDE DEF l
        <3>1. \A j \in 1..(l - 1) : d[j] \in FileRanges BY <2>1, <2>2
        <3>2. 1 \in Int /\ l - 1 \in Int BY <2>1
        <3>3. /\ front \in Seq(FileRanges)
              /\ Len(front) = IF 1 <= l - 1 THEN (l - 1) - 1 + 1 ELSE 0
              /\ \A j \in 1..((l - 1) - 1 + 1) : front[j] = d[1 + j - 1]
            BY <3>1, <3>2, SubSeqProperties
        <3>4. (l - 1) - 1 + 1 = l - 1 /\ (1 <= l - 1 \/ l - 1 = 0) BY <2>1
        <3>5. \A j \in 1..(l - 1) : 1 + j - 1 = j OBVIOUS
        <3> HIDE DEF front
        <3> QED BY <3>3, <3>4, <3>5
    <2>7. <<new>> \in Seq(FileRanges) /\ Len(<<new>>) = 1 /\ <<new>>[1] = new BY <2>4
    <2> DEFINE last == <<new>>
    <2>8. /\ front \o last \in Seq(FileRanges)
          /\ Len(front \o last) = Len(front) + Len(last)
          /\ \A j \in 1..(Len(front) + Len(last)) : (front \o last)[j] =
                IF j <= Len(front) THEN front[j] ELSE last[j - Len(front)]
        <3> HIDE DEF front, last
        <3> QED BY <2>6, <2>7, ConcatProperties DEF last
    <2> HIDE DEF front, l, new
    <2>9. Len(front \o last) = l BY <2>1, <2>6, <2>7, <2>8
    <2>10. \A j \in 1..(l - 1) : (front \o last)[j] = d[j] BY <2>1, <2>6, <2>7, <2>8
    <2>11. (front \o last)[l] = new BY <2>1, <2>6, <2>7, <2>8
    <2> QED BY <1>1, <2>5, <2>8, <2>9, <2>10, <2>11 DEF l, new
<1>2. CASE d = <<>> \/ ~Joins(d[Len(d)], r)
    <2>1. Extended(d, r) = Append(d, r) BY <1>2 DEF Extended, Last
    <2> QED BY <1>2, <2>1, AppendProperties
<1> QED BY <1>1, <1>2

\* Two ranges whose sectors can be erased one after the other.
Apart(r, s) == r.to <= s.from /\ (IsFlash(r) => RoundUp(r.to) <= RoundDown(s.from))

\* The ranges d stand for the first k ranges of s.
StandsFor(d, s, k) ==
    /\ d \in Seq(FileRanges)
    /\ IF k = 0 THEN d = <<>> ELSE d # <<>> /\ d[Len(d)].to = s[k].to
    /\ \A j \in 1..Len(d) : d[j].from < d[j].to
    /\ \A j, l \in 1..Len(d) : j < l => Apart(d[j], d[l])
    /\ \A p \in 1..k : \E j \in 1..Len(d) : Cells(s[p]) \subseteq Cells(d[j])
    /\ \A j \in 1..Len(d) : ~IsFlash(d[j]) =>
          \A a \in Cells(d[j]) : \E p \in 1..k : a \in Cells(s[p])
    /\ \A j \in 1..Len(d) : \E p \in 1..k : d[j].from = s[p].from

\* Numbers in different sectors are apart.
LEMMA NextSector ==
    ASSUME NEW a \in Int, NEW b \in Int, a <= b, a \div Sector # b \div Sector
    PROVE  RoundUp(a) <= RoundDown(b)
<1>1. Sector \in Nat \ {0} BY SectorAssumption
<1>2. a \div Sector \in Int /\ b \div Sector \in Int BY Division
<1>3. RoundDown(a) <= RoundDown(b) BY RoundDownMonotone
<1>4. /\ RoundDown(a) = Sector * (a \div Sector) /\ RoundDown(b) = Sector * (b \div Sector)
      /\ RoundDown(a) \in Int /\ RoundDown(b) \in Int /\ a < RoundDown(a) + Sector
      /\ RoundDown(a) % Sector = 0 /\ RoundDown(b) % Sector = 0
    BY RoundingDown
<1>5. ASSUME b \div Sector < a \div Sector PROVE FALSE
    <2>1. Sector * (b \div Sector) + Sector <= Sector * (a \div Sector) BY <1>2, <1>5, Multiples
    <2>2. RoundDown(b) + Sector <= RoundDown(a) BY <1>4, <2>1
    <2> QED BY <1>1, <1>3, <1>4, <2>2
<1>6. a \div Sector < b \div Sector BY <1>2, <1>5
<1>7. Sector * (a \div Sector) + Sector <= Sector * (b \div Sector) BY <1>2, <1>6, Multiples
<1>8. RoundDown(a) + Sector <= RoundDown(b) BY <1>4, <1>7
<1>9. a + Sector - 1 \in Int /\ a + Sector - 1 <= RoundDown(a) + Sector + Sector - 1
    BY <1>1, <1>4
<1>10. a <= RoundDown(b) BY <1>1, <1>4, <1>8
<1>11. RoundUp(a) <= RoundUp(RoundDown(b)) BY <1>4, <1>10, RoundUpMonotone
<1> QED BY <1>4, <1>11, RoundedAlready

LEMMA NotJoined ==
    ASSUME NEW r \in FileRanges, NEW s \in FileRanges, r.to <= s.from, ~Joins(r, s)
    PROVE  Apart(r, s)
<1>1. r.to \in Int /\ s.from \in Int BY DEF FileRanges
<1>2. CASE IsFlash(r)
    <2>1. r.to \div Sector # s.from \div Sector BY <1>2 DEF Joins, IsFlash
    <2> QED BY <1>1, <2>1, NextSector DEF Apart
<1>3. CASE ~IsFlash(r) BY <1>3 DEF Apart
<1> QED BY <1>2, <1>3

LEMMA ApartFromLater ==
    ASSUME NEW q \in FileRanges, NEW r \in FileRanges, NEW s \in FileRanges,
           Apart(q, r), r.from <= s.from
    PROVE  Apart(q, s)
<1>1. /\ q.to \in Int /\ r.from \in Int /\ s.from \in Int BY DEF FileRanges
<1>2. RoundDown(r.from) <= RoundDown(s.from) BY <1>1, RoundDownMonotone
<1>3. RoundUp(q.to) \in Int /\ RoundDown(r.from) \in Int /\ RoundDown(s.from) \in Int
    BY <1>1, RoundingDown, RoundingUp
<1> QED BY <1>1, <1>2, <1>3 DEF Apart

LEMMA ExtendedStandsFor ==
    ASSUME NEW n \in Nat, NEW s \in [1..n -> FileRanges],
           \A j \in 1..n : s[j].from < s[j].to,
           \A j, l \in 1..n : j < l => s[j].to <= s[l].from,
           NEW k \in 0..(n - 1), NEW d, StandsFor(d, s, k)
    PROVE  StandsFor(Extended(d, s[k + 1]), s, k + 1)
<1> DEFINE r == s[k + 1]
           e == Extended(d, r)
           l == Len(d)
<1>1. k \in Nat /\ k + 1 \in 1..n /\ r \in FileRanges /\ r.from < r.to
      /\ r.from \in Int /\ r.to \in Int
    BY DEF FileRanges
<1>2. d \in Seq(FileRanges) /\ l \in Nat BY DEF StandsFor
<1>3. \A j \in 1..l : d[j] \in FileRanges BY <1>2, ElementOfSeq
<1>4. \A j \in 1..l : d[j].from \in Int /\ d[j].to \in Int BY <1>3 DEF FileRanges
<1>5. d # <<>> => l \in 1..l /\ l \in Nat \ {0} BY <1>2, EmptySeq
<1>6. d # <<>> => k \in 1..n /\ d[l].to = s[k].to BY <1>1 DEF StandsFor
<1>7. d # <<>> => d[l].from < d[l].to /\ d[l].to <= r.from
    BY <1>1, <1>5, <1>6 DEF StandsFor
<1>8. /\ \A j \in 1..l : d[j].from < d[j].to
      /\ \A j, m \in 1..l : j < m => Apart(d[j], d[m])
      /\ \A p \in 1..k : \E j \in 1..l : Cells(s[p]) \subseteq Cells(d[j])
      /\ \A j \in 1..l : ~IsFlash(d[j]) =>
            \A a \in Cells(d[j]) : \E p \in 1..k : a \in Cells(s[p])
      /\ \A j \in 1..l : \E p \in 1..k : d[j].from = s[p].from
    BY DEF StandsFor
<1>9. k \in 0..n /\ 1..(k + 1) = (1..k) \cup {k + 1} BY <1>1
<1>10. CASE d # <<>> /\ Joins(d[l], r)
    <2> DEFINE new == [from |-> d[l].from, to |-> r.to]
    <2>1. /\ e \in Seq(FileRanges) /\ Len(e) = l /\ e[l] = new
          /\ \A j \in 1..(l - 1) : e[j] = d[j]
        BY <1>1, <1>2, <1>10, ExtendedShape
    <2>2. l \in Nat \ {0} /\ l \in 1..l /\ d[l].from < d[l].to /\ d[l].to <= r.from
          /\ d[l].from \in Int /\ d[l].to \in Int
        BY <1>4, <1>5, <1>7, <1>10
    <2>3. \A j \in 1..l : j # l => j \in 1..(l - 1) /\ e[j] = d[j]
        <3>1. \A m \in Nat : \A j \in 1..m : j # m => j \in 1..(m - 1) OBVIOUS
        <3> QED BY <2>1, <2>2, <3>1
    <2>4. e # <<>> BY <2>1, <2>2, EmptySeq
    <2>5. new.from = d[l].from /\ new.to = r.to OBVIOUS
    <2> HIDE DEF e, r, l, new
    <2>6. ASSUME NEW j \in 1..l PROVE e[j].from < e[j].to
        <3>1. CASE j = l
            <4>1. new.from < new.to BY ONLY <1>1, <2>2, <2>5
            <4> QED BY <2>1, <3>1, <4>1
        <3>2. CASE j # l BY <1>8, <2>3, <3>2
        <3> QED BY <3>1, <3>2
    <2>7. ASSUME NEW j \in 1..l, NEW m \in 1..l, j < m PROVE Apart(e[j], e[m])
        <3>1. j # l /\ e[j] = d[j] /\ Apart(d[j], d[m])
            <4>1. j # l BY ONLY <2>2, <2>7
            <4>2. e[j] = d[j] BY ONLY <2>3, <4>1, Zenon
            <4>3. Apart(d[j], d[m]) BY ONLY <1>8, <2>7, Zenon
            <4> QED BY ONLY <4>1, <4>2, <4>3, Zenon
        <3>2. e[m].from = d[m].from BY <2>1, <2>3, <2>5
        <3> QED BY <3>1, <3>2 DEF Apart
    <2>8. /\ Cells(d[l]) \subseteq Cells(new) /\ Cells(r) \subseteq Cells(new)
          /\ d[l].to = r.from => Cells(new) \subseteq Cells(d[l]) \cup Cells(r)
        <3>1. \A x, y, z, w \in Int : x <= y /\ y <= z /\ z <= w =>
                 /\ x..(y - 1) \subseteq x..(w - 1) /\ z..(w - 1) \subseteq x..(w - 1)
                 /\ y = z => x..(w - 1) \subseteq (x..(y - 1)) \cup (z..(w - 1))
            OBVIOUS
        <3>2. /\ Cells(d[l]) = d[l].from..(d[l].to - 1) /\ Cells(r) = r.from..(r.to - 1)
              /\ Cells(new) = d[l].from..(r.to - 1)
            BY <2>5 DEF Cells
        <3>3. /\ d[l].from \in Int /\ d[l].to \in Int /\ r.from \in Int /\ r.to \in Int
              /\ d[l].from <= d[l].to /\ d[l].to <= r.from /\ r.from <= r.to
            BY ONLY <1>1, <2>2
        <3> QED BY ONLY <3>1, <3>2, <3>3
    <2>9. ASSUME NEW p \in 1..(k + 1) PROVE \E j \in 1..l : Cells(s[p]) \subseteq Cells(e[j])
        <3>1. CASE p = k + 1 BY <2>1, <2>2, <2>8, <3>1 DEF r
        <3>2. CASE p \in 1..k
            <4>1. PICK j \in 1..l : Cells(s[p]) \subseteq Cells(d[j]) BY <1>8, <3>2
            <4>2. Cells(d[j]) \subseteq Cells(e[j]) BY <2>1, <2>3, <2>8
            <4> QED BY <4>1, <4>2
        <3> QED BY <1>9, <3>1, <3>2
    <2>10. ASSUME NEW j \in 1..l, ~IsFlash(e[j]), NEW a \in Cells(e[j])
           PROVE  \E p \in 1..(k + 1) : a \in Cells(s[p])
        <3>1. CASE j # l BY <1>8, <1>9, <2>3, <2>10, <3>1
        <3>2. CASE j = l
            <4>1. ~IsFlash(d[l]) BY <2>1, <2>5, <2>10, <3>2 DEF IsFlash
            <4>2. d[l].to \div 1 = r.from \div 1 BY <1>10, <4>1 DEF Joins, IsFlash
            <4>3. d[l].to = r.from BY <1>1, <2>2, <4>2
            <4>4. a \in Cells(d[l]) \/ a \in Cells(r) BY <2>1, <2>8, <2>10, <3>2, <4>3
            <4>5. CASE a \in Cells(d[l]) BY <1>8, <1>9, <2>2, <4>1, <4>5
            <4>6. CASE a \in Cells(r) BY <1>9, <4>6 DEF r
            <4> QED BY <4>4, <4>5, <4>6
        <3> QED BY <3>1, <3>2
    <2>11. e[Len(e)].to = s[k + 1].to BY <2>1, <2>5 DEF r
    <2>12. k + 1 # 0 BY <1>1
    <2>14. ASSUME NEW j \in 1..l PROVE \E p \in 1..(k + 1) : e[j].from = s[p].from
        <3>1. e[j].from = d[j].from
            <4>1. CASE j = l BY ONLY <2>1, <2>5, <4>1, Zenon
            <4>2. CASE j # l BY ONLY <2>3, <4>2, Zenon
            <4> QED BY <4>1, <4>2
        <3>2. PICK p \in 1..k : d[j].from = s[p].from BY ONLY <1>8, Zenon
        <3> QED BY ONLY <1>9, <3>1, <3>2
    <2>13. StandsFor(e, s, k + 1)
        BY <2>1, <2>4, <2>6, <2>7, <2>9, <2>10, <2>11, <2>12, <2>14 DEF StandsFor
    <2> QED BY <2>13 DEF e, r
<1>11. CASE d = <<>> \/ ~Joins(d[l], r)
    <2>1. /\ e \in Seq(FileRanges) /\ Len(e) = l + 1 /\ e[l + 1] = r
          /\ \A j \in 1..l : e[j] = d[j]
        BY <1>1, <1>2, <1>11, ExtendedShape
    <2>2. 1..(l + 1) = (1..l) \cup {l + 1} BY <1>2
    <2>3. d # <<>> => Apart(d[l], r)
        BY <1>1, <1>3, <1>5, <1>7, <1>11, NotJoined
    <2>4. l \in Nat /\ (l > 0 => d # <<>>)
        <3>1. d = <<>> => l = 0 BY EmptySeq
        <3> QED BY <1>2, <3>1
    <2> HIDE DEF e, r, l
    <2>5. ASSUME NEW j \in 1..l PROVE Apart(d[j], r)
        <3>1. d # <<>> /\ l \in 1..l BY <2>4
        <3>2. CASE j = l BY <2>3, <3>1, <3>2
        <3>3. CASE j # l
            <4>1. j < l BY <2>4, <3>3
            <4>2. Apart(d[j], d[l]) BY <1>8, <3>1, <4>1
            <4>3. d[l].from <= r.from BY <1>1, <1>4, <1>7, <3>1
            <4> QED BY <1>1, <1>3, <3>1, <4>2, <4>3, ApartFromLater
        <3> QED BY <3>2, <3>3
    <2>6. e # <<>> BY <2>1, <2>4, EmptySeq
    <2>7. ASSUME NEW j \in 1..(l + 1) PROVE e[j].from < e[j].to
        BY <1>1, <1>8, <2>1, <2>2
    <2>8. ASSUME NEW j \in 1..(l + 1), NEW m \in 1..(l + 1), j < m PROVE Apart(e[j], e[m])
        <3>1. j \in 1..l BY <2>4, <2>8
        <3>2. CASE m \in 1..l BY <1>8, <2>1, <2>8, <3>1, <3>2
        <3>3. CASE m = l + 1 BY <2>1, <2>5, <3>1, <3>3
        <3> QED BY <2>2, <3>2, <3>3
    <2>9. ASSUME NEW p \in 1..(k + 1) PROVE \E j \in 1..(l + 1) : Cells(s[p]) \subseteq Cells(e[j])
        <3>1. CASE p = k + 1 BY <2>1, <2>2, <3>1 DEF r
        <3>2. CASE p \in 1..k
            <4>1. PICK j \in 1..l : Cells(s[p]) \subseteq Cells(d[j]) BY <1>8, <3>2
            <4> QED BY <2>1, <2>2, <4>1
        <3> QED BY <1>9, <3>1, <3>2
    <2>10. ASSUME NEW j \in 1..(l + 1), ~IsFlash(e[j]), NEW a \in Cells(e[j])
           PROVE  \E p \in 1..(k + 1) : a \in Cells(s[p])
        <3>1. CASE j \in 1..l BY <1>8, <1>9, <2>1, <2>10, <3>1
        <3>2. CASE j = l + 1 BY <1>9, <2>1, <2>10, <3>2 DEF r
        <3> QED BY <2>2, <3>1, <3>2
    <2>11. e[Len(e)].to = s[k + 1].to BY <2>1 DEF r
    <2>12. k + 1 # 0 BY <1>1
    <2>14. ASSUME NEW j \in 1..(l + 1) PROVE \E p \in 1..(k + 1) : e[j].from = s[p].from
        <3>1. CASE j \in 1..l
            <4>1. PICK p \in 1..k : d[j].from = s[p].from BY ONLY <1>8, <3>1, Zenon
            <4> QED BY ONLY <1>9, <2>1, <3>1, <4>1
        <3>2. CASE j = l + 1 BY ONLY <1>9, <2>1, <3>2 DEF r
        <3> QED BY ONLY <2>2, <3>1, <3>2
    <2>13. StandsFor(e, s, k + 1)
        BY <2>1, <2>6, <2>7, <2>8, <2>9, <2>10, <2>11, <2>12, <2>14 DEF StandsFor
    <2> QED BY <2>13 DEF e, r
<1> QED BY <1>10, <1>11

\* The coalesced ranges of a file stand for all of its ranges.
THEOREM Coalesced ==
    ASSUME NEW f, Proper(f)
    PROVE  /\ CoalescedRanges(f) \in Seq(FileRanges)
           /\ \A j \in DOMAIN CoalescedRanges(f) :
                 CoalescedRanges(f)[j].from < CoalescedRanges(f)[j].to
           /\ \A j, l \in DOMAIN CoalescedRanges(f) :
                 j < l => Apart(CoalescedRanges(f)[j], CoalescedRanges(f)[l])
           /\ \A r \in f : \E j \in DOMAIN CoalescedRanges(f) :
                 Cells(r) \subseteq Cells(CoalescedRanges(f)[j])
           /\ \A j \in DOMAIN CoalescedRanges(f) : ~IsFlash(CoalescedRanges(f)[j]) =>
                 \A a \in Cells(CoalescedRanges(f)[j]) : \E r \in f : a \in Cells(r)
           /\ \A j \in DOMAIN CoalescedRanges(f) : \E r \in f : CoalescedRanges(f)[j].from = r.from
<1> DEFINE n == Cardinality(f)
           s == Sorted(f)
           V == Seq(FileRanges)
           op == [x \in (1..n) \X V |-> Extended(x[2], s[x[1]])]
           Folds(it) == it = [S \in SUBSET (1..n) |->
                               IF S = {} THEN <<>> ELSE Extended(it[S \ {Max(S)}], s[Max(S)])]
           iter == CHOOSE it : Folds(it)
           K == {k \in 0..n : StandsFor(iter[1..k], s, k)}
<1>1. /\ n \in Nat /\ s \in [1..n -> f]
      /\ \A j, k \in 1..n : j < k => s[j].to <= s[k].from
      /\ \A r \in f : \E k \in 1..n : s[k] = r
    BY SortedRanges
<1>2. f \subseteq FileRanges /\ \A r \in f : r.from < r.to BY DEF Proper
<1>3. s \in [1..n -> FileRanges] /\ \A j \in 1..n : s[j].from < s[j].to /\ s[j] \in FileRanges
    BY <1>1, <1>2
<1>4. DOMAIN s = 1..n BY <1>1
<1>5. CoalescedRanges(f) = iter[1..n]
    <2>1. CoalescedRanges(f) =
             (CHOOSE it : it = [S \in SUBSET (DOMAIN s) |->
                IF S = {} THEN <<>>
                ELSE Extended(it[S \ {Max(S)}], s[Max(S)])])[DOMAIN s]
        BY CoalescedIsFold
    <2> HIDE DEF n, s
    <2> QED BY <1>4, <2>1, Zenon
<1> HIDE DEF n, s, V
<1>6. <<>> \in V BY EmptySeq DEF V
<1>7. \A k \in 1..n : \A v \in V : op[<<k, v>>] = Extended(v, s[k]) /\ Extended(v, s[k]) \in V
    BY <1>3, ExtendedShape DEF V
<1> HIDE DEF op
<1>8. \E it : Folds(it)
    <2>1. PICK it \in [SUBSET (1..n) -> V] : IteratesOver(it, n, <<>>, op)
        <3>1. op \in [(1..n) \X V -> V] BY <1>7 DEF op
        <3>2. n \in Nat BY <1>1
        <3> QED BY <1>6, <3>1, <3>2, FoldExists
    <2>2. ASSUME NEW S \in SUBSET (1..n), S # {}
          PROVE  op[<<Max(S), it[S \ {Max(S)}]>>] = Extended(it[S \ {Max(S)}], s[Max(S)])
        <3>1. Max(S) \in 1..n
            <4>1. 1 \in Int /\ n \in Int BY <1>1
            <4>2. Max(S) \in S BY <2>2, <4>1, Largest
            <4> QED BY <4>2
        <3>2. S \ {Max(S)} \in SUBSET (1..n) OBVIOUS
        <3>3. it[S \ {Max(S)}] \in V BY <2>1, <3>2
        <3> QED BY <1>7, <3>1, <3>3
    <2>3. Folds(it) BY <2>1, <2>2 DEF IteratesOver
    <2> QED BY <2>3
<1>9. Folds(iter) BY <1>8
<1>10. \A S \in SUBSET (1..n) :
          iter[S] = IF S = {} THEN <<>> ELSE Extended(iter[S \ {Max(S)}], s[Max(S)])
    <2> HIDE DEF iter
    <2> QED BY <1>9
<1> HIDE DEF iter
<1>11. 0 \in K
    <2>1. 1..0 = {} /\ 1..0 \in SUBSET (1..n) OBVIOUS
    <2>2. iter[1..0] = <<>> BY <1>10, <2>1
    <2>3. StandsFor(<<>>, s, 0) BY EmptySeq DEF StandsFor
    <2> QED BY <1>1, <2>2, <2>3
<1>12. ASSUME NEW k \in 0..(n - 1), k \in K PROVE k + 1 \in K
    <2>1. iter[1..(k + 1)] = Extended(iter[1..k], s[k + 1])
        <3>1. /\ 1..(k + 1) \in SUBSET (1..n) /\ 1..(k + 1) # {}
              /\ Max(1..(k + 1)) = k + 1 /\ (1..(k + 1)) \ {k + 1} = 1..k
            BY <1>1, Prefix
        <3> QED BY <1>10, <3>1
    <2>2. StandsFor(iter[1..k], s, k) BY <1>12
    <2>3. StandsFor(Extended(iter[1..k], s[k + 1]), s, k + 1)
        BY <1>1, <1>3, <2>2, ExtendedStandsFor
    <2> QED BY <1>1, <2>1, <2>3
<1>13. StandsFor(iter[1..n], s, n)
    <2> HIDE DEF K
    <2>1. \A k \in 0..n : k \in K BY <1>1, <1>11, <1>12, UpTo
    <2>2. n \in K BY <1>1, <2>1
    <2> QED BY <2>2 DEF K
<1> DEFINE R == CoalescedRanges(f)
<1>14. StandsFor(R, s, n) BY <1>5, <1>13
<1>15. R \in Seq(FileRanges) /\ DOMAIN R = 1..Len(R) BY <1>14, LenProperties DEF StandsFor
<1>16. \A k \in 1..n : s[k] \in f BY <1>1
<1> HIDE DEF R
<1>17. \A r \in f : \E j \in DOMAIN R : Cells(r) \subseteq Cells(R[j])
    <2>1. \A p \in 1..n : \E j \in 1..Len(R) : Cells(s[p]) \subseteq Cells(R[j])
        BY ONLY <1>14, Zenon DEF StandsFor
    <2> QED BY <1>1, <1>15, <2>1
<1>18. \A j \in DOMAIN R : ~IsFlash(R[j]) => \A a \in Cells(R[j]) : \E r \in f : a \in Cells(r)
    <2>1. \A j \in 1..Len(R) : ~IsFlash(R[j]) =>
              \A a \in Cells(R[j]) : \E p \in 1..n : a \in Cells(s[p])
        BY ONLY <1>14, Zenon DEF StandsFor
    <2> QED BY ONLY <1>15, <1>16, <2>1
<1>19. /\ \A j \in DOMAIN R : R[j].from < R[j].to
       /\ \A j, l \in DOMAIN R : j < l => Apart(R[j], R[l])
    BY ONLY <1>14, <1>15, Zenon DEF StandsFor
<1>20. \A j \in DOMAIN R : \E r \in f : R[j].from = r.from
    <2>1. \A j \in 1..Len(R) : \E p \in 1..n : R[j].from = s[p].from
        BY ONLY <1>14, Zenon DEF StandsFor
    <2> QED BY ONLY <1>15, <1>16, <2>1
<1> QED BY <1>15, <1>17, <1>18, <1>19, <1>20 DEF R

-----------------------------------------------------------------------------
(* What is known of the input.                                             *)

InputInv ==
    /\ InputTyped
    /\ Proper(file) /\ file \subseteq Ranges
    /\ target \in Int
    /\ \/ target < 0 \/ target = PARTITION_TABLE_NO_PARTITION_INDEX
       \/ partitions # no_partition /\ target + 1 \in DOMAIN partitions
    /\ settings.update \/ no_overwrite => settings.command = "load"
    /\ binary_end \in {0} \cup FlashStart..(FlashStart + FlashSize)
    /\ block_end \in {0} \cup FlashStart..(FlashStart + FlashSize)

LEMMA InputInitially == Init => InputInv
<1> SUFFICES ASSUME Init PROVE InputInv OBVIOUS
<1>1. PICK in \in Inputs :
        /\ settings = in.settings /\ file = in.file
        /\ table = in.table /\ target = in.target
        /\ partitions = PartitionsOf(table)
    BY DEF Init
<1>2. InputTyped BY Initially DEF FlashInv
<1>3. Proper(file) /\ file \subseteq Ranges
    <2>1. /\ file \subseteq Ranges /\ IsFiniteSet(file) /\ \A r \in file : r.from < r.to
          /\ \A r, s \in file : r = s \/ r.to <= s.from \/ s.to <= r.from
        BY <1>1, InputAssumption
    <2>2. Ranges \subseteq FileRanges /\ \A r \in Ranges : 0 <= r.from
        BY DEF Ranges, FileRanges
    <2>3. \E low \in Int : \A r \in file : low <= r.from BY <2>1, <2>2
    <2> QED BY <2>1, <2>2, <2>3 DEF Proper
<1>4. /\ target \in Int
      /\ \/ target < 0 \/ target = PARTITION_TABLE_NO_PARTITION_INDEX
         \/ partitions # no_partition /\ target + 1 \in DOMAIN partitions
    BY <1>1, InputAssumption
<1>5. settings.update \/ no_overwrite => settings.command = "load"
    BY <1>1, InputAssumption DEF no_overwrite
<1>6. binary_end \in {0} \cup FlashStart..(FlashStart + FlashSize)
    <2>1. PICK f, needed : \E d \in Devices(f, needed, settings) : binary_end = d.end
        BY DEF Init
    <2>2. PICK d \in Devices(f, needed, settings) : binary_end = d.end BY <2>1
    <2>3. d.end = 0 \/ \E n \in ProgramLengths : d.end = FlashStart + n
        <3>1. \A x \in Unknown(f, needed) \cup Twice(settings) : x.end = 0 BY DEF Unknown, Twice
        <3>2. \A x \in Loaded(f, needed, settings) : x.end = 0
            <4> DEFINE held(x) == Holding(f, needed, 0, Locs \ x)
            <4>1. \A x \in Loaded(f, needed, settings) : \E y : x = [mem |-> held(y), end |-> 0]
                BY Zenon DEF Loaded
            <4> HIDE DEF held
            <4> QED BY <4>1
        <3>3. \A x \in Known(f, needed, settings) :
                 \E n \in ProgramLengths : x.end = FlashStart + n
            BY DEF Known
        <3> QED BY <3>1, <3>2, <3>3 DEF Devices
    <2>4. ProgramLengths \subseteq 0..FlashSize /\ FlashStart \in Nat /\ FlashSize \in Nat
        BY DeviceAssumption, LayoutAssumption
    <2> QED BY <2>2, <2>3, <2>4
<1>7. block_end \in {0} \cup FlashStart..(FlashStart + FlashSize)
    <2>1. block_end = 0 \/ \E n \in ProgramLengths : block_end = FlashStart + n BY DEF Init
    <2>2. ProgramLengths \subseteq 0..FlashSize /\ FlashStart \in Nat /\ FlashSize \in Nat
        BY DeviceAssumption, LayoutAssumption
    <2> QED BY <2>1, <2>2
<1> QED BY <1>2, <1>3, <1>4, <1>5, <1>6, <1>7 DEF InputInv

LEMMA InputKept == ASSUME InputInv, UNCHANGED input PROVE InputInv'
BY DEF InputInv, InputTyped, input, Proper, no_overwrite

LEMMA NextKeepsInput == Next => UNCHANGED input
BY DEF Next, LoadCommand, VerifyCommand, EraseCommand, Check, SkipBatch, EraseBatch, ProgramBatch,
       WriteRamBatch, Verify, Execute, EraseSector, SaveCommand, SaveChunk, SaveVerify,
       ConnectionFails

LEMMA PartitionTyped ==
    ASSUME InputInv, PartitionRefusal = "none",
           settings.partition >= 0 \/ (AsksDevice /\ target >= 0)
    PROVE  Partition.start \in Nat /\ Partition.end \in Nat
<1> DEFINE Entry == [start : Nat, end : Nat, families : SUBSET STRING]
<1>1. settings.partition \in Nat \cup {-1} /\ target \in Int
    BY DEF InputInv, InputTyped, Settings
<1>2. ASSUME NEW n \in Int, partitions # no_partition, n \in DOMAIN partitions
      PROVE  partitions[n].start \in Nat /\ partitions[n].end \in Nat
    <2>1. partitions \in Seq(Entry) BY <1>2 DEF InputInv, InputTyped
    <2>2. n \in 1..Len(partitions) BY <1>2, <2>1, LenProperties
    <2>3. partitions[n] \in Entry BY <2>1, <2>2, ElementOfSeq
    <2> QED BY <2>3
<1>3. CASE settings.partition >= 0
    <2>1. partitions # no_partition /\ ~(settings.partition >= Len(partitions))
        BY <1>3 DEF PartitionRefusal
    <2>2. partitions \in Seq(Entry) BY <2>1 DEF InputInv, InputTyped
    <2>3. Len(partitions) \in Nat /\ DOMAIN partitions = 1..Len(partitions)
        BY <2>2, LenProperties
    <2>4. settings.partition + 1 \in DOMAIN partitions /\ settings.partition + 1 \in Int
        BY <1>1, <1>3, <2>1, <2>3
    <2>5. Partition = partitions[settings.partition + 1] BY <1>1, <1>3 DEF Partition
    <2> QED BY <1>2, <2>1, <2>4, <2>5
<1>4. CASE settings.partition < 0 /\ target >= 0
    <2>1. CASE target = PARTITION_TABLE_NO_PARTITION_INDEX
        <3>1. Partition = [start |-> 0, end |-> 2^LocationBits] BY <1>4, <2>1 DEF Partition
        <3>2. 2^LocationBits \in Nat BY DEF LocationBits
        <3> QED BY <3>1, <3>2
    <2>2. CASE target # PARTITION_TABLE_NO_PARTITION_INDEX
        <3>1. Partition = partitions[target + 1] BY <1>1, <1>4, <2>2 DEF Partition
        <3>2. partitions # no_partition /\ target + 1 \in DOMAIN partitions /\ target + 1 \in Int
            BY <1>1, <1>4, <2>2 DEF InputInv
        <3> QED BY <1>2, <3>1, <3>2
    <2> QED BY <2>1, <2>2
<1> QED BY <1>1, <1>3, <1>4

LEMMA Smallest ==
    ASSUME NEW S \in SUBSET Nat, S # {}
    PROVE  Min(S) \in S /\ \A s \in S : Min(S) <= s
<1>1. \E x \in S : \A y \in S : x <= y BY Least
<1> QED BY <1>1, Zenon DEF Min

LEMMA BinaryStart ==
    ASSUME NEW f, f \subseteq Ranges
    PROVE  find_binary_start(f) \in Nat
<1> DEFINE inSram == {r.from : r \in {q \in f : q.from \in SramStart..(SramEnd - 1)}}
<1>1. inSram \in SUBSET Nat BY DEF Ranges
<1>2. FlashStart \in Nat BY LayoutAssumption
<1>3. inSram # {} => Min(inSram) \in Nat BY <1>1, Smallest
<1> QED BY <1>2, <1>3, Zenon DEF find_binary_start

\* Moved to its place, a file is still one of ordered ranges.
LEMMA MovedProper ==
    ASSUME InputInv, NEW o \in Int
    PROVE  Proper(MovedTo(o))
<1> DEFINE by == IF o = 0 THEN 0 ELSE o - find_binary_start(file)
           moved(r) == [from |-> r.from + by, to |-> r.to + by]
           M == {moved(r) : r \in file}
<1>1. Proper(file) /\ file \subseteq Ranges BY DEF InputInv
<1>2. by \in Int
    <2>1. find_binary_start(file) \in Int BY <1>1, BinaryStart
    <2> QED BY <2>1
<1>3. MovedTo(o) = M BY DEF MovedTo
<1> HIDE DEF by
<1>4. \A r \in file : r.from \in Int /\ r.to \in Int BY <1>1 DEF Ranges
<1>5. M \subseteq FileRanges /\ \A r \in M : r.from < r.to
    BY <1>1, <1>2, <1>4 DEF Proper, FileRanges
<1>6. IsFiniteSet(M)
    <2> DEFINE g == [r \in file |-> moved(r)]
    <2>1. g \in Surjection(file, M) BY DEF Surjection
    <2> HIDE DEF M, g
    <2> QED BY <1>1, <2>1, FS_Surjection DEF Proper
<1>7. ASSUME NEW r \in file, NEW s \in file
      PROVE  moved(r) = moved(s) \/ moved(r).to <= moved(s).from \/ moved(s).to <= moved(r).from
    <2>1. r = s \/ r.to <= s.from \/ s.to <= r.from BY <1>1 DEF Proper
    <2> QED BY <1>2, <1>4, <2>1
<1>8. \E low \in Int : \A r \in M : low <= r.from
    <2>1. PICK low \in Int : \A r \in file : low <= r.from BY <1>1 DEF Proper
    <2>2. low + by \in Int BY <1>2
    <2>3. \A r \in file : low + by <= moved(r).from BY <1>2, <1>4, <2>1
    <2> QED BY <2>2, <2>3
<1> QED BY <1>3, <1>5, <1>6, <1>7, <1>8 DEF Proper

LEMMA PlaceTyped ==
    ASSUME InputInv, LoadRefusal = "none"
    PROVE  PlaceOffset \in Int
<1>1. settings.offset \in Nat /\ settings.partition \in Nat \cup {-1} /\ target \in Int
    BY DEF InputInv, InputTyped, Settings
<1>2. CASE UsesPartition
    <2>1. PartitionRefusal = "none" /\ ~(AsksDevice /\ target < 0)
        BY DEF LoadRefusal, PartitionRefusal
    <2>2. Partition.start \in Nat
        <3>1. settings.partition >= 0 \/ (AsksDevice /\ target >= 0)
            BY <1>1, <1>2, <2>1 DEF UsesPartition
        <3> QED BY <2>1, <3>1, PartitionTyped
    <2>3. FlashStart \in Nat /\ Sector \in Nat BY LayoutAssumption, SectorAssumption
    <2>4. Partition.start * Sector \in Int BY <2>2, <2>3
    <2> QED BY <1>2, <2>3, <2>4 DEF PlaceOffset
<1>3. CASE ~UsesPartition BY <1>1, <1>3 DEF PlaceOffset
<1> QED BY <1>2, <1>3

-----------------------------------------------------------------------------
(* What has been checked when a load writes, or has written.               *)

Located == LoadRefusal = "none" /\ rmap = MovedTo(PlaceOffset) /\ ranges = CoalescedRanges(rmap)
Accepted ==
    /\ Located
    /\ RefusedRanges = {}
    /\ FlashRanges # {} => ~TooBigForFlash(guess_flash_size(before))

AcceptInv ==
    /\ pc \in {"save", "compare"} => settings.command = "save"
    /\ settings.command = "load" =>
          /\ pc = "check" => Located /\ mem = before
          /\ pc \in {"load", "program", "verify", "execute", "done"} \/ mem # before => Accepted

LEMMA AcceptedKept ==
    ASSUME UNCHANGED <<input, rmap, ranges>>
    PROVE  Located' = Located /\ Accepted' = Accepted
<1>1. PlanUnchanged BY InputKeepsPlan
<1>2. Located' = Located BY <1>1 DEF PlanUnchanged, Located
<1>3. RefusedRanges' = RefusedRanges
    BY DEF RefusedRanges, RangeRefusal, Clashes, no_overwrite, flash_binary_range, input
<1>4. FlashRanges' = FlashRanges BY DEF FlashRanges, IsFlash
<1>5. TooBigForFlash(guess_flash_size(before))' = TooBigForFlash(guess_flash_size(before))
    BY <1>4 DEF TooBigForFlash, flash_min, flash_max, guess_flash_size, input, FirstPages, Read
<1> QED BY <1>2, <1>3, <1>4, <1>5 DEF Accepted

LEMMA AcceptStep == FlashInv /\ InputInv /\ AcceptInv /\ [Next]_vars => AcceptInv'
<1> SUFFICES ASSUME FlashInv, InputInv, AcceptInv, [Next]_vars PROVE AcceptInv' OBVIOUS
<1>1. UNCHANGED input BY NextKeepsInput DEF vars
<1>2. settings' = settings /\ before' = before BY <1>1 DEF input
<1>3. /\ pc = "start" => mem = before
      /\ pc \in {"check", "load", "program"} => settings.command = "load"
      /\ pc = "erase" => settings.command = "erase"
    BY DEF FlashInv, Loading, Erasing
<1>4. CASE LoadCommand
    <2>1. pc = "start" /\ mem' = mem /\ pc' \in {"check", "failed"} BY <1>4 DEF LoadCommand, Fail
    <2>2. PlanUnchanged BY <1>1, InputKeepsPlan
    <2>3. ASSUME pc' = "check" PROVE Located'
        <3>1. /\ LoadRefusal = "none" /\ rmap' = MovedTo(PlaceOffset)
              /\ ranges' = CoalescedRanges(rmap')
            BY <1>4, <2>3 DEF LoadCommand, Fail
        <3> QED BY <2>2, <3>1 DEF PlanUnchanged, Located
    <2> QED BY <1>2, <1>3, <2>1, <2>3 DEF AcceptInv
<1>5. CASE VerifyCommand \/ EraseCommand
    <2>1. settings.command # "load" /\ pc' \notin {"save", "compare"}
        BY <1>5 DEF VerifyCommand, EraseCommand, Fail
    <2> QED BY <1>2, <2>1 DEF AcceptInv
<1>6. CASE SaveCommand
    <2>1. settings.command = "save" BY <1>6 DEF SaveCommand
    <2> QED BY <1>2, <2>1 DEF AcceptInv
<1>7. CASE SaveChunk \/ SaveVerify
    <2>1. pc \in {"save", "compare"} BY <1>7 DEF SaveChunk, SaveVerify
    <2> QED BY <1>2, <2>1 DEF AcceptInv
<1>8. CASE EraseSector
    <2>1. pc = "erase" /\ pc' \in {"erase", "done"} BY <1>8 DEF EraseSector
    <2> QED BY <1>2, <1>3, <2>1 DEF AcceptInv
<1>9. ASSUME UNCHANGED <<rmap, ranges>>, pc \in {"load", "program", "verify", "execute", "done"},
             pc' \notin {"check", "save", "compare"}
      PROVE  AcceptInv'
    <2>1. settings.command = "load" => Accepted' BY <1>1, <1>9, AcceptedKept DEF AcceptInv
    <2> QED BY <1>2, <1>9, <2>1 DEF AcceptInv
<1>10. CASE Check
    <2>1. UNCHANGED <<rmap, ranges, mem>> /\ pc = "check" BY <1>10 DEF Check, place
    <2>2. settings.command = "load" /\ Located /\ mem = before BY <1>3, <2>1 DEF AcceptInv
    <2>3. CASE RefusedRanges = {} /\ SizeRefusal = "none" /\ ToRange(1)
        <3>1. FlashRanges # {} => ~TooBigForFlash(guess_flash_size(before))
            BY <2>2, <2>3 DEF SizeRefusal
        <3>2. Accepted BY <2>2, <2>3, <3>1 DEF Accepted
        <3>3. Accepted' BY <1>1, <2>1, <3>2, AcceptedKept
        <3>4. pc' \in {"load", "verify"} BY <2>3 DEF ToRange
        <3> QED BY <1>2, <2>2, <3>3, <3>4 DEF AcceptInv
    <2>4. CASE pc' = "failed" BY <1>2, <2>1, <2>2, <2>4 DEF AcceptInv
    <2> QED BY <1>10, <2>3, <2>4 DEF Check, Fail
<1>11. CASE SkipBatch \/ EraseBatch \/ ProgramBatch \/ WriteRamBatch
    <2>1. UNCHANGED <<rmap, ranges>> /\ pc \in {"load", "program"}
        BY <1>11 DEF SkipBatch, EraseBatch, ProgramBatch, WriteRamBatch, place
    <2>2. pc' \in {"load", "program", "verify"}
        BY <1>11 DEF SkipBatch, EraseBatch, ProgramBatch, WriteRamBatch, Advance, ToRange
    <2> QED BY <1>9, <2>1, <2>2
<1>12. CASE Verify \/ Execute
    <2>1. UNCHANGED <<rmap, ranges>> /\ pc \in {"verify", "execute"}
          /\ pc' \in {"execute", "done", "failed"}
        BY <1>12 DEF Verify, Execute, Fail, place
    <2> QED BY <1>9, <2>1
<1>13. CASE ConnectionFails
    <2>1. UNCHANGED <<rmap, ranges>> /\ pc' = "failed" BY <1>13 DEF ConnectionFails, Fail, place
    <2>2. CASE pc \in {"load", "program"} BY <1>9, <2>1, <2>2
    <2>3. CASE pc = "erase" BY <1>2, <1>3, <2>1, <2>3 DEF AcceptInv
    <2>4. CASE pc \notin {"load", "program", "erase"}
        <3>1. mem' = mem BY <1>13, <2>4 DEF ConnectionFails
        <3>2. Accepted' = Accepted BY <1>1, <2>1, AcceptedKept
        <3> QED BY <1>2, <2>1, <3>1, <3>2 DEF AcceptInv
    <2> QED BY <2>2, <2>3, <2>4
<1>14. CASE UNCHANGED vars
    <2>1. Located' = Located /\ Accepted' = Accepted BY <1>14, AcceptedKept DEF vars, place
    <2> QED BY <1>2, <1>14, <2>1 DEF AcceptInv, vars
<1> QED BY <1>4, <1>5, <1>6, <1>7, <1>8, <1>10, <1>11, <1>12, <1>13, <1>14 DEF Next

-----------------------------------------------------------------------------
(* A flash whose size is known is not written around its end.              *)

\* The first pages are seen again at every multiple of the size.
LEMMA PagesAgain ==
    ASSUME NEW m, NEW s \in GuessedSizes, s % FlashSize = 0
    PROVE  FirstPages(m, s) = FirstPages(m, 0)
<1>1. /\ FlashSize \in Nat \ {0} /\ FlashStart \in Nat /\ FlashEndRP2040 \in Nat
      /\ s \in Nat /\ FlashStart + s + 1 < FlashEndRP2040
    BY DeviceAssumption, LayoutAssumption DEF GuessedSizes
<1>2. ASSUME NEW c \in {0, 1} PROVE Loc(FlashStart + s + c) = Loc(FlashStart + 0 + c)
    <2> DEFINE x == FlashStart + s + c
               y == FlashStart + 0 + c
    <2>1. s \in Int /\ c \in Int /\ FlashSize \in Nat \ {0} BY <1>1
    <2>2. (s + c) % FlashSize = c % FlashSize BY <2>1, SameRemainder
    <2>3. /\ x \in FlashStart..(FlashEndRP2040 - 1) /\ y \in FlashStart..(FlashEndRP2040 - 1)
          /\ x - FlashStart = s + c /\ y - FlashStart = c
        BY <1>1
    <2> HIDE DEF x, y
    <2>4. Loc(x) = FlashStart + ((s + c) % FlashSize) BY <2>3 DEF Loc
    <2>5. Loc(y) = FlashStart + (c % FlashSize) BY <2>3 DEF Loc
    <2>6. Loc(x) = Loc(y) BY <2>2, <2>4, <2>5
    <2> QED BY <2>6 DEF x, y
<1>3. /\ FlashStart + s + 0 = FlashStart + s /\ FlashStart + 0 + 0 = FlashStart + 0
    BY <1>1
<1>4. /\ Read(m, FlashStart + s) = Read(m, FlashStart + 0)
      /\ Read(m, FlashStart + s + 1) = Read(m, FlashStart + 0 + 1)
    BY <1>2, <1>3 DEF Read
<1> QED BY <1>4 DEF FirstPages

LEMMA GuessNotTooLarge ==
    ASSUME NEW m
    PROVE  guess_flash_size(m) <= FlashSize
<1> DEFINE fresh == {s \in GuessedSizes : FirstPages(m, s) # FirstPages(m, 0)}
<1>1. FlashSize \in Nat \ {0} /\ MinGuess <= FlashSize /\ MaxGuess \in Nat
    BY DeviceAssumption, GuessAssumption
<1>2. ASSUME fresh # {} PROVE 2 * Max(fresh) <= FlashSize
    <2>1. fresh \in SUBSET (0..MaxGuess) /\ 0 \in Int /\ MaxGuess \in Int
        BY DeviceAssumption DEF GuessedSizes
    <2>2. Max(fresh) \in fresh
        <3> HIDE DEF fresh
        <3> QED BY <1>2, <2>1, Largest
    <2>3. Max(fresh) % FlashSize # 0 BY <2>2, PagesAgain
    <2> QED BY <2>2, <2>3, GuessAssumption
<1> QED BY <1>1, <1>2 DEF guess_flash_size

LEMMA AcceptedPlaced == ASSUME Accepted PROVE \A r \in ToSet(ranges) : Placed(r)
<1>1. ASSUME NEW k \in DOMAIN ranges PROVE Placed(ranges[k])
    <2>1. RangeRefusal(ranges[k]) = "none" BY DEF Accepted, RefusedRanges
    <2> QED BY <2>1 DEF RangeRefusal, Placed
<1> QED BY <1>1 DEF ToSet

\* The ends of the ranges in flash.
LEMMA FlashEnds ==
    ASSUME Accepted, FlashRanges # {}
    PROVE  /\ flash_min \in FlashStart..FlashEnd /\ flash_max \in FlashStart..FlashEnd
           /\ \A r \in FlashRanges : flash_min <= r.from /\ r.to <= flash_max
<1>1. FlashStart \in Nat /\ FlashEnd \in Nat BY LayoutAssumption
<1>2. \A r \in FlashRanges : r.from \in FlashStart..FlashEnd /\ r.to \in FlashStart..FlashEnd
    BY AcceptedPlaced, PlacedRegion DEF FlashRanges
<1> DEFINE froms == {r.from : r \in FlashRanges}
           tos == {r.to : r \in FlashRanges}
<1>3. /\ froms \in SUBSET Nat /\ froms # {} /\ froms \in SUBSET (FlashStart..FlashEnd)
      /\ tos \in SUBSET (FlashStart..FlashEnd) /\ tos # {}
    BY <1>1, <1>2
<1>4. Min(froms) \in froms /\ \A a \in froms : Min(froms) <= a
    <2> HIDE DEF froms
    <2> QED BY <1>3, Smallest
<1>5. Max(tos) \in tos /\ \A a \in tos : a <= Max(tos)
    <2> HIDE DEF tos
    <2>1. FlashStart \in Int /\ FlashEnd \in Int BY <1>1
    <2> QED BY <1>3, <2>1, Largest
<1>6. flash_min = Min(froms) /\ flash_max = Max(tos) BY DEF flash_min, flash_max
<1>7. \A r \in FlashRanges : r.from \in froms /\ r.to \in tos OBVIOUS
<1> HIDE DEF froms, tos
<1> QED BY <1>3, <1>4, <1>5, <1>6, <1>7

LEMMA AcceptedFits ==
    ASSUME Accepted, SizeKnown \/ Fits
    PROVE  Fits
<1> SUFFICES ASSUME SizeKnown, FlashRanges # {}
             PROVE  flash_max - FlashStart <= FlashSize \/ flash_min >= FlashEndRP2040
    BY DEF Fits
<1> DEFINE g == guess_flash_size(before)
<1>1. g \in Nat /\ g <= FlashSize /\ g # 0 BY GuessInSectors, GuessNotTooLarge DEF SizeKnown
<1>2. ~TooBigForFlash(g) BY DEF Accepted
<1> HIDE DEF g
<1>3. /\ FlashStart \in Nat /\ FlashEnd \in Nat /\ FlashEndRP2040 \in Nat
      /\ FlashSize \in Nat
      /\ flash_min \in FlashStart..FlashEnd /\ flash_max \in FlashStart..FlashEnd
    BY LayoutAssumption, DeviceAssumption, FlashEnds
<1> QED BY <1>1, <1>2, <1>3 DEF TooBigForFlash

\* What a load writes, it writes where the address says.
LEMMA OwnCell ==
    ASSUME Accepted, SizeKnown \/ Fits, NEW r \in ToSet(ranges),
           NEW a \in (IF IsFlash(r) THEN Cells(AlignedRange(r)) ELSE Cells(r))
    PROVE  Loc(a) = a /\ a \in Locs
<1>1. /\ {FlashStart, FlashEnd, FlashEndRP2040, FlashEndRP2350, SramStart, SramEnd} \subseteq Nat
      /\ FlashStart < FlashEndRP2040 /\ FlashEndRP2040 < FlashEndRP2350
      /\ FlashEndRP2350 < SramStart /\ FlashEnd <= FlashEndRP2350
      /\ FlashStart % Sector = 0 /\ FlashEndRP2040 % Sector = 0 /\ FlashEnd % Sector = 0
      /\ FlashSize \in Nat \ {0} /\ FlashStart + FlashSize <= FlashEndRP2040
      /\ FlashSize % Sector = 0
    BY LayoutAssumption, DeviceAssumption
<1>2. Placed(r) BY AcceptedPlaced
<1>3. CASE ~IsFlash(r)
    <2>1. r.from \in SramStart..SramEnd /\ r.to \in SramStart..SramEnd BY <1>2, <1>3, PlacedRegion
    <2>2. a \in SramStart..(SramEnd - 1) BY <1>1, <1>3, <2>1 DEF Cells
    <2> QED BY <1>1, <2>2 DEF Loc, Locs
<1>4. CASE IsFlash(r)
    <2>1. r.from \in FlashStart..FlashEnd /\ r.to \in FlashStart..FlashEnd
          /\ r.from \in Int /\ r.to \in Int
        BY <1>1, <1>2, <1>4, PlacedRegion
    <2>2. /\ RoundDown(r.from) \in Int /\ RoundUp(r.to) \in Int
          /\ a \in Int /\ RoundDown(r.from) <= a /\ a < RoundUp(r.to)
        <3>1. RoundDown(r.from) \in Int /\ RoundUp(r.to) \in Int BY <2>1, RoundingDown, RoundingUp
        <3> QED BY <1>4, <3>1 DEF Cells, AlignedRange
    <2>3. a \in FlashStart..(FlashEnd - 1)
        <3>1. RoundDown(FlashStart) = FlashStart /\ RoundUp(FlashEnd) = FlashEnd
            BY <1>1, RoundedAlready
        <3>2. FlashStart <= RoundDown(r.from)
            BY <1>1, <2>1, <3>1, RoundDownMonotone
        <3>3. RoundUp(r.to) <= FlashEnd BY <1>1, <2>1, <3>1, RoundUpMonotone
        <3> QED BY <1>1, <2>2, <3>2, <3>3
    <2>4. r \in FlashRanges BY <1>4 DEF FlashRanges
    <2>5. /\ flash_min \in Int /\ flash_max \in Int /\ flash_min <= r.from /\ r.to <= flash_max
        BY <1>1, <2>4, FlashEnds
    <2>6. flash_max - FlashStart <= FlashSize \/ flash_min >= FlashEndRP2040
        BY <2>4, AcceptedFits DEF Fits
    <2>7. CASE flash_max - FlashStart <= FlashSize
        <3> DEFINE end == FlashStart + FlashSize
        <3>0. FlashStart \in Int /\ FlashSize \in Int BY <1>1
        <3>1. end \in Int /\ end % Sector = 0 BY <1>1, <3>0, SumOfMultiples
        <3>2. r.to <= end BY <1>1, <2>1, <2>5, <2>7
        <3>3. RoundUp(r.to) <= end BY <2>1, <3>1, <3>2, RoundUpMonotone, RoundedAlready
        <3>4. a - FlashStart \in 0..(FlashSize - 1) BY <1>1, <2>2, <2>3, <3>3
        <3>5. (a - FlashStart) % FlashSize = a - FlashStart BY <1>1, <3>4, SmallRemainder
        <3> QED BY <1>1, <2>3, <3>4, <3>5 DEF Loc, Locs
    <2>8. CASE flash_min >= FlashEndRP2040
        <3>1. FlashEndRP2040 <= r.from BY <1>1, <2>1, <2>5, <2>8
        <3>2. FlashEndRP2040 <= RoundDown(r.from)
            BY <1>1, <2>1, <3>1, RoundDownMonotone, RoundedAlready
        <3> QED BY <1>1, <2>2, <2>3, <3>2 DEF Loc, Locs
    <2> QED BY <2>6, <2>7, <2>8
<1> QED BY <1>3, <1>4

-----------------------------------------------------------------------------
(* A program that is to be kept.                                           *)

CellsOf(r) == IF IsFlash(r) THEN Cells(AlignedRange(r)) ELSE Cells(r)

LEMMA PlannedCell ==
    ASSUME Accepted, settings.command = "load", NEW a \in Planned
    PROVE  \E r \in ToSet(ranges) : a \in CellsOf(r)
<1>1. Planned = PlannedCells(MovedTo(PlaceOffset)) /\ ranges = CoalescedRanges(MovedTo(PlaceOffset))
    BY DEF Planned, Accepted, Located
<1> QED BY <1>1 DEF PlannedCells, CellsOf

\* The cells of a range that is clear of the program are clear of it.
LEMMA ClearOfProgram ==
    ASSUME Accepted, NEW r \in ToSet(ranges), NEW end \in Nat, end % Sector = 0, end <= FlashEnd,
           FlashStart >= r.to \/ end < r.from, NEW a \in CellsOf(r)
    PROVE  a \in Int /\ ~(FlashStart <= a /\ a < end)
<1>1. /\ {FlashStart, FlashEnd, FlashEndRP2350, SramStart, SramEnd} \subseteq Nat
      /\ FlashEnd <= FlashEndRP2350 /\ FlashEndRP2350 < SramStart /\ FlashStart % Sector = 0
    BY LayoutAssumption
<1>2. Placed(r) BY AcceptedPlaced
<1>3. CASE ~IsFlash(r)
    <2>1. r.from \in SramStart..SramEnd /\ r.to \in SramStart..SramEnd BY <1>2, <1>3, PlacedRegion
    <2>2. a \in SramStart..(SramEnd - 1) BY <1>1, <1>3, <2>1 DEF Cells, CellsOf
    <2> QED BY <1>1, <2>2
<1>4. CASE IsFlash(r)
    <2>1. r.from \in Int /\ r.to \in Int /\ FlashStart \in Int /\ end \in Int
        BY <1>1, <1>2, PlacedRegion
    <2>2. /\ RoundDown(r.from) \in Int /\ RoundUp(r.to) \in Int
          /\ a \in Int /\ RoundDown(r.from) <= a /\ a < RoundUp(r.to)
        <3>1. RoundDown(r.from) \in Int /\ RoundUp(r.to) \in Int BY <2>1, RoundingDown, RoundingUp
        <3> QED BY <1>4, <3>1 DEF Cells, AlignedRange, CellsOf
    <2>3. CASE FlashStart >= r.to
        <3>1. RoundUp(r.to) <= RoundUp(FlashStart) BY <2>1, <2>3, RoundUpMonotone
        <3>2. RoundUp(FlashStart) = FlashStart BY <1>1, <2>1, RoundedAlready
        <3> QED BY <2>1, <2>2, <3>1, <3>2
    <2>4. CASE end < r.from
        <3>1. RoundDown(end) <= RoundDown(r.from) BY <2>1, <2>4, RoundDownMonotone
        <3>2. RoundDown(end) = end BY <2>1, RoundedAlready
        <3> QED BY <2>1, <2>2, <3>1, <3>2
    <2> QED BY <2>3, <2>4
<1> QED BY <1>3, <1>4

LEMMA NotRefused ==
    ASSUME Accepted, no_overwrite, binary_end # 0 \/ ~settings.no_overwrite_force,
           NEW r \in ToSet(ranges)
    PROVE  ~Intersects(r, flash_binary_range)
<1>1. PICK k \in DOMAIN ranges : r = ranges[k] BY DEF ToSet
<1>2. RangeRefusal(r) = "none" BY <1>1 DEF Accepted, RefusedRanges
<1>3. Placed(r) BY AcceptedPlaced
<1>4. RangeRefusal(r) =
        CASE Clashes(r) /\ binary_end # 0 -> "clash"
          [] Clashes(r) /\ binary_end = 0 /\ ~settings.no_overwrite_force -> "unknown_end"
          [] OTHER -> "none"
    BY <1>3 DEF RangeRefusal, Placed
<1> QED BY <1>2, <1>4 DEF Clashes

LEMMA AcceptedKeepsProgram ==
    ASSUME FlashInv, InputInv, AcceptInv
    PROVE  ProgramKept
<1>1. /\ {FlashStart, FlashEnd, FlashEndRP2040, FlashEndRP2350, SramStart, SramEnd} \subseteq Nat
      /\ FlashStart < FlashEndRP2040 /\ FlashEndRP2040 < FlashEndRP2350
      /\ FlashEnd <= FlashEndRP2350 /\ FlashEndRP2040 <= FlashEnd
      /\ FlashEndRP2350 < SramStart /\ FlashStart % Sector = 0 /\ FlashEnd % Sector = 0
      /\ FlashSize \in Nat \ {0} /\ FlashStart + FlashSize <= FlashEndRP2040
    BY LayoutAssumption, DeviceAssumption
<1>2. ASSUME no_overwrite, mem # before PROVE Accepted /\ settings.command = "load"
    BY <1>2 DEF InputInv, AcceptInv
<1>3. ASSUME NEW l \in Locs, mem[l] # before[l]
      PROVE  \E a \in Planned : Loc(a) = l
    BY <1>3 DEF FlashInv, Confined
<1>4. ASSUME no_overwrite, binary_end # 0, binary_end % Sector = 0, SizeKnown \/ Fits,
             NEW a \in FlashStart..(binary_end - 1)
      PROVE  Read(mem, a) = Read(before, a)
    <2>1. binary_end \in FlashStart..(FlashStart + FlashSize) /\ binary_end \in Nat
        BY <1>1, <1>4 DEF InputInv
    <2>2. a - FlashStart \in 0..(FlashSize - 1) BY <1>1, <2>1
    <2>3. (a - FlashStart) % FlashSize = a - FlashStart BY <1>1, <2>2, SmallRemainder
    <2>4. Loc(a) = a /\ a \in Locs BY <1>1, <2>1, <2>3 DEF Loc, Locs
    <2>5. ASSUME mem[a] # before[a] PROVE FALSE
        <3>1. Accepted /\ settings.command = "load" BY <1>2, <1>4, <2>5
        <3>2. PICK p \in Planned : Loc(p) = a BY <1>3, <2>4, <2>5
        <3>3. PICK r \in ToSet(ranges) : p \in CellsOf(r) BY <3>1, PlannedCell
        <3>4. Loc(p) = p BY <1>4, <3>1, <3>3, OwnCell DEF CellsOf
        <3>5. FlashStart >= r.to \/ binary_end < r.from
            BY <1>4, <3>1, NotRefused DEF Intersects, flash_binary_range
        <3>6. binary_end <= FlashEnd BY <1>1, <2>1
        <3>7. ~(FlashStart <= p /\ p < binary_end)
            BY <1>4, <2>1, <3>1, <3>3, <3>5, <3>6, ClearOfProgram
        <3> QED BY <1>1, <2>1, <3>2, <3>4, <3>7
    <2> QED BY <2>4, <2>5 DEF Read
<1>5. ASSUME no_overwrite, binary_end = 0, ~settings.no_overwrite_force,
             NEW l \in FlashStart..(FlashStart + FlashSize - 1)
      PROVE  mem[l] = before[l]
    <2>1. l \in Locs BY <1>1 DEF Locs
    <2>2. ASSUME mem[l] # before[l] PROVE FALSE
        <3>1. Accepted /\ settings.command = "load" BY <1>2, <1>5, <2>2
        <3>2. PICK p \in Planned : Loc(p) = l BY <1>3, <2>1, <2>2
        <3>3. PICK r \in ToSet(ranges) : p \in CellsOf(r) BY <3>1, PlannedCell
        <3>4. FlashStart >= r.to \/ FlashEndRP2350 < r.from
            BY <1>5, <3>1, NotRefused DEF Intersects, flash_binary_range
        <3>5. Placed(r) BY <3>1, AcceptedPlaced
        <3>6. CASE IsFlash(r)
            <4>1. r.from \in FlashStart..FlashEnd /\ r.to \in FlashStart..FlashEnd BY <3>5, <3>6, PlacedRegion
            <4>2. FlashStart >= r.to BY <1>1, <3>4, <4>1
            <4>3. ~(FlashStart <= p /\ p < FlashEnd) /\ p \in Int
                <5>1. FlashEnd \in Nat /\ FlashEnd % Sector = 0 /\ FlashEnd <= FlashEnd BY <1>1
                <5> QED BY <3>1, <3>3, <4>2, <5>1, ClearOfProgram
            <4>4. p \in Addresses
                BY <3>1 DEF Planned, Accepted, Located, PlannedCells
            <4>5. Loc(p) = p BY <1>1, <4>3, <4>4 DEF Loc, Addresses
            <4> QED BY <1>1, <3>2, <4>3, <4>5
        <3>7. CASE ~IsFlash(r)
            <4>1. r.from \in SramStart..SramEnd /\ r.to \in SramStart..SramEnd BY <3>5, <3>7, PlacedRegion
            <4>2. p \in SramStart..(SramEnd - 1) BY <1>1, <3>3, <3>7, <4>1 DEF Cells, CellsOf
            <4>3. Loc(p) = p BY <1>1, <4>2 DEF Loc
            <4> QED BY <1>1, <3>2, <4>2, <4>3
        <3> QED BY <3>6, <3>7
    <2> QED BY <2>2
<1> QED BY <1>4, <1>5 DEF ProgramKept

-----------------------------------------------------------------------------
(* A load works its way through its ranges.                                *)

AllRegular == \A r \in ToSet(ranges) : Regular(r)

Batching ==
    pc \in {"load", "program"} /\ AllRegular =>
        /\ base < ranges[i].to
        /\ IsFlash(ranges[i]) => base = ranges[i].from \/ base % Sector = 0

LoadInv == FlashInv /\ InputInv /\ AcceptInv /\ Batching

\* The coalesced ranges of a load, as it has them when it writes.
LEMMA Coalescence ==
    ASSUME InputInv, Located
    PROVE  /\ ranges \in Seq(FileRanges) /\ DOMAIN ranges = 1..Len(ranges) /\ Len(ranges) \in Nat
           /\ \A j \in DOMAIN ranges : ranges[j] \in FileRanges /\ ranges[j].from < ranges[j].to
           /\ \A j, l \in DOMAIN ranges : j < l => Apart(ranges[j], ranges[l])
           /\ \A r \in rmap : \E j \in DOMAIN ranges : Cells(r) \subseteq Cells(ranges[j])
           /\ \A j \in DOMAIN ranges : ~IsFlash(ranges[j]) =>
                 \A a \in Cells(ranges[j]) : InFile(a)
           /\ \A j \in DOMAIN ranges : \E r \in rmap : ranges[j].from = r.from
<1>1. PlaceOffset \in Int BY PlaceTyped DEF Located
<1>2. Proper(rmap) BY <1>1, MovedProper DEF Located
<1>3. ranges = CoalescedRanges(rmap) BY DEF Located
<1>4. /\ ranges \in Seq(FileRanges)
      /\ \A j \in DOMAIN ranges : ranges[j].from < ranges[j].to
      /\ \A j, l \in DOMAIN ranges : j < l => Apart(ranges[j], ranges[l])
      /\ \A r \in rmap : \E j \in DOMAIN ranges : Cells(r) \subseteq Cells(ranges[j])
      /\ \A j \in DOMAIN ranges : ~IsFlash(ranges[j]) =>
            \A a \in Cells(ranges[j]) : \E r \in rmap : a \in Cells(r)
      /\ \A j \in DOMAIN ranges : \E r \in rmap : ranges[j].from = r.from
    BY <1>2, <1>3, Coalesced, Zenon
<1>5. DOMAIN ranges = 1..Len(ranges) /\ Len(ranges) \in Nat BY <1>4, LenProperties
<1>6. \A j \in DOMAIN ranges : ranges[j] \in FileRanges BY <1>4, <1>5, ElementOfSeq
<1> QED BY <1>4, <1>5, <1>6 DEF InFile

\* What is known of the batch being written.
LEMMA Batch ==
    ASSUME FlashInv, InputInv, AcceptInv, pc \in {"load", "program"}
    PROVE  /\ settings.command = "load" /\ Accepted /\ Located /\ Placed(ranges[i])
           /\ i \in DOMAIN ranges /\ ranges[i] \in ToSet(ranges) /\ i \in Int
           /\ ranges[i].from \in Int /\ ranges[i].to \in Int /\ ranges[i].from < ranges[i].to
           /\ base \in Int /\ ranges[i].from <= base
           /\ this_batch \in Int /\ base + this_batch \in Int /\ base + this_batch <= ranges[i].to
           /\ this_batch = ranges[i].to - base \/ this_batch = ChunkSize(Size(ranges[i]), Batches)
           /\ ChunkSize(Size(ranges[i]), Batches) \in Nat
<1>1. Loading BY DEF FlashInv
<1>2. settings.command = "load" /\ Accepted /\ Located BY <1>1 DEF Loading, AcceptInv, Accepted
<1>3. i \in DOMAIN ranges /\ Placed(ranges[i]) /\ base \in Int /\ ranges[i].from <= base
    BY <1>1 DEF Loading
<1>4. /\ DOMAIN ranges = 1..Len(ranges) /\ Len(ranges) \in Nat
      /\ ranges[i].from < ranges[i].to /\ ranges[i] \in FileRanges
    BY <1>2, <1>3, Coalescence
<1>5. i \in Int /\ ranges[i].from \in Int /\ ranges[i].to \in Int BY <1>3, <1>4 DEF FileRanges
<1>6. this_batch \in Int /\ base + this_batch <= ranges[i].to BY <1>1, BatchInRange
<1>7. Size(ranges[i]) \in Int /\ Size(ranges[i]) > 0 BY <1>4, <1>5 DEF Size
<1>8. ChunkSize(Size(ranges[i]), Batches) \in Nat BY <1>7, ChunkBounds
<1>9. this_batch = ranges[i].to - base \/ this_batch = ChunkSize(Size(ranges[i]), Batches)
    <2> DEFINE x == ranges[i].to - base
               y == ChunkSize(Size(ranges[i]), Batches)
    <2>1. x \in Int /\ y \in Int BY <1>3, <1>5, <1>8
    <2>2. this_batch = Min({x, y}) BY DEF this_batch
    <2> HIDE DEF x, y
    <2> QED BY <2>1, <2>2, Smaller DEF x, y
<1>10. ranges[i] \in ToSet(ranges) BY <1>3 DEF ToSet
<1>11. base + this_batch \in Int BY <1>3, <1>6
<1> QED BY <1>2, <1>3, <1>4, <1>5, <1>6, <1>8, <1>9, <1>10, <1>11

LEMMA ChunkInSectors ==
    ASSUME NEW size \in Int
    PROVE  ChunkSize(size, Batches) % Sector = 0
<1>1. Batches \in Nat \ {0} BY DeviceAssumption
<1>2. (size + Batches - 1) \div Batches \in Int BY <1>1
<1> QED BY <1>2, RoundingUp DEF ChunkSize

\* A batch of flash ends at the end of its range or of a sector.
LEMMA BatchEnds ==
    ASSUME LoadInv, pc \in {"load", "program"}, AllRegular
    PROVE  /\ base < base + this_batch \/ base + this_batch = ranges[i].to
           /\ IsFlash(ranges[i]) =>
                 base + this_batch = ranges[i].to \/ (base + this_batch) % Sector = 0
<1> DEFINE r == ranges[i]
           chunk == ChunkSize(Size(r), Batches)
<1>1. /\ i \in DOMAIN ranges /\ r \in ToSet(ranges) /\ base \in Int /\ r.from \in Int /\ r.to \in Int
      /\ r.from <= base /\ r.from < r.to /\ chunk \in Nat
      /\ this_batch = r.to - base \/ this_batch = chunk
      /\ base + this_batch <= r.to
    BY Batch DEF LoadInv
<1>2. base < r.to /\ (IsFlash(r) => base = r.from \/ base % Sector = 0) BY DEF LoadInv, Batching
<1>3. Size(r) \in Int /\ Size(r) = r.to - r.from BY <1>1 DEF Size
<1>4. chunk % Sector = 0 BY <1>3, ChunkInSectors
<1>5. 0 < chunk
    <2> DEFINE q == (Size(r) + Batches - 1) \div Batches
    <2>1. Batches \in Nat \ {0} BY DeviceAssumption
    <2>2. /\ q \in Int /\ Size(r) + Batches - 1 = (Batches * q) + ((Size(r) + Batches - 1) % Batches)
          /\ (Size(r) + Batches - 1) % Batches \in 0..(Batches - 1)
        BY <1>3, <2>1
    <2>3. Batches * q \in Int BY <2>1, <2>2
    <2>4. 0 < Batches * q
        <3> DEFINE t == Batches * q
                   left == (Size(r) + Batches - 1) % Batches
        <3>1. t \in Int /\ left \in Int /\ left < Batches BY <2>1, <2>2, <2>3
        <3>2. Size(r) + Batches - 1 = t + left BY <2>2
        <3>3. Size(r) >= 1 BY <1>1, <1>3
        <3> HIDE DEF t, left, q
        <3>4. 0 < t BY <1>3, <2>1, <3>1, <3>2, <3>3
        <3> QED BY <3>4 DEF t
    <2>5. 0 < q BY <2>1, <2>2, <2>4
    <2>6. q <= RoundUp(q) /\ RoundUp(q) \in Int BY <2>2, RoundingUp
    <2> QED BY <2>2, <2>5, <2>6 DEF ChunkSize
<1> HIDE DEF chunk
<1>6. CASE this_batch = r.to - base BY <1>1, <1>2, <1>6
<1>7. CASE this_batch = chunk
    <2>1. base < base + this_batch BY <1>1, <1>5, <1>7
    <2>2. ASSUME IsFlash(r), base % Sector = 0 PROVE (base + this_batch) % Sector = 0
        <3>1. chunk \in Int BY <1>1
        <3> QED BY <1>1, <1>4, <1>7, <2>2, <3>1, SumOfMultiples
    <2>3. ASSUME IsFlash(r), base % Sector # 0 PROVE base + this_batch = r.to
        <3>1. base = r.from BY <1>2, <2>3
        <3>2. Regular(r) BY <1>1 DEF AllRegular
        <3>3. Size(r) <= chunk BY <2>3, <3>1, <3>2 DEF Regular, chunk
        <3> QED BY <1>1, <1>3, <1>7, <3>1, <3>3
    <2> QED BY <2>1, <2>2, <2>3
<1> QED BY <1>1, <1>6, <1>7

\* The cells of one range are all before those of the next, sectors included.
LEMMA Earlier ==
    ASSUME InputInv, Accepted, NEW j \in DOMAIN ranges, NEW l \in DOMAIN ranges, j < l,
           NEW a \in Cells(ranges[j]), NEW b \in CellsOf(ranges[l])
    PROVE  a < b
<1> DEFINE q == ranges[j]
           r == ranges[l]
<1>1. Located BY DEF Accepted
<1>2. /\ q \in FileRanges /\ r \in FileRanges /\ q.from < q.to /\ r.from < r.to /\ Apart(q, r)
    BY <1>1, Coalescence
<1>3. Placed(q) /\ Placed(r) BY AcceptedPlaced DEF ToSet
<1>4. /\ {FlashStart, FlashEnd, FlashEndRP2350, SramStart, SramEnd} \subseteq Nat
      /\ FlashEnd <= FlashEndRP2350 /\ FlashEndRP2350 < SramStart
    BY LayoutAssumption
<1>5. q.from \in Int /\ q.to \in Int /\ r.from \in Int /\ r.to \in Int BY <1>2 DEF FileRanges
<1>6. /\ RoundDown(r.from) \in Int /\ RoundDown(r.from) <= r.from
      /\ RoundUp(q.to) \in Int /\ q.to <= RoundUp(q.to) /\ RoundUp(r.to) \in Int
    BY <1>5, RoundingDown, RoundingUp
<1>7. a \in Int /\ a < q.to BY <1>5 DEF Cells
<1>8. q.to <= r.from /\ (IsFlash(q) => RoundUp(q.to) <= RoundDown(r.from)) BY <1>2 DEF Apart
<1>9. CASE IsFlash(r)
    <2>1. b \in Int /\ RoundDown(r.from) <= b BY <1>6, <1>9 DEF CellsOf, Cells, AlignedRange
    <2>2. IsFlash(q)
        <3> SUFFICES ASSUME ~IsFlash(q) PROVE FALSE OBVIOUS
        <3>1. q.to \in SramStart..SramEnd /\ q.from \in SramStart..SramEnd BY <1>3, PlacedRegion
        <3>2. r.from \in FlashStart..FlashEnd BY <1>3, <1>9, PlacedRegion
        <3> QED BY <1>4, <1>8, <3>1, <3>2
    <2> QED BY <1>5, <1>6, <1>7, <1>8, <2>1, <2>2
<1>10. CASE ~IsFlash(r)
    <2>1. b \in Int /\ r.from <= b BY <1>5, <1>10 DEF CellsOf, Cells
    <2> QED BY <1>5, <1>7, <1>8, <2>1
<1> QED BY <1>9, <1>10

\* The cells a batch writes.
BatchCells == IF IsFlash(ranges[i]) THEN Cells(aligned_range) ELSE Cells(read_range)

LEMMA BatchOf ==
    ASSUME LoadInv, pc \in {"load", "program"}, AllRegular
    PROVE  /\ BatchCells \subseteq CellsOf(ranges[i])
           /\ Cells(read_range) \subseteq BatchCells
           /\ \A a \in BatchCells : a \in Int /\ ~(ranges[i].from <= a /\ a < base)
           /\ \A a \in Cells(read_range) : a \in Cells(ranges[i])
           /\ \A a \in BatchCells : a \notin Cells(read_range) =>
                 a < ranges[i].from \/ ranges[i].to <= a
<1> DEFINE r == ranges[i]
           e == base + this_batch
<1>1. /\ r.from \in Int /\ r.to \in Int /\ base \in Int /\ r.from <= base
      /\ e \in Int /\ e <= r.to
    BY Batch DEF LoadInv
<1>2. base < r.to /\ (IsFlash(r) => base = r.from \/ base % Sector = 0) BY DEF LoadInv, Batching
<1>3. IsFlash(r) => e = r.to \/ e % Sector = 0 BY BatchEnds
<1>4. read_range = [from |-> base, to |-> e]
      /\ aligned_range = [from |-> RoundDown(base), to |-> RoundUp(e)]
    BY DEF read_range, aligned_range, AlignedRange
<1> HIDE DEF e
<1>5. /\ RoundDown(base) \in Int /\ RoundDown(base) <= base
      /\ RoundUp(e) \in Int /\ e <= RoundUp(e)
      /\ RoundDown(r.from) <= RoundDown(base) /\ RoundUp(e) <= RoundUp(r.to)
      /\ RoundDown(r.from) \in Int /\ RoundUp(r.to) \in Int
    BY <1>1, RoundingDown, RoundingUp, RoundDownMonotone, RoundUpMonotone
<1>6. /\ IsFlash(r) /\ base % Sector = 0 => RoundDown(base) = base
      /\ IsFlash(r) /\ e % Sector = 0 => RoundUp(e) = e
    BY <1>1, RoundedAlready
<1>7. CASE IsFlash(r)
    <2>1. BatchCells = RoundDown(base)..(RoundUp(e) - 1) BY <1>4, <1>7 DEF BatchCells, Cells
    <2>2. Cells(read_range) = base..(e - 1) BY <1>4 DEF Cells
    <2>3. CellsOf(r) = RoundDown(r.from)..(RoundUp(r.to) - 1) /\ Cells(r) = r.from..(r.to - 1)
        BY <1>7 DEF CellsOf, Cells, AlignedRange
    <2>4. BatchCells \subseteq CellsOf(r) /\ Cells(read_range) \subseteq BatchCells
          /\ Cells(read_range) \subseteq Cells(r)
        <3>1. BatchCells \subseteq CellsOf(r) BY <1>5, <2>1, <2>3
        <3>2. Cells(read_range) \subseteq BatchCells BY <1>1, <1>5, <2>1, <2>2
        <3>3. Cells(read_range) \subseteq Cells(r) BY <1>1, <2>2, <2>3
        <3> QED BY <3>1, <3>2, <3>3
    <2>5. \A a \in BatchCells : a \in Int /\ ~(r.from <= a /\ a < base)
        BY <1>1, <1>2, <1>5, <1>6, <1>7, <2>1
    <2>6. ASSUME NEW a \in BatchCells, a \notin Cells(read_range) PROVE a < r.from \/ r.to <= a
        <3>1. a \in Int /\ RoundDown(base) <= a /\ a < RoundUp(e) BY <1>5, <2>1, <2>6
        <3>2. a < base \/ e <= a BY <1>1, <2>2, <2>6, <3>1
        <3> QED BY <1>1, <1>2, <1>3, <1>5, <1>6, <1>7, <3>1, <3>2
    <2> QED BY <2>4, <2>5, <2>6
<1>8. CASE ~IsFlash(r)
    <2>1. BatchCells = base..(e - 1) /\ Cells(read_range) = base..(e - 1)
        BY <1>4, <1>8 DEF BatchCells, Cells
    <2>2. CellsOf(r) = r.from..(r.to - 1) /\ Cells(r) = r.from..(r.to - 1)
        BY <1>8 DEF CellsOf, Cells
    <2> QED BY <1>1, <2>1, <2>2
<1> QED BY <1>7, <1>8

\* What fills up the sectors of a batch is not the file's.
LEMMA Padding ==
    ASSUME LoadInv, pc \in {"load", "program"}, AllRegular, NEW a \in BatchCells
    PROVE  /\ IsFlash(ranges[i]) => file_buf(a) = Wanted(a)
           /\ ~IsFlash(ranges[i]) => Data(a) = Wanted(a)
<1> DEFINE r == ranges[i]
<1>1. Located /\ Accepted /\ i \in DOMAIN ranges /\ i \in Int BY Batch DEF LoadInv
<1>2. r.from \in Int /\ r.to \in Int BY Batch DEF LoadInv
<1>3. a \in CellsOf(r) /\ a \in Int BY BatchOf
<1>4. CASE a \in Cells(read_range)
    <2>1. ~IsFlash(r) => InFile(a)
        <3> SUFFICES ASSUME ~IsFlash(r) PROVE InFile(a) OBVIOUS
        <3>1. a \in Cells(r) BY <1>4, BatchOf
        <3> QED BY <1>1, <3>1, Coalescence DEF LoadInv
    <2> QED BY <1>4, <2>1 DEF file_buf, Wanted
<1>5. CASE a \notin Cells(read_range)
    <2>1. IsFlash(r) BY <1>5 DEF BatchCells
    <2>2. a < r.from \/ r.to <= a BY <1>5, BatchOf
    <2>3. a \notin Cells(r) BY <1>2, <1>3, <2>2 DEF Cells
    <2>4. ~InFile(a)
        <3> SUFFICES ASSUME NEW s \in rmap, a \in Cells(s) PROVE FALSE BY DEF InFile
        <3>1. PICK j \in DOMAIN ranges : a \in Cells(ranges[j])
            BY <1>1, Coalescence DEF LoadInv
        <3>2. j \in Int BY <1>1, Coalescence DEF LoadInv
        <3>3. CASE j = i BY <2>3, <3>1, <3>3
        <3>4. CASE j < i
            <4>1. a < a BY <1>1, <1>3, <3>1, <3>4, Earlier DEF LoadInv
            <4> QED BY <1>3, <4>1
        <3>5. CASE i < j
            <4>1. /\ r \in FileRanges /\ ranges[j] \in FileRanges /\ Apart(r, ranges[j])
                BY <1>1, <3>5, Coalescence DEF LoadInv
            <4>2. /\ ranges[j].from \in Int /\ ranges[j].to \in Int BY <4>1 DEF FileRanges
            <4>3. RoundUp(r.to) <= RoundDown(ranges[j].from) BY <2>1, <4>1 DEF Apart
            <4>4. RoundDown(ranges[j].from) <= ranges[j].from /\ RoundDown(ranges[j].from) \in Int
                  /\ RoundUp(r.to) \in Int
                BY <1>2, <4>2, RoundingDown, RoundingUp
            <4>5. a < RoundUp(r.to) BY <1>2, <1>3, <2>1, <4>4, RoundingDown DEF CellsOf, Cells, AlignedRange
            <4>6. ranges[j].from <= a BY <3>1, <4>2 DEF Cells
            <4> QED BY <1>3, <4>2, <4>3, <4>4, <4>5, <4>6
        <3> QED BY <1>1, <3>2, <3>3, <3>4, <3>5
    <2> QED BY <1>5, <2>1, <2>4 DEF file_buf, Wanted
<1> QED BY <1>4, <1>5

LEMMA AdvanceBatching ==
    ASSUME LoadInv, pc \in {"load", "program"}, Advance, UNCHANGED ranges
    PROVE  Batching'
<1>1. AllRegular' = AllRegular BY DEF AllRegular
<1>2. CASE base + this_batch < ranges[i].to
    <2>1. pc' = "load" /\ base' = base + this_batch /\ i' = i BY <1>2 DEF Advance
    <2>2. base + this_batch \in Int /\ ranges[i].to \in Int BY Batch DEF LoadInv
    <2>3. AllRegular /\ IsFlash(ranges[i]) => (base + this_batch) % Sector = 0
        BY <1>2, <2>2, BatchEnds
    <2> QED BY <1>1, <1>2, <2>1, <2>3 DEF Batching, IsFlash
<1>3. CASE ~(base + this_batch < ranges[i].to)
    <2>1. ToRange(i + 1) BY <1>3 DEF Advance
    <2>2. CASE i + 1 \in DOMAIN ranges
        <3>1. i' = i + 1 /\ base' = ranges[i + 1].from BY <2>1, <2>2 DEF ToRange
        <3>2. ranges[i + 1].from < ranges[i + 1].to
            BY <2>2, Batch, Coalescence DEF LoadInv
        <3> QED BY <3>1, <3>2 DEF Batching
    <2>3. CASE i + 1 \notin DOMAIN ranges BY <2>1, <2>3 DEF ToRange, Batching
    <2> QED BY <2>2, <2>3
<1> QED BY <1>2, <1>3

LEMMA BatchingStep == LoadInv /\ [Next]_vars => Batching'
<1> SUFFICES ASSUME LoadInv, [Next]_vars PROVE Batching' OBVIOUS
<1>1. CASE pc' \notin {"load", "program"} BY <1>1 DEF Batching
<1>2. CASE SkipBatch \/ ProgramBatch \/ WriteRamBatch
    BY <1>2, AdvanceBatching DEF SkipBatch, ProgramBatch, WriteRamBatch
<1>3. CASE EraseBatch
    BY <1>3 DEF EraseBatch, LoadInv, Batching, AllRegular, IsFlash
<1>4. CASE Check /\ pc' \in {"load", "program"}
    <2>1. ToRange(1) /\ UNCHANGED ranges /\ pc = "check" BY <1>4 DEF Check, Fail
    <2>2. 1 \in DOMAIN ranges /\ i' = 1 /\ base' = ranges[1].from BY <1>4, <2>1 DEF ToRange
    <2>3. settings.command = "load" BY <2>1 DEF LoadInv, FlashInv, Loading
    <2>4. Located BY <2>1, <2>3 DEF LoadInv, AcceptInv
    <2>5. ranges[1].from < ranges[1].to BY <2>2, <2>4, Coalescence DEF LoadInv
    <2> QED BY <2>1, <2>2, <2>5 DEF Batching
<1>5. CASE UNCHANGED vars BY <1>5 DEF vars, LoadInv, Batching, AllRegular, IsFlash
<1>6. CASE LoadCommand \/ VerifyCommand \/ EraseCommand \/ EraseSector \/ Verify \/ Execute
           \/ SaveCommand \/ SaveChunk \/ SaveVerify \/ ConnectionFails
    <2>1. pc' \notin {"load", "program"}
        BY <1>6 DEF LoadCommand, VerifyCommand, EraseCommand, EraseSector, Verify, Execute,
                    SaveCommand, SaveChunk, SaveVerify, AfterSaving, ConnectionFails, Fail
    <2> QED BY <1>1, <2>1
<1> QED BY <1>1, <1>2, <1>3, <1>4, <1>5, <1>6 DEF Next

LEMMA LoadStep == LoadInv /\ [Next]_vars => LoadInv'
<1> SUFFICES ASSUME LoadInv, [Next]_vars PROVE LoadInv' OBVIOUS
<1>1. FlashInv' /\ AcceptInv' BY FlashStep, AcceptStep DEF LoadInv
<1>2. UNCHANGED input BY NextKeepsInput DEF vars
<1>3. InputInv' BY <1>2, InputKept DEF LoadInv
<1> QED BY <1>1, <1>3, BatchingStep DEF LoadInv

LEMMA LoadInitially == Init => LoadInv
<1> SUFFICES ASSUME Init PROVE LoadInv OBVIOUS
<1>1. pc = "start" /\ mem = before BY DEF Init
<1>2. FlashInv /\ InputInv BY Initially, InputInitially
<1>3. AcceptInv /\ Batching BY <1>1 DEF AcceptInv, Batching
<1> QED BY <1>2, <1>3 DEF LoadInv

\* What is written before a batch is programmed, or its cells in RAM are.
LEMMA PutOwn ==
    ASSUME NEW m, NEW v, NEW l \in DOMAIN m, l \in Int, \A a \in DOMAIN v : Loc(a) = a
    PROVE  Put(m, v)[l] = IF l \in DOMAIN v THEN v[l] ELSE m[l]
<1> DEFINE at == {a \in DOMAIN v : Loc(a) = l}
<1>1. Put(m, v)[l] = IF at = {} THEN m[l] ELSE v[Max(at)] BY DEF Put
<1>2. CASE l \in DOMAIN v
    <2>1. at = {l} BY <1>2
    <2>2. {l} \in SUBSET (l..l) /\ {l} # {} OBVIOUS
    <2>3. Max({l}) = l BY <2>2, Largest
    <2> QED BY <1>1, <1>2, <2>1, <2>3
<1>3. CASE l \notin DOMAIN v
    <2>1. at = {} BY <1>3
    <2> QED BY <1>1, <1>3, <2>1
<1> QED BY <1>2, <1>3

-----------------------------------------------------------------------------
(* An update writes only when the device does not hold the file.           *)

Differs == \E a \in Planned : Read(before, a) # Wanted(a)

UpdateInv ==
    /\ mem = [l \in Locs |-> mem[l]]
    /\ settings.update /\ AllRegular /\ (mem # before \/ pc = "program") => Differs

LEMMA DiffersKept == ASSUME UNCHANGED <<input, rmap>> PROVE Differs' = Differs
<1>1. Planned' = Planned BY InputKeepsPlan DEF PlanUnchanged
<1> QED BY <1>1 DEF Differs, input, Wanted, InFile, Read

LEMMA RamCell ==
    ASSUME Accepted, NEW r \in ToSet(ranges), ~IsFlash(r), NEW a \in CellsOf(r)
    PROVE  Loc(a) = a /\ a \in Locs /\ a \in Int
<1>1. /\ {FlashStart, FlashEndRP2040, FlashEndRP2350, SramStart, SramEnd} \subseteq Nat
      /\ FlashEndRP2040 < FlashEndRP2350 /\ FlashEndRP2350 < SramStart
    BY LayoutAssumption
<1>2. Placed(r) BY AcceptedPlaced
<1>3. r.from \in SramStart..SramEnd /\ r.to \in SramStart..SramEnd BY <1>2, PlacedRegion
<1>4. a \in SramStart..(SramEnd - 1) BY <1>1, <1>3 DEF Cells, CellsOf
<1> QED BY <1>1, <1>4 DEF Loc, Locs

\* A batch of flash is erased when it is not what the file has, so before that it differs.
LEMMA EraseDiffers ==
    ASSUME LoadInv, UpdateInv, settings.update, AllRegular, pc = "load", IsFlash(ranges[i]), ~Skip
    PROVE  Differs
<1>1. CASE mem # before BY <1>1 DEF UpdateInv
<1>2. CASE mem = before
    <2>1. PICK a \in Cells(aligned_range) : Read(mem, a) # file_buf(a) BY DEF Skip
    <2>2. a \in BatchCells BY <2>1 DEF BatchCells
    <2>3. file_buf(a) = Wanted(a) BY <2>2, Padding
    <2>4. a \in Planned BY <2>1, BatchPlanned DEF LoadInv
    <2> QED BY <1>2, <2>1, <2>3, <2>4 DEF Differs
<1> QED BY <1>1, <1>2

\* RAM that is written with what it holds does not change.
LEMMA RamDiffers ==
    ASSUME LoadInv, UpdateInv, settings.update, AllRegular, pc = "load", ~IsFlash(ranges[i]),
           NEW S \in SUBSET Cells(read_range), Put(mem, [a \in S |-> Data(a)]) # before
    PROVE  Differs
<1>1. CASE mem # before BY <1>1 DEF UpdateInv
<1>2. CASE mem = before
    <2> DEFINE v == [a \in S |-> Data(a)]
    <2>1. /\ Accepted /\ ranges[i] \in ToSet(ranges) BY Batch DEF LoadInv
    <2>2. BatchCells = Cells(read_range) /\ BatchCells \subseteq CellsOf(ranges[i])
        BY BatchOf DEF BatchCells
    <2>3. \A a \in Cells(read_range) : Loc(a) = a /\ a \in Locs /\ a \in Int
        BY <2>1, <2>2, RamCell
    <2>4. DOMAIN mem = Locs /\ mem = [l \in Locs |-> mem[l]] BY DEF LoadInv, FlashInv, UpdateInv
    <2>5. \E a \in Cells(read_range) : mem[a] # Data(a)
        <3> SUFFICES ASSUME \A a \in Cells(read_range) : mem[a] = Data(a) PROVE FALSE
            OBVIOUS
        <3>1. ASSUME NEW l \in Locs PROVE Put(mem, v)[l] = mem[l]
            <4> DEFINE at == {a \in DOMAIN v : Loc(a) = l}
            <4>1. Put(mem, v)[l] = IF at = {} THEN mem[l] ELSE v[Max(at)]
                BY <2>4 DEF Put
            <4>2. CASE at = {} BY <4>1, <4>2
            <4>3. CASE at # {}
                <5>1. l \in S /\ l \in DOMAIN mem /\ l \in Int BY <2>3, <2>4, <4>3
                <5>2. \A a \in DOMAIN v : Loc(a) = a BY <2>3
                <5> HIDE DEF v
                <5>3. Put(mem, v)[l] = IF l \in DOMAIN v THEN v[l] ELSE mem[l]
                    BY <5>1, <5>2, PutOwn
                <5> QED BY <5>1, <5>3 DEF v
            <4> QED BY <4>2, <4>3
        <3>2. Put(mem, v) = [l \in Locs |-> Put(mem, v)[l]] BY <2>4 DEF Put
        <3>3. Put(mem, v) = mem BY <2>4, <3>1, <3>2
        <3> QED BY <1>2, <3>3
    <2>6. PICK a \in Cells(read_range) : mem[a] # Data(a) BY <2>5
    <2>7. Data(a) = Wanted(a) BY <2>2, Padding
    <2>8. a \in Planned BY BatchPlanned DEF LoadInv
    <2> QED BY <1>2, <2>3, <2>6, <2>7, <2>8 DEF Differs, Read
<1> QED BY <1>1, <1>2

LEMMA PutIsFunction ==
    ASSUME LoadInv, NEW v
    PROVE  Put(mem, v) = [l \in Locs |-> Put(mem, v)[l]]
BY DEF LoadInv, FlashInv, Put

LEMMA UpdateStep == LoadInv /\ UpdateInv /\ [Next]_vars => UpdateInv'
<1> SUFFICES ASSUME LoadInv, UpdateInv, [Next]_vars PROVE UpdateInv' OBVIOUS
<1>1. UNCHANGED input BY NextKeepsInput DEF vars
<1>2. settings' = settings /\ before' = before BY <1>1 DEF input
<1>3. /\ pc = "start" => mem = before
      /\ settings.update => settings.command = "load"
      /\ pc = "erase" => settings.command = "erase"
      /\ pc \in {"load", "program"} => settings.command = "load"
    BY DEF LoadInv, FlashInv, Loading, Erasing, InputInv
<1>4. CASE LoadCommand \/ VerifyCommand \/ EraseCommand \/ SaveCommand
    <2>1. pc = "start" /\ mem' = mem /\ pc' # "program"
        BY <1>4 DEF LoadCommand, VerifyCommand, EraseCommand, SaveCommand, AfterSaving, Fail
    <2> QED BY <1>2, <1>3, <2>1 DEF UpdateInv
<1>5. ASSUME UNCHANGED <<rmap, ranges>>, mem' = [l \in Locs |-> mem'[l]],
             settings.update /\ AllRegular /\ (mem' # before \/ pc' = "program") => Differs
      PROVE  UpdateInv'
    <2>1. Differs' = Differs BY <1>1, <1>5, DiffersKept
    <2>2. AllRegular' = AllRegular BY <1>5 DEF AllRegular
    <2> QED BY <1>2, <1>5, <2>1, <2>2 DEF UpdateInv
<1>6. ASSUME UNCHANGED <<rmap, ranges, mem>>, pc' # "program" \/ pc = "program" PROVE UpdateInv'
    BY <1>5, <1>6 DEF UpdateInv
<1>7. CASE Check \/ SkipBatch \/ Verify \/ Execute \/ SaveChunk \/ SaveVerify
    <2>1. UNCHANGED <<rmap, ranges, mem>>
        BY <1>7 DEF Check, SkipBatch, Verify, Execute, SaveChunk, SaveVerify, place
    <2>2. pc' # "program"
        BY <1>7 DEF Check, SkipBatch, Verify, Execute, SaveChunk, SaveVerify, Fail, ToRange, Advance,
                    AfterSaving
    <2> QED BY <1>6, <2>1, <2>2
<1>8. CASE UNCHANGED vars BY <1>6, <1>8 DEF vars, place
<1>9. CASE EraseBatch
    <2>1. /\ UNCHANGED <<rmap, ranges>> /\ pc = "load" /\ IsFlash(ranges[i]) /\ ~Skip
          /\ mem' = Put(mem, [a \in Cells(aligned_range) |-> Erased])
        BY <1>9 DEF EraseBatch, place
    <2>2. settings.update /\ AllRegular => Differs BY <2>1, EraseDiffers
    <2>3. mem' = [l \in Locs |-> mem'[l]] BY <2>1, PutIsFunction
    <2> QED BY <1>5, <2>1, <2>2, <2>3
<1>10. CASE ProgramBatch
    <2>1. /\ UNCHANGED <<rmap, ranges>> /\ pc = "program"
          /\ mem' = Put(mem, [a \in Cells(aligned_range) |-> file_buf(a)])
        BY <1>10 DEF ProgramBatch, place
    <2>2. settings.update /\ AllRegular => Differs BY <2>1 DEF UpdateInv
    <2>3. mem' = [l \in Locs |-> mem'[l]] BY <2>1, PutIsFunction
    <2> QED BY <1>5, <2>1, <2>2, <2>3
<1>11. CASE WriteRamBatch
    <2>1. /\ UNCHANGED <<rmap, ranges>> /\ pc = "load" /\ ~IsFlash(ranges[i])
          /\ mem' = Put(mem, [a \in Cells(read_range) |-> Data(a)])
          /\ pc' # "program"
        BY <1>11 DEF WriteRamBatch, place, Advance, ToRange
    <2>2. settings.update /\ AllRegular /\ mem' # before => Differs
        BY <2>1, RamDiffers
    <2>3. mem' = [l \in Locs |-> mem'[l]] BY <2>1, PutIsFunction
    <2> QED BY <1>5, <2>1, <2>2, <2>3
<1>12. CASE EraseSector
    <2>1. /\ UNCHANGED <<rmap, ranges>> /\ pc = "erase"
          /\ mem' = Put(mem, [a \in base..(base + Sector - 1) |-> Erased])
        BY <1>12 DEF EraseSector, place
    <2>2. mem' = [l \in Locs |-> mem'[l]] BY <2>1, PutIsFunction
    <2> QED BY <1>3, <1>5, <2>1, <2>2
<1>13. CASE ConnectionFails
    <2>1. UNCHANGED <<rmap, ranges>> /\ pc' = "failed" BY <1>13 DEF ConnectionFails, Fail, place
    <2>2. ASSUME NEW v, mem' = Put(mem, v) PROVE mem' = [l \in Locs |-> mem'[l]]
        BY <2>2, PutIsFunction
    <2>3. CASE pc = "load" /\ IsFlash(ranges[i])
        <3>1. PICK k \in Cells(aligned_range) :
                mem' = IF Skip THEN mem ELSE Put(mem, [a \in aligned_range.from..(k - 1) |-> Erased])
            BY <1>13, <2>3 DEF ConnectionFails
        <3>2. CASE Skip BY <1>6, <2>1, <3>1, <3>2
        <3>3. CASE ~Skip
            <4>1. settings.update /\ AllRegular => Differs BY <2>3, <3>3, EraseDiffers
            <4> QED BY <1>5, <2>1, <2>2, <3>1, <3>3, <4>1
        <3> QED BY <3>2, <3>3
    <2>4. CASE pc = "load" /\ ~IsFlash(ranges[i])
        <3>1. PICK k \in Cells(read_range) : mem' = Put(mem, [a \in base..(k - 1) |-> Data(a)])
            BY <1>13, <2>4 DEF ConnectionFails
        <3> DEFINE S == base..(k - 1)
        <3>2. S \in SUBSET Cells(read_range)
            <4>1. base \in Int /\ base + this_batch \in Int BY <2>4, Batch DEF LoadInv
            <4> QED BY <4>1 DEF Cells, read_range
        <3>3. mem' = Put(mem, [a \in S |-> Data(a)]) BY <3>1
        <3> HIDE DEF S
        <3>4. settings.update /\ AllRegular /\ mem' # before => Differs
            BY <2>4, <3>2, <3>3, RamDiffers
        <3> QED BY <1>5, <2>1, <2>2, <3>3, <3>4
    <2>5. CASE pc = "erase"
        <3>1. \E k \in {base, base + Sector} : mem' = Put(mem, [a \in base..(k - 1) |-> Erased])
            BY <1>13, <2>5 DEF ConnectionFails
        <3>2. mem' = [l \in Locs |-> mem'[l]] BY <2>2, <3>1
        <3> QED BY <1>3, <1>5, <2>1, <2>5, <3>2
    <2>6. CASE pc = "program"
        <3>1. \E k \in Cells(aligned_range) :
                mem' = Put(mem, [a \in aligned_range.from..(k - 1) |-> file_buf(a)])
            BY <1>13, <2>6 DEF ConnectionFails
        <3>2. mem' = [l \in Locs |-> mem'[l]] BY <2>2, <3>1
        <3>3. settings.update /\ AllRegular => Differs BY <2>6 DEF UpdateInv
        <3> QED BY <1>5, <2>1, <3>2, <3>3
    <2>7. CASE pc \notin {"load", "erase", "program"}
        <3>1. mem' = mem BY <1>13, <2>7 DEF ConnectionFails
        <3> QED BY <1>6, <2>1, <3>1
    <2> QED BY <2>3, <2>4, <2>5, <2>6, <2>7
<1> QED BY <1>4, <1>7, <1>8, <1>9, <1>10, <1>11, <1>12, <1>13 DEF Next

LEMMA UpdateInitially == Init => UpdateInv
<1> SUFFICES ASSUME Init PROVE UpdateInv OBVIOUS
<1>1. pc = "start" /\ mem = before BY DEF Init
<1>2. mem = [l \in Locs |-> mem[l]]
    <2>1. PICK f, needed : \E d \in Devices(f, needed, settings) : mem = d.mem BY DEF Init
    <2> QED BY <2>1 DEF Devices, Unknown, Known, Twice, Loaded, Holding
<1> QED BY <1>1, <1>2 DEF UpdateInv

-----------------------------------------------------------------------------
(* A load has written what is before the place it has reached.             *)

Certain == settings.command = "load" /\ AllRegular /\ (SizeKnown \/ Fits)

\* The cells that are written, and will not be written again.
AlreadyLoaded(a) ==
    \/ \E k \in DOMAIN ranges : k < i /\ a \in Cells(ranges[k])
    \/ a \in ranges[i].from..(base - 1)

LoadedInv ==
    Certain =>
        /\ pc \in {"load", "program"} => \A a : AlreadyLoaded(a) => Read(mem, a) = Wanted(a)
        /\ pc \in {"verify", "execute", "done"} => Matches

LEMMA CertainKept == ASSUME UNCHANGED <<input, ranges>> PROVE Certain' = Certain
<1>1. AllRegular' = AllRegular BY DEF AllRegular
<1>2. FlashRanges' = FlashRanges BY DEF FlashRanges, IsFlash
<1>3. SizeKnown' = SizeKnown BY DEF SizeKnown, guess_flash_size, input, FirstPages, Read
<1>4. Fits' = Fits BY <1>2 DEF Fits, flash_min, flash_max
<1> QED BY <1>1, <1>3, <1>4 DEF Certain, input

\* What is behind is none of the batch, and both are cells of the device.
LEMMA BehindBatch ==
    ASSUME LoadInv, Certain, pc \in {"load", "program"}
    PROVE  /\ \A a : AlreadyLoaded(a) => Loc(a) = a /\ a \in Locs /\ a \in Int /\ a \notin BatchCells
           /\ \A a \in BatchCells : Loc(a) = a /\ a \in Locs /\ a \in Int
<1>1. /\ InputInv /\ Accepted /\ i \in DOMAIN ranges /\ ranges[i] \in ToSet(ranges)
      /\ ranges[i].from \in Int /\ ranges[i].to \in Int /\ base \in Int
      /\ this_batch \in Int /\ base + this_batch <= ranges[i].to
    BY Batch DEF LoadInv
<1>2. AllRegular /\ (SizeKnown \/ Fits) BY DEF Certain
<1>3. ASSUME NEW r \in ToSet(ranges), NEW a \in CellsOf(r) PROVE Loc(a) = a /\ a \in Locs /\ a \in Int
    <2>1. Loc(a) = a /\ a \in Locs BY <1>1, <1>2, OwnCell DEF CellsOf
    <2>2. Locs \subseteq Int BY LayoutAssumption DEF Locs
    <2> QED BY <2>1, <2>2
<1>4. BatchCells \subseteq CellsOf(ranges[i]) BY <1>2, BatchOf
<1>5. ASSUME NEW k \in DOMAIN ranges, NEW a \in Cells(ranges[k]) PROVE a \in CellsOf(ranges[k])
    <2>1. ranges[k] \in FileRanges BY <1>1, Coalescence DEF Accepted
    <2>2. ranges[k].from \in Int /\ ranges[k].to \in Int BY <2>1 DEF FileRanges
    <2>3. /\ RoundDown(ranges[k].from) \in Int /\ RoundDown(ranges[k].from) <= ranges[k].from
          /\ RoundUp(ranges[k].to) \in Int /\ ranges[k].to <= RoundUp(ranges[k].to)
        BY <2>2, RoundingDown, RoundingUp
    <2> QED BY <1>5, <2>2, <2>3 DEF CellsOf, Cells, AlignedRange
<1>6. ASSUME NEW a, AlreadyLoaded(a) PROVE Loc(a) = a /\ a \in Locs /\ a \in Int /\ a \notin BatchCells
    <2>1. CASE \E k \in DOMAIN ranges : k < i /\ a \in Cells(ranges[k])
        <3>1. PICK k \in DOMAIN ranges : k < i /\ a \in Cells(ranges[k]) BY <2>1
        <3>2. ranges[k] \in ToSet(ranges) BY <3>1 DEF ToSet
        <3>3. Loc(a) = a /\ a \in Locs /\ a \in Int BY <1>3, <1>5, <3>1, <3>2
        <3>4. ASSUME a \in BatchCells PROVE FALSE
            <4>1. a < a BY <1>1, <1>4, <3>1, <3>4, Earlier
            <4> QED BY <3>3, <4>1
        <3> QED BY <3>3, <3>4
    <2>2. CASE a \in ranges[i].from..(base - 1)
        <3>0. base < ranges[i].to BY <1>2 DEF LoadInv, Batching
        <3>1. a \in Cells(ranges[i]) BY <1>1, <2>2, <3>0 DEF Cells
        <3>2. Loc(a) = a /\ a \in Locs /\ a \in Int BY <1>1, <1>3, <1>5, <3>1
        <3>3. a \notin BatchCells BY <1>1, <1>2, <2>2, BatchOf
        <3> QED BY <3>2, <3>3
    <2> QED BY <1>6, <2>1, <2>2 DEF AlreadyLoaded
<1>7. \A a \in BatchCells : Loc(a) = a /\ a \in Locs /\ a \in Int BY <1>1, <1>3, <1>4
<1> QED BY <1>6, <1>7

\* A write of the batch, or a part of it, leaves what is behind, and is found where it went.
LEMMA BatchWrites ==
    ASSUME LoadInv, Certain, pc \in {"load", "program"}, NEW v, DOMAIN v = BatchCells
    PROVE  /\ \A a : AlreadyLoaded(a) => Read(Put(mem, v), a) = Read(mem, a)
           /\ \A a \in BatchCells : Read(Put(mem, v), a) = v[a]
<1>1. DOMAIN mem = Locs BY DEF LoadInv, FlashInv
<1>2. \A a \in DOMAIN v : Loc(a) = a BY BehindBatch
<1>3. ASSUME NEW a, AlreadyLoaded(a) PROVE Read(Put(mem, v), a) = Read(mem, a)
    <2>1. Loc(a) = a /\ a \in Locs /\ a \in Int /\ a \notin DOMAIN v BY <1>3, BehindBatch
    <2>2. Put(mem, v)[a] = IF a \in DOMAIN v THEN v[a] ELSE mem[a] BY <1>1, <1>2, <2>1, PutOwn
    <2> QED BY <2>1, <2>2 DEF Read
<1>4. ASSUME NEW a \in BatchCells PROVE Read(Put(mem, v), a) = v[a]
    <2>1. Loc(a) = a /\ a \in Locs /\ a \in Int BY BehindBatch
    <2>2. Put(mem, v)[a] = IF a \in DOMAIN v THEN v[a] ELSE mem[a] BY <1>1, <1>2, <2>1, PutOwn
    <2> QED BY <2>1, <2>2 DEF Read
<1> QED BY <1>3, <1>4

\* Past a batch that is as wanted, more is.
LEMMA AdvanceLoads ==
    ASSUME LoadInv, Certain, pc \in {"load", "program"}, Advance, UNCHANGED <<rmap, ranges>>,
           \A a : AlreadyLoaded(a) \/ a \in BatchCells => Read(mem', a) = Wanted(a)
    PROVE  /\ pc' \in {"load", "program"} => \A a : AlreadyLoaded(a)' => Read(mem, a)' = Wanted(a)'
           /\ pc' \in {"verify", "execute", "done"} => Matches'
<1>1. /\ i \in DOMAIN ranges /\ i \in Int /\ ranges[i].from \in Int /\ ranges[i].to \in Int
      /\ base \in Int /\ ranges[i].from <= base /\ this_batch \in Int /\ base + this_batch \in Int
      /\ base + this_batch <= ranges[i].to /\ InputInv /\ Located
    BY Batch DEF LoadInv
<1>2. AllRegular BY DEF Certain
<1>3. DOMAIN ranges = 1..Len(ranges) /\ Len(ranges) \in Nat BY <1>1, Coalescence
<1>4. \A a : Wanted(a)' = Wanted(a) /\ Read(mem, a)' = Read(mem', a) BY DEF Wanted, InFile, Read
<1>5. Cells(read_range) \subseteq BatchCells BY <1>2, BatchOf
<1>6. Cells(read_range) = base..((base + this_batch) - 1) BY DEF Cells, read_range
<1>7. ASSUME NEW a \in ranges[i].from..((base + this_batch) - 1) PROVE Read(mem', a) = Wanted(a)
    <2>1. CASE a \in ranges[i].from..(base - 1) BY <2>1 DEF AlreadyLoaded
    <2>2. CASE a \notin ranges[i].from..(base - 1)
        <3>1. a \in Cells(read_range) BY <1>1, <1>6, <2>2
        <3> QED BY <1>5, <3>1
    <2> QED BY <2>1, <2>2
<1>8. ASSUME NEW k \in DOMAIN ranges, k < i, NEW a \in Cells(ranges[k])
      PROVE  Read(mem', a) = Wanted(a)
    BY <1>8 DEF AlreadyLoaded
<1>9. CASE base + this_batch < ranges[i].to
    <2>1. pc' = "load" /\ base' = base + this_batch /\ i' = i BY <1>9 DEF Advance
    <2>2. ASSUME NEW a, AlreadyLoaded(a)' PROVE Read(mem', a) = Wanted(a)
        <3>1. \/ \E k \in DOMAIN ranges : k < i /\ a \in Cells(ranges[k])
              \/ a \in ranges[i].from..((base + this_batch) - 1)
            BY <2>1, <2>2 DEF AlreadyLoaded
        <3> QED BY <1>7, <1>8, <3>1
    <2> QED BY <1>4, <2>1, <2>2
<1>10. CASE ~(base + this_batch < ranges[i].to)
    <2>1. ToRange(i + 1) BY <1>10 DEF Advance
    <2>2. base + this_batch = ranges[i].to BY <1>1, <1>10
    <2>3. ASSUME NEW k \in DOMAIN ranges, k < i + 1, NEW a \in Cells(ranges[k])
          PROVE  Read(mem', a) = Wanted(a)
        <3>1. CASE k < i BY <1>8, <3>1
        <3>2. CASE k = i BY <1>7, <2>2, <2>3, <3>2 DEF Cells
        <3> QED BY <1>1, <1>3, <2>3, <3>1, <3>2
    <2>4. CASE i + 1 \in DOMAIN ranges
        <3>1. pc' = "load" /\ i' = i + 1 /\ base' = ranges[i + 1].from BY <2>1, <2>4 DEF ToRange
        <3>2. ranges[i + 1].from \in Int
            BY <1>1, <2>4, Coalescence DEF FileRanges
        <3>3. ASSUME NEW a, AlreadyLoaded(a)' PROVE Read(mem', a) = Wanted(a)
            <4>1. \/ \E k \in DOMAIN ranges : k < i + 1 /\ a \in Cells(ranges[k])
                  \/ a \in ranges[i + 1].from..(ranges[i + 1].from - 1)
                BY <3>1, <3>3 DEF AlreadyLoaded
            <4> QED BY <2>3, <3>2, <4>1
        <3> QED BY <1>4, <3>1, <3>3
    <2>5. CASE i + 1 \notin DOMAIN ranges
        <3>1. pc' = "verify" BY <2>1, <2>5 DEF ToRange
        <3>2. \A k \in DOMAIN ranges : k < i + 1 BY <1>1, <1>3, <2>5
        <3>3. \A r \in ToSet(ranges) : \A a \in Cells(r) : Read(mem', a) = Wanted(a)
            BY <2>3, <3>2 DEF ToSet
        <3>4. Matches' BY <1>4, <3>3 DEF Matches, MatchesIn
        <3> QED BY <3>1, <3>4
    <2> QED BY <2>4, <2>5
<1> QED BY <1>9, <1>10

LEMMA LoadedStep == LoadInv /\ LoadedInv /\ [Next]_vars => LoadedInv'
<1> SUFFICES ASSUME LoadInv, LoadedInv, [Next]_vars PROVE LoadedInv' OBVIOUS
<1>1. UNCHANGED input BY NextKeepsInput DEF vars
<1>2. settings' = settings /\ before' = before BY <1>1 DEF input
<1>3. /\ pc = "erase" => settings.command = "erase"
      /\ pc \in {"check", "load", "program"} => settings.command = "load"
      /\ pc \in {"save", "compare"} => settings.command = "save"
    BY DEF LoadInv, FlashInv, Loading, Erasing, AcceptInv
<1>4. CASE pc' \notin {"load", "program", "verify", "execute", "done"} BY <1>4 DEF LoadedInv
<1>5. CASE settings.command # "load" BY <1>2, <1>5 DEF LoadedInv, Certain
<1>6. ASSUME UNCHANGED <<rmap, ranges>>,
             Certain => /\ pc' \in {"load", "program"} => \A a : AlreadyLoaded(a)' => Read(mem, a)' = Wanted(a)'
                        /\ pc' \in {"verify", "execute", "done"} => Matches'
      PROVE  LoadedInv'
    <2>1. Certain' = Certain BY <1>1, <1>6, CertainKept
    <2> QED BY <1>6, <2>1 DEF LoadedInv
<1>7. CASE VerifyCommand \/ EraseCommand \/ SaveCommand
    <2>1. settings.command # "load" BY <1>7 DEF VerifyCommand, EraseCommand, SaveCommand
    <2> QED BY <1>5, <2>1
<1>8. CASE EraseSector \/ SaveChunk \/ SaveVerify
    <2>1. settings.command # "load" BY <1>3, <1>8 DEF EraseSector, SaveChunk, SaveVerify
    <2> QED BY <1>5, <2>1
<1>9. CASE LoadCommand \/ ConnectionFails
    <2>1. pc' \in {"check", "failed"} BY <1>9 DEF LoadCommand, ConnectionFails, Fail
    <2> QED BY <1>4, <2>1
<1>10. CASE Check /\ pc' # "failed"
    <2>1. UNCHANGED <<rmap, ranges, mem>> /\ pc = "check" /\ ToRange(1) BY <1>10 DEF Check, place, Fail
    <2>2. InputInv /\ Located BY <1>3, <2>1 DEF LoadInv, AcceptInv
    <2>3. DOMAIN ranges = 1..Len(ranges) /\ Len(ranges) \in Nat BY <2>2, Coalescence
    <2>4. CASE 1 \in DOMAIN ranges
        <3>1. pc' = "load" /\ i' = 1 /\ base' = ranges[1].from BY <2>1, <2>4 DEF ToRange
        <3>2. ranges[1].from \in Int BY <2>2, <2>4, Coalescence DEF FileRanges
        <3>3. ASSUME NEW a PROVE ~AlreadyLoaded(a)'
            <4>1. AlreadyLoaded(a)' <=> \/ \E k \in DOMAIN ranges : k < 1 /\ a \in Cells(ranges[k])
                                 \/ a \in ranges[1].from..(ranges[1].from - 1)
                BY <2>1, <3>1 DEF AlreadyLoaded
            <4> QED BY <2>3, <3>2, <4>1
        <3> QED BY <1>6, <2>1, <3>1, <3>3
    <2>5. CASE 1 \notin DOMAIN ranges
        <3>1. pc' = "verify" BY <2>1, <2>5 DEF ToRange
        <3>2. DOMAIN ranges = {} BY <2>3, <2>5
        <3>3. Matches' BY <2>1, <3>2 DEF Matches, ToSet
        <3> QED BY <1>6, <2>1, <3>1, <3>3
    <2> QED BY <2>4, <2>5
<1>11. CASE SkipBatch
    <2>1. UNCHANGED <<rmap, ranges, mem>> /\ pc = "load" /\ IsFlash(ranges[i]) /\ Skip /\ Advance
        BY <1>11 DEF SkipBatch, place
    <2>2. ASSUME Certain PROVE \A a : AlreadyLoaded(a) \/ a \in BatchCells => Read(mem', a) = Wanted(a)
        <3>1. \A a : AlreadyLoaded(a) => Read(mem', a) = Wanted(a) BY <2>1, <2>2 DEF LoadedInv
        <3>2. ASSUME NEW a \in BatchCells PROVE Read(mem', a) = Wanted(a)
            <4>1. file_buf(a) = Wanted(a) BY <2>1, <2>2, Padding DEF Certain
            <4>2. Read(mem, a) = file_buf(a) BY <2>1 DEF Skip, BatchCells
            <4> QED BY <2>1, <4>1, <4>2
        <3> QED BY <3>1, <3>2
    <2> QED BY <1>6, <2>1, <2>2, AdvanceLoads
<1>12. CASE EraseBatch
    <2>1. /\ UNCHANGED <<rmap, ranges, i, base>> /\ pc = "load" /\ IsFlash(ranges[i]) /\ pc' = "program"
          /\ mem' = Put(mem, [a \in Cells(aligned_range) |-> Erased])
        BY <1>12 DEF EraseBatch, place
    <2>2. ASSUME Certain, NEW a, AlreadyLoaded(a)' PROVE Read(mem, a)' = Wanted(a)'
        <3> DEFINE v == [x \in Cells(aligned_range) |-> Erased]
        <3>1. AlreadyLoaded(a) BY <2>1, <2>2 DEF AlreadyLoaded
        <3>2. DOMAIN v = BatchCells BY <2>1 DEF BatchCells
        <3>3. mem' = Put(mem, v) BY <2>1
        <3> HIDE DEF v
        <3>4. Read(mem', a) = Read(mem, a) BY <2>1, <2>2, <3>1, <3>2, <3>3, BatchWrites
        <3>5. Read(mem, a) = Wanted(a) BY <2>1, <2>2, <3>1 DEF LoadedInv
        <3>6. Wanted(a)' = Wanted(a) /\ Read(mem, a)' = Read(mem', a)
            BY <2>1 DEF Wanted, InFile, Read
        <3> QED BY <3>4, <3>5, <3>6
    <2> QED BY <1>6, <2>1, <2>2
<1>13. CASE ProgramBatch
    <2>1. /\ UNCHANGED <<rmap, ranges>> /\ pc = "program" /\ Advance
          /\ mem' = Put(mem, [a \in Cells(aligned_range) |-> file_buf(a)])
        BY <1>13 DEF ProgramBatch, place
    <2>2. IsFlash(ranges[i]) BY <2>1 DEF LoadInv, FlashInv, Loading
    <2>3. ASSUME Certain PROVE \A a : AlreadyLoaded(a) \/ a \in BatchCells => Read(mem', a) = Wanted(a)
        <3> DEFINE v == [x \in Cells(aligned_range) |-> file_buf(x)]
        <3>1. DOMAIN v = BatchCells /\ \A a \in BatchCells : v[a] = file_buf(a)
            BY <2>2 DEF BatchCells
        <3>2. mem' = Put(mem, v) BY <2>1
        <3> HIDE DEF v
        <3>3. \A a : AlreadyLoaded(a) => Read(mem', a) = Read(mem, a)
            BY <2>1, <2>3, <3>1, <3>2, BatchWrites
        <3>4. \A a \in BatchCells : Read(mem', a) = v[a]
            BY <2>1, <2>3, <3>1, <3>2, BatchWrites
        <3>5. \A a \in BatchCells : file_buf(a) = Wanted(a)
            BY <2>1, <2>2, <2>3, Padding DEF Certain
        <3>6. \A a : AlreadyLoaded(a) => Read(mem, a) = Wanted(a) BY <2>1, <2>3 DEF LoadedInv
        <3> QED BY <3>1, <3>3, <3>4, <3>5, <3>6
    <2> QED BY <1>6, <2>1, <2>3, AdvanceLoads
<1>14. CASE WriteRamBatch
    <2>1. /\ UNCHANGED <<rmap, ranges>> /\ pc = "load" /\ ~IsFlash(ranges[i]) /\ Advance
          /\ mem' = Put(mem, [a \in Cells(read_range) |-> Data(a)])
        BY <1>14 DEF WriteRamBatch, place
    <2>2. ASSUME Certain PROVE \A a : AlreadyLoaded(a) \/ a \in BatchCells => Read(mem', a) = Wanted(a)
        <3> DEFINE v == [x \in Cells(read_range) |-> Data(x)]
        <3>1. DOMAIN v = BatchCells /\ \A a \in BatchCells : v[a] = Data(a)
            BY <2>1 DEF BatchCells
        <3>2. mem' = Put(mem, v) BY <2>1
        <3> HIDE DEF v
        <3>3. \A a : AlreadyLoaded(a) => Read(mem', a) = Read(mem, a)
            BY <2>1, <2>2, <3>1, <3>2, BatchWrites
        <3>4. \A a \in BatchCells : Read(mem', a) = v[a]
            BY <2>1, <2>2, <3>1, <3>2, BatchWrites
        <3>5. \A a \in BatchCells : Data(a) = Wanted(a)
            BY <2>1, <2>2, Padding DEF Certain
        <3>6. \A a : AlreadyLoaded(a) => Read(mem, a) = Wanted(a) BY <2>1, <2>2 DEF LoadedInv
        <3> QED BY <3>1, <3>3, <3>4, <3>5, <3>6
    <2> QED BY <1>6, <2>1, <2>2, AdvanceLoads
<1>15. CASE Verify \/ Execute
    <2>1. /\ UNCHANGED <<rmap, ranges, mem>> /\ pc \in {"verify", "execute"}
          /\ pc' \in {"execute", "done", "failed"}
        BY <1>15 DEF Verify, Execute, Fail, place
    <2>2. Matches' = Matches BY <2>1 DEF Matches, MatchesIn, Wanted, InFile, Read
    <2> QED BY <1>6, <2>1, <2>2 DEF LoadedInv
<1>16. CASE UNCHANGED vars
    <2>1. UNCHANGED <<rmap, ranges, mem, i, base, pc>> BY <1>16 DEF vars, place
    <2>2. Matches' = Matches BY <2>1 DEF Matches, MatchesIn, Wanted, InFile, Read
    <2>3. \A a : AlreadyLoaded(a)' = AlreadyLoaded(a) /\ Read(mem, a)' = Read(mem, a) /\ Wanted(a)' = Wanted(a)
        BY <2>1 DEF AlreadyLoaded, Wanted, InFile, Read
    <2> QED BY <1>6, <2>1, <2>2, <2>3 DEF LoadedInv
<1>17. CASE Check /\ pc' = "failed" BY <1>4, <1>17
<1> QED BY <1>7, <1>8, <1>9, <1>10, <1>11, <1>12, <1>13, <1>14, <1>15, <1>16, <1>17 DEF Next

-----------------------------------------------------------------------------
(* The size of the flash.                                                  *)

\* When the first pages are not seen again before the end of the chip, its size is
\* what is guessed.
LEMMA GuessedRight ==
    ASSUME ~SeenAgain, guess_flash_size(before) # 0
    PROVE  guess_flash_size(before) = FlashSize
<1> DEFINE fresh == {s \in GuessedSizes : FirstPages(before, s) # FirstPages(before, 0)}
<1>1. /\ FlashSize \in Nat \ {0} /\ MinGuess \in Nat \ {0} /\ MaxGuess \in Nat
      /\ MinGuess \in GuessedSizes /\ FlashSize <= 2 * MaxGuess
      /\ \A s \in GuessedSizes : s = MaxGuess \/ 2 * s \in GuessedSizes
    BY DeviceAssumption, GuessAssumption
<1>2. \A s \in GuessedSizes : s \in Nat \ {0} /\ s <= MaxGuess BY <1>1 DEF GuessedSizes
<1>3. \A s \in GuessedSizes : s < FlashSize => s \in fresh BY DEF SeenAgain
<1>4. FlashSize <= guess_flash_size(before)
    <2>1. CASE fresh = {}
        <3>1. guess_flash_size(before) = MinGuess BY <2>1 DEF guess_flash_size
        <3> QED BY <1>1, <1>3, <2>1, <3>1
    <2>2. CASE fresh # {}
        <3>1. guess_flash_size(before) = 2 * Max(fresh) BY <2>2 DEF guess_flash_size
        <3>2. fresh \in SUBSET (0..MaxGuess) /\ 0 \in Int /\ MaxGuess \in Int
            <4>1. \A s \in GuessedSizes : s \in 0..MaxGuess BY <1>1, <1>2
            <4>2. \A s \in fresh : s \in GuessedSizes OBVIOUS
            <4>3. MaxGuess \in Int BY <1>1
            <4> HIDE DEF fresh
            <4>4. \A s \in fresh : s \in 0..MaxGuess BY <4>1, <4>2
            <4> QED BY <4>3, <4>4
        <3>3. Max(fresh) \in fresh /\ \A s \in fresh : s <= Max(fresh)
            <4> HIDE DEF fresh
            <4> QED BY <2>2, <3>2, Largest
        <3>4. Max(fresh) \in GuessedSizes BY <3>3
        <3> DEFINE m == Max(fresh)
        <3>5. m \in Nat \ {0} /\ (m = MaxGuess \/ 2 * m \in GuessedSizes) BY <1>1, <1>2, <3>4
        <3>6. \A s \in GuessedSizes : s < FlashSize => s <= m BY <1>3, <3>3
        <3> HIDE DEF m, fresh
        <3>7. FlashSize <= 2 * m BY <1>1, <3>5, <3>6
        <3> QED BY <3>1, <3>7 DEF m
    <2> QED BY <2>1, <2>2
<1>5. guess_flash_size(before) \in Nat /\ guess_flash_size(before) <= FlashSize
    BY GuessInSectors, GuessNotTooLarge
<1> QED BY <1>1, <1>4, <1>5

-----------------------------------------------------------------------------
(* An erase has erased what is before the sector it has reached.           *)

EraseInv ==
    /\ pc = "erase" =>
          /\ FlashStart <= ToErase(before).from /\ ToErase(before).to <= FlashEnd
          /\ \A a \in ToErase(before).from..(base - 1) : Read(mem, a) = Erased
    /\ pc = "done" /\ settings.command = "erase" =>
          /\ PartitionRefusal = "none"
          /\ ToErase(before).from \in Int /\ ToErase(before).to \in Int
          /\ ToErase(before).from < ToErase(before).to
          /\ \A a \in Cells(ToErase(before)) : Read(mem, a) = Erased
    /\ pc \in {"verify", "execute"} => settings.command \in {"load", "verify"}

LEMMA InDevice ==
    ASSUME NEW a \in FlashStart..(FlashEnd - 1)
    PROVE  Loc(a) \in Locs
<1>1. /\ {FlashStart, FlashEnd, FlashEndRP2040, FlashEndRP2350} \subseteq Nat
      /\ FlashStart < FlashEndRP2040 /\ FlashEnd <= FlashEndRP2350
      /\ FlashSize \in Nat \ {0}
    BY LayoutAssumption, DeviceAssumption
<1>2. CASE a \in FlashStart..(FlashEndRP2040 - 1)
    <2> DEFINE r == (a - FlashStart) % FlashSize
    <2>1. a - FlashStart \in Int BY <1>1, <1>2
    <2>2. r \in 0..(FlashSize - 1) BY <1>1, <2>1
    <2>3. Loc(a) = FlashStart + r BY <1>2 DEF Loc
    <2> HIDE DEF r
    <2> QED BY <1>1, <2>2, <2>3 DEF Locs
<1>3. CASE a \notin FlashStart..(FlashEndRP2040 - 1) BY <1>1, <1>3 DEF Loc, Locs
<1> QED BY <1>2, <1>3

\* Cells that are erased stay so, and those of the sector are erased.
LEMMA SectorErased ==
    ASSUME DOMAIN mem = Locs, NEW low \in Int, NEW high \in Int,
           FlashStart <= low, high <= FlashEnd - 1
    PROVE  \A a \in Int : a \in low..high \/ Read(mem, a) = Erased =>
               (Loc(a) \in Locs => Read(Put(mem, [x \in low..high |-> Erased]), a) = Erased)
<1> DEFINE v == [x \in low..high |-> Erased]
<1> SUFFICES ASSUME NEW a \in Int, a \in low..high \/ Read(mem, a) = Erased, Loc(a) \in Locs
             PROVE  Read(Put(mem, v), a) = Erased
    OBVIOUS
<1> DEFINE at == {x \in DOMAIN v : Loc(x) = Loc(a)}
<1>1. Read(Put(mem, v), a) = IF at = {} THEN mem[Loc(a)] ELSE v[Max(at)] BY DEF Read, Put
<1>2. CASE at = {}
    <2>1. a \notin low..high BY <1>2
    <2> QED BY <1>1, <1>2, <2>1 DEF Read
<1>3. CASE at # {}
    <2>1. at \in SUBSET (low..high) OBVIOUS
    <2>2. Max(at) \in at
        <3> HIDE DEF at
        <3> QED BY <1>3, <2>1, Largest
    <2>3. v[Max(at)] = Erased BY <2>2
    <2> QED BY <1>1, <1>3, <2>3
<1> QED BY <1>2, <1>3

LEMMA EraseStep == FlashInv /\ InputInv /\ AcceptInv /\ EraseInv /\ [Next]_vars => EraseInv'
<1> SUFFICES ASSUME FlashInv, InputInv, AcceptInv, EraseInv, [Next]_vars PROVE EraseInv' OBVIOUS
<1>1. UNCHANGED input BY NextKeepsInput DEF vars
<1>2. settings' = settings /\ before' = before /\ ToErase(before)' = ToErase(before)
      /\ PartitionRefusal' = PartitionRefusal
    BY <1>1, InputKeepsPlan DEF input, PlanUnchanged
<1>3. /\ pc \in {"check", "load", "program"} => settings.command = "load"
      /\ pc \in {"save", "compare"} => settings.command = "save"
      /\ pc = "start" => mem = before
    BY DEF FlashInv, Loading, AcceptInv
<1>4. CASE pc' \notin {"erase", "done", "verify", "execute"} BY <1>4 DEF EraseInv
<1>5. CASE settings.command # "erase" /\ pc' \notin {"erase", "verify", "execute"}
    BY <1>2, <1>5 DEF EraseInv
<1>6. CASE settings.command \in {"load", "verify"} /\ pc' # "erase"
    BY <1>2, <1>6 DEF EraseInv
<1>7. CASE LoadCommand \/ ConnectionFails
    BY <1>4, <1>7 DEF LoadCommand, ConnectionFails, Fail
<1>8. CASE VerifyCommand BY <1>6, <1>8 DEF VerifyCommand
<1>9. CASE SaveCommand
    BY <1>5, <1>9 DEF SaveCommand, AfterSaving, Fail
<1>10. CASE SaveChunk \/ SaveVerify
    BY <1>3, <1>5, <1>10 DEF SaveChunk, SaveVerify, AfterSaving, Fail
<1>11. CASE Check \/ SkipBatch \/ EraseBatch \/ ProgramBatch \/ WriteRamBatch
    <2>1. settings.command = "load" /\ pc' # "erase"
        BY <1>3, <1>11 DEF Check, SkipBatch, EraseBatch, ProgramBatch, WriteRamBatch, Advance, ToRange, Fail
    <2> QED BY <1>6, <2>1
<1>12. CASE Verify \/ Execute
    <2>1. settings.command \in {"load", "verify"} /\ pc' # "erase"
        BY <1>12 DEF Verify, Execute, Fail, EraseInv
    <2> QED BY <1>6, <2>1
<1>13. CASE EraseCommand
    <2>1. CASE pc' = "failed" BY <1>4, <2>1
    <2>2. CASE /\ EraseRefusal = "none" /\ pc' = "erase" /\ base' = ToErase(mem).from
        <3> DEFINE r == ToErase(before)
        <3>0. pc = "start" BY <1>13 DEF EraseCommand
        <3>1. mem = before BY <1>3, <3>0
        <3>2. PartitionRefusal = "none" BY <2>2 DEF EraseRefusal
        <3>3. EraseRefusal =
                CASE r.to <= r.from -> "empty_range"
                  [] ~(r.to <= r.from) /\ {get_memory_type(r.from), get_memory_type(r.to)} # {"flash"} ->
                        "not_flash"
                  [] OTHER -> "none"
            BY <3>1, <3>2 DEF EraseRefusal
        <3>4. {get_memory_type(r.from), get_memory_type(r.to)} = {"flash"} BY <2>2, <3>3
        <3>5. \A a : get_memory_type(a) = "flash" => a \in FlashStart..FlashEnd
            BY DEF get_memory_type
        <3>6. r.from \in FlashStart..FlashEnd /\ r.to \in FlashStart..FlashEnd BY <3>4, <3>5
        <3>7. FlashStart <= r.from /\ r.to <= FlashEnd /\ r.from \in Int BY <3>6, LayoutAssumption
        <3>8. base' = r.from BY <2>2, <3>1
        <3>9. \A a \in r.from..(base' - 1) : FALSE BY <3>7, <3>8
        <3> QED BY <1>2, <2>2, <3>7, <3>9 DEF EraseInv
    <2> QED BY <1>13, <2>1, <2>2 DEF EraseCommand, Fail
<1>14. CASE EraseSector
    <2> DEFINE r == ToErase(before)
    <2>1. /\ pc = "erase" /\ mem' = Put(mem, [x \in base..(base + Sector - 1) |-> Erased])
          /\ base' = base + Sector
          /\ pc' = IF base' < ranges[i].to THEN "erase" ELSE "done"
        BY <1>14 DEF EraseSector
    <2>2. /\ settings.command = "erase" /\ PartitionRefusal = "none" /\ ranges[i] = r
          /\ base \in Int /\ base % Sector = 0 /\ r.from \in Int /\ r.to \in Int
          /\ r.from <= base /\ base < r.to /\ r.to % Sector = 0
        BY <2>1 DEF FlashInv, Erasing
    <2>3. /\ FlashStart <= r.from /\ r.to <= FlashEnd
          /\ \A a \in r.from..(base - 1) : Read(mem, a) = Erased
        BY <2>1 DEF EraseInv
    <2>4. FlashStart \in Nat /\ FlashEnd \in Nat /\ Sector \in Nat \ {0}
        BY LayoutAssumption, SectorAssumption
    <2>5. base + Sector <= r.to BY <2>2, RoomForSector
    <2> HIDE DEF r
    <2>6. /\ base + Sector - 1 \in Int /\ FlashStart <= base
          /\ base + Sector - 1 <= FlashEnd - 1 /\ base + Sector \in Int
        BY <2>2, <2>3, <2>4, <2>5
    <2>7. \A a \in Int : a \in base..(base + Sector - 1) \/ Read(mem, a) = Erased =>
             (Loc(a) \in Locs => Read(mem', a) = Erased)
        BY <2>1, <2>2, <2>6, SectorErased DEF FlashInv
    <2>8. ASSUME NEW a \in r.from..(base' - 1) PROVE Read(mem, a)' = Erased
        <3>1. a \in Int /\ a \in FlashStart..(FlashEnd - 1)
              /\ (a \in r.from..(base - 1) \/ a \in base..(base + Sector - 1))
            <4>1. a \in r.from..((base + Sector) - 1) /\ a \in Int BY <2>1, <2>2, <2>6, <2>8
            <4>2. Sector \in Int /\ base \in Int /\ r.from \in Int /\ FlashStart \in Int /\ FlashEnd \in Int
                BY <2>2, <2>4
            <4>3. a \in r.from..(base - 1) \/ a \in base..(base + Sector - 1)
                BY ONLY <4>1, <4>2
            <4>4. a \in FlashStart..(FlashEnd - 1) BY <2>3, <2>6, <4>1, <4>2
            <4> QED BY <4>1, <4>3, <4>4
        <3>2. Loc(a) \in Locs BY <3>1, InDevice
        <3>3. Read(mem', a) = Erased BY <2>3, <2>7, <3>1, <3>2
        <3> QED BY <3>3 DEF Read
    <2>9. CASE base' < r.to
        <3>1. pc' = "erase" BY <2>1, <2>2, <2>9
        <3> QED BY <1>2, <2>3, <2>8, <3>1 DEF EraseInv, r
    <2>10. CASE ~(base' < r.to)
        <3>1. pc' = "done" BY <2>1, <2>2, <2>10
        <3>2. base' = r.to BY <2>1, <2>2, <2>5, <2>6, <2>10
        <3>3. \A a \in Cells(r) : Read(mem, a)' = Erased BY <2>8, <3>2 DEF Cells
        <3>4. r.from < r.to BY <2>2
        <3> QED BY <1>2, <2>2, <3>1, <3>3, <3>4 DEF EraseInv, r
    <2> QED BY <2>9, <2>10
<1>15. CASE UNCHANGED vars
    <2>1. UNCHANGED <<mem, base, pc>> BY <1>15 DEF vars
    <2> QED BY <1>2, <2>1 DEF EraseInv, Read
<1> QED BY <1>7, <1>8, <1>9, <1>10, <1>11, <1>12, <1>13, <1>14, <1>15 DEF Next

\* All that was to be erased is erased.
LEMMA ErasedAll ==
    ASSUME InputInv, EraseInv, pc = "done", settings.command = "erase"
    PROVE  \A a \in ToBeErased : Read(mem, a) = Erased
<1> DEFINE r == ToErase(before)
<1>1. /\ PartitionRefusal = "none" /\ r.from \in Int /\ r.to \in Int /\ r.from < r.to
      /\ \A a \in Cells(r) : Read(mem, a) = Erased
    BY DEF EraseInv
<1>2. Planned = Cells(r) BY <1>1 DEF Planned
<1>3. ASSUME Whole, ~SeenAgain PROVE AllOfFlash \subseteq Cells(r)
    <2>1. r = [from |-> FlashStart, to |-> FlashStart + guess_flash_size(before)]
        <3>2. settings.partition < 0 /\ ~settings.range_set BY <1>3 DEF Whole
        <3>3. settings.partition \in Int BY DEF InputInv, InputTyped, Settings
        <3> QED BY <3>2, <3>3 DEF ToErase
    <2>2. guess_flash_size(before) # 0
        <3> SUFFICES ASSUME guess_flash_size(before) = 0 PROVE FALSE OBVIOUS
        <3>1. r.from = FlashStart /\ r.to = FlashStart + 0 BY <2>1
        <3> QED BY <1>1, <3>1, LayoutAssumption
    <2>3. guess_flash_size(before) = FlashSize BY <1>3, <2>2, GuessedRight
    <2>4. r.from = FlashStart /\ r.to = FlashStart + FlashSize BY <2>1, <2>3
    <2> HIDE DEF r
    <2>5. Cells(r) = FlashStart..((FlashStart + FlashSize) - 1) BY <2>4, Zenon DEF Cells
    <2>6. FlashStart \in Int /\ FlashSize \in Int BY LayoutAssumption, DeviceAssumption
    <2> QED BY <2>5, <2>6 DEF AllOfFlash
<1> QED BY <1>1, <1>2, <1>3 DEF ToBeErased

-----------------------------------------------------------------------------
(* A save has read what is before the place it has reached.                *)

Pairs(cells) == {[at |-> a, value |-> Read(before, a)] : a \in cells}
SavedTo == saved = Pairs(SaveRange.from..(base - 1))
SavedWhole == saved = Pairs(Cells(SaveRange))

SaveInv ==
    settings.command = "save" =>
        /\ mem = before /\ pc \in {"start", "save", "compare", "done", "failed"}
        /\ pc = "start" => saved = {}
        /\ pc \in {"save", "compare", "done"} => SaveRange.from < SaveRange.to
        /\ pc = "save" =>
              /\ ranges = <<SaveRange>> /\ i = 1 /\ base \in Int
              /\ SaveRange.from <= base /\ base < SaveRange.to
              /\ SavedTo
        /\ pc = "compare" => settings.verify /\ (saved = {} \/ SavedWhole)
        /\ pc = "done" => SavedWhole \/ (saved = {} /\ ~settings.verify)

LEMMA Larger == ASSUME NEW a \in Int, NEW b \in Int
                PROVE  Max({a, b}) \in Int
<1> DEFINE m == IF a >= b THEN a ELSE b
<1>1. m \in {a, b} /\ \A y \in {a, b} : m >= y OBVIOUS
<1>2. \A x \in {a, b} : (\A y \in {a, b} : x >= y) => x = m OBVIOUS
<1> QED BY <1>1, <1>2 DEF Max

LEMMA SaveRangeTyped == ASSUME InputInv PROVE SaveRange.from \in Int /\ SaveRange.to \in Int
<1>1. settings.all \in BOOLEAN /\ settings.from \in Nat /\ settings.to \in Nat
    BY DEF InputInv, InputTyped, Settings
<1>2. FlashStart \in Nat /\ FlashSize \in Nat BY LayoutAssumption, DeviceAssumption
<1>3. guess_flash_size(mem) \in Nat BY GuessInSectors
<1>4. binary_end \in Int /\ block_end \in Int BY <1>2 DEF InputInv
<1>5. Max({binary_end, block_end}) \in Int BY <1>4, Larger
<1>6. FlashStart + guess_flash_size(mem) \in Int BY <1>2, <1>3
<1> QED BY <1>1, <1>2, <1>5, <1>6 DEF SaveRange

LEMMA SaveRangeKept == ASSUME UNCHANGED <<input, mem>> PROVE SaveRange' = SaveRange
BY DEF SaveRange, input, guess_flash_size, FirstPages, Read

LEMMA SaveStep ==
    FlashInv /\ InputInv /\ AcceptInv /\ EraseInv /\ SaveInv /\ [Next]_vars => SaveInv'
<1> SUFFICES ASSUME FlashInv, InputInv, AcceptInv, EraseInv, SaveInv, [Next]_vars PROVE SaveInv'
    OBVIOUS
<1>1. UNCHANGED input BY NextKeepsInput DEF vars
<1>2. settings' = settings /\ before' = before BY <1>1 DEF input
<1> SUFFICES ASSUME settings.command = "save" PROVE SaveInv'
    BY <1>2 DEF SaveInv
<1>3. /\ mem = before /\ pc \in {"start", "save", "compare", "done", "failed"} BY DEF SaveInv
<1>5. CASE SaveCommand
    <2>1. UNCHANGED mem /\ saved' = saved /\ pc = "start" BY <1>5 DEF SaveCommand
    <2>2. SaveRange' = SaveRange BY <1>1, <2>1, SaveRangeKept
    <2>3. saved = {} BY <2>1 DEF SaveInv
    <2>4. CASE pc' = "failed" BY <1>2, <1>3, <2>1, <2>4 DEF SaveInv
    <2>5. CASE /\ SaveRefusal = "none" /\ ranges' = <<SaveRange>> /\ i' = 1 /\ base' = SaveRange.from
               /\ pc' = "save" \/ AfterSaving
        <3>1. SaveRange.from \in Int /\ SaveRange.to \in Int BY SaveRangeTyped
        <3>2. SaveRange.from < SaveRange.to BY <2>5, <3>1 DEF SaveRefusal
        <3>3. SaveRange.from..(SaveRange.from - 1) = {} BY <3>1
        <3>4. SavedTo'
            BY <1>2, <2>1, <2>2, <2>3, <2>5, <3>3 DEF SavedTo, Pairs, Read
        <3>5. /\ mem' = before' /\ pc' \in {"save", "compare", "done"}
              /\ pc' = "compare" => settings.verify
              /\ pc' = "done" => ~settings.verify
              /\ saved' = {}
            BY <1>2, <1>3, <2>1, <2>3, <2>5 DEF AfterSaving
        <3>6. /\ SaveRange'.from < SaveRange'.to
              /\ ranges' = <<SaveRange'>> /\ i' = 1 /\ base' \in Int
              /\ SaveRange'.from <= base' /\ base' < SaveRange'.to
            BY <2>2, <2>5, <3>1, <3>2
        <3> QED BY <1>2, <3>4, <3>5, <3>6 DEF SaveInv
    <2> QED BY <1>5, <2>4, <2>5 DEF SaveCommand, Fail
<1>6. CASE SaveChunk
    <2> DEFINE r == SaveRange
               b == this_batch
    <2>1. /\ UNCHANGED mem /\ pc = "save"
          /\ saved' = saved \cup {[at |-> a, value |-> Read(mem, a)] : a \in Cells(read_range)}
          /\ IF base + b < ranges[i].to THEN base' = base + b /\ UNCHANGED pc
             ELSE AfterSaving /\ UNCHANGED base
          /\ UNCHANGED <<ranges, i>>
        BY <1>6 DEF SaveChunk
    <2>2. r' = r BY <1>1, <2>1, SaveRangeKept
    <2>3. r.from \in Int /\ r.to \in Int BY SaveRangeTyped
    <2>4. /\ ranges = <<r>> /\ i = 1 /\ ranges[i] = r /\ base \in Int /\ r.from <= base /\ base < r.to
          /\ saved = Pairs(r.from..(base - 1)) /\ r.from < r.to
        BY <2>1 DEF SaveInv, SavedTo
    <2>5. b \in Int /\ 0 <= b /\ base + b <= r.to
        <3> DEFINE x == r.to - base
                   y == ChunkSize(Size(r), Batches)
        <3>1. Size(r) \in Int /\ Size(r) > 0 BY <2>3, <2>4 DEF Size
        <3>2. y \in Int /\ 0 <= y BY <3>1, ChunkBounds
        <3>3. x \in Int /\ 0 <= x BY <2>3, <2>4
        <3>4. b = Min({x, y}) BY <2>4 DEF this_batch
        <3> HIDE DEF y, x, b
        <3>5. b = IF x <= y THEN x ELSE y BY <3>2, <3>3, <3>4, Smaller
        <3>6. b \in Int /\ 0 <= b /\ b <= x BY <3>2, <3>3, <3>5
        <3> QED BY <2>3, <2>4, <3>3, <3>6 DEF x
    <2>6. Cells(read_range) = base..((base + b) - 1) BY DEF Cells, read_range
    <2> HIDE DEF b, r
    <2>7. saved' = Pairs(r.from..((base + b) - 1))
        <3>1. saved' = saved \cup Pairs(base..((base + b) - 1))
            BY <1>3, <2>1, <2>6 DEF Pairs
        <3>2. (r.from..(base - 1)) \cup (base..((base + b) - 1)) = r.from..((base + b) - 1)
            BY <2>3, <2>4, <2>5
        <3>3. Pairs(r.from..(base - 1)) \cup Pairs(base..((base + b) - 1))
                = Pairs((r.from..(base - 1)) \cup (base..((base + b) - 1)))
            BY DEF Pairs
        <3> QED BY <2>4, <3>1, <3>2, <3>3
    <2>8. CASE base + b < r.to
        <3>1. base' = base + b /\ pc' = "save" BY <2>1, <2>4, <2>8
        <3>2. base' \in Int /\ r.from <= base' BY <2>3, <2>4, <2>5, <3>1
        <3>3. SavedTo'
            <4>1. saved' = Pairs(r'.from..(base' - 1)) BY <2>2, <2>7, <3>1
            <4> QED BY <1>2, <4>1 DEF SavedTo, Pairs, Read, r
        <3>4. /\ SaveRange'.from < SaveRange'.to
              /\ ranges' = <<SaveRange'>> /\ i' = 1 /\ base' \in Int
              /\ SaveRange'.from <= base' /\ base' < SaveRange'.to
            BY <2>1, <2>2, <2>4, <2>8, <3>1, <3>2 DEF r
        <3> QED BY <1>2, <1>3, <2>1, <3>1, <3>3, <3>4 DEF SaveInv
    <2>9. CASE ~(base + b < r.to)
        <3>1. AfterSaving BY <2>1, <2>4, <2>9
        <3>2. base + b = r.to BY <2>3, <2>4, <2>5, <2>9
        <3>3. SavedWhole'
            <4>1. saved' = Pairs(r'.from..(r'.to - 1)) BY <2>2, <2>7, <3>2
            <4> QED BY <1>2, <4>1 DEF SavedWhole, Pairs, Cells, Read, r
        <3>4. SaveRange'.from < SaveRange'.to BY <2>2, <2>4 DEF r
        <3>5. /\ pc' \in {"compare", "done"} /\ (pc' = "compare" => settings.verify)
              /\ mem' = before'
            BY <1>2, <1>3, <2>1, <3>1 DEF AfterSaving
        <3> QED BY <1>2, <3>3, <3>4, <3>5 DEF SaveInv
    <2> QED BY <2>8, <2>9
<1>7. CASE SaveVerify
    <2>1. UNCHANGED <<mem, saved>> /\ pc = "compare" BY <1>7 DEF SaveVerify
    <2>2. SaveRange' = SaveRange BY <1>1, <2>1, SaveRangeKept
    <2>3. saved = {} \/ SavedWhole BY <2>1 DEF SaveInv
    <2>4. SaveRange'.from < SaveRange'.to BY <2>1, <2>2 DEF SaveInv
    <2>5. CASE pc' = "failed" BY <1>2, <1>3, <2>1, <2>5 DEF SaveInv
    <2>6. CASE saved # {} /\ pc' = "done"
        <3>1. SavedWhole' BY <1>2, <2>1, <2>2, <2>3, <2>6 DEF SavedWhole, Pairs, Read
        <3> QED BY <1>2, <1>3, <2>1, <2>4, <2>6, <3>1 DEF SaveInv
    <2> QED BY <1>7, <2>5, <2>6 DEF SaveVerify, Fail
<1>8. CASE ConnectionFails
    <2>1. pc' = "failed" BY <1>8 DEF ConnectionFails, Fail
    <2>2. mem' = mem
        <3>1. pc \notin {"load", "erase", "program"} BY <1>3
        <3> QED BY <1>8, <3>1 DEF ConnectionFails
    <2> QED BY <1>2, <1>3, <2>1, <2>2 DEF SaveInv
<1>9. CASE UNCHANGED vars
    <2>1. UNCHANGED <<mem, saved, ranges, i, base, pc>> BY <1>9 DEF vars
    <2>2. SaveRange' = SaveRange BY <1>1, <2>1, SaveRangeKept
    <2>3. SavedTo' = SavedTo /\ SavedWhole' = SavedWhole
        BY <1>2, <2>1, <2>2 DEF SavedTo, SavedWhole, Pairs, Read
    <2> QED BY <1>2, <1>3, <2>1, <2>2, <2>3 DEF SaveInv
<1>10. ~(LoadCommand \/ VerifyCommand \/ EraseCommand)
    BY DEF LoadCommand, VerifyCommand, EraseCommand
<1>11. ~(Check \/ SkipBatch \/ EraseBatch \/ ProgramBatch \/ WriteRamBatch \/ Verify \/ Execute \/ EraseSector)
    BY <1>3 DEF Check, SkipBatch, EraseBatch, ProgramBatch, WriteRamBatch, Verify, Execute, EraseSector
<1> QED BY <1>5, <1>6, <1>7, <1>8, <1>9, <1>10, <1>11 DEF Next

\* All that was to be saved is in the file.
LEMMA SavedAll ==
    ASSUME InputInv, SaveInv, pc = "done", settings.command = "save", settings.verify \/ saved # {}
    PROVE  saved = {[at |-> a, value |-> Read(before, a)] : a \in ToBeSaved}
<1> DEFINE r == SaveRange
           g == guess_flash_size(before)
<1>1. mem = before /\ r.from < r.to /\ saved = Pairs(Cells(r)) BY DEF SaveInv, SavedWhole
<1>2. settings.all \in BOOLEAN /\ settings.from \in Nat /\ settings.to \in Nat
    BY DEF InputInv, InputTyped, Settings
<1>3. FlashStart \in Int /\ FlashSize \in Int BY LayoutAssumption, DeviceAssumption
<1>4. g \in Int BY GuessInSectors
<1>5. Cells(r) = ToBeSaved
    <2>1. CASE settings.all
        <3>1. r = [from |-> FlashStart, to |-> FlashStart + g] BY <1>1, <2>1 DEF SaveRange
        <3>2. r.from = FlashStart /\ r.to = FlashStart + g BY <3>1
        <3> HIDE DEF r, g
        <3>3. Cells(r) = FlashStart..(FlashStart + g - 1) BY <1>3, <1>4, <3>2 DEF Cells
        <3>4. CASE SeenAgain BY <2>1, <3>3, <3>4 DEF ToBeSaved, g
        <3>5. CASE ~SeenAgain
            <4>1. g # 0 BY <1>1, <1>3, <3>2
            <4>2. g = FlashSize BY <3>5, <4>1, GuessedRight DEF g
            <4> QED BY <2>1, <3>3, <3>5, <4>2 DEF ToBeSaved, AllOfFlash
        <3> QED BY <3>4, <3>5
    <2>2. CASE ~settings.all /\ settings.range_set
        <3>1. r = [from |-> settings.from, to |-> settings.to] BY <2>2 DEF SaveRange
        <3> QED BY <2>2, <3>1 DEF Cells, ToBeSaved
    <2>3. CASE ~settings.all /\ ~settings.range_set
        <3>1. r = [from |-> FlashStart, to |-> Max({binary_end, block_end})] BY <2>3 DEF SaveRange
        <3> QED BY <2>3, <3>1 DEF Cells, ToBeSaved
    <2> QED BY <1>2, <2>1, <2>2, <2>3
<1> QED BY <1>1, <1>5 DEF Pairs

-----------------------------------------------------------------------------
ExactInv == LoadInv /\ UpdateInv /\ LoadedInv /\ EraseInv /\ SaveInv

\* The inductive invariant of what is written, and of what is read.
THEOREM ExactInvariant == Spec => []ExactInv
<1>1. Init => ExactInv
    <2> SUFFICES ASSUME Init PROVE ExactInv OBVIOUS
    <2>1. LoadInv /\ UpdateInv BY LoadInitially, UpdateInitially
    <2>2. pc = "start" /\ saved = {} /\ mem = before BY DEF Init
    <2>3. LoadedInv /\ EraseInv /\ SaveInv BY <2>2 DEF LoadedInv, EraseInv, SaveInv
    <2> QED BY <2>1, <2>3 DEF ExactInv
<1>2. ExactInv /\ [Next]_vars => ExactInv'
    BY LoadStep, UpdateStep, LoadedStep, EraseStep, SaveStep DEF ExactInv, LoadInv
<1> QED BY <1>1, <1>2, PTL DEF Spec

\* -n and -N keep a program whose end is known and at a sector boundary, and -n all of
\* flash when the end is not known, for every file, device and place, however far the
\* load gets.
THEOREM ProgramKeptTheorem == Spec => []ProgramKept
<1>1. ExactInv => ProgramKept BY AcceptedKeepsProgram DEF ExactInv, LoadInv
<1> QED BY <1>1, ExactInvariant, PTL

\* load --update of a device that holds the file already erases and writes nothing: if
\* anything changed, a word that was to be written was not there yet.  For files without
\* a range that starts inside a sector and takes several batches (Regular).
THEOREM UpdateIdempotentTheorem == Spec => []UpdateIsIdempotent
<1>1. ExactInv => UpdateIsIdempotent
    BY DEF ExactInv, UpdateInv, UpdateIsIdempotent, AllRegular, Differs
<1> QED BY <1>1, ExactInvariant, PTL

\* A load, an erase and a save that succeed have written, erased and read just what
\* they were asked to, in whatever batches.  Of loads, those of which no range starts
\* inside a sector and takes several batches (Regular; the others lose words, as the run
\* load_unaligned shows) and whose file fits or the size of the flash could be guessed.
THEOREM LoadedExactlyTheorem == Spec => []LoadedExactly
<1>1. ExactInv => LoadedExactly
    <2> SUFFICES ASSUME ExactInv PROVE LoadedExactly OBVIOUS
    <2>1. settings.command = "load" /\ pc = "done" /\ AllRegular /\ (SizeKnown \/ Fits) => Matches
        BY DEF ExactInv, LoadedInv, Certain
    <2>2. settings.command = "erase" /\ pc = "done" => \A a \in ToBeErased : Read(mem, a) = Erased
        BY ErasedAll DEF ExactInv, LoadInv
    <2>3. settings.command = "save" /\ pc = "done" /\ (settings.verify \/ saved # {})
          => saved = {[at |-> a, value |-> Read(before, a)] : a \in ToBeSaved}
        BY SavedAll DEF ExactInv, LoadInv
    <2> QED BY <2>1, <2>2, <2>3 DEF LoadedExactly, AllRegular
<1> QED BY <1>1, ExactInvariant, PTL

-----------------------------------------------------------------------------
(* The partitions of a table.                                              *)

Word ==
    [kind : {"location"}, first : Int, last : Int]
    \cup [kind : {"flags"}, default : SUBSET STRING, num_extra : Nat, id : BOOLEAN, name : Nat]
    \cup [kind : {"family"}, id : STRING] \cup [kind : {"id", "name"}]
CreatedPartitions ==
    [first : Nat, last : Nat, id : BOOLEAN, name : Nat, default : SUBSET STRING,
     extra : Seq(STRING), num_extra : Nat]

IsJoined(S, r, s, t) ==
    /\ r \in Seq(S) /\ Len(s) \in Nat /\ Len(t) \in Nat
    /\ Len(r) = Len(s) + Len(t)
    /\ \A j \in 1..Len(s) : r[j] = s[j]
    /\ \A j \in 1..Len(t) : r[Len(s) + j] = t[j]

LEMMA IsSequence ==
    ASSUME NEW n \in Nat, NEW S, NEW f \in [1..n -> S]
    PROVE  f \in Seq(S) /\ Len(f) = n
OBVIOUS

LEMMA Joined ==
    ASSUME NEW S, NEW s \in Seq(S), NEW t \in Seq(S)
    PROVE  IsJoined(S, s \o t, s, t)
<1>1. /\ s \o t \in Seq(S) /\ Len(s \o t) = Len(s) + Len(t)
      /\ \A j \in 1..(Len(s) + Len(t)) : (s \o t)[j] = IF j <= Len(s) THEN s[j] ELSE t[j - Len(s)]
    BY ConcatProperties
<1>2. Len(s) \in Nat /\ Len(t) \in Nat BY LenProperties
<1> DEFINE a == Len(s)
           b == Len(t)
<1> HIDE DEF a, b
<1>3. a \in Nat /\ b \in Nat
      /\ \A j \in 1..(a + b) : (s \o t)[j] = IF j <= a THEN s[j] ELSE t[j - a]
    BY <1>1, <1>2 DEF a, b
<1>4. ASSUME NEW j \in 1..a PROVE (s \o t)[j] = s[j]
    <2>1. j \in 1..(a + b) /\ j <= a BY <1>3
    <2> QED BY <1>3, <2>1
<1>5. ASSUME NEW j \in 1..b PROVE (s \o t)[a + j] = t[j]
    <2>1. a + j \in 1..(a + b) /\ ~(a + j <= a) /\ (a + j) - a = j BY <1>3
    <2> QED BY <1>3, <2>1
<1>6. /\ \A j \in 1..Len(s) : (s \o t)[j] = s[j]
      /\ \A j \in 1..Len(t) : (s \o t)[Len(s) + j] = t[j]
    BY ONLY <1>4, <1>5, Zenon DEF a, b
<1> QED BY ONLY <1>1, <1>2, <1>6, Zenon DEF IsJoined

\* The words of a partition: its place, its flags, and as many more as the flags say,
\* if they count the extra families.
LEMMA PartitionWords ==
    ASSUME NEW p \in CreatedPartitions, p.num_extra = Len(p.extra)
    PROVE  /\ partition_to_words(p) \in Seq(Word)
           /\ Len(partition_to_words(p)) = 2 + (IF p.id THEN 2 ELSE 0) + p.num_extra + p.name
           /\ partition_to_words(p)[1] = Location(p) /\ partition_to_words(p)[2] = Flags(p)
<1> DEFINE head == <<Location(p), Flags(p)>>
           ids == IF p.id THEN Words("id", 2) ELSE <<>>
           extra == [k \in DOMAIN p.extra |-> [kind |-> "family", id |-> p.extra[k]]]
           name == Words("name", p.name)
<1>1. head \in Seq(Word) /\ Len(head) = 2 /\ head[1] = Location(p) /\ head[2] = Flags(p)
    <2>1. Location(p) \in Word /\ Flags(p) \in Word
        <3>1. 2^LocationBits \in Nat \ {0} BY DEF LocationBits
        <3>2. p.first % 2^LocationBits \in Int /\ p.last % 2^LocationBits \in Int
            BY <3>1 DEF CreatedPartitions
        <3> QED BY <3>2 DEF Location, Flags, Word, CreatedPartitions
    <2> HIDE DEF Word
    <2> QED BY <2>1
<1>2. ids \in Seq(Word) /\ Len(ids) = IF p.id THEN 2 ELSE 0
    <2>1. Words("id", 2) \in [1..2 -> Word] BY DEF Words, Word
    <2>2. Words("id", 2) \in Seq(Word) /\ Len(Words("id", 2)) = 2 BY <2>1, IsSequence
    <2> QED BY <2>2, EmptySeq
<1>3. extra \in Seq(Word) /\ Len(extra) = p.num_extra
    <2>1. p.extra \in Seq(STRING) BY DEF CreatedPartitions
    <2>2. Len(p.extra) \in Nat /\ p.extra \in [1..Len(p.extra) -> STRING] /\ DOMAIN p.extra = 1..Len(p.extra)
        BY <2>1, LenProperties
    <2>3. extra \in [1..Len(p.extra) -> Word] BY <2>2 DEF Word
    <2> HIDE DEF extra
    <2> QED BY <2>2, <2>3, IsSequence
<1>4. name \in Seq(Word) /\ Len(name) = p.name
    <2>1. p.name \in Nat BY DEF CreatedPartitions
    <2>2. name \in [1..p.name -> Word] BY DEF Words, Word
    <2> HIDE DEF name
    <2> QED BY <2>1, <2>2, IsSequence
<1>5. partition_to_words(p) = ((head \o ids) \o extra) \o name BY DEF partition_to_words
<1> HIDE DEF head, ids, extra, name
<1>6. head \o ids \in Seq(Word) /\ Len(head \o ids) = 2 + Len(ids)
      /\ (head \o ids)[1] = Location(p) /\ (head \o ids)[2] = Flags(p) /\ Len(ids) \in Nat
    <2>1. IsJoined(Word, head \o ids, head, ids) BY ONLY <1>1, <1>2, Joined, Zenon
    <2>2. 1 \in 1..Len(head) /\ 2 \in 1..Len(head) BY <1>1
    <2>3. (head \o ids)[1] = head[1] /\ (head \o ids)[2] = head[2]
        BY ONLY <2>1, <2>2, Zenon DEF IsJoined
    <2>4. head \o ids \in Seq(Word) /\ Len(head \o ids) = Len(head) + Len(ids) /\ Len(ids) \in Nat
        BY ONLY <2>1, Zenon DEF IsJoined
    <2>5. Len(head \o ids) = 2 + Len(ids) BY ONLY <1>1, <2>4, Zenon
    <2> QED BY ONLY <1>1, <2>3, <2>4, <2>5, Zenon
<1> DEFINE a == head \o ids
           b == a \o extra
<1> HIDE DEF a
<1>7. a \in Seq(Word) /\ Len(a) = 2 + Len(ids) /\ a[1] = Location(p) /\ a[2] = Flags(p)
    BY <1>6 DEF a
<1>8. 1 \in 1..Len(a) /\ 2 \in 1..Len(a) BY <1>6, <1>7
<1>9. b \in Seq(Word) /\ Len(b) = Len(a) + p.num_extra /\ b[1] = Location(p) /\ b[2] = Flags(p)
      /\ p.num_extra \in Nat
    <2>1. IsJoined(Word, a \o extra, a, extra) BY ONLY <1>3, <1>7, Joined, Zenon
    <2>0. a \o extra \in Seq(Word) /\ Len(a \o extra) = Len(a) + Len(extra) /\ Len(extra) \in Nat
        BY ONLY <2>1, Zenon DEF IsJoined
    <2>2. (a \o extra)[1] = a[1] /\ (a \o extra)[2] = a[2] BY ONLY <1>8, <2>1, Zenon DEF IsJoined
    <2> QED BY ONLY <1>3, <1>7, <2>0, <2>2, Zenon
<1> HIDE DEF b
<1>10. 1 \in 1..Len(b) /\ 2 \in 1..Len(b)
    <2> HIDE DEF b
    <2> QED BY ONLY <1>6, <1>7, <1>9
<1>11. b \o name \in Seq(Word) /\ Len(b \o name) = Len(b) + p.name
       /\ (b \o name)[1] = Location(p) /\ (b \o name)[2] = Flags(p) /\ p.name \in Nat
    <2>1. IsJoined(Word, b \o name, b, name) BY ONLY <1>4, <1>9, Joined, Zenon
    <2>0. b \o name \in Seq(Word) /\ Len(b \o name) = Len(b) + Len(name) /\ Len(name) \in Nat
        BY ONLY <2>1, Zenon DEF IsJoined
    <2>2. (b \o name)[1] = b[1] /\ (b \o name)[2] = b[2] BY ONLY <1>10, <2>1, Zenon DEF IsJoined
    <2> QED BY ONLY <1>4, <1>9, <2>0, <2>2, Zenon
<1> QED BY <1>2, <1>5, <1>6, <1>7, <1>9, <1>11 DEF a, b

\* A sequence of sequences made flat: where each of them begins.
Begins(at, S, n, seqs, flat) ==
    /\ at[0] = 0
    /\ flat \in Seq(S) /\ Len(flat) = at[n]
    /\ \A k \in 1..n :
          /\ at[k] = at[k - 1] + Len(seqs[k]) /\ at[k] <= at[n]
          /\ \A j \in 1..Len(seqs[k]) : flat[at[k - 1] + j] = seqs[k][j]

LEMMA Flattened ==
    ASSUME NEW S, NEW n \in Nat \ {0}, NEW seqs \in [1..n -> Seq(S)]
    PROVE  \E at \in [0..n -> Nat] : Begins(at, S, n, seqs, FlattenSeq(seqs))
<1>1. Len(seqs) = n /\ n \in Nat /\ n # 0 /\ n \in 1..n
    <2>1. seqs \in Seq(Seq(S)) /\ Len(seqs) = n BY IsSequence
    <2> QED BY <2>1
<1> DEFINE Body(f, k) == IF k = 1 THEN seqs[k] ELSE f[k - 1] \o seqs[k]
           Flattens(f, m) == f = [k \in 1..m |-> Body(f, k)]
           K == {m \in 0..n : \E f : Flattens(f, m)}
<1>2. \E f : Flattens(f, n)
    <2>1. 0 \in K
        <3> DEFINE f == [k \in 1..0 |-> seqs]
        <3>1. f = [k \in 1..0 |-> Body(f, k)] OBVIOUS
        <3> HIDE DEF f
        <3>2. Flattens(f, 0) BY <3>1
        <3>3. 0 \in 0..n BY ONLY <1>1
        <3> HIDE DEF Flattens
        <3> QED BY ONLY <3>2, <3>3, Zenon
    <2>2. ASSUME NEW m \in 0..(n - 1), m \in K PROVE m + 1 \in K
        <3>1. PICK old : old = [k \in 1..m |-> Body(old, k)] BY <2>2
        <3> DEFINE f == [k \in 1..(m + 1) |-> IF k = m + 1 THEN Body(old, k) ELSE old[k]]
        <3>2. ASSUME NEW k \in 1..(m + 1) PROVE f[k] = Body(f, k)
            <4>1. \A j \in 1..m : f[j] = old[j] /\ j \in 1..(m + 1) OBVIOUS
            <4>2. CASE k = m + 1
                <5>1. f[k] = Body(old, k) BY <4>2
                <5>2. k # 1 => k - 1 \in 1..m BY <4>2
                <5>3. k # 1 => f[k - 1] = old[k - 1] BY <4>1, <5>2
                <5> HIDE DEF f
                <5> QED BY <5>1, <5>3
            <4>3. CASE k # m + 1
                <5>1. k \in 1..m /\ (k # 1 => k - 1 \in 1..m) BY <4>3
                <5>2. old[k] = Body(old, k) BY <3>1, <5>1
                <5>3. k # 1 => f[k - 1] = old[k - 1] BY <4>1, <5>1
                <5>4. f[k] = old[k] BY <4>1, <5>1
                <5> HIDE DEF f
                <5> QED BY <5>2, <5>3, <5>4
            <4> QED BY <4>2, <4>3
        <3>3. f = [k \in 1..(m + 1) |-> f[k]] OBVIOUS
        <3> HIDE DEF f
        <3>4. f = [k \in 1..(m + 1) |-> Body(f, k)]
            <4> HIDE DEF Body
            <4> QED BY <3>2, <3>3
        <3>5. Flattens(f, m + 1) BY <3>4
        <3>6. m + 1 \in 0..n BY ONLY <1>1
        <3> HIDE DEF Flattens
        <3> QED BY ONLY <3>5, <3>6, Zenon
    <2>3. \A m \in 0..n : m \in K
        <3> HIDE DEF K
        <3> QED BY <1>1, <2>1, <2>2, UpTo
    <2>4. n \in K
        <3>1. n \in 0..n BY ONLY <1>1
        <3> HIDE DEF K
        <3> QED BY ONLY <2>3, <3>1, Zenon
    <2> QED BY <2>4
<1> DEFINE fl == CHOOSE f : Flattens(f, n)
<1>3. Flattens(fl, n) BY <1>2
<1>4. FlattenSeq(seqs) = fl[n]
    <2>1. FlattenSeq(seqs) = (CHOOSE f : f = [k \in 1..Len(seqs) |-> IF k = 1 THEN seqs[k] ELSE f[k - 1] \o seqs[k]])[Len(seqs)]
        BY <1>1, Zenon DEF FlattenSeq
    <2> QED BY <1>1, <2>1
<1> HIDE DEF fl
<1>5. /\ fl[1] = seqs[1]
      /\ \A k \in 1..n : k # 1 => fl[k] = fl[k - 1] \o seqs[k]
    <2>1. 1 \in 1..n BY <1>1
    <2> QED BY <1>3, <2>1
<1> DEFINE at == [k \in 0..n |-> IF k = 0 THEN 0 ELSE Len(fl[k])]
           Good(m) ==
             /\ fl[m] \in Seq(S)
             /\ \A k \in 1..m :
                   /\ at[k] = at[k - 1] + Len(seqs[k]) /\ at[k] <= at[m] /\ at[k - 1] \in Nat
                   /\ \A j \in 1..Len(seqs[k]) : fl[m][at[k - 1] + j] = seqs[k][j]
           G == {m \in 0..n : m = 0 \/ Good(m)}
<1>6. at[0] = 0 /\ \A k \in 1..n : at[k] = Len(fl[k])
    BY <1>1
<1>7. \A k \in 1..n : seqs[k] \in Seq(S) /\ Len(seqs[k]) \in Nat
    BY LenProperties
<1> HIDE DEF at
<1>8. ASSUME NEW m \in 0..(n - 1), m \in G PROVE m + 1 \in G
    <2>1. m + 1 \in 1..n /\ m + 1 \in 0..n /\ m \in Nat BY <1>1
    <2>2. CASE m = 0
        <3>1. m + 1 = 1 /\ 1 - 1 = 0 /\ 1..1 = {1} /\ 1 \in 1..n BY <2>1, <2>2
        <3>2. at[1] = Len(seqs[1]) /\ Len(seqs[1]) \in Nat /\ fl[1] \in Seq(S) BY <1>5, <1>6, <1>7, <3>1
        <3>3. \A j \in 1..Len(seqs[1]) : 0 + j = j OBVIOUS
        <3>4. Good(1) BY <1>5, <1>6, <3>1, <3>2, <3>3
        <3> QED BY <2>1, <3>1, <3>4
    <2>3. CASE m # 0
        <3>1. Good(m) /\ m \in 1..n /\ m \in 1..m BY <1>1, <1>8, <2>1, <2>3
        <3> DEFINE l == m + 1
                   s == fl[m]
                   t == seqs[l]
        <3>2. l \in 1..n /\ l # 1 /\ l - 1 = m /\ l \in Nat BY <2>1, <2>3
        <3> HIDE DEF l
        <3>3. fl[l] = s \o t /\ s \in Seq(S) /\ t \in Seq(S) BY <1>5, <1>7, <3>1, <3>2
        <3>4. /\ s \o t \in Seq(S) /\ Len(s) \in Nat /\ Len(t) \in Nat
              /\ Len(s \o t) = Len(s) + Len(t)
              /\ \A j \in 1..Len(s) : (s \o t)[j] = s[j]
              /\ \A j \in 1..Len(t) : (s \o t)[Len(s) + j] = t[j]
            <4> HIDE DEF s, t
            <4>1. IsJoined(S, s \o t, s, t) BY ONLY <3>3, Joined, Zenon
            <4> QED BY ONLY <4>1, Zenon DEF IsJoined
        <3>5. at[m] = Len(s) /\ at[l] = Len(s) + Len(t)
            <4>1. at[m] = Len(s) /\ at[l] = Len(fl[l]) BY ONLY <1>6, <3>1, <3>2
            <4> HIDE DEF s, t
            <4> QED BY ONLY <3>3, <3>4, <4>1
        <3>6. ASSUME NEW k \in 1..l
              PROVE  /\ at[k] = at[k - 1] + Len(seqs[k]) /\ at[k] <= at[l] /\ at[k - 1] \in Nat
                     /\ \A j \in 1..Len(seqs[k]) : fl[l][at[k - 1] + j] = seqs[k][j]
            <4>1. CASE k = l
                <5>1. k - 1 = m /\ at[k] = Len(s) + Len(t) /\ at[k - 1] = Len(s) /\ seqs[k] = t
                    BY ONLY <3>2, <3>5, <4>1
                <5>2. at[l] = at[k] /\ at[k] \in Nat
                    <6> DEFINE e == Len(s)
                               c == Len(t)
                    <6>1. e \in Nat /\ c \in Nat /\ at[k] = e + c BY ONLY <3>4, <5>1, Zenon
                    <6> HIDE DEF e, c
                    <6>2. at[k] \in Nat BY ONLY <6>1
                    <6> QED BY ONLY <4>1, <6>2, Zenon
                <5>3. at[k] <= at[l] /\ at[k - 1] \in Nat BY ONLY <3>4, <5>1, <5>2
                <5> QED BY ONLY <3>3, <3>4, <5>1, <5>3
            <4>2. CASE k # l
                <5>1. k \in 1..m /\ k \in 1..n BY <2>1, <3>2, <4>2
                <5>2. /\ at[k] = at[k - 1] + Len(seqs[k]) /\ at[k] <= Len(s) /\ at[k - 1] \in Nat
                      /\ \A j \in 1..Len(seqs[k]) : s[at[k - 1] + j] = seqs[k][j]
                    BY <3>1, <3>5, <5>1
                <5>3. Len(seqs[k]) \in Nat BY <1>7, <5>1
                <5>4. \A j \in 1..Len(seqs[k]) : at[k - 1] + j \in 1..Len(s)
                    <6> DEFINE a == at[k - 1]
                               c == Len(seqs[k])
                               e == Len(s)
                    <6>1. a \in Nat /\ c \in Nat /\ e \in Nat /\ a + c <= e BY <3>4, <5>2, <5>3
                    <6> HIDE DEF a, c, e
                    <6>2. \A j \in 1..c : a + j \in 1..e BY ONLY <6>1
                    <6> QED BY ONLY <6>2, Zenon DEF a, c, e
                <5>5. \A j \in 1..Len(seqs[k]) : fl[l][at[k - 1] + j] = seqs[k][j]
                    BY <3>3, <3>4, <5>2, <5>4
                <5>6. at[k] <= at[l]
                    <6> DEFINE x == at[k]
                               y == at[l]
                               e == Len(s)
                               c == Len(t)
                    <6>1. x \in Nat /\ x <= e /\ e \in Nat /\ c \in Nat /\ y = e + c
                        BY ONLY <3>4, <3>5, <5>2, <5>3
                    <6> HIDE DEF x, y, e, c
                    <6>2. x <= y BY ONLY <6>1
                    <6> QED BY ONLY <6>2, Zenon DEF x, y
                <5> QED BY ONLY <5>2, <5>5, <5>6
            <4> QED BY <4>1, <4>2
        <3>7. Good(l) BY <3>3, <3>4, <3>6
        <3> QED BY <2>1, <3>7 DEF l
    <2> QED BY <2>2, <2>3
<1>9. Good(n)
    <2>1. 0 \in G BY <1>1
    <2> HIDE DEF G
    <2>2. \A m \in 0..n : m \in G BY <1>1, <1>8, <2>1, UpTo
    <2>3. n \in G BY <1>1, <2>2
    <2> QED BY <1>1, <2>3 DEF G
<1>10. at \in [0..n -> Nat]
    <2>1. at[n] \in Nat BY <1>1, <1>6, <1>9, LenProperties
    <2>2. ASSUME NEW k \in 0..n PROVE at[k] \in Nat
        <3>1. CASE k = n BY <2>1, <3>1
        <3>2. CASE k # n
            <4>1. k + 1 \in 1..n /\ (k + 1) - 1 = k BY <1>1, <3>2
            <4> QED BY <1>9, <4>1
        <3> QED BY <3>1, <3>2
    <2>3. at = [k \in 0..n |-> at[k]] BY DEF at
    <2> QED BY <2>2, <2>3
<1>11. Begins(at, S, n, seqs, FlattenSeq(seqs))
    <2>1. at[n] = Len(fl[n]) BY ONLY <1>1, <1>6
    <2> DEFINE s == fl[n]
    <2>2. /\ s \in Seq(S) /\ at[0] = 0 /\ Len(s) = at[n]
          /\ \A k \in 1..n :
                /\ at[k] = at[k - 1] + Len(seqs[k]) /\ at[k] <= at[n]
                /\ \A j \in 1..Len(seqs[k]) : s[at[k - 1] + j] = seqs[k][j]
        BY ONLY <1>6, <1>9, <2>1
    <2>3. FlattenSeq(seqs) = s BY <1>4
    <2> HIDE DEF s
    <2> QED BY ONLY <2>2, <2>3, Zenon DEF Begins
<1> QED BY ONLY <1>10, <1>11, Zenon

\* Where the words of a partition end, if they are taken for one.
LEMMA BehindLater ==
    ASSUME NEW W \in Seq(Word), NEW k \in 1..Len(W), IsPartition(W, k)
    PROVE  Behind(W, k) \in (k + 2)..(Len(W) + 1)
<1>1. Len(W) \in Nat BY LenProperties
<1>2. k + 1 \in 1..Len(W) /\ W[k + 1].kind = "flags" /\ Behind(W, k) <= Len(W) + 1
    BY <1>1 DEF IsPartition
<1>3. W[k + 1] \in Word BY <1>2, ElementOfSeq
<1>4. W[k + 1] \in [kind : {"flags"}, default : SUBSET STRING, num_extra : Nat, id : BOOLEAN, name : Nat]
    BY <1>2, <1>3 DEF Word
<1> DEFINE x == W[k + 1].num_extra
           y == W[k + 1].name
           z == IF W[k + 1].id THEN 2 ELSE 0
<1>5. x \in Nat /\ y \in Nat /\ z \in Nat BY <1>4
<1>6. Behind(W, k) = k + 2 + z + x + y BY DEF Behind
<1> HIDE DEF x, y, z
<1> QED BY <1>1, <1>2, <1>5, <1>6

ParsedFrom(W, f, k) ==
    IF k > Len(W) THEN [legible |-> TRUE, partitions |-> <<>>]
    ELSE IF ~IsPartition(W, k) THEN [legible |-> FALSE, partitions |-> <<>>]
    ELSE [f[Behind(W, k)] EXCEPT !.partitions = <<PartitionAt(W, k)>> \o @]

\* The recursion over the words of a table defines a function: it goes forward.
LEMMA Parses ==
    ASSUME NEW W \in Seq(Word)
    PROVE  \E f : f = [k \in 1..(Len(W) + 1) |-> ParsedFrom(W, f, k)] /\ parse(W) = f[1]
<1> DEFINE L == Len(W)
<1>1. L \in Nat BY LenProperties
<1>2. \A k \in 1..L : IsPartition(W, k) => Behind(W, k) \in (k + 2)..(L + 1)
    BY BehindLater, Zenon
<1> HIDE DEF L
<1> DEFINE Reads(f, m) == f = [k \in (L + 2 - m)..(L + 1) |-> ParsedFrom(W, f, k)]
           K == {m \in 0..(L + 1) : \E f : Reads(f, m)}
<1>3. 0 \in K
    <2> DEFINE f == [k \in (L + 2 - 0)..(L + 1) |-> 0]
    <2>1. (L + 2 - 0)..(L + 1) = {} BY <1>1
    <2>2. f = [k \in (L + 2 - 0)..(L + 1) |-> ParsedFrom(W, f, k)] BY <2>1
    <2> HIDE DEF f
    <2>3. Reads(f, 0) BY <2>2
    <2>4. 0 \in 0..(L + 1) BY <1>1
    <2> HIDE DEF Reads
    <2> QED BY ONLY <2>3, <2>4, Zenon
<1>4. ASSUME NEW m \in 0..L, m \in K PROVE m + 1 \in K
    <2>1. PICK old : old = [k \in (L + 2 - m)..(L + 1) |-> ParsedFrom(W, old, k)] BY <1>4
    <2> DEFINE x == L + 2 - (m + 1)
               f == [k \in x..(L + 1) |-> IF k = x THEN ParsedFrom(W, old, k) ELSE old[k]]
    <2>2. x \in 1..(L + 1) /\ x \in Nat /\ \A k \in Int : (k \in x..(L + 1) /\ k # x <=> k \in (L + 2 - m)..(L + 1))
        BY <1>1
    <2> HIDE DEF x
    <2>3. \A k \in (L + 2 - m)..(L + 1) : f[k] = old[k] /\ k \in Int
        <3> SUFFICES ASSUME NEW k \in (L + 2 - m)..(L + 1) PROVE f[k] = old[k] /\ k \in Int
            OBVIOUS
        <3>1. k \in Int BY <1>1
        <3> QED BY <2>2, <3>1
    <2>4. f[x] = ParsedFrom(W, old, x) BY <1>1, <2>2
    <2>5. \A k \in x..(L + 1) : f[k] = ParsedFrom(W, f, k)
        <3> SUFFICES ASSUME NEW k \in x..(L + 1) PROVE f[k] = ParsedFrom(W, f, k)
            OBVIOUS
        <3>1. f[k] = ParsedFrom(W, old, k)
            <4>1. CASE k = x BY <2>4, <4>1
            <4>2. CASE k # x
                <5>1. k \in (L + 2 - m)..(L + 1) BY <1>1, <2>2, <4>2
                <5> HIDE DEF f
                <5> QED BY <2>1, <2>3, <5>1
            <4> HIDE DEF f
            <4> QED BY ONLY <4>1, <4>2, Zenon
        <3> HIDE DEF f
        <3>2. k \in Nat /\ x <= k /\ k <= L + 1 /\ 1 <= k BY <1>1, <2>2
        <3>3. CASE k > L \/ ~IsPartition(W, k)
            <4>1. ~(k > L) => k \in 1..L BY <1>1, <3>2
            <4> QED BY ONLY <3>1, <3>3, Zenon DEF ParsedFrom, L
        <3>4. CASE ~(k > L) /\ IsPartition(W, k)
            <4>1. k \in 1..L BY <1>1, <3>2, <3>4
            <4> DEFINE b == Behind(W, k)
            <4>2. b \in (k + 2)..(L + 1) BY <1>2, <3>4, <4>1, Zenon
            <4> HIDE DEF b
            <4>3. b \in x..(L + 1) /\ b # x /\ b \in Int BY ONLY <1>1, <2>2, <3>2, <4>2
            <4>4. b \in (L + 2 - m)..(L + 1) BY ONLY <2>2, <4>3
            <4>5. f[b] = old[b] BY ONLY <2>3, <4>4
            <4> QED BY ONLY <3>1, <4>5, Zenon DEF ParsedFrom, b
        <3> QED BY ONLY <3>3, <3>4, Zenon
    <2>6. f = [k \in x..(L + 1) |-> f[k]] OBVIOUS
    <2> HIDE DEF f
    <2>7. Reads(f, m + 1)
        <3>1. f = [k \in x..(L + 1) |-> ParsedFrom(W, f, k)] BY ONLY <2>5, <2>6, Zenon
        <3> QED BY ONLY <3>1, Zenon DEF x
    <2>8. m + 1 \in 0..(L + 1) BY <1>1
    <2> HIDE DEF Reads
    <2> QED BY ONLY <2>7, <2>8, Zenon
<1>5. L + 1 \in K
    <2> DEFINE N == L + 1
    <2>1. N \in Nat /\ \A m \in 0..(N - 1) : m \in 0..L BY <1>1
    <2>2. N \in 0..N BY <2>1
    <2> HIDE DEF N, K
    <2>3. \A m \in 0..(N - 1) : m \in K => m + 1 \in K BY <1>4, <2>1, Zenon
    <2>4. \A m \in 0..N : m \in K BY <1>3, <2>1, <2>3, UpTo
    <2> QED BY <2>2, <2>4 DEF N
<1>6. \E f : Reads(f, L + 1) BY <1>5
<1> DEFINE Is(f) == f = [k \in 1..(L + 1) |-> ParsedFrom(W, f, k)]
<1>7. \E f : Is(f)
    <2>1. L + 2 - (L + 1) = 1 BY <1>1
    <2> QED BY ONLY <1>6, <2>1, Zenon
<1> DEFINE g == CHOOSE f : Is(f)
<1>8. Is(g) BY ONLY <1>7, Zenon
<1>9. parse(W) = g[1] BY Zenon DEF parse, ParsedFrom, L
<1> HIDE DEF g
<1> WITNESS g
<1> QED BY ONLY <1>8, <1>9, Zenon DEF L


IsPlace(e, p) ==
    e.start = p.first % 2^LocationBits /\ e.end = (p.last % 2^LocationBits) + 1

\* What a device reads in the words of a table are its partitions, one by one.
LEMMA Parsed ==
    ASSUME NEW n \in Nat \ {0}, NEW ps \in [1..n -> CreatedPartitions],
           \A k \in 1..n : ps[k].num_extra = Len(ps[k].extra)
    PROVE  /\ parse(to_words(ps)).legible
           /\ Len(parse(to_words(ps)).partitions) = n
           /\ \A k \in 1..n : IsPlace(parse(to_words(ps)).partitions[k], ps[k])
<1> DEFINE W == to_words(ps)
           seqs == [k \in DOMAIN ps |-> partition_to_words(ps[k])]
<1>1. \A k \in 1..n :
         /\ partition_to_words(ps[k]) \in Seq(Word)
         /\ Len(partition_to_words(ps[k])) = 2 + (IF ps[k].id THEN 2 ELSE 0) + ps[k].num_extra + ps[k].name
         /\ partition_to_words(ps[k])[1] = Location(ps[k]) /\ partition_to_words(ps[k])[2] = Flags(ps[k])
    BY PartitionWords
<1>2. \A k \in 1..n : seqs[k] = partition_to_words(ps[k]) OBVIOUS
<1>3. seqs \in [1..n -> Seq(Word)] BY <1>1
<1>4. W = FlattenSeq(seqs) BY DEF to_words
<1> HIDE DEF W, seqs
<1>5. PICK at \in [0..n -> Nat] :
         /\ at[0] = 0
         /\ W \in Seq(Word) /\ Len(W) = at[n]
         /\ \A k \in 1..n :
               /\ at[k] = at[k - 1] + Len(seqs[k]) /\ at[k] <= at[n]
               /\ \A j \in 1..Len(seqs[k]) : W[at[k - 1] + j] = seqs[k][j]
    <2>1. \E at \in [0..n -> Nat] : Begins(at, Word, n, seqs, FlattenSeq(seqs))
        BY ONLY <1>3, Flattened, Zenon
    <2> QED BY ONLY <1>4, <2>1, Zenon DEF Begins
<1>6. PICK f : f = [k \in 1..(Len(W) + 1) |-> ParsedFrom(W, f, k)] /\ parse(W) = f[1]
    BY ONLY <1>5, Parses, Zenon
<1>7. n \in Nat /\ n # 0 /\ 0 \in 0..n /\ n \in 0..n /\ n \in 1..n /\ \A k \in 1..n : k - 1 \in 0..n /\ k \in 0..n
    OBVIOUS
<1> DEFINE P(k) == PartitionAt(W, at[k - 1] + 1)
           S == {P(k) : k \in 1..n}
           Rest(k) == [j \in 1..(n - k) |-> P(k + j)]
\* where partition k begins, and that it is one
<1>8. ASSUME NEW k \in 1..n
      PROVE  /\ at[k - 1] + 1 \in 1..Len(W) /\ IsPartition(W, at[k - 1] + 1)
             /\ Behind(W, at[k - 1] + 1) = at[k] + 1 /\ at[k] + 1 \in 1..(Len(W) + 1)
             /\ IsPlace(P(k), ps[k])
    <2> DEFINE a == at[k - 1]
               b == at[k]
               x == ps[k].num_extra
               y == ps[k].name
               z == IF ps[k].id THEN 2 ELSE 0
               L == Len(W)
    <2>1. ps[k] \in CreatedPartitions OBVIOUS
    <2>2. a \in Nat /\ b \in Nat /\ x \in Nat /\ y \in Nat /\ z \in Nat /\ L \in Nat
        <3>1. a \in Nat /\ b \in Nat /\ L \in Nat BY <1>5, <1>7
        <3>2. x \in Nat /\ y \in Nat /\ z \in Nat BY <2>1 DEF CreatedPartitions
        <3> QED BY <3>1, <3>2
    <2>3. Len(seqs[k]) = 2 + z + x + y BY <1>1, <1>2
    <2>4. b = a + (2 + z + x + y) /\ b <= L BY <1>5, <2>3
    <2>5. W[a + 1] = Location(ps[k]) /\ W[a + 2] = Flags(ps[k])
        <3>1. seqs[k][1] = Location(ps[k]) /\ seqs[k][2] = Flags(ps[k]) BY <1>1, <1>2
        <3>2. 1 \in 1..(2 + z + x + y) /\ 2 \in 1..(2 + z + x + y)
            <4> HIDE DEF x, y, z
            <4> QED BY ONLY <2>2
        <3>3. \A j \in 1..Len(seqs[k]) : W[a + j] = seqs[k][j] BY ONLY <1>5, Zenon
        <3>4. 1 \in 1..Len(seqs[k]) /\ 2 \in 1..Len(seqs[k])
            <4> DEFINE e == Len(seqs[k])
                       h == 2 + z + x + y
            <4>1. e = h /\ 1 \in 1..h /\ 2 \in 1..h BY ONLY <2>3, <3>2
            <4> HIDE DEF e, h
            <4>2. 1 \in 1..e /\ 2 \in 1..e BY ONLY <4>1
            <4> QED BY ONLY <4>2, Zenon DEF e
        <3>5. W[a + 1] = seqs[k][1] /\ W[a + 2] = seqs[k][2] BY ONLY <3>3, <3>4, Zenon
        <3> QED BY ONLY <3>1, <3>5, Zenon
    <2> HIDE DEF a, b, L
    <2>6. (a + 1) + 1 = a + 2 BY ONLY <2>2
    <2>7. /\ W[a + 1].kind = "location" /\ W[(a + 1) + 1].kind = "flags"
          /\ W[a + 1].first = ps[k].first % 2^LocationBits /\ W[a + 1].last = ps[k].last % 2^LocationBits
          /\ W[(a + 1) + 1].id = ps[k].id /\ W[(a + 1) + 1].num_extra = x /\ W[(a + 1) + 1].name = y
        <3>1. /\ Location(ps[k]).kind = "location" /\ Flags(ps[k]).kind = "flags"
              /\ Location(ps[k]).first = ps[k].first % 2^LocationBits
              /\ Location(ps[k]).last = ps[k].last % 2^LocationBits
              /\ Flags(ps[k]).id = ps[k].id /\ Flags(ps[k]).num_extra = x /\ Flags(ps[k]).name = y
            BY DEF Location, Flags
        <3> QED BY ONLY <2>5, <2>6, <3>1, Zenon
    <2>8. Behind(W, a + 1) = (a + 1) + 2 + z + x + y BY ONLY <2>7, Zenon DEF Behind, z
    <2> HIDE DEF x, y, z
    <2>9. Behind(W, a + 1) = b + 1 /\ b + 1 \in 1..(L + 1) /\ a + 1 \in 1..L /\ a + 1 < L /\ b + 1 <= L + 1
        BY ONLY <2>2, <2>4, <2>8
    <2>10. IsPartition(W, a + 1) BY ONLY <2>7, <2>9, Zenon DEF IsPartition, L
    <2>11. IsPlace(PartitionAt(W, a + 1), ps[k]) BY ONLY <2>7 DEF IsPlace, PartitionAt
    <2> QED BY ONLY <2>9, <2>10, <2>11, Zenon DEF a, b, L
<1> HIDE DEF P
\* what is read from where partition k + 1 begins
<1> DEFINE R(m) == f[at[n - m] + 1] = [legible |-> TRUE, partitions |-> Rest(n - m)]
           K == {m \in 0..n : R(m)}
<1>9. R(0)
    <2>1. n - 0 = n /\ n - n = 0 BY <1>7
    <2>2. at[n] + 1 \in 1..(Len(W) + 1) /\ at[n] + 1 > Len(W) BY <1>5, <1>7
    <2>3. f[at[n] + 1] = [legible |-> TRUE, partitions |-> <<>>] BY <1>6, <2>2 DEF ParsedFrom
    <2>4. Rest(n) = <<>> BY <2>1
    <2> QED BY ONLY <2>1, <2>3, <2>4, Zenon
<1>10. ASSUME NEW m \in 0..(n - 1), m \in K PROVE m + 1 \in K
    <2> DEFINE k == n - m
               a == at[k - 1] + 1
               b == at[k] + 1
    <2>1. k \in 1..n /\ k - 1 = n - (m + 1) /\ m + 1 \in 0..n BY <1>7
    <2>2. f[b] = [legible |-> TRUE, partitions |-> Rest(k)] BY <1>10
    <2>a. k = n - m OBVIOUS
    <2> HIDE DEF k
    <2>3. /\ a \in 1..Len(W) /\ IsPartition(W, a) /\ Behind(W, a) = b /\ b \in 1..(Len(W) + 1)
          /\ P(k) = PartitionAt(W, a)
        BY ONLY <1>8, <2>1, Zenon DEF P
    <2>4. a \in 1..(Len(W) + 1) /\ ~(a > Len(W))
        <3>1. Len(W) \in Nat BY ONLY <1>5, LenProperties
        <3> HIDE DEF a
        <3> QED BY ONLY <2>3, <3>1
    <2> HIDE DEF a, b
    <2>5. f[a] = [[legible |-> TRUE, partitions |-> Rest(k)] EXCEPT !.partitions = <<P(k)>> \o @]
        <3>1. f[a] = ParsedFrom(W, f, a) BY ONLY <1>6, <2>4, Zenon
        <3> QED BY ONLY <2>2, <2>3, <2>4, <3>1, Zenon DEF ParsedFrom
    <2>6. f[a] = [legible |-> TRUE, partitions |-> <<P(k)>> \o Rest(k)]
        <3> HIDE DEF Rest
        <3> QED BY ONLY <2>5
    <2>7. <<P(k)>> \o Rest(k) = Rest(k - 1)
        <3> DEFINE l == n - k
                   q == Rest(k)
                   r == Rest(k - 1)
                   s == <<P(k)>>
        <3>1. l \in Nat /\ n - (k - 1) = 1 + l BY <2>1
        <3>2. \A j \in 1..l : k + j \in 1..n BY <2>1
        <3>3. q \in [1..l -> S] /\ \A j \in 1..l : q[j] = P(k + j)
            <4>1. q = [j \in 1..l |-> P(k + j)] OBVIOUS
            <4>2. \A j \in 1..l : P(k + j) \in S BY ONLY <3>2, Zenon DEF S
            <4> HIDE DEF q, S, l
            <4> QED BY ONLY <4>1, <4>2
        <3>4. \A j \in 1..(1 + l) : (k - 1) + j \in 1..n BY <2>1, <3>1
        <3>5. r \in [1..(1 + l) -> S] /\ \A j \in 1..(1 + l) : r[j] = P((k - 1) + j)
            <4>1. r = [j \in 1..(1 + l) |-> P((k - 1) + j)] BY ONLY <3>1, Zenon
            <4>2. \A j \in 1..(1 + l) : P((k - 1) + j) \in S BY ONLY <3>4, Zenon DEF S
            <4> HIDE DEF r, S, l
            <4> QED BY ONLY <4>1, <4>2
        <3>6. P(k) \in S BY <2>1
        <3> HIDE DEF S
        <3>7. s \in [1..1 -> S] /\ s[1] = P(k) BY <3>6
        <3> HIDE DEF l, q, r, s
        <3>8. q \in Seq(S) /\ Len(q) = l BY ONLY <3>1, <3>3, IsSequence
        <3>9. r \in Seq(S) /\ Len(r) = 1 + l
            <4>1. 1 + l \in Nat BY <3>1
            <4> QED BY ONLY <3>5, <4>1, IsSequence, Zenon
        <3>15. 1 \in Nat OBVIOUS
        <3>10. s \in Seq(S) /\ Len(s) = 1 BY ONLY <3>7, <3>15, IsSequence, Zenon
        <3>11. IsJoined(S, s \o q, s, q) BY ONLY <3>8, <3>10, Joined, Zenon
        <3>12. /\ s \o q \in Seq(S) /\ Len(s \o q) = 1 + l
               /\ \A j \in 1..1 : (s \o q)[j] = s[j]
               /\ \A j \in 1..l : (s \o q)[1 + j] = q[j]
            BY ONLY <3>8, <3>10, <3>11, Zenon DEF IsJoined
        <3>13. ASSUME NEW j \in 1..(1 + l) PROVE (s \o q)[j] = r[j]
            <4>1. CASE j = 1
                <5>1. (k - 1) + j = k /\ j \in 1..1 BY <2>1, <4>1
                <5>2. r[j] = P(k) BY ONLY <3>5, <5>1, Zenon
                <5>3. (s \o q)[j] = s[1] BY ONLY <3>12, <4>1, <5>1, Zenon
                <5> QED BY ONLY <3>7, <5>2, <5>3, Zenon
            <4>2. CASE j # 1
                <5> DEFINE h == j - 1
                <5>1. h \in 1..l /\ 1 + h = j /\ (k - 1) + j = k + h BY <2>1, <3>1, <4>2
                <5> HIDE DEF h
                <5>2. r[j] = P(k + h) BY ONLY <3>5, <5>1, Zenon
                <5>3. (s \o q)[1 + h] = q[h] BY ONLY <3>12, <5>1, Zenon
                <5> QED BY ONLY <3>3, <5>1, <5>2, <5>3, Zenon
            <4> QED BY ONLY <4>1, <4>2, Zenon
        <3>14. s \o q = r
            <4> DEFINE e == s \o q
            <4> HIDE DEF e
            <4>1. e \in Seq(S) /\ Len(e) = Len(r) /\ \A j \in 1..Len(r) : e[j] = r[j]
                BY ONLY <3>9, <3>12, <3>13, Zenon DEF e
            <4>2. e = r BY ONLY <3>9, <4>1, SeqEqual
            <4> QED BY ONLY <4>2, Zenon DEF e
        <3> QED BY ONLY <3>14, Zenon DEF q, r, s
    <2> HIDE DEF Rest
    <2>8. R(m + 1) BY ONLY <2>1, <2>6, <2>7, Zenon DEF a
    <2> HIDE DEF R
    <2> QED BY ONLY <2>1, <2>8, Zenon
<1>11. f[1] = [legible |-> TRUE, partitions |-> Rest(0)]
    <2>1. 0 \in K BY <1>7, <1>9
    <2> HIDE DEF K
    <2>2. \A m \in 0..n : m \in K BY ONLY <1>7, <1>10, <2>1, UpTo
    <2>3. n \in K BY ONLY <1>7, <2>2, Zenon
    <2>4. n - n = 0 /\ at[0] + 1 = 1 BY <1>5, <1>7
    <2>5. R(n) BY ONLY <2>3, Zenon DEF K
    <2> HIDE DEF Rest
    <2> QED BY ONLY <2>4, <2>5, Zenon
<1> DEFINE q == parse(W).partitions
<1>12. parse(W).legible /\ q = Rest(0)
    <2> HIDE DEF Rest
    <2> QED BY ONLY <1>6, <1>11
<1>13. Rest(0) \in [1..n -> S] /\ \A j \in 1..n : Rest(0)[j] = P(j)
    <2>1. n - 0 = n /\ \A j \in 1..n : 0 + j = j BY <1>7
    <2> QED BY <2>1
<1> HIDE DEF q, S, Rest
<1>14. Len(q) = n
    <2>1. Rest(0) \in [1..n -> S] /\ n \in Nat BY ONLY <1>7, <1>13
    <2>2. Len(Rest(0)) = n BY ONLY <2>1, IsSequence, Zenon
    <2> QED BY ONLY <1>12, <2>2, Zenon
<1>15. \A k \in 1..n : IsPlace(q[k], ps[k]) BY ONLY <1>8, <1>12, <1>13, Zenon
<1> QED BY ONLY <1>12, <1>14, <1>15, Zenon DEF q, W

-----------------------------------------------------------------------------

\* The partitions are where the JSON file has them if its numbers are what they look
\* like: start and size of a partition both sectors or both bytes, and no partition
\* begins behind sector 4095, which would be taken for bytes.  Their extra families are
\* as many as the flags can count.
SameUnits(p) == p.start # NotGiven => (p.start >= SectorBytes <=> p.size >= SectorBytes)
UnambiguousTable ==
    \A n \in DOMAIN table :
        /\ \E m \in {0, 1, 3} : extra_families(table[n]) \in [1..m -> STRING]
        /\ SameUnits(table[n]) /\ AskedEnd[n] < SectorBytes

EndAfter(n, end) ==
    Sectors(table[n].size) + IF table[n].start = NotGiven THEN end ELSE Sectors(table[n].start)

LEMMA SectorsType == \A n \in Nat : Sectors(n) \in Nat
BY DEF Sectors

LEMMA AskedEnds ==
    ASSUME table \in Seq(JsonPartitions)
    PROVE  /\ AskedEnd[0] = 2
           /\ \A n \in 1..Len(table) : AskedEnd[n] = EndAfter(n, AskedEnd[n - 1])
           /\ \A n \in 0..Len(table) : AskedEnd[n] \in Nat
<1> DEFINE L == Len(table)
           Body(f, k) == IF k = 0 THEN 2 ELSE EndAfter(k, f[k - 1])
           Ends(f, m) == f = [k \in 0..m |-> Body(f, k)]
           K == {m \in 0..L : \E f : Ends(f, m)}
<1>1. L \in Nat BY LenProperties
<1>2. \A k \in 1..L : table[k].size \in Nat /\ table[k].start \in Nat \cup {NotGiven}
    <2>1. \A k \in 1..L : table[k] \in JsonPartitions BY ElementOfSeq
    <2> QED BY <2>1 DEF JsonPartitions
<1> HIDE DEF L
<1>3. 0 \in K
    <2> DEFINE f == [k \in 0..0 |-> 2]
    <2>1. f = [k \in 0..0 |-> Body(f, k)] OBVIOUS
    <2> HIDE DEF f
    <2>2. Ends(f, 0) BY ONLY <2>1, Zenon
    <2>3. 0 \in 0..L BY <1>1
    <2> HIDE DEF Ends
    <2> QED BY ONLY <2>2, <2>3, Zenon
<1>4. ASSUME NEW m \in 0..(L - 1), m \in K PROVE m + 1 \in K
    <2>1. PICK old : old = [k \in 0..m |-> Body(old, k)] BY <1>4
    <2> DEFINE f == [k \in 0..(m + 1) |-> IF k = m + 1 THEN Body(old, k) ELSE old[k]]
    <2>2. \A k \in 0..m : f[k] = old[k] /\ k # m + 1 OBVIOUS
    <2>3. \A k \in 0..(m + 1) : f[k] = Body(f, k)
        <3> SUFFICES ASSUME NEW k \in 0..(m + 1) PROVE f[k] = Body(f, k)
            OBVIOUS
        <3>1. f[k] = Body(old, k)
            <4>1. CASE k = m + 1 BY <4>1
            <4>2. CASE k # m + 1
                <5>1. k \in 0..m BY <4>2
                <5> HIDE DEF f
                <5> QED BY <2>1, <2>2, <5>1
            <4> HIDE DEF f
            <4> QED BY ONLY <4>1, <4>2, Zenon
        <3>2. k # 0 => k - 1 \in 0..m OBVIOUS
        <3> HIDE DEF f
        <3>3. k # 0 => f[k - 1] = old[k - 1] BY ONLY <2>2, <3>2, Zenon
        <3> QED BY ONLY <3>1, <3>3, Zenon
    <2>4. f = [k \in 0..(m + 1) |-> f[k]] OBVIOUS
    <2> HIDE DEF f
    <2>5. f = [k \in 0..(m + 1) |-> Body(f, k)] BY ONLY <2>3, <2>4, Zenon
    <2>6. Ends(f, m + 1) BY ONLY <2>5, Zenon
    <2>7. m + 1 \in 0..L BY <1>1
    <2> HIDE DEF Ends
    <2> QED BY ONLY <2>6, <2>7, Zenon
<1>5. \E f : Ends(f, L)
    <2> HIDE DEF K
    <2>1. \A m \in 0..L : m \in K BY ONLY <1>1, <1>3, <1>4, UpTo
    <2>2. L \in 0..L BY <1>1
    <2>3. L \in K BY ONLY <2>1, <2>2, Zenon
    <2> QED BY ONLY <2>3, Zenon DEF K
<1> DEFINE g == CHOOSE f : Ends(f, L)
<1>6. Ends(g, L) BY ONLY <1>5, Zenon
<1>7. AskedEnd = g BY Zenon DEF AskedEnd, EndAfter, L
<1> HIDE DEF g
<1>8. AskedEnd = [k \in 0..L |-> Body(AskedEnd, k)] BY ONLY <1>6, <1>7, Zenon
<1> DEFINE e == AskedEnd
<1> HIDE DEF e
<1>9. e = [k \in 0..L |-> Body(e, k)] BY ONLY <1>8, Zenon DEF e
<1>10. e[0] = 2 /\ \A n \in 1..L : e[n] = EndAfter(n, e[n - 1])
    <2>1. 0 \in 0..L /\ \A n \in 1..L : n \in 0..L /\ n # 0 BY <1>1
    <2> QED BY ONLY <1>9, <2>1
<1>11. \A n \in 0..L : e[n] \in Nat
    <2> DEFINE N == {n \in 0..L : e[n] \in Nat}
    <2>1. 0 \in N BY <1>1, <1>10
    <2>2. ASSUME NEW n \in 0..(L - 1), n \in N PROVE n + 1 \in N
        <3>1. n + 1 \in 1..L /\ n + 1 \in 0..L /\ (n + 1) - 1 = n BY <1>1
        <3>2. e[n + 1] = EndAfter(n + 1, e[n]) /\ e[n] \in Nat BY <1>10, <2>2, <3>1
        <3>3. Sectors(table[n + 1].size) \in Nat BY <1>2, <3>1, SectorsType
        <3>4. table[n + 1].start = NotGiven \/ Sectors(table[n + 1].start) \in Nat
            BY <1>2, <3>1, SectorsType
        <3>5. EndAfter(n + 1, e[n]) \in Nat BY <3>2, <3>3, <3>4 DEF EndAfter
        <3> QED BY <3>1, <3>2, <3>5
    <2> HIDE DEF N
    <2>3. \A n \in 0..L : n \in N BY ONLY <1>1, <2>1, <2>2, UpTo
    <2> QED BY ONLY <2>3, Zenon DEF N
<1> QED BY ONLY <1>10, <1>11, Zenon DEF e, L

\* The extra families are counted if there is none, one, or three.
LEMMA ExtraCounted ==
    ASSUME NEW p, NEW m \in {0, 1, 3}, extra_families(p) \in [1..m -> STRING]
    PROVE  /\ extra_families(p) \in Seq(STRING) /\ Len(extra_families(p)) = m
           /\ NumExtraFamilies(p) = m
<1>1. extra_families(p) \in Seq(STRING) /\ Len(extra_families(p)) = m
    <2>1. m \in Nat OBVIOUS
    <2> QED BY <2>1, IsSequence, Zenon
<1> DEFINE set(b) == \E n \in 0..m : (n \div 2^b) % 2 = 1
<1>2. 2^0 = 1 /\ 2^1 = 2 OBVIOUS
<1>3. set(0) <=> m # 0
    <2>1. m = 0 => ~set(0) BY <1>2
    <2>2. m # 0 => (1 \div 2^0) % 2 = 1 /\ 1 \in 0..m BY <1>2
    <2> QED BY <2>1, <2>2
<1>4. set(1) <=> m = 3
    <2>1. m # 3 => ~set(1) BY <1>2
    <2>2. m = 3 => (2 \div 2^1) % 2 = 1 /\ 2 \in 0..m BY <1>2
    <2> QED BY <2>1, <2>2
<1>5. NumExtraFamilies(p) = (IF set(0) THEN 1 ELSE 0) + (IF set(1) THEN 2 ELSE 0)
    BY ONLY <1>1, Zenon DEF NumExtraFamilies
<1> HIDE DEF set
<1> QED BY <1>1, <1>3, <1>4, <1>5

\* Where a partition goes that has start and size of one kind.
LEMMA PlacedAsAsked ==
    ASSUME NEW p \in JsonPartitions, SameUnits(p), NEW cur \in 0..(SectorBytes - 1)
    PROVE  /\ first_sector(cur, p) = IF p.start = NotGiven THEN cur ELSE Sectors(p.start)
           /\ sectors(cur, p) = Sectors(p.size) /\ first_sector(cur, p) \in Nat
<1>1. p.size \in Nat /\ p.start \in Nat \cup {NotGiven} BY DEF JsonPartitions
<1>2. CASE p.start = NotGiven
    <2>1. Start(cur, p) = cur /\ (InBytes(cur, p) <=> p.size >= SectorBytes)
        BY <1>1, <1>2 DEF Start, InBytes, SectorBytes
    <2>2. first_sector(cur, p) = cur BY <2>1 DEF first_sector
    <2>3. sectors(cur, p) = Sectors(p.size)
        BY <1>1, <2>1 DEF sectors, Sectors, InSectors, SectorBytes
    <2> QED BY <1>2, <2>2, <2>3
<1>3. CASE p.start # NotGiven
    <2>1. p.start \in Nat BY <1>1, <1>3
    <2>2. Start(cur, p) = p.start BY <1>3 DEF Start
    <2>3. /\ InBytes(p.start, p) <=> p.size >= SectorBytes
          /\ InBytes(p.start, p) <=> p.start >= SectorBytes
        BY <1>1, <1>3, <2>1 DEF InBytes, SameUnits, SectorBytes
    <2>4. first_sector(cur, p) = Sectors(p.start)
        <3>1. first_sector(cur, p) =
                 IF InBytes(p.start, p) /\ p.start # cur THEN InSectors(p.start) ELSE p.start
            BY ONLY <2>2 DEF first_sector
        <3>2. p.start >= 4096 => p.start # cur
            <4> DEFINE a == p.start
            <4>1. a \in Nat /\ cur \in 0..4095 BY <2>1 DEF SectorBytes
            <4> HIDE DEF a
            <4>2. a >= 4096 => a # cur BY ONLY <4>1
            <4> QED BY ONLY <4>2, Zenon DEF a
        <3>3. InBytes(p.start, p) <=> p.start >= 4096 BY ONLY <2>3 DEF SectorBytes
        <3>4. /\ Sectors(p.start) = IF p.start >= 4096 THEN p.start \div 4096 ELSE p.start
              /\ InSectors(p.start) = p.start \div 4096
            BY DEF Sectors, InSectors, SectorBytes
        <3> QED BY ONLY <3>1, <3>2, <3>3, <3>4
    <2>5. sectors(cur, p) = Sectors(p.size)
        BY <1>1, <2>2, <2>3 DEF sectors, Sectors, InSectors, SectorBytes
    <2>6. Sectors(p.start) \in Nat BY <2>1, SectorsType
    <2> QED BY <1>3, <2>4, <2>5, <2>6
<1> QED BY <1>2, <1>3


NoneCreated == [cur_pos |-> FirstFree, refused |-> FALSE, partitions |-> <<>>]

LEMMA CreatedIsFold ==
    ASSUME NEW json
    PROVE  partition_create(json) =
             (CHOOSE iter : iter = [s \in SUBSET (DOMAIN json) |->
                IF s = {} THEN NoneCreated
                ELSE Created(iter[s \ {Max(s)}], json[Max(s)])])[DOMAIN json]
BY Zenon DEF partition_create, FoldLeft, MapThenFoldSet, NoneCreated

\* What a partition of the file becomes, whatever its numbers are.
Draft ==
    [first : Int, last : Int, id : BOOLEAN, name : Nat, default : SUBSET STRING,
     extra : Seq(STRING), num_extra : Nat]
Drafts == [cur_pos : Int, refused : BOOLEAN, partitions : Seq(Draft)]

PartitionMade(cur, p) ==
    [first |-> first_sector(cur, p), last |-> first_sector(cur, p) + sectors(cur, p) - 1,
     id |-> p.id, name |-> p.name, default |-> ToSet(p.families) \intersect DefaultFamilies,
     extra |-> extra_families(p), num_extra |-> NumExtraFamilies(p)]

LEMMA CreatedShape ==
    ASSUME NEW w \in Drafts, NEW p \in JsonPartitions,
           \E m \in {0, 1, 3} : extra_families(p) \in [1..m -> STRING]
    PROVE  LET new == PartitionMade(w.cur_pos, p)
           IN  /\ Created(w, p) \in Drafts /\ new \in Draft
               /\ Created(w, p).cur_pos = new.last + 1
               /\ Created(w, p).partitions = Append(w.partitions, new)
               /\ new.num_extra = Len(new.extra)
<1> DEFINE cur == w.cur_pos
           new == PartitionMade(cur, p)
           c == Created(w, p)
           s == first_sector(cur, p)
           z == sectors(cur, p)
<1>1. w.cur_pos \in Int /\ w.refused \in BOOLEAN /\ w.partitions \in Seq(Draft) BY DEF Drafts
<1>2. /\ p.size \in Nat /\ p.start \in Nat \cup {NotGiven} /\ p.id \in BOOLEAN /\ p.name \in Nat
      /\ p.families \in Seq(STRING)
    BY DEF JsonPartitions
<1>3. s \in Int /\ z \in Int
    <2>1. Start(cur, p) \in Int BY <1>1, <1>2 DEF Start, NotGiven
    <2>2. \A n \in Int : InSectors(n) \in Int BY DEF InSectors, SectorBytes
    <2>3. s = Start(cur, p) \/ s = InSectors(Start(cur, p)) BY ONLY Zenon DEF first_sector
    <2>4. z = p.size \/ z = InSectors(p.size) BY ONLY Zenon DEF sectors
    <2> HIDE DEF s, z
    <2>5. s \in Int BY ONLY <2>1, <2>2, <2>3, Zenon
    <2>6. p.size \in Int BY <1>2
    <2>7. z \in Int BY ONLY <2>2, <2>4, <2>6, Zenon
    <2> QED BY ONLY <2>5, <2>7, Zenon
<1>4. PICK m \in {0, 1, 3} : extra_families(p) \in [1..m -> STRING] OBVIOUS
<1>5. extra_families(p) \in Seq(STRING) /\ Len(extra_families(p)) = m /\ NumExtraFamilies(p) = m
    BY ONLY <1>4, ExtraCounted, Zenon
<1>6. ToSet(p.families) \intersect DefaultFamilies \in SUBSET STRING
    <2>1. \A k \in DOMAIN p.families : p.families[k] \in STRING BY <1>2
    <2> QED BY <2>1 DEF ToSet
<1>7. new = [first |-> s, last |-> s + z - 1,
     id |-> p.id, name |-> p.name, default |-> ToSet(p.families) \intersect DefaultFamilies,
     extra |-> extra_families(p), num_extra |-> NumExtraFamilies(p)]
    BY ONLY Zenon DEF PartitionMade
<1>8. c = [cur_pos |-> s + z,
           refused |-> w.refused \/ Misaligned(w.cur_pos, p) \/ HoldsAbsoluteBlock(w.cur_pos, p)
                     \/ Len(extra_families(p)) > MaxExtraFamilies,
           partitions |-> Append(w.partitions, new)]
    BY ONLY <1>7, Zenon DEF Created
<1> HIDE DEF c, new, s, z
<1>9. new \in Draft /\ new.last = s + z - 1 /\ new.num_extra = Len(new.extra)
    <2>1. m \in Nat OBVIOUS
    <2> QED BY ONLY <1>2, <1>3, <1>5, <1>6, <1>7, <2>1 DEF Draft
<1>10. c.cur_pos = s + z /\ c.partitions = Append(w.partitions, new) BY ONLY <1>8
<1>11. c \in Drafts
    <2> DEFINE refused == w.refused \/ Misaligned(w.cur_pos, p) \/ HoldsAbsoluteBlock(w.cur_pos, p)
                     \/ Len(extra_families(p)) > MaxExtraFamilies
    <2>1. refused \in BOOLEAN OBVIOUS
    <2> HIDE DEF refused
    <2>2. c = [cur_pos |-> s + z, refused |-> refused, partitions |-> Append(w.partitions, new)]
        BY ONLY <1>8, Zenon DEF refused
    <2>3. Append(w.partitions, new) \in Seq(Draft) BY ONLY <1>1, <1>9, AppendProperties
    <2>4. s + z \in Int BY ONLY <1>3
    <2> QED BY ONLY <2>1, <2>2, <2>3, <2>4 DEF Drafts
<1>12. s + z = new.last + 1 BY ONLY <1>3, <1>9
<1> QED BY ONLY <1>9, <1>10, <1>11, <1>12, Zenon DEF c, new


\* The first k partitions of a file are where it has them.
MadeAsAsked(w, k) ==
    /\ w \in Drafts /\ w.cur_pos = AskedEnd[k] /\ Len(w.partitions) = k
    /\ \A j \in 1..k :
          /\ w.partitions[j].first = AskedEnd[j] - Sectors(table[j].size)
          /\ w.partitions[j].first \in Nat
          /\ w.partitions[j].last = AskedEnd[j] - 1
          /\ w.partitions[j].num_extra = Len(w.partitions[j].extra)

LEMMA MadeOneMore ==
    ASSUME table \in Seq(JsonPartitions), UnambiguousTable, NEW k \in 0..(Len(table) - 1),
           NEW w, MadeAsAsked(w, k)
    PROVE  MadeAsAsked(Created(w, table[k + 1]), k + 1)
<1> DEFINE p == table[k + 1]
           cur == w.cur_pos
           new == PartitionMade(cur, p)
           c == Created(w, p)
           l == k + 1
           e == AskedEnd[l]
<1>1. Len(table) \in Nat BY LenProperties
<1>2. l \in 1..Len(table) /\ l - 1 = k /\ k \in 0..Len(table) /\ l \in 0..Len(table) /\ l \in Nat
    BY <1>1
<1>3. p \in JsonPartitions /\ \E m \in {0, 1, 3} : extra_families(p) \in [1..m -> STRING]
    <2>1. p \in JsonPartitions BY <1>2, ElementOfSeq
    <2>2. DOMAIN table = 1..Len(table) BY LenProperties
    <2> QED BY <1>2, <2>1, <2>2, Zenon DEF UnambiguousTable
<1>4. /\ w \in Drafts /\ cur = AskedEnd[k] /\ Len(w.partitions) = k
      /\ w.cur_pos \in Int /\ w.partitions \in Seq(Draft)
    BY DEF MadeAsAsked, Drafts
<1>5. cur \in 0..(SectorBytes - 1) /\ e = EndAfter(l, cur) /\ e \in Nat /\ SameUnits(p)
    <2>1. DOMAIN table = 1..Len(table) BY LenProperties
    <2>2. e = EndAfter(l, cur) BY <1>2, <1>4, AskedEnds
    <2>3. cur \in Nat /\ e \in Nat BY <1>2, <1>4, AskedEnds
    <2>4. SameUnits(p) BY <1>2, <2>1, Zenon DEF UnambiguousTable
    <2>5. cur < SectorBytes
        <3>1. CASE k = 0
            <4>1. cur = 2 BY <1>4, <3>1, AskedEnds
            <4> QED BY <4>1 DEF SectorBytes
        <3>2. CASE k # 0
            <4>1. k \in DOMAIN table BY <1>2, <2>1, <3>2
            <4> QED BY <1>4, <4>1, Zenon DEF UnambiguousTable
        <3> QED BY <3>1, <3>2
    <2> HIDE DEF cur
    <2>6. cur \in 0..(SectorBytes - 1) BY ONLY <2>3, <2>5 DEF SectorBytes
    <2> QED BY ONLY <2>2, <2>3, <2>4, <2>6, Zenon
<1>6. /\ c \in Drafts /\ new \in Draft /\ c.cur_pos = new.last + 1
      /\ c.partitions = Append(w.partitions, new) /\ new.num_extra = Len(new.extra)
    BY ONLY <1>3, <1>4, CreatedShape, Zenon
<1>7. new.first = e - Sectors(p.size) /\ new.first \in Nat /\ new.last = e - 1
    <2> DEFINE s == first_sector(cur, p)
               z == sectors(cur, p)
    <2>1. new.first = s /\ new.last = s + z - 1 BY DEF PartitionMade
    <2>2. /\ s = IF p.start = NotGiven THEN cur ELSE Sectors(p.start)
          /\ z = Sectors(p.size) /\ s \in Nat
        BY ONLY <1>3, <1>5, PlacedAsAsked
    <2>3. e = z + s BY ONLY <1>5, <2>2 DEF EndAfter
    <2>4. z \in Nat
        <3>1. p.size \in Nat BY <1>3 DEF JsonPartitions
        <3> QED BY ONLY <2>2, <3>1, SectorsType
    <2> HIDE DEF s, z, e
    <2>5. s = e - z /\ s + z - 1 = e - 1 BY ONLY <2>2, <2>3, <2>4
    <2> QED BY ONLY <2>1, <2>2, <2>5, Zenon
<1> HIDE DEF c, new, e
<1>8. c.cur_pos = e
    <2>1. e \in Int BY <1>5
    <2> QED BY ONLY <1>6, <1>7, <2>1
<1>9. /\ Len(c.partitions) = k + 1
      /\ \A j \in 1..k : c.partitions[j] = w.partitions[j]
      /\ c.partitions[k + 1] = new
    <2>1. /\ Len(Append(w.partitions, new)) = Len(w.partitions) + 1
          /\ \A j \in 1..Len(w.partitions) : Append(w.partitions, new)[j] = w.partitions[j]
          /\ Append(w.partitions, new)[Len(w.partitions) + 1] = new
        BY ONLY <1>4, <1>6, AppendProperties
    <2> QED BY ONLY <1>4, <1>6, <2>1, Zenon
<1>10. ASSUME NEW j \in 1..l
       PROVE  /\ c.partitions[j].first = AskedEnd[j] - Sectors(table[j].size)
              /\ c.partitions[j].first \in Nat
              /\ c.partitions[j].last = AskedEnd[j] - 1
              /\ c.partitions[j].num_extra = Len(c.partitions[j].extra)
    <2>1. CASE j = l
        <3>1. c.partitions[j] = new BY ONLY <1>9, <2>1, Zenon
        <3>2. AskedEnd[j] = e /\ table[j] = p BY ONLY <2>1, Zenon DEF e
        <3> QED BY ONLY <1>6, <1>7, <3>1, <3>2, Zenon
    <2>2. CASE j # l
        <3>1. j \in 1..k BY <1>2, <2>2
        <3>2. c.partitions[j] = w.partitions[j] BY ONLY <1>9, <3>1, Zenon
        <3>3. /\ w.partitions[j].first = AskedEnd[j] - Sectors(table[j].size)
              /\ w.partitions[j].first \in Nat
              /\ w.partitions[j].last = AskedEnd[j] - 1
              /\ w.partitions[j].num_extra = Len(w.partitions[j].extra)
            BY <3>1, Zenon DEF MadeAsAsked
        <3> QED BY ONLY <3>2, <3>3, Zenon
    <2> QED BY ONLY <2>1, <2>2, Zenon
<1> QED BY ONLY <1>6, <1>8, <1>9, <1>10, Zenon DEF MadeAsAsked, c, e

LEMMA Made ==
    ASSUME table \in Seq(JsonPartitions), UnambiguousTable
    PROVE  MadeAsAsked(partition_create(table), Len(table))
<1> DEFINE n == Len(table)
           op == [kv \in (1..n) \X Drafts |-> Created(kv[2], table[kv[1]])]
           Folds(it) == it = [S \in SUBSET (DOMAIN table) |->
                IF S = {} THEN NoneCreated ELSE Created(it[S \ {Max(S)}], table[Max(S)])]
           iter == CHOOSE it : Folds(it)
           K == {k \in 0..n : MadeAsAsked(iter[1..k], k)}
<1>1. n \in Nat /\ DOMAIN table = 1..n BY LenProperties
<1>2. partition_create(table) = iter[1..n]
    <2>1. partition_create(table) = iter[DOMAIN table] BY CreatedIsFold, Zenon
    <2> QED BY ONLY <1>1, <2>1, Zenon
<1> HIDE DEF n
<1>3. \A k \in 1..n : table[k] \in JsonPartitions BY ElementOfSeq DEF n
<1>4. \A k \in 1..n : \A v \in Drafts :
         op[<<k, v>>] = Created(v, table[k]) /\ Created(v, table[k]) \in Drafts
    <2> SUFFICES ASSUME NEW k \in 1..n, NEW v \in Drafts
                 PROVE  op[<<k, v>>] = Created(v, table[k]) /\ Created(v, table[k]) \in Drafts
        OBVIOUS
    <2>1. op[<<k, v>>] = Created(v, table[k]) OBVIOUS
    <2>2. \E m \in {0, 1, 3} : extra_families(table[k]) \in [1..m -> STRING]
        BY <1>1, Zenon DEF UnambiguousTable
    <2>3. Created(v, table[k]) \in Drafts BY ONLY <1>3, <2>2, CreatedShape, Zenon
    <2> QED BY ONLY <2>1, <2>3, Zenon
<1>5. NoneCreated \in Drafts
    <2>1. <<>> \in Seq(Draft) BY EmptySeq
    <2> QED BY <2>1 DEF NoneCreated, Drafts, FirstFree
<1>6. op \in [(1..n) \X Drafts -> Drafts] BY <1>4
<1> HIDE DEF op
<1>7. \E it : Folds(it)
    <2>1. PICK it \in [SUBSET (1..n) -> Drafts] : IteratesOver(it, n, NoneCreated, op)
        BY ONLY <1>1, <1>5, <1>6, FoldExists
    <2>2. ASSUME NEW S \in SUBSET (1..n), S # {}
          PROVE  op[<<Max(S), it[S \ {Max(S)}]>>] = Created(it[S \ {Max(S)}], table[Max(S)])
        <3>1. Max(S) \in 1..n
            <4>1. 1 \in Int /\ n \in Int BY <1>1
            <4>2. Max(S) \in S BY <2>2, <4>1, Largest
            <4> QED BY <4>2
        <3>2. S \ {Max(S)} \in SUBSET (1..n) OBVIOUS
        <3>3. it[S \ {Max(S)}] \in Drafts BY <2>1, <3>2
        <3> QED BY ONLY <1>4, <3>1, <3>3, Zenon
    <2>3. it = [S \in SUBSET (1..n) |-> it[S]] BY <2>1
    <2>4. \A S \in SUBSET (1..n) :
             it[S] = IF S = {} THEN NoneCreated ELSE Created(it[S \ {Max(S)}], table[Max(S)])
        BY ONLY <2>1, <2>2, Zenon DEF IteratesOver
    <2>5. Folds(it) BY ONLY <1>1, <2>3, <2>4, Zenon
    <2> HIDE DEF Folds
    <2> QED BY ONLY <2>5, Zenon
<1>8. Folds(iter) BY ONLY <1>7, Zenon
<1> HIDE DEF iter
<1>9. \A S \in SUBSET (1..n) :
          iter[S] = IF S = {} THEN NoneCreated ELSE Created(iter[S \ {Max(S)}], table[Max(S)])
    BY ONLY <1>1, <1>8
<1>10. 0 \in K
    <2>1. 1..0 = {} /\ 1..0 \in SUBSET (1..n) OBVIOUS
    <2>2. iter[1..0] = NoneCreated BY ONLY <1>9, <2>1, Zenon
    <2>3. MadeAsAsked(NoneCreated, 0)
        <3>1. NoneCreated.cur_pos = 2 /\ NoneCreated.partitions = <<>> BY DEF NoneCreated, FirstFree
        <3>2. AskedEnd[0] = 2 BY AskedEnds
        <3>3. Len(<<>>) = 0 /\ 1..0 = {} OBVIOUS
        <3> QED BY ONLY <1>5, <3>1, <3>2, <3>3 DEF MadeAsAsked
    <2>4. 0 \in 0..n BY ONLY <1>1
    <2> QED BY ONLY <2>2, <2>3, <2>4, Zenon
<1>11. ASSUME NEW k \in 0..(n - 1), k \in K PROVE k + 1 \in K
    <2>1. iter[1..(k + 1)] = Created(iter[1..k], table[k + 1])
        <3>1. /\ 1..(k + 1) \in SUBSET (1..n) /\ 1..(k + 1) # {}
              /\ Max(1..(k + 1)) = k + 1 /\ (1..(k + 1)) \ {k + 1} = 1..k
            BY <1>1, Prefix
        <3> QED BY ONLY <1>9, <3>1, Zenon
    <2>2. MadeAsAsked(iter[1..k], k) BY ONLY <1>11, Zenon
    <2>3. k \in 0..(Len(table) - 1) BY DEF n
    <2>4. MadeAsAsked(Created(iter[1..k], table[k + 1]), k + 1)
        BY <2>2, <2>3, MadeOneMore, Zenon
    <2>5. k + 1 \in 0..n BY ONLY <1>1
    <2> QED BY ONLY <2>1, <2>4, <2>5, Zenon
<1> HIDE DEF K
<1>12. \A k \in 0..n : k \in K BY ONLY <1>1, <1>10, <1>11, UpTo
<1>13. n \in K
    <2>1. n \in 0..n BY ONLY <1>1
    <2> QED BY ONLY <1>12, <2>1, Zenon
<1> QED BY ONLY <1>2, <1>13, Zenon DEF K, n


LEMMA SectorsPositive == \A n \in Nat \ {0} : Sectors(n) \in Nat \ {0}
<1> SUFFICES ASSUME NEW n \in Nat \ {0} PROVE Sectors(n) \in Nat \ {0}
    OBVIOUS
<1>1. n >= 4096 => n \div 4096 \in Nat \ {0} OBVIOUS
<1> QED BY <1>1 DEF Sectors

\* The device has the partitions where the JSON file has them.
LEMMA AskedIsRead ==
    ASSUME table # no_partition, table \in Seq(JsonPartitions), UnambiguousTable,
           partitions = PartitionsOf(table), partitions # no_partition, NEW n \in DOMAIN table
    PROVE  /\ n \in 1..Len(table) /\ Len(partitions) = Len(table)
           /\ partitions[n].start = AskedEnd[n] - Sectors(table[n].size)
           /\ partitions[n].end = AskedEnd[n]
           /\ AskedEnd[n] \in Nat /\ partitions[n].start \in Nat
           /\ partitions[n].start < partitions[n].end
<1> DEFINE N == Len(table)
           ps == partition_create(table).partitions
<1>1. N \in Nat /\ N # 0 /\ DOMAIN table = 1..N /\ n \in 1..N
    <2>1. N \in Nat /\ DOMAIN table = 1..N BY LenProperties
    <2> HIDE DEF N
    <2> QED BY <2>1
<1>2. /\ ps \in Seq(Draft) /\ Len(ps) = N
      /\ \A j \in 1..N :
          /\ ps[j].first = AskedEnd[j] - Sectors(table[j].size)
          /\ ps[j].first \in Nat
          /\ ps[j].last = AskedEnd[j] - 1
          /\ ps[j].num_extra = Len(ps[j].extra)
    <2>1. MadeAsAsked(partition_create(table), N) BY Made
    <2> HIDE DEF N
    <2> QED BY <2>1 DEF MadeAsAsked, Drafts
<1>3. partitions = parse(to_words(ps)).partitions
    <2>1. partitions = get_partitions(to_words(ps)) BY Zenon DEF PartitionsOf
    <2> HIDE DEF ps
    <2> QED BY ONLY <2>1, partitions # no_partition, Zenon DEF get_partitions
<1> HIDE DEF ps
<1>4. \A j \in 1..N :
         /\ AskedEnd[j] \in 1..(SectorBytes - 1) /\ Sectors(table[j].size) \in Nat \ {0}
    <2> SUFFICES ASSUME NEW j \in 1..N
                 PROVE  /\ AskedEnd[j] \in 1..(SectorBytes - 1)
                        /\ Sectors(table[j].size) \in Nat \ {0}
        OBVIOUS
    <2>1. j \in 0..N BY <1>1
    <2>2. AskedEnd[j] \in Nat BY <2>1, AskedEnds
    <2>3. AskedEnd[j] < SectorBytes BY <1>1, Zenon DEF UnambiguousTable
    <2>4. table[j] \in JsonPartitions BY ElementOfSeq
    <2>5. table[j].size \in Nat \ {0} BY <2>4 DEF JsonPartitions
    <2>6. Sectors(table[j].size) \in Nat \ {0} BY ONLY <2>5, SectorsPositive, Zenon
    <2> DEFINE e == AskedEnd[j]
               z == Sectors(table[j].size)
    <2>7. e - z \in Nat BY <1>2
    <2> HIDE DEF e, z, N
    <2>8. e \in 1..(SectorBytes - 1)
        <3>1. e \in Nat /\ e < SectorBytes /\ z \in Nat \ {0} BY ONLY <2>2, <2>3, <2>6, Zenon DEF e, z
        <3> QED BY ONLY <2>7, <3>1 DEF SectorBytes
    <2> QED BY ONLY <2>6, <2>8, Zenon DEF e, z
<1>5. \A j \in 1..N : ps[j] \in CreatedPartitions
    <2> SUFFICES ASSUME NEW j \in 1..N PROVE ps[j] \in CreatedPartitions
        OBVIOUS
    <2>1. ps[j] \in Draft BY ONLY <1>1, <1>2, ElementOfSeq
    <2>2. ps[j].first \in Nat BY ONLY <1>2, Zenon
    <2> DEFINE e == AskedEnd[j]
    <2>3. ps[j].last = e - 1 /\ e \in 1..(SectorBytes - 1) BY ONLY <1>2, <1>4, Zenon
    <2> HIDE DEF e
    <2>4. ps[j].last \in Nat BY ONLY <2>3 DEF SectorBytes
    <2>5. ps[j].num_extra \in Nat
        <3>1. ps[j].extra \in Seq(STRING) BY <2>1 DEF Draft
        <3>2. Len(ps[j].extra) \in Nat BY ONLY <3>1, LenProperties
        <3>3. ps[j].num_extra = Len(ps[j].extra) BY ONLY <1>2, Zenon
        <3> QED BY ONLY <3>2, <3>3, Zenon
    <2> QED BY ONLY <2>1, <2>2, <2>4, <2>5 DEF Draft, CreatedPartitions
<1>6. ps \in [1..N -> CreatedPartitions]
    <2>1. ps = [j \in 1..N |-> ps[j]] BY ONLY <1>2
    <2> QED BY ONLY <1>5, <2>1
<1>7. /\ Len(partitions) = N /\ IsPlace(partitions[n], ps[n])
    <2>1. N \in Nat \ {0} BY <1>1
    <2>2. \A k \in 1..N : ps[k].num_extra = Len(ps[k].extra) BY ONLY <1>2, Zenon
    <2> HIDE DEF N
    <2>3. /\ Len(parse(to_words(ps)).partitions) = N
          /\ \A k \in 1..N : IsPlace(parse(to_words(ps)).partitions[k], ps[k])
        BY ONLY <1>6, <2>1, <2>2, Parsed
    <2> QED BY ONLY <1>1, <1>3, <2>3, Zenon
<1>8. /\ partitions[n].start = AskedEnd[n] - Sectors(table[n].size)
      /\ partitions[n].end = AskedEnd[n]
      /\ AskedEnd[n] \in Nat /\ partitions[n].start \in Nat
      /\ partitions[n].start < partitions[n].end
    <2> DEFINE e == AskedEnd[n]
               z == Sectors(table[n].size)
               f == ps[n].first
               l == ps[n].last
               M == 2^LocationBits
    <2>1. e \in 1..(SectorBytes - 1) /\ z \in Nat \ {0} BY ONLY <1>1, <1>4, Zenon
    <2>2. f = e - z /\ f \in Nat /\ l = e - 1 BY ONLY <1>1, <1>2, Zenon
    <2>3. M \in Nat \ {0} /\ M = 8192 BY DEF LocationBits
    <2>4. partitions[n].start = f % M /\ partitions[n].end = (l % M) + 1
        BY ONLY <1>7, Zenon DEF IsPlace
    <2> HIDE DEF e, z, f, l, M
    <2>5. f \in 0..(M - 1) /\ l \in 0..(M - 1)
        <3>1. e \in Nat /\ 0 < e /\ e < 8192 /\ z \in Nat /\ 0 < z BY ONLY <2>1 DEF SectorBytes
        <3>2. M - 1 = 8191 BY ONLY <2>3
        <3>3. f \in Nat /\ f <= 8191 BY ONLY <2>2, <3>1
        <3>4. l \in Nat /\ l <= 8191 BY ONLY <2>2, <3>1
        <3>5. M - 1 \in Nat BY ONLY <2>3
        <3> QED BY ONLY <3>2, <3>3, <3>4, <3>5
    <2>6. f % M = f /\ l % M = l
        <3>1. M \in Nat \ {0} BY ONLY <2>3
        <3>2. f % M = f BY ONLY <2>5, <3>1, SmallRemainder, Zenon
        <3>3. l % M = l BY ONLY <2>5, <3>1, SmallRemainder, Zenon
        <3> QED BY ONLY <3>2, <3>3
    <2>7. l + 1 = e /\ f < e /\ e \in Nat BY ONLY <2>1, <2>2 DEF SectorBytes
    <2> QED BY ONLY <2>2, <2>4, <2>6, <2>7, Zenon DEF e, z
<1> QED BY ONLY <1>1, <1>7, <1>8, Zenon

-----------------------------------------------------------------------------
(* A load into a partition, and the erase of one.                          *)

TableInv ==
    /\ partitions = PartitionsOf(table)
    /\ table # no_partition => table \in Seq(JsonPartitions)
    /\ settings.command = "load" /\ settings.partition >= 0 => find_binary_start(file) # 0

LEMMA TableInitially == Init => TableInv
<1> SUFFICES ASSUME Init PROVE TableInv OBVIOUS
<1>1. PICK in \in Inputs :
        /\ settings = in.settings /\ file = in.file
        /\ table = in.table /\ target = in.target
        /\ partitions = PartitionsOf(table)
    BY DEF Init
<1>2. table # no_partition => table \in Seq(JsonPartitions)
    BY <1>1, InputAssumption
<1>3. settings.command = "load" /\ settings.partition >= 0 => find_binary_start(file) # 0
    BY <1>1, InputAssumption
<1> QED BY <1>1, <1>2, <1>3 DEF TableInv

LEMMA TableKept == ASSUME TableInv, UNCHANGED input PROVE TableInv'
BY Zenon DEF TableInv, input

\* What has been checked of the partition's size.
Fitting ==
    /\ partition_size = PlaceSize
    /\ FlashRanges # {} => ~TooBigForPartition
FittingInv ==
    settings.command = "load" =>
        /\ pc = "check" => partition_size = PlaceSize
        /\ pc \in {"load", "program", "verify", "execute", "done"} \/ mem # before => Fitting

LEMMA FittingKept ==
    ASSUME UNCHANGED <<input, partition_size, ranges>>
    PROVE  PlaceSize' = PlaceSize /\ Fitting' = Fitting
<1>1. PlaceSize' = PlaceSize
    BY DEF PlaceSize, UsesPartition, AsksDevice, Partition, input
<1>2. FlashRanges' = FlashRanges BY DEF FlashRanges, IsFlash
<1>3. TooBigForPartition' = TooBigForPartition
    BY <1>2 DEF TooBigForPartition, flash_min, flash_max
<1> QED BY <1>1, <1>2, <1>3 DEF Fitting

LEMMA FittingStep == FlashInv /\ AcceptInv /\ FittingInv /\ [Next]_vars => FittingInv'
<1> SUFFICES ASSUME FlashInv, AcceptInv, FittingInv, [Next]_vars PROVE FittingInv' OBVIOUS
<1>1. UNCHANGED input BY NextKeepsInput DEF vars
<1>2. settings' = settings /\ before' = before BY <1>1 DEF input
<1>3. /\ pc = "start" => mem = before
      /\ pc \in {"check", "load", "program"} => settings.command = "load"
      /\ pc = "erase" => settings.command = "erase"
    BY DEF FlashInv, Loading, Erasing
<1>4. CASE LoadCommand
    <2>1. pc = "start" /\ mem' = mem /\ pc' \in {"check", "failed"} BY <1>4 DEF LoadCommand, Fail
    <2>2. ASSUME pc' = "check" PROVE partition_size' = PlaceSize'
        <3>1. partition_size' = PlaceSize BY <1>4, <2>2 DEF LoadCommand, Fail
        <3>2. PlaceSize' = PlaceSize
            BY <1>1 DEF PlaceSize, UsesPartition, AsksDevice, Partition, input
        <3> QED BY <3>1, <3>2
    <2> QED BY <1>2, <1>3, <2>1, <2>2 DEF FittingInv
<1>5. CASE VerifyCommand \/ EraseCommand
    <2>1. settings.command # "load" BY <1>5 DEF VerifyCommand, EraseCommand
    <2> QED BY <1>2, <2>1 DEF FittingInv
<1>6. CASE SaveCommand
    <2>1. settings.command = "save" BY <1>6 DEF SaveCommand
    <2> QED BY <1>2, <2>1 DEF FittingInv
<1>7. CASE SaveChunk \/ SaveVerify
    <2>1. pc \in {"save", "compare"} BY <1>7 DEF SaveChunk, SaveVerify
    <2>2. settings.command = "save" BY <2>1 DEF AcceptInv
    <2> QED BY <1>2, <2>2 DEF FittingInv
<1>8. CASE EraseSector
    <2>1. pc = "erase" BY <1>8 DEF EraseSector
    <2> QED BY <1>2, <1>3, <2>1 DEF FittingInv
<1>9. ASSUME UNCHANGED <<partition_size, ranges>>,
             pc \in {"load", "program", "verify", "execute", "done"}, pc' # "check"
      PROVE  FittingInv'
    <2>1. settings.command = "load" => Fitting' BY <1>1, <1>9, FittingKept DEF FittingInv
    <2> QED BY <1>2, <1>9, <2>1 DEF FittingInv
<1>10. CASE Check
    <2>1. UNCHANGED <<partition_size, ranges, mem>> /\ pc = "check" BY <1>10 DEF Check, place
    <2>2. settings.command = "load" /\ partition_size = PlaceSize /\ mem = before
        BY <1>3, <2>1 DEF AcceptInv, FittingInv
    <2>3. CASE RefusedRanges = {} /\ SizeRefusal = "none" /\ ToRange(1)
        <3>1. FlashRanges # {} => ~TooBigForPartition
            <4> SUFFICES ASSUME FlashRanges # {}, TooBigForPartition PROVE FALSE
                OBVIOUS
            <4>1. SizeRefusal # "none" BY DEF SizeRefusal
            <4> QED BY <2>3, <4>1
        <3>2. Fitting BY <2>2, <3>1 DEF Fitting
        <3>3. Fitting' BY <1>1, <2>1, <3>2, FittingKept
        <3>4. pc' \in {"load", "verify"} BY <2>3 DEF ToRange
        <3> QED BY <1>2, <2>2, <3>3, <3>4 DEF FittingInv
    <2>4. CASE pc' = "failed" BY <1>2, <2>1, <2>2, <2>4 DEF FittingInv
    <2> QED BY <1>10, <2>3, <2>4 DEF Check, Fail
<1>11. CASE SkipBatch \/ EraseBatch \/ ProgramBatch \/ WriteRamBatch
    <2>1. UNCHANGED <<partition_size, ranges>> /\ pc \in {"load", "program"}
        BY <1>11 DEF SkipBatch, EraseBatch, ProgramBatch, WriteRamBatch, place
    <2>2. pc' \in {"load", "program", "verify"}
        BY <1>11 DEF SkipBatch, EraseBatch, ProgramBatch, WriteRamBatch, Advance, ToRange
    <2> QED BY <1>9, <2>1, <2>2
<1>12. CASE Verify \/ Execute
    <2>1. UNCHANGED <<partition_size, ranges>> /\ pc \in {"verify", "execute"}
          /\ pc' \in {"execute", "done", "failed"}
        BY <1>12 DEF Verify, Execute, Fail, place
    <2> QED BY <1>9, <2>1
<1>13. CASE ConnectionFails
    <2>1. UNCHANGED <<partition_size, ranges>> /\ pc' = "failed"
        BY <1>13 DEF ConnectionFails, Fail, place
    <2>2. CASE pc \in {"load", "program"} BY <1>9, <2>1, <2>2
    <2>3. CASE pc = "erase" BY <1>2, <1>3, <2>1, <2>3 DEF FittingInv
    <2>4. CASE pc \notin {"load", "program", "erase"}
        <3>1. mem' = mem BY <1>13, <2>4 DEF ConnectionFails
        <3>2. Fitting' = Fitting BY <1>1, <2>1, FittingKept
        <3> QED BY <1>2, <2>1, <3>1, <3>2 DEF FittingInv
    <2> QED BY <2>2, <2>3, <2>4
<1>14. CASE UNCHANGED vars
    <2>1. PlaceSize' = PlaceSize /\ Fitting' = Fitting BY <1>14, FittingKept DEF vars, place
    <2>2. partition_size' = partition_size /\ pc' = pc /\ mem' = mem BY <1>14 DEF vars, place
    <2> QED BY <1>2, <2>1, <2>2 DEF FittingInv
<1> QED BY <1>4, <1>5, <1>6, <1>7, <1>8, <1>10, <1>11, <1>12, <1>13, <1>14 DEF Next

\* The ranges of the file begin where its program does, or behind it.
PlainFile == \A r \in file : find_binary_start(file) <= r.from

LEMMA StartOfFile ==
    ASSUME InputInv, PlainFile, find_binary_start(file) # 0
    PROVE  \E q \in file : q.from = find_binary_start(file)
<1> DEFINE inSram == {r.from : r \in {q \in file : q.from \in SramStart..(SramEnd - 1)}}
<1>1. file \in SUBSET Ranges BY DEF InputInv
<1>2. CASE \E r \in file : FlashStart \in Cells(r)
    <2>1. PICK r \in file : FlashStart \in Cells(r) BY <1>2
    <2>2. find_binary_start(file) = FlashStart BY <1>2, Zenon DEF find_binary_start
    <2>3. r.from \in Nat /\ FlashStart \in Nat BY <1>1, LayoutAssumption DEF Ranges
    <2>4. r.from <= FlashStart
        <3>1. r.to \in Nat BY <1>1 DEF Ranges
        <3> QED BY <2>1, <2>3, <3>1 DEF Cells
    <2>5. FlashStart <= r.from BY <2>2 DEF PlainFile
    <2>6. r.from = FlashStart BY ONLY <2>3, <2>4, <2>5
    <2> QED BY <2>2, <2>6
<1>3. CASE ~ \E r \in file : FlashStart \in Cells(r)
    <2>1. \A r \in file : FlashStart \notin Cells(r) BY <1>3
    <2>2. CASE inSram # {}
        <3>1. find_binary_start(file) = Min(inSram) BY <1>3, <2>1, <2>2, Zenon DEF find_binary_start
        <3>2. inSram \in SUBSET Nat BY <1>1 DEF Ranges
        <3>3. Min(inSram) \in inSram
            <4> HIDE DEF inSram
            <4> QED BY <2>2, <3>2, Smallest
        <3> QED BY <3>1, <3>3
    <2>3. CASE inSram = {}
        <3>1. find_binary_start(file) = 0 BY <1>3, <2>1, <2>3, Zenon DEF find_binary_start
        <3> QED BY <3>1
    <2> QED BY <2>2, <2>3
<1> QED BY <1>2, <1>3

\* The partition that is used is one of the table, read from the device.
LEMMA PartitionUsed ==
    ASSUME InputInv, TableInv, table # no_partition, UsedPartition \in DOMAIN table,
           \/ settings.command = "load" /\ LoadRefusal = "none"
           \/ settings.command = "erase" /\ PartitionRefusal = "none"
    PROVE  /\ partitions # no_partition /\ Partition = partitions[UsedPartition]
           /\ UsesPartition
           /\ settings.command = "erase" => settings.partition >= 0
           /\ settings.command = "load" => find_binary_start(file) # 0
<1>1. settings.partition \in Nat \cup {-1} /\ target \in Int
    BY DEF InputInv, InputTyped, Settings
<1>2. table \in Seq(JsonPartitions) BY DEF TableInv
<1>3. UsedPartition \in 1..Len(table) /\ Len(table) \in Nat BY <1>2, LenProperties
<1>4. UsedPartition # 0 BY <1>3
<1>5. PartitionRefusal = "none" BY DEF LoadRefusal
<1>6. CASE settings.partition >= 0
    <2>1. partitions # no_partition BY <1>5, <1>6 DEF PartitionRefusal
    <2>2. Partition = partitions[settings.partition + 1] BY <1>1, <1>6 DEF Partition
    <2>3. UsedPartition = settings.partition + 1 BY <1>6 DEF UsedPartition
    <2>4. settings.command = "load" => find_binary_start(file) # 0 BY <1>6 DEF TableInv
    <2> QED BY <1>6, <2>1, <2>2, <2>3, <2>4 DEF UsesPartition
<1>7. CASE ~(settings.partition >= 0)
    <2>1. settings.command = "load" /\ AsksDevice /\ target # PARTITION_TABLE_NO_PARTITION_INDEX
          /\ UsedPartition = target + 1
        BY <1>4, <1>7, Zenon DEF UsedPartition
    <2>2. target >= 0 BY <1>1, <1>3, <2>1
    <2>3. partitions # no_partition BY <1>1, <2>1, <2>2 DEF InputInv
    <2>4. settings.partition < 0 BY <1>1, <1>7
    <2>5. Partition = partitions[target + 1] BY <1>1, <1>7, <2>1, <2>4 DEF Partition
    <2>6. find_binary_start(file) # 0 BY <2>1, LayoutAssumption DEF AsksDevice
    <2> QED BY <2>1, <2>3, <2>5, <2>6 DEF UsesPartition
<1> QED BY <1>6, <1>7

PartitionFrom == FlashStart + (Partition.start * Sector)
PartitionTo == FlashStart + (Partition.end * Sector)

LEMMA PartitionAsked ==
    ASSUME InputInv, TableInv, UnambiguousTable, table # no_partition,
           UsedPartition \in DOMAIN table,
           \/ settings.command = "load" /\ LoadRefusal = "none"
           \/ settings.command = "erase" /\ PartitionRefusal = "none"
    PROVE  /\ AskedPartition(UsedPartition) = PartitionFrom..(PartitionTo - 1)
           /\ PartitionFrom \in Nat /\ PartitionTo \in Nat
           /\ FlashStart <= PartitionFrom /\ PartitionFrom < PartitionTo
           /\ PartitionFrom % Sector = 0 /\ PartitionTo % Sector = 0
           /\ (Partition.end - Partition.start) * Sector = PartitionTo - PartitionFrom
           /\ PartitionTo = FlashStart + (AskedEnd[UsedPartition] * Sector)
<1> DEFINE n == UsedPartition
           s == partitions[n].start
           e == partitions[n].end
<1>1. partitions # no_partition /\ Partition = partitions[n] BY PartitionUsed
<1>2. table \in Seq(JsonPartitions) /\ partitions = PartitionsOf(table) BY DEF TableInv
<1>3. /\ s = AskedEnd[n] - Sectors(table[n].size)
      /\ e = AskedEnd[n] /\ AskedEnd[n] \in Nat /\ s \in Nat /\ s < e
    BY <1>1, <1>2, AskedIsRead
<1>4. FlashStart \in Nat /\ FlashStart % Sector = 0 /\ Sector \in Nat \ {0}
    BY LayoutAssumption, SectorAssumption
<1>5. AskedPartition(n) = (FlashStart + (s * Sector))..(FlashStart + ((e * Sector) - 1))
    <2>1. /\ s = AskedEnd[n] - Sectors(table[n].size) /\ e = AskedEnd[n] BY <1>3
    <2> HIDE DEF s, e, n
    <2> QED BY ONLY <2>1, Zenon DEF AskedPartition
<1>6. Partition.start = s /\ Partition.end = e BY <1>1
<1>7. PartitionTo = FlashStart + (AskedEnd[n] * Sector)
    BY <1>3, <1>6, Zenon DEF PartitionTo
<1> HIDE DEF s, e, n
<1>8. e \in Nat /\ s \in Nat /\ s < e BY ONLY <1>3, Zenon
<1>9. PartitionFrom = FlashStart + (s * Sector) /\ PartitionTo = FlashStart + (e * Sector)
    BY <1>6, Zenon DEF PartitionFrom, PartitionTo
<1>10. /\ s * Sector \in Nat /\ e * Sector \in Nat /\ s * Sector < e * Sector
       /\ (e - s) * Sector = (e * Sector) - (s * Sector)
    <2>1. s * Sector \in Nat /\ e * Sector \in Nat BY ONLY <1>4, <1>8
    <2>2. (e - s) * Sector = (e * Sector) - (s * Sector) BY ONLY <1>4, <1>8
    <2>3. s * Sector < e * Sector
        <3>1. (Sector * s) + Sector <= Sector * e BY <1>8, Multiples
        <3>2. Sector * s = s * Sector /\ Sector * e = e * Sector BY ONLY <1>4, <1>8
        <3> QED BY ONLY <1>4, <2>1, <3>1, <3>2
    <2> QED BY ONLY <2>1, <2>2, <2>3
<1>11. (s * Sector) % Sector = 0 /\ (e * Sector) % Sector = 0
    <2>1. \A x \in Nat : (x * Sector) % Sector = 0
        <3> SUFFICES ASSUME NEW x \in Nat PROVE (x * Sector) % Sector = 0
            OBVIOUS
        <3>1. ((Sector * x) + 0) % Sector = 0
            <4>1. 0 \in 0..(Sector - 1) BY ONLY <1>4
            <4> QED BY ONLY <4>1, Remainder
        <3>2. (Sector * x) + 0 = x * Sector BY ONLY <1>4
        <3> QED BY <3>1, <3>2
    <2> QED BY ONLY <1>8, <2>1, Zenon
<1> DEFINE S == s * Sector
           E == e * Sector
<1>12. (FlashStart + S) % Sector = 0 /\ (FlashStart + E) % Sector = 0
    <2>1. FlashStart \in Int /\ S \in Int /\ E \in Int BY ONLY <1>4, <1>10
    <2>2. S % Sector = 0 /\ E % Sector = 0 BY ONLY <1>11, Zenon
    <2> HIDE DEF S, E
    <2> QED BY ONLY <1>4, <2>1, <2>2, SumOfMultiples
<1>13. /\ AskedPartition(n) = PartitionFrom..(PartitionTo - 1)
       /\ PartitionFrom % Sector = 0 /\ PartitionTo % Sector = 0
    <2>1. AskedPartition(n) = (FlashStart + S)..(FlashStart + (E - 1))
        BY ONLY <1>5, Zenon DEF S, E
    <2>2. PartitionFrom = FlashStart + S /\ PartitionTo = FlashStart + E
        BY ONLY <1>9, Zenon DEF S, E
    <2>3. FlashStart \in Int /\ E \in Int BY ONLY <1>4, <1>10
    <2> HIDE DEF S, E
    <2>4. FlashStart + (E - 1) = (FlashStart + E) - 1 BY ONLY <2>3
    <2> QED BY ONLY <1>12, <2>1, <2>2, <2>4, Zenon
<1>14. PartitionFrom = FlashStart + S /\ PartitionTo = FlashStart + E
       /\ (Partition.end - Partition.start) * Sector = E - S
    BY ONLY <1>6, <1>9, <1>10, Zenon DEF S, E
<1>15. S \in Nat /\ E \in Nat /\ S < E BY ONLY <1>10, Zenon DEF S, E
<1> HIDE DEF S, E
<1>16. /\ PartitionFrom \in Nat /\ PartitionTo \in Nat
       /\ FlashStart <= PartitionFrom /\ PartitionFrom < PartitionTo
       /\ E - S = PartitionTo - PartitionFrom
    BY ONLY <1>4, <1>14, <1>15
<1> QED BY ONLY <1>7, <1>13, <1>14, <1>16, Zenon DEF n

\* Moved to a partition, the file begins there, and so does one of the ranges to write.
LEMMA BeginsInPartition ==
    ASSUME InputInv, Located, PlainFile, PlaceOffset # 0, find_binary_start(file) # 0
    PROVE  /\ \A r \in ToSet(ranges) : PlaceOffset <= r.from
           /\ \E r \in ToSet(ranges) : r.from = PlaceOffset
<1> DEFINE start == find_binary_start(file)
           by == PlaceOffset - start
<1>1. PlaceOffset \in Int BY PlaceTyped DEF Located
<1>2. file \in SUBSET Ranges /\ start \in Nat BY BinaryStart DEF InputInv
<1>3. rmap = {[from |-> r.from + by, to |-> r.to + by] : r \in file}
    BY DEF Located, MovedTo
<1>4. /\ \A j \in DOMAIN ranges : \E r \in rmap : ranges[j].from = r.from
      /\ \A r \in rmap : \E j \in DOMAIN ranges : Cells(r) \subseteq Cells(ranges[j])
      /\ \A j \in DOMAIN ranges : ranges[j] \in FileRanges
    BY Coalescence
<1>5. PICK q \in file : q.from = start BY StartOfFile
<1>6. \A r \in file : r.from \in Nat /\ r.to \in Nat /\ r.from < r.to /\ start <= r.from
    BY <1>2 DEF Ranges, PlainFile, InputInv, Proper
<1> HIDE DEF start
<1>7. by \in Int /\ start + by = PlaceOffset BY <1>1, <1>2
<1>8. \A r \in rmap : PlaceOffset <= r.from
    <2> SUFFICES ASSUME NEW r \in file PROVE PlaceOffset <= r.from + by
        BY <1>3
    <2> HIDE DEF by
    <2> QED BY <1>2, <1>6, <1>7
<1>9. \A j \in DOMAIN ranges : PlaceOffset <= ranges[j].from BY <1>4, <1>8
<1> DEFINE m == [from |-> q.from + by, to |-> q.to + by]
<1>10. m \in rmap BY <1>3, <1>5
<1>11. m.from = PlaceOffset /\ m.to \in Int /\ m.from < m.to
    <2>1. m.from = q.from + by /\ m.to = q.to + by OBVIOUS
    <2> HIDE DEF m, by
    <2> QED BY <1>1, <1>5, <1>6, <1>7, <2>1
<1> HIDE DEF m, by
<1>12. PICK j \in DOMAIN ranges : Cells(m) \subseteq Cells(ranges[j]) BY <1>4, <1>10
<1>13. PlaceOffset \in Cells(m) BY <1>1, <1>11 DEF Cells
<1>14. ranges[j].from <= PlaceOffset
    <2>1. PlaceOffset \in Cells(ranges[j]) BY <1>12, <1>13
    <2>2. ranges[j].from \in Int /\ ranges[j].to \in Int BY <1>4 DEF FileRanges
    <2> QED BY <2>1, <2>2 DEF Cells
<1>15. ranges[j].from = PlaceOffset
    <2>1. ranges[j].from \in Int BY <1>4 DEF FileRanges
    <2>2. PlaceOffset <= ranges[j].from BY <1>9
    <2> QED BY ONLY <1>1, <1>14, <2>1, <2>2
<1> QED BY <1>9, <1>15 DEF ToSet

\* What a load writes to flash is in the partition.
LEMMA LoadInPartition ==
    ASSUME InputInv, TableInv, UnambiguousTable, PlainFile, settings.command = "load",
           Accepted, Fitting, table # no_partition, UsedPartition \in DOMAIN table,
           NEW r \in ToSet(ranges), IsFlash(r), NEW a \in CellsOf(r)
    PROVE  a \in AskedPartition(UsedPartition)
<1> DEFINE S == PartitionFrom
           T == PartitionTo
<1>1. Located /\ LoadRefusal = "none" BY DEF Accepted, Located
<1>2. UsesPartition /\ find_binary_start(file) # 0 BY <1>1, PartitionUsed
<1>3. /\ AskedPartition(UsedPartition) = S..(T - 1)
      /\ S \in Nat /\ T \in Nat /\ FlashStart <= S /\ S < T
      /\ S % Sector = 0 /\ T % Sector = 0
      /\ (Partition.end - Partition.start) * Sector = T - S
    BY <1>1, PartitionAsked
<1>4. PlaceOffset = S /\ PlaceSize = T - S
    BY <1>2, <1>3, Zenon DEF PlaceOffset, PlaceSize, PartitionFrom
<1> HIDE DEF S, T
<1>5. /\ FlashStart \in Nat /\ FlashEnd \in Nat /\ 0 < FlashStart BY LayoutAssumption
<1>6. PlaceOffset # 0 BY <1>3, <1>4, <1>5
<1>7. /\ \A q \in ToSet(ranges) : S <= q.from
      /\ \E q \in ToSet(ranges) : q.from = S
    BY <1>1, <1>2, <1>4, <1>6, BeginsInPartition
<1>8. PICK q \in ToSet(ranges) : q.from = S BY <1>7
<1>9. r \in FlashRanges BY DEF FlashRanges
<1>10. /\ flash_min \in Int /\ flash_max \in Int
       /\ \A x \in FlashRanges : flash_min <= x.from /\ x.to <= flash_max
    BY <1>5, <1>9, FlashEnds
<1>11. r.from \in FlashStart..FlashEnd /\ r.to \in FlashStart..FlashEnd
    BY AcceptedPlaced, PlacedRegion
<1>12. flash_min <= S
    <2>1. S <= r.from BY <1>7
    <2>2. S \in FlashStart..FlashEnd BY <1>3, <1>5, <1>11, <2>1
    <2>3. IsFlash(q)
        <3>1. {FlashEnd, SramStart, SramEnd} \subseteq Nat /\ FlashEnd < SramStart
            BY LayoutAssumption
        <3>2. S \notin SramStart..SramEnd BY ONLY <1>5, <2>2, <3>1
        <3>3. get_memory_type(S) = "flash" BY ONLY <2>2, <3>2 DEF get_memory_type
        <3> QED BY <1>8, <3>3 DEF IsFlash
    <2>4. q \in FlashRanges BY <2>3 DEF FlashRanges
    <2> QED BY <1>8, <1>10, <2>4
<1>13. flash_max <= T
    <2>1. ~TooBigForPartition /\ partition_size = T - S BY <1>4, <1>9 DEF Fitting
    <2>2. partition_size > 0 BY <1>3, <2>1
    <2>3. ~(flash_max - flash_min > partition_size) BY <2>1, <2>2 DEF TooBigForPartition
    <2> QED BY ONLY <1>3, <1>10, <1>12, <2>1, <2>3
<1>14. S <= r.from /\ r.to <= T /\ r.from \in Int /\ r.to \in Int
    <2>1. S <= r.from BY <1>7
    <2>2. r.to <= flash_max BY <1>9, <1>10
    <2>3. r.from \in Int /\ r.to \in Int BY <1>5, <1>11
    <2> QED BY ONLY <1>3, <1>10, <1>13, <2>1, <2>2, <2>3
<1>15. S <= RoundDown(r.from) /\ RoundUp(r.to) <= T
    <2>1. RoundDown(S) = S /\ RoundUp(T) = T BY <1>3, RoundedAlready
    <2>2. S \in Int /\ T \in Int BY ONLY <1>3
    <2> QED BY <1>14, <2>1, <2>2, RoundDownMonotone, RoundUpMonotone
<1>16. RoundDown(r.from) \in Int /\ RoundUp(r.to) \in Int BY <1>14, RoundingDown, RoundingUp
<1>17. a \in RoundDown(r.from)..(RoundUp(r.to) - 1) BY DEF CellsOf, Cells, AlignedRange
<1>18. a \in S..(T - 1) BY ONLY <1>3, <1>15, <1>16, <1>17
<1> QED BY <1>3, <1>18

\* An erase of a partition that is in the chip.
EraseInChip ==
    settings.command = "erase" => AskedEnd[UsedPartition] * Sector <= FlashSize

LEMMA EraseInPartition ==
    ASSUME InputInv, TableInv, UnambiguousTable, EraseInChip, settings.command = "erase",
           PartitionRefusal = "none", table # no_partition, UsedPartition \in DOMAIN table,
           NEW a \in Planned
    PROVE  Loc(a) \in AskedPartition(UsedPartition)
<1> DEFINE S == PartitionFrom
           T == PartitionTo
<1>1. settings.partition >= 0 BY PartitionUsed
<1>2. /\ AskedPartition(UsedPartition) = S..(T - 1)
      /\ S \in Nat /\ T \in Nat /\ FlashStart <= S /\ S < T
      /\ T = FlashStart + (AskedEnd[UsedPartition] * Sector)
    BY PartitionAsked
<1>3. ToErase(before) = [from |-> S, to |-> T]
    <2>1. settings.partition \in Nat \cup {-1} BY DEF InputInv, InputTyped, Settings
    <2> QED BY <1>1, <2>1 DEF ToErase, PartitionFrom, PartitionTo
<1>4. Planned = Cells(ToErase(before)) BY DEF Planned
<1>5. a \in S..(T - 1)
    <2>1. a \in Cells([from |-> S, to |-> T]) BY <1>3, <1>4
    <2> HIDE DEF S, T
    <2> QED BY <2>1 DEF Cells
<1> DEFINE E == AskedEnd[UsedPartition] * Sector
<1>6. E <= FlashSize BY DEF EraseInChip
<1>7. T = FlashStart + E BY <1>2
<1>8. /\ FlashStart \in Nat /\ FlashEndRP2040 \in Nat /\ FlashSize \in Nat \ {0}
      /\ FlashStart + FlashSize <= FlashEndRP2040
    BY LayoutAssumption, DeviceAssumption
<1> HIDE DEF S, T, E
<1>9. E \in Int
    <2>1. table \in Seq(JsonPartitions) BY DEF TableInv
    <2>2. Len(table) \in Nat /\ UsedPartition \in 0..Len(table) BY <2>1, LenProperties
    <2>3. AskedEnd[UsedPartition] \in Nat BY <2>1, <2>2, AskedEnds
    <2>4. Sector \in Nat BY SectorAssumption
    <2> QED BY ONLY <2>3, <2>4 DEF E
<1>10. a \in FlashStart..(FlashEndRP2040 - 1) /\ a - FlashStart \in 0..(FlashSize - 1)
    BY ONLY <1>2, <1>5, <1>6, <1>7, <1>8, <1>9
<1>11. (a - FlashStart) % FlashSize = a - FlashStart BY ONLY <1>8, <1>10, SmallRemainder
<1>12. Loc(a) = FlashStart + (a - FlashStart) BY <1>10, <1>11 DEF Loc
<1>13. FlashStart + (a - FlashStart) = a BY ONLY <1>8, <1>10
<1> QED BY ONLY <1>2, <1>5, <1>12, <1>13, Zenon

LEMMA InPartition ==
    ASSUME InputInv, AcceptInv, Confined, TableInv, FittingInv,
           UnambiguousTable, PlainFile, EraseInChip
    PROVE  ConfinedToPartition
<1> DEFINE Chip == FlashStart..(FlashStart + FlashSize - 1)
<1> SUFFICES ASSUME table # no_partition, settings.command \in {"load", "erase"},
                    UsedPartition \in DOMAIN table, SizeKnown \/ Fits,
                    NEW a \in Chip, mem[a] # before[a]
             PROVE  a \in AskedPartition(UsedPartition)
    <2> HIDE DEF Chip
    <2>1. ConfinedToPartition =
            (/\ table # no_partition /\ settings.command \in {"load", "erase"}
             /\ UsedPartition \in DOMAIN table
             /\ SizeKnown \/ Fits
             => LET changed == {c \in Chip : mem[c] # before[c]}
                IN  changed # {} => changed \subseteq AskedPartition(UsedPartition))
        BY DEF ConfinedToPartition, Chip
    <2> QED BY <2>1
<1>1. a \in Locs BY DEF Locs
<1>2. PICK c \in Planned : Loc(c) = a
    <2>1. a \in {l \in Locs : mem[l] # before[l]} BY <1>1
    <2>2. a \in {Loc(c) : c \in Planned} BY <2>1 DEF Confined
    <2> QED BY <2>2
<1>3. mem # before OBVIOUS
<1>4. CASE settings.command = "load"
    <2>1. Accepted /\ Fitting BY <1>3, <1>4 DEF AcceptInv, FittingInv
    <2>2. PICK r \in ToSet(ranges) : c \in CellsOf(r) BY <1>4, <2>1, PlannedCell
    <2>3. Loc(c) = c BY <2>1, <2>2, OwnCell DEF CellsOf
    <2>4. c = a BY <1>2, <2>3
    <2>5. CASE IsFlash(r) BY <1>4, <2>1, <2>2, <2>4, <2>5, LoadInPartition
    <2>6. CASE ~IsFlash(r)
        <3>1. Placed(r) BY <2>1, AcceptedPlaced
        <3>2. r.from \in SramStart..SramEnd /\ r.to \in SramStart..SramEnd
            BY <2>6, <3>1, PlacedRegion
        <3>3. c \in r.from..(r.to - 1) BY <2>2, <2>6 DEF CellsOf, Cells
        <3>4. /\ {FlashStart, FlashEndRP2040, FlashEndRP2350, SramStart, SramEnd} \subseteq Nat
              /\ FlashEndRP2040 < FlashEndRP2350 /\ FlashEndRP2350 < SramStart
              /\ FlashSize \in Nat /\ FlashStart + FlashSize <= FlashEndRP2040
            BY LayoutAssumption, DeviceAssumption
        <3> QED BY <2>4, <3>2, <3>3, <3>4
    <2> QED BY <2>5, <2>6
<1>5. CASE settings.command = "erase"
    <2>1. PartitionRefusal = "none" BY <1>2, <1>5 DEF Planned
    <2> QED BY <1>2, <1>5, <2>1, EraseInPartition
<1> QED BY <1>4, <1>5

\* A load into a partition, and an erase of one, change nothing of flash outside it,
\* for every table and file, if the numbers of the table mean what they seem to
\* (UnambiguousTable), nothing of the file lies in front of its program (PlainFile) and a
\* partition that is erased is one of the chip (EraseInChip).
THEOREM ConfinedToPartitionTheorem ==
    Spec => [](UnambiguousTable /\ PlainFile /\ EraseInChip => ConfinedToPartition)
<1>1. Init => TableInv /\ FittingInv
    <2>1. Init => FittingInv BY DEF Init, FittingInv
    <2> QED BY <2>1, TableInitially
<1>2. ExactInv /\ TableInv /\ FittingInv /\ [Next]_vars => TableInv' /\ FittingInv'
    <2> SUFFICES ASSUME ExactInv, TableInv, FittingInv, [Next]_vars PROVE TableInv' /\ FittingInv'
        OBVIOUS
    <2>1. UNCHANGED input BY NextKeepsInput DEF vars
    <2>2. TableInv' BY <2>1, TableKept
    <2> QED BY <2>2, FittingStep DEF ExactInv, LoadInv
<1>3. ExactInv /\ TableInv /\ FittingInv
      => (UnambiguousTable /\ PlainFile /\ EraseInChip => ConfinedToPartition)
    BY InPartition DEF ExactInv, LoadInv, FlashInv
<1> QED BY <1>1, <1>2, <1>3, ExactInvariant, PTL DEF Spec
=============================================================================
