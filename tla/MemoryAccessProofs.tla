------------------------- MODULE MemoryAccessProofs -------------------------
(***************************************************************************)
(* No call changes the flash outside of what it may change; a write that   *)
(* returns has written what it was asked to, and a read that returns has   *)
(* read what is there: for every size of chip, page and window, every copy *)
(* mapping and every set of sessions.                                      *)
(*                                                                         *)
(* The last rests on the first proof, that the read cache never disagrees  *)
(* with the flash: erasing does not clear it, but only info_guts turns it  *)
(* on, and a session that fills it never writes.  The second follows a     *)
(* write from the addresses that were asked for, through the pieces the    *)
(* layers cut them into, to the range the connection is given.             *)
(*                                                                         *)
(* The third compares the flash with what it was before the call: up to    *)
(* the address that has been reached it holds the data, behind it what it  *)
(* held before, and between an erase and the program that follows the      *)
(* buffer holds the difference.  It has two hypotheses: no two of the      *)
(* addresses that are written stand for one cell of the chip               *)
(* (Distinct), as they do when a write is longer than the chip, or when    *)
(* the copy mapping leads two of them to one place; and the sectors around *)
(* a write fit in the chip (ChipHolds), or the buffer would have two       *)
(* values for a cell.                                                      *)
(*                                                                         *)
(* The last one shows of the fold over the cache that what it leaves to be *)
(* read, and where it asks for another look, is covered by no entry.       *)
(***************************************************************************)
EXTENDS MemoryAccess, SequenceTheorems, FoldTheorems, TLAPS

Entries == UNION {[A -> Bits] : A \in SUBSET Int}

\* Who uses the cache does not write, and who writes has no cache.
ReadOnlyWithCache ==
    /\ use_flash_cache => pc \in {"idle", "read", "failed"}
    /\ ~use_flash_cache => flash_cache = <<>>
\* What is cached is what the flash holds.
CacheIsTrue ==
    \A i \in 1..Len(flash_cache) :
        \A a \in DOMAIN flash_cache[i] : flash_cache[i][a] = Read(flash, a)
Cacheable == use_flash_cache => flash \in [Locs -> Bits]
CacheInv ==
    /\ flash_cache \in Seq(Entries)
    /\ Cacheable
    /\ ReadOnlyWithCache
    /\ CacheIsTrue

\* An address in any image of the window is a location of the chip.
LEMMA ReadTyped ==
    ASSUME flash \in [Locs -> Bits], NEW a \in Int
    PROVE  Read(flash, a) \in Bits
<1>1. Chip \in Nat \ {0} BY SizesAssumption
<1>2. a % Chip \in 0..(Chip - 1) BY <1>1
<1> QED BY <1>2 DEF Read, Locs

\* An entry made of what the flash holds now is true, and typed.
LEMMA NewEntry ==
    ASSUME flash \in [Locs -> Bits], NEW A \in SUBSET Int
    PROVE  [a \in A |-> Read(flash, a)] \in Entries
BY ReadTyped DEF Entries

LEMMA CacheInitially == Init => CacheInv
<1> SUFFICES ASSUME Init PROVE CacheInv OBVIOUS
<1>1. flash \in [Locs -> Bits] BY ImagesAssumption DEF Init, Locs, Bits
<1> QED BY <1>1 DEF Init, CacheInv, Cacheable, ReadOnlyWithCache, CacheIsTrue

\* Nothing that leaves the flash, the cache and the session alone can disturb it.
LEMMA CacheKept ==
    ASSUME CacheInv, UNCHANGED <<session, flash, flash_cache>>,
           use_flash_cache => pc' \in {"idle", "read", "failed"}
    PROVE  CacheInv'
BY DEF CacheInv, Cacheable, ReadOnlyWithCache, CacheIsTrue, use_flash_cache, Read

\* A session without a cache keeps it empty.
LEMMA NoCacheKept ==
    ASSUME CacheInv, ~use_flash_cache, UNCHANGED session, flash_cache' = <<>>
    PROVE  CacheInv'
BY DEF CacheInv, Cacheable, ReadOnlyWithCache, CacheIsTrue, use_flash_cache

\* What read_cached adds was read from the device in the same step.
LEMMA ReadPieceKeeps ==
    ASSUME CacheInv, ReadPiece
    PROVE  CacheInv'
<1> DEFINE left == Looked(Head1).from..(Looked(Head1).to - 1)
           entry == [a \in left |-> Read(flash, a)]
<1>1. UNCHANGED <<session, flash, pc>> BY DEF ReadPiece
<1>2. pc = "read" BY DEF ReadPiece
<1>3. CASE ~(use_flash_cache /\ left # {})
    <2>1. flash_cache' = flash_cache BY <1>3 DEF ReadPiece
    <2> QED BY <1>1, <1>2, <2>1, CacheKept
<1>4. CASE use_flash_cache /\ left # {}
    <2>1. flash_cache' = Append(flash_cache, entry) BY <1>4 DEF ReadPiece
    <2>2. flash \in [Locs -> Bits] BY <1>4 DEF CacheInv, Cacheable
    <2>3. left \in SUBSET Int OBVIOUS
    <2>4. entry \in Entries BY <2>2, <2>3, NewEntry
    <2> HIDE DEF left
    <2>5. flash_cache \in Seq(Entries) BY DEF CacheInv
    <2>6. flash_cache' \in Seq(Entries) BY <2>1, <2>4, <2>5
    <2>7. ASSUME NEW i \in 1..Len(flash_cache'), NEW a \in DOMAIN flash_cache'[i]
          PROVE  flash_cache'[i][a] = Read(flash', a)
        <3>1. CASE i \in 1..Len(flash_cache)
            <4>1. flash_cache'[i] = flash_cache[i] BY <2>1, <2>4, <2>5, <3>1
            <4> QED BY <4>1, <3>1, <1>1 DEF CacheInv, CacheIsTrue
        <3>2. CASE i = Len(flash_cache) + 1
            <4>1. flash_cache'[i] = entry BY <2>1, <2>4, <2>5, <3>2
            <4> QED BY <4>1, <1>1
        <3> QED BY <3>1, <3>2, <2>1, <2>4, <2>5
    <2> QED BY <1>1, <1>2, <1>4, <2>2, <2>6, <2>7
            DEF CacheInv, Cacheable, ReadOnlyWithCache, CacheIsTrue, use_flash_cache
<1> QED BY <1>3, <1>4

LEMMA CacheStep == CacheInv /\ [Next]_vars => CacheInv'
<1> SUFFICES ASSUME CacheInv, [Next]_vars PROVE CacheInv' OBVIOUS
<1> USE DEF CacheInv, ReadOnlyWithCache
<1>1. CASE CallRead BY <1>1, CacheKept DEF CallRead
<1>2. CASE NextPiece BY <1>2, CacheKept DEF NextPiece
<1>3. CASE ReadSplit BY <1>3, CacheKept DEF ReadSplit
<1>4. CASE ReadPiece BY <1>4, ReadPieceKeeps
<1>5. CASE CallWrite
    <2>1. ~use_flash_cache BY <1>5 DEF CallWrite, Writable, use_flash_cache
    <2> QED BY <1>5, <2>1, NoCacheKept DEF CallWrite
<1>6. CASE SkipUnchanged BY <1>6, NoCacheKept DEF SkipUnchanged
<1>7. CASE SaveAround BY <1>7, NoCacheKept DEF SaveAround
<1>8. CASE FlashErase BY <1>8, NoCacheKept DEF FlashErase
<1>9. CASE WithoutErase BY <1>9, NoCacheKept DEF WithoutErase
<1>10. CASE FlashWrite BY <1>10, NoCacheKept DEF FlashWrite
<1>11. CASE DiskTrim
    <2>1. ~use_flash_cache BY <1>11 DEF DiskTrim, use_flash_cache
    <2> QED BY <1>11, <2>1, NoCacheKept DEF DiskTrim
<1>12. CASE LfsErase
    <2>1. ~use_flash_cache BY <1>12 DEF LfsErase, use_flash_cache
    <2> QED BY <1>12, <2>1, NoCacheKept DEF LfsErase
<1>13. CASE EraseSector BY <1>13, NoCacheKept DEF EraseSector
<1>14. CASE Return BY <1>14, CacheKept DEF Return
<1>15. CASE ConnectionFails
    <2>1. CASE use_flash_cache BY <1>15, <2>1, CacheKept DEF ConnectionFails
    <2>2. CASE ~use_flash_cache BY <1>15, <2>2, NoCacheKept DEF ConnectionFails
    <2> QED BY <2>1, <2>2
<1>16. CASE UNCHANGED vars BY <1>16, CacheKept DEF vars
<1> QED
    BY <1>1, <1>2, <1>3, <1>4, <1>5, <1>6, <1>7, <1>8, <1>9, <1>10, <1>11, <1>12,
       <1>13, <1>14, <1>15, <1>16 DEF Next

-----------------------------------------------------------------------------
(* Rounding.                                                               *)

\* Sizes are positive numbers.
LEMMA SectorIsPositive == Sector \in Nat \ {0}
BY SizesAssumption

\* A sector is a whole number of cells, so division is exact.
LEMMA Division ==
    ASSUME NEW a \in Int
    PROVE  /\ a \div Sector \in Int /\ a % Sector \in 0..(Sector - 1)
           /\ a = Sector * (a \div Sector) + (a % Sector)
BY SectorIsPositive

\* A number has only one remainder.
LEMMA Remainder ==
    ASSUME NEW q \in Int, NEW r \in 0..(Sector - 1)
    PROVE  ((Sector * q) + r) % Sector = r
BY SectorIsPositive, RemainderOf

\* An address is in the sector it is rounded down to.
LEMMA RoundingDown ==
    ASSUME NEW a \in Int
    PROVE  /\ RoundDown(a) \in Int
           /\ RoundDown(a) <= a /\ a < RoundDown(a) + Sector
           /\ RoundDown(a) = Sector * (a \div Sector)
<1>1. Sector \in Nat \ {0} BY SectorIsPositive
<1>2. /\ a \div Sector \in Int /\ a % Sector \in 0..(Sector - 1)
      /\ a = Sector * (a \div Sector) + (a % Sector)
    BY Division
<1>3. Sector * (a \div Sector) \in Int BY <1>1, <1>2
<1>4. RoundDown(a) = Sector * (a \div Sector) BY <1>2, <1>3 DEF RoundDown
<1> QED BY <1>1, <1>2, <1>3, <1>4

\* From one sector boundary to another is a whole number of sectors.
LEMMA BetweenBoundaries ==
    ASSUME NEW a \in Int, NEW b \in Int
    PROVE  (RoundDown(b) - RoundDown(a)) % Sector = 0
<1>1. Sector \in Nat \ {0} BY SectorIsPositive
<1>2. a \div Sector \in Int /\ b \div Sector \in Int BY Division
<1> DEFINE x == a \div Sector
           y == b \div Sector
<1>3. RoundDown(a) = Sector * x /\ RoundDown(b) = Sector * y BY RoundingDown
<1> HIDE DEF x, y
<1>4. x \in Int /\ y \in Int BY <1>2 DEF x, y
<1>5. (Sector * y) - (Sector * x) = (Sector * (y - x)) + 0 BY <1>1, <1>4
<1>6. y - x \in Int /\ 0 \in 0..(Sector - 1) BY <1>1, <1>4
<1>7. ((Sector * (y - x)) + 0) % Sector = 0 BY <1>6, Remainder
<1> QED BY <1>3, <1>5, <1>7

\* What is left of whole sectors has room for one and is whole sectors again.
LEMMA SectorLeft ==
    ASSUME NEW n \in Int, n % Sector = 0, n > 0
    PROVE  n >= Sector /\ (n - Sector) % Sector = 0
<1>1. Sector \in Nat \ {0} BY SectorIsPositive
<1>2. n \div Sector \in Int /\ n = Sector * (n \div Sector)
    <2>1. n \div Sector \in Int /\ n = Sector * (n \div Sector) + (n % Sector) BY Division
    <2>2. Sector * (n \div Sector) \in Int BY <1>1, <2>1
    <2> QED BY <2>1, <2>2
<1>3. ASSUME n < Sector PROVE FALSE
    <2>1. n \in 0..(Sector - 1) BY <1>1, <1>3
    <2>2. ((Sector * 0) + n) % Sector = n BY <2>1, Remainder
    <2>3. (Sector * 0) + n = n BY <1>1
    <2> QED BY <2>2, <2>3
<1>4. n - Sector = (Sector * ((n \div Sector) - 1)) + 0 BY <1>1, <1>2
<1>5. (n \div Sector) - 1 \in Int /\ 0 \in 0..(Sector - 1) BY <1>1, <1>2
<1>6. ((Sector * ((n \div Sector) - 1)) + 0) % Sector = 0 BY <1>5, Remainder
<1>7. n >= Sector BY <1>1, <1>3
<1> QED BY <1>4, <1>6, <1>7

-----------------------------------------------------------------------------
(* The layers.                                                             *)

\* An entry of the map stands for its storage, and no other covers its addresses.
LEMMA EntryContents ==
    ASSUME NEW k \in DOMAIN reverse_copy_mapping,
           NEW a \in k..(reverse_copy_mapping[k].to - 1)
    PROVE  /\ a \in Map!Covered(reverse_copy_mapping)
           /\ Map!Contents(reverse_copy_mapping)[a] = reverse_copy_mapping[k].storage + (a - k)
<1> DEFINE f == reverse_copy_mapping
           j == CHOOSE i \in DOMAIN f : a \in Map!In(f, i)
<1>0. a \in Map!In(f, k) BY DEF Map!In
<1>1. a \in Map!Covered(f) BY <1>0 DEF Map!Covered
<1>2. j \in DOMAIN f /\ a \in Map!In(f, j) BY <1>0
<1>3. j = k
    <2>1. \A i \in DOMAIN f : i \in Int /\ f[i].to \in Int BY SizesAssumption, MappingAssumption
    <2>2. j \in Int /\ k \in Int /\ j <= a /\ a < f[j].to /\ k <= a /\ a < f[k].to
        BY <1>2, <2>1 DEF Map!In
    <2> QED BY <1>2, <2>1, <2>2, MappingAssumption DEF Map!Separate
<1> QED BY <1>1, <1>3 DEF Map!Contents

\* A piece leads every address of the caller to the flash it stands for.
PieceOK(p) ==
    /\ p.from \in Int /\ p.to \in Int /\ p.shift \in Int
    /\ \A q \in p.from..(p.to - 1) : q \in Asked /\ Target(q) = q + p.shift

LEMMA PieceLeads ==
    ASSUME session \in Sessions, NEW from \in Int, NEW to \in Int,
           0 <= from, from < to, to <= Limit, from..(to - 1) \subseteq Asked
    PROVE  /\ PieceOK(Piece(from, to))
           /\ from <= Piece(from, to).to /\ Piece(from, to).to <= to
<1> DEFINE f == reverse_copy_mapping
           r == Remapped(from)
<1>1. session.base \in Nat BY SessionsAssumption
<1>2. \A i \in DOMAIN f : i \in Nat /\ f[i].to \in Nat /\ f[i].storage \in Nat /\ i < f[i].to
    BY SizesAssumption, MappingAssumption DEF Map!Separate
<1>3. CASE IsBdev
    BY <1>3 DEF PieceOK, Piece, Target
<1>4. CASE ~IsBdev /\ Map!Found(from) # {}
    <2> DEFINE k == CHOOSE k \in Map!Found(from) : TRUE
    <2>1. k \in DOMAIN f /\ k <= from /\ from < f[k].to
        BY <1>4 DEF Map!Found, Map!LastBefore
    <2>2. r = Map!Get(from, k) BY <1>4 DEF Remapped
    <2> HIDE DEF k
    <2>3. r.offset = from - k /\ r.max_offset = f[k].to - k /\ r.storage = f[k].storage
        BY <2>2 DEF Map!Get
    <2>4. from + r.max_offset - r.offset = f[k].to BY <1>2, <2>1, <2>3
    <2> DEFINE end == f[k].to
               p == Piece(from, to)
    <2>5. /\ p.from = from /\ p.to = (IF end < to THEN end ELSE to)
          /\ p.shift = f[k].storage + (from - k) + session.base - from
        BY <1>4, <2>3, <2>4 DEF Piece
    <2>6. ASSUME NEW q \in p.from..(p.to - 1)
          PROVE  q \in Asked /\ Target(q) = q + p.shift
        <3>1. q \in from..(to - 1) /\ q \in k..(f[k].to - 1) BY <1>2, <2>1, <2>5
        <3>2. q \in Map!Covered(f) /\ Map!Contents(f)[q] = f[k].storage + (q - k)
            BY <2>1, <3>1, EntryContents
        <3>3. Target(q) = f[k].storage + (q - k) + session.base BY <1>4, <3>2 DEF Target
        <3> QED BY <1>1, <1>2, <2>1, <2>5, <3>1, <3>3
    <2> QED BY <1>1, <1>2, <2>1, <2>5, <2>6 DEF PieceOK
<1>5. CASE ~IsBdev /\ Map!Found(from) = {}
    <2> DEFINE n == CHOOSE n \in 0..Limit : Map!IsNext(n, from)
               later == {j \in DOMAIN f : from < j}
               p == Piece(from, to)
    <2>1. \E x \in 0..Limit : Map!IsNext(x, from)
        <3>1. CASE later = {}
            <4>1. \A j \in DOMAIN f : j <= from BY <1>2, <3>1
            <4>2. Limit - 1 \in 0..Limit BY SizesAssumption
            <4> QED BY <4>1, <4>2 DEF Map!IsNext
        <3>2. CASE later # {}
            <4>1. later \in SUBSET Nat BY <1>2
            <4>2. PICK x \in later : \A y \in later : x <= y BY <3>2, <4>1, Least
            <4>3. x \in DOMAIN f /\ from < x /\ \A j \in DOMAIN f : from < j => x <= j
                BY <4>2
            <4>4. x \in 0..Limit BY <4>3, SizesAssumption, MappingAssumption
            <4> QED BY <4>3, <4>4 DEF Map!IsNext
        <3> QED BY <3>1, <3>2
    <2>2. n \in 0..Limit /\ Map!IsNext(n, from) BY <2>1
    <2>3. r.offset = 0 /\ r.max_offset = n - from /\ r.storage = from BY <1>5 DEF Remapped
    <2> HIDE DEF n
    <2>4. n \in Int /\ from <= n
        <3>1. n \in Int /\ Limit \in Int BY <2>2, SizesAssumption
        <3> QED BY <2>2, <3>1 DEF Map!IsNext
    <2>5. from + r.max_offset - r.offset = n BY <2>3, <2>4
    <2>6. p.from = from /\ p.to = (IF n < to THEN n ELSE to) /\ p.shift = session.base
        <3>1. r.storage + r.offset + session.base - from = session.base BY <1>1, <2>3
        <3> QED BY <1>5, <2>5, <3>1 DEF Piece
    <2>7. ASSUME NEW q \in p.from..(p.to - 1)
          PROVE  q \in Asked /\ Target(q) = q + p.shift
        <3>1. q \in from..(to - 1) /\ q < n /\ from <= q BY <2>4, <2>6
        <3>2. ASSUME NEW j \in DOMAIN f, j <= q, q < f[j].to PROVE FALSE
            <4>1. CASE j <= from
                <5>1. from < f[j].to BY <1>2, <3>1, <3>2
                <5>2. \A i \in DOMAIN f : i <= from => i <= j
                    BY <1>2, <4>1, <5>1, MappingAssumption DEF Map!Separate
                <5>3. j \in Map!Found(from) BY <4>1, <5>1, <5>2 DEF Map!Found, Map!LastBefore
                <5> QED BY <1>5, <5>3
            <4>2. CASE from < j
                BY <1>2, <2>2, <2>4, <3>1, <3>2, <4>2 DEF Map!IsNext
            <4> QED BY <1>2, <4>1, <4>2
        <3>3. q \notin Map!Covered(f) BY <1>2, <3>1, <3>2 DEF Map!Covered, Map!In
        <3>4. Target(q) = q + session.base BY <1>5, <3>3 DEF Target
        <3> QED BY <2>6, <3>1, <3>4
    <2> QED BY <1>1, <2>4, <2>6, <2>7 DEF PieceOK
<1> QED BY <1>3, <1>4, <1>5

-----------------------------------------------------------------------------
(* Where a call changes the flash.                                         *)

Ranged ==
    /\ rest \in [from : Int, to : Int] /\ ask.from \in Int /\ ask.to \in Int
    /\ ask.from <= rest.from /\ rest.to <= ask.to
\* A write walks through what it was asked for, a piece at a time.
Writing ==
    pc \in {"write", "erase", "program"} =>
        /\ Ranged /\ 0 <= ask.from /\ ask.to <= Limit
        /\ DOMAIN ask.data = Asked
        /\ todo # <<>> => todo = <<Head1>> /\ PieceOK(Head1)
\* What the connection is given is one range, all of it the call's to change.
Changing ==
    pc \in {"erase", "program"} =>
        /\ \E lo, hi \in Int : DOMAIN buf = lo..hi
        /\ DOMAIN buf \subseteq MayChange
        /\ todo # <<>>
\* What is left to erase is whole sectors.
Erasing ==
    pc = "erase_all" =>
        /\ Ranged /\ ask.data = Nothing
        /\ (rest.to - rest.from) % Sector = 0
ConfinedInv ==
    /\ session \in Sessions
    /\ pc = "idle" => todo = <<>>
    /\ Writing /\ Changing /\ Erasing
    /\ Confined

\* What a call may change is settled when it is made.
LEMMA MayChangeKept ==
    ASSUME pc # "idle", pc' # "idle", UNCHANGED <<session, ask>>
    PROVE  MayChange' = MayChange
<1>1. Asked' = Asked BY DEF Asked
<1>2. enable_ftl' = enable_ftl BY DEF enable_ftl
<1>3. \A p : Target(p)' = Target(p) BY DEF Target, IsBdev
<1>4. {Target(p)' : p \in Asked'} = {Target(p) : p \in Asked} BY <1>1, <1>3
<1>5. UNION {RoundDown(Target(p)')..(RoundDown(Target(p)' + 1) + Sector - 1) : p \in Asked'}
      = UNION {RoundDown(Target(p))..(RoundDown(Target(p) + 1) + Sector - 1) : p \in Asked}
    BY <1>1, <1>3
<1> QED BY <1>1, <1>2, <1>4, <1>5 DEF MayChange

\* Changing cells a call may change keeps it confined.
LEMMA PutConfined ==
    ASSUME Confined, pc # "idle", pc' # "idle", UNCHANGED <<session, ask, before>>,
           NEW d, DOMAIN d \subseteq MayChange, flash' = Put(flash, d)
    PROVE  Confined'
<1>1. MayChange' = MayChange BY MayChangeKept
<1> SUFFICES ASSUME NEW l \in Locs, flash'[l] # before[l]
             PROVE  \E a \in MayChange : a % Chip = l
    BY <1>1 DEF Confined, Locs
<1>2. CASE \E a \in DOMAIN d : a % Chip = l BY <1>2
<1>3. CASE ~\E a \in DOMAIN d : a % Chip = l
    <2>1. flash'[l] = flash[l] BY <1>3 DEF Put
    <2> QED BY <2>1 DEF Confined
<1> QED BY <1>2, <1>3

\* A step of a call that leaves the flash alone keeps it confined.
LEMMA StillConfined ==
    ASSUME Confined, pc # "idle", pc' # "idle", UNCHANGED <<session, ask, before, flash>>
    PROVE  Confined'
<1>1. MayChange' = MayChange BY MayChangeKept
<1> QED BY <1>1 DEF Confined, Locs

\* A call begins with the flash as it is.
LEMMA ConfinedAtFirst ==
    ASSUME before' = flash, flash' = flash
    PROVE  Confined'
BY DEF Confined

\* What a call may change around the flash of one address of a piece.
LEMMA AroundCell ==
    ASSUME pc # "idle", DOMAIN ask.data = Asked,
           NEW p, PieceOK(p), NEW q \in p.from..(p.to - 1)
    PROVE  /\ ~enable_ftl => q + p.shift \in MayChange
           /\ enable_ftl =>
                 RoundDown(q + p.shift)..(RoundDown(q + p.shift + 1) + Sector - 1)
                 \subseteq MayChange
<1>1. q \in Asked /\ Target(q) = q + p.shift BY DEF PieceOK
<1>2. ask.data # Nothing BY <1>1 DEF Nothing
<1>3. CASE ~enable_ftl
    <2>1. MayChange = {Target(x) : x \in Asked} BY <1>2, <1>3 DEF MayChange
    <2> QED BY <1>1, <1>3, <2>1
<1>4. CASE enable_ftl
    <2>1. MayChange =
             UNION {RoundDown(Target(x))..(RoundDown(Target(x) + 1) + Sector - 1) : x \in Asked}
        BY <1>2, <1>4 DEF MayChange
    <2>2. RoundDown(Target(q))..(RoundDown(Target(q) + 1) + Sector - 1) \subseteq MayChange
        BY <1>1, <2>1
    <2> QED BY <1>1, <1>4, <2>2
<1> QED BY <1>3, <1>4

\* The sectors that are saved, erased and written back.
LEMMA SavedWithin ==
    ASSUME pc # "idle", DOMAIN ask.data = Asked, enable_ftl,
           NEW p, PieceOK(p), p.from < p.to
    PROVE  LET r == AlignedRange(p)
           IN  r.from \in Int /\ r.to \in Int /\ r.from..(r.to - 1) \subseteq MayChange
<1> DEFINE x == p.from + p.shift
           y == p.to + p.shift
           r == AlignedRange(p)
<1>1. p.from \in Int /\ p.to \in Int /\ p.shift \in Int BY DEF PieceOK
<1>2. Sector \in Nat \ {0} BY SectorIsPositive
<1>3. r.from = RoundDown(x) /\ r.to = RoundDown(y) + Sector BY DEF AlignedRange
<1>4. r.from \in Int /\ r.to \in Int /\ RoundDown(y) \in Int
    <2>1. x \in Int /\ y \in Int BY <1>1
    <2>2. RoundDown(x) \in Int /\ RoundDown(y) \in Int BY <2>1, RoundingDown
    <2> QED BY <1>2, <1>3, <2>2
<1>5. ASSUME NEW a \in r.from..(r.to - 1) PROVE a \in MayChange
    <2> DEFINE q == IF a < x THEN p.from ELSE IF a < y THEN a - p.shift ELSE p.to - 1
               c == q + p.shift
    <2>1. a \in Int /\ RoundDown(x) <= a /\ a <= RoundDown(y) + Sector - 1
        <3> HIDE DEF x, y, r
        <3> QED BY <1>2, <1>3, <1>4
    <2>2. q \in p.from..(p.to - 1) BY <1>1, <2>1
    <2>3. RoundDown(c)..(RoundDown(c + 1) + Sector - 1) \subseteq MayChange
        BY <2>2, AroundCell
    <2>4. RoundDown(c) <= a /\ a <= RoundDown(c + 1) + Sector - 1
        <3>1. CASE a < x
            <4>1. c = x /\ c + 1 \in Int BY <1>1, <3>1
            <4>2. RoundDown(c + 1) \in Int /\ c + 1 < RoundDown(c + 1) + Sector
                BY <4>1, RoundingDown
            <4> QED BY <1>1, <1>2, <2>1, <3>1, <4>1, <4>2
        <3>2. CASE x <= a /\ a < y
            <4>1. c = a BY <1>1, <2>1, <3>2
            <4>2. RoundDown(a) \in Int /\ RoundDown(a) <= a BY <2>1, RoundingDown
            <4>3. RoundDown(a + 1) \in Int /\ a + 1 < RoundDown(a + 1) + Sector
                BY <2>1, RoundingDown
            <4> QED BY <1>2, <2>1, <4>1, <4>2, <4>3
        <3>3. CASE x <= a /\ y <= a
            <4>1. c = y - 1 /\ c + 1 = y /\ c \in Int BY <1>1, <2>1, <3>3
            <4>2. RoundDown(c) \in Int /\ RoundDown(c) <= c BY <4>1, RoundingDown
            <4> QED BY <1>1, <1>2, <2>1, <3>3, <4>1, <4>2
        <3> QED BY <1>1, <2>1, <3>1, <3>2, <3>3
    <2>5. RoundDown(c) \in Int /\ RoundDown(c + 1) \in Int
        <3>1. c \in Int /\ c + 1 \in Int BY <1>1, <2>2
        <3> QED BY <3>1, RoundingDown
    <2> HIDE DEF c
    <2> QED BY <1>2, <2>1, <2>3, <2>4, <2>5
<1> QED BY <1>4, <1>5

\* Without an erase only the cells of the piece are written.
LEMMA CellsWithin ==
    ASSUME pc # "idle", DOMAIN ask.data = Asked, NEW p, PieceOK(p)
    PROVE  Cells(p) \subseteq MayChange
<1>1. p.from \in Int /\ p.to \in Int /\ p.shift \in Int BY DEF PieceOK
<1>2. Sector \in Nat \ {0} BY SectorIsPositive
<1> SUFFICES ASSUME NEW a \in Cells(p) PROVE a \in MayChange OBVIOUS
<1> DEFINE q == a - p.shift
<1>3. a \in Int /\ q \in p.from..(p.to - 1) /\ q + p.shift = a BY <1>1 DEF Cells
<1>4. /\ ~enable_ftl => a \in MayChange
      /\ enable_ftl => RoundDown(a)..(RoundDown(a + 1) + Sector - 1) \subseteq MayChange
    BY <1>3, AroundCell
<1>5. /\ RoundDown(a) \in Int /\ RoundDown(a) <= a
      /\ RoundDown(a + 1) \in Int /\ a + 1 < RoundDown(a + 1) + Sector
    BY <1>3, RoundingDown
<1> QED BY <1>2, <1>3, <1>4, <1>5

LEMMA ConfinedInitially == Init => ConfinedInv
BY DEF Init, ConfinedInv, Writing, Changing, Erasing, Confined

\* A write is asked for addresses of the address space, and all of them.
LEMMA CallWriteConfined ==
    ASSUME ConfinedInv, CallWrite
    PROVE  ConfinedInv'
<1>1. PICK r \in Askable(WriteSizes(session.client)) :
         \E data \in [r.from..(r.to - 1) -> Bits] : ask' = Ask(r, data) /\ rest' = Whole(r)
    BY DEF CallWrite
<1>2. PICK data \in [r.from..(r.to - 1) -> Bits] : ask' = Ask(r, data) /\ rest' = Whole(r)
    BY <1>1
<1>3. r.from \in 0..(Limit - 1) /\ r.to \in 1..Limit BY DEF Askable
<1>4. Limit \in Nat \ {0} BY SizesAssumption
<1>5. ask'.from = r.from /\ ask'.to = r.to /\ ask'.data = data BY <1>2 DEF Ask
<1>6. rest' = [from |-> r.from, to |-> r.to] BY <1>2 DEF Whole
<1>7. Asked' = r.from..(r.to - 1) BY <1>5 DEF Asked
<1>8. Ranged' /\ 0 <= ask'.from /\ ask'.to <= Limit BY <1>3, <1>4, <1>5, <1>6 DEF Ranged
<1>9. DOMAIN ask'.data = Asked' BY <1>5, <1>7
<1>10. todo = <<>> /\ todo' = todo BY DEF CallWrite, ConfinedInv
<1>11. pc' \in {"refused", "write"} /\ session' = session BY DEF CallWrite
<1>12. Writing' BY <1>8, <1>9, <1>10 DEF Writing
<1>13. Confined' BY ConfinedAtFirst DEF CallWrite
<1> QED BY <1>11, <1>12, <1>13 DEF ConfinedInv, Changing, Erasing

\* disk_ioctl erases from the first sector boundary of the trimmed blocks to the
\* last, none of it outside of them.
LEMMA DiskTrimConfined ==
    ASSUME ConfinedInv, DiskTrim
    PROVE  ConfinedInv'
<1> DEFINE last_block == session.size \div Block - 1
<1>1. PICK first \in 0..last_block, last \in 0..last_block :
         /\ first <= last
         /\ ask' = Ask([from |-> session.base + first * Block,
                        to |-> session.base + (last + 1) * Block], Nothing)
         /\ rest' = [from |-> TrimStart(first), to |-> TrimEnd(last)]
    BY DEF DiskTrim
<1>2. session.base \in Nat /\ session.size \in Nat BY SessionsAssumption DEF ConfinedInv
<1>3. Block \in Nat \ {0} /\ Sector \in Nat \ {0} BY SizesAssumption
<1>4. last_block \in Int BY <1>2, <1>3
<1> HIDE DEF last_block
<1> DEFINE x == first * Block + session.base
           y == last * Block + session.base
<1>5. first \in Int /\ last \in Int BY <1>1, <1>4
<1>6. x \in Int /\ y \in Int BY <1>2, <1>3, <1>5
<1>7. ask'.from = x
    BY <1>1, <1>2, <1>3, <1>5 DEF Ask
<1>8. ask'.to = y + Block
    <2>1. ask'.to = session.base + (last + 1) * Block BY <1>1 DEF Ask
    <2>2. (last + 1) * Block = (last * Block) + Block BY <1>3, <1>5
    <2>3. last * Block \in Int BY <1>3, <1>5
    <2> QED BY <1>2, <1>3, <2>1, <2>2, <2>3
<1>9. ask'.data = Nothing BY <1>1 DEF Ask
<1>10. rest' = [from |-> RoundDown(x + Sector - 1), to |-> RoundDown(y)]
    BY <1>1 DEF TrimStart, TrimEnd
<1> HIDE DEF x, y
<1>11. x + Sector - 1 \in Int BY <1>3, <1>6
<1>12. /\ RoundDown(x + Sector - 1) \in Int
       /\ x + Sector - 1 < RoundDown(x + Sector - 1) + Sector
    BY <1>11, RoundingDown
<1>13. RoundDown(y) \in Int /\ RoundDown(y) <= y BY <1>6, RoundingDown
<1>14. Ranged' BY <1>3, <1>6, <1>7, <1>8, <1>10, <1>12, <1>13 DEF Ranged
<1>15. (rest'.to - rest'.from) % Sector = 0
    BY <1>6, <1>10, <1>11, BetweenBoundaries
<1>16. Erasing' BY <1>9, <1>14, <1>15 DEF Erasing
<1>17. pc' \in {"refused", "erase_all"} /\ session' = session BY DEF DiskTrim
<1>18. Confined' BY ConfinedAtFirst DEF DiskTrim
<1> QED BY <1>16, <1>17, <1>18 DEF ConfinedInv, Writing, Changing

\* lfs_erase erases one sector.
LEMMA LfsEraseConfined ==
    ASSUME ConfinedInv, LfsErase
    PROVE  ConfinedInv'
<1> DEFINE last_block == session.size \div Sector - 1
           Area(b) == [from |-> session.base + b * Sector, to |-> session.base + (b + 1) * Sector]
<1>1. PICK b \in 0..last_block : ask' = Ask(Area(b), Nothing) /\ rest' = Area(b)
    BY DEF LfsErase
<1>2. session.base \in Nat /\ session.size \in Nat BY SessionsAssumption DEF ConfinedInv
<1>3. Sector \in Nat \ {0} BY SizesAssumption
<1>4. last_block \in Int BY <1>2, <1>3
<1> HIDE DEF last_block
<1>5. b \in Int BY <1>1, <1>4
<1>6. b * Sector \in Int /\ (b + 1) * Sector = (b * Sector) + Sector BY <1>3, <1>5
<1> DEFINE x == session.base + b * Sector
<1>7. x \in Int /\ Area(b) = [from |-> x, to |-> x + Sector] BY <1>2, <1>3, <1>6
<1> HIDE DEF x, Area
<1>8. /\ ask'.from = x /\ ask'.to = x + Sector /\ ask'.data = Nothing
      /\ rest' = [from |-> x, to |-> x + Sector]
    BY <1>1, <1>7 DEF Ask
<1>9. Ranged' BY <1>3, <1>7, <1>8 DEF Ranged
<1>10. (rest'.to - rest'.from) % Sector = 0
    <2>1. rest'.to - rest'.from = (Sector * 1) + 0 BY <1>3, <1>7, <1>8
    <2>2. ((Sector * 1) + 0) % Sector = 0
        <3>1. 0 \in 0..(Sector - 1) BY <1>3
        <3> QED BY <3>1, Remainder
    <2> QED BY <2>1, <2>2
<1>11. Erasing' BY <1>8, <1>9, <1>10 DEF Erasing
<1>12. pc' \in {"refused", "erase_all"} /\ session' = session BY DEF LfsErase
<1>13. Confined' BY ConfinedAtFirst DEF LfsErase
<1> QED BY <1>11, <1>12, <1>13 DEF ConfinedInv, Writing, Changing

\* A piece stays good as long as the call goes on.
LEMMA PieceStays ==
    ASSUME UNCHANGED <<session, ask>>, NEW p, PieceOK(p)
    PROVE  PieceOK(p)'
<1>1. Asked' = Asked BY DEF Asked
<1>2. \A q : Target(q)' = Target(q) BY DEF Target, IsBdev
<1> QED BY <1>1, <1>2 DEF PieceOK

\* The next piece of a write is made of addresses that were asked for.
LEMMA NextPieceConfined ==
    ASSUME ConfinedInv, NextPiece
    PROVE  ConfinedInv'
<1> PICK p : p = Piece(rest.from, rest.to) OBVIOUS
<1>1. /\ todo' = <<p>> /\ rest' = [rest EXCEPT !.from = p.to]
      /\ UNCHANGED <<session, flash, pc, ask, buf, before>>
      /\ pc \in {"read", "write"} /\ rest.from < rest.to
    BY DEF NextPiece, Left
<1>2. Confined' BY <1>1, StillConfined DEF ConfinedInv
<1>3. CASE pc = "read"
    BY <1>1, <1>2, <1>3 DEF ConfinedInv, Writing, Changing, Erasing
<1>4. CASE pc = "write"
    <2>1. /\ Ranged /\ 0 <= ask.from /\ ask.to <= Limit /\ DOMAIN ask.data = Asked
        BY <1>4 DEF ConfinedInv, Writing
    <2>2. rest.from \in Int /\ rest.to \in Int /\ ask.from \in Int /\ ask.to \in Int
        BY <2>1 DEF Ranged
    <2>3. Limit \in Nat BY SizesAssumption
    <2>4. 0 <= rest.from /\ rest.to <= Limit BY <2>1, <2>2, <2>3 DEF Ranged
    <2>5. rest.from..(rest.to - 1) \subseteq Asked BY <2>1, <2>2 DEF Asked, Ranged
    <2>6. PieceOK(p) /\ rest.from <= p.to /\ p.to <= rest.to
        BY <1>1, <2>2, <2>4, <2>5, PieceLeads DEF ConfinedInv
    <2>7. p.to \in Int BY <2>6 DEF PieceOK
    <2>8. Ranged' BY <1>1, <2>1, <2>2, <2>6, <2>7 DEF Ranged
    <2>9. PieceOK(p)' BY <1>1, <2>6, PieceStays
    <2>10. Head1' = p BY <1>1 DEF Head1
    <2>11. PieceOK(Head1)' BY <2>9, <2>10 DEF PieceOK, Asked, Target, IsBdev
    <2>12. todo' = <<Head1'>> BY <1>1, <2>10
    <2>13. DOMAIN ask'.data = Asked' BY <1>1, <2>1 DEF Asked
    <2>14. Writing' BY <1>1, <2>1, <2>8, <2>11, <2>12, <2>13 DEF Writing
    <2> QED BY <1>1, <1>2, <1>4, <2>14 DEF ConfinedInv, Changing, Erasing
<1> QED BY <1>1, <1>3, <1>4

\* The pieces that are left do not change while one is written.
LEMMA WritingStays ==
    ASSUME ConfinedInv, pc \in {"write", "erase", "program"}, UNCHANGED <<session, ask, rest>>,
           todo' = todo \/ (todo # <<>> /\ todo' = Tail(todo))
    PROVE  Writing'
<1>1. /\ Ranged /\ 0 <= ask.from /\ ask.to <= Limit /\ DOMAIN ask.data = Asked
      /\ todo # <<>> => todo = <<Head1>> /\ PieceOK(Head1)
    BY DEF ConfinedInv, Writing
<1>2. Ranged' /\ 0 <= ask'.from /\ ask'.to <= Limit /\ DOMAIN ask'.data = Asked'
    BY <1>1 DEF Ranged, Asked
<1>3. CASE todo' = <<>> BY <1>2, <1>3 DEF Writing
<1>4. CASE todo' = todo /\ todo # <<>>
    <2>1. PICK p : p = Head1 OBVIOUS
    <2>2. todo' = <<p>> /\ Head1' = p BY <1>1, <1>4, <2>1 DEF Head1
    <2>3. PieceOK(p)' BY <1>1, <1>4, <2>1, PieceStays
    <2>4. PieceOK(Head1)' BY <2>2, <2>3 DEF PieceOK, Asked, Target, IsBdev
    <2> QED BY <1>2, <2>2, <2>4 DEF Writing
<1>5. CASE todo # <<>> /\ todo' = Tail(todo)
    <2>1. PICK p : todo = <<p>> BY <1>1, <1>5
    <2>2. todo' = <<>> BY <1>5, <2>1
    <2> QED BY <1>3, <2>2
<1> QED BY <1>3, <1>4, <1>5

LEMMA SkipUnchangedConfined ==
    ASSUME ConfinedInv, SkipUnchanged
    PROVE  ConfinedInv'
<1>1. /\ pc = "write" /\ pc' = pc /\ todo # <<>> /\ todo' = Tail(todo)
      /\ UNCHANGED <<session, flash, ask, rest, before>>
    BY DEF SkipUnchanged
<1>2. Writing' BY <1>1, WritingStays
<1>3. Confined' BY <1>1, StillConfined DEF ConfinedInv
<1> QED BY <1>1, <1>2, <1>3 DEF ConfinedInv, Changing, Erasing

\* Something has to be erased, so the piece is not empty and what is saved around
\* it is sectors it touches.
LEMMA SaveAroundConfined ==
    ASSUME ConfinedInv, SaveAround
    PROVE  ConfinedInv'
<1>1. /\ pc = "write" /\ pc' = "erase" /\ todo # <<>> /\ todo' = todo
      /\ enable_ftl /\ do_erase /\ buf' = write_data
      /\ UNCHANGED <<session, flash, ask, rest, before>>
    BY DEF SaveAround
<1>2. Writing' BY <1>1, WritingStays
<1>3. Confined' BY <1>1, StillConfined DEF ConfinedInv
<1>4. PICK p : p = Head1 OBVIOUS
<1>5. DOMAIN ask.data = Asked /\ PieceOK(p) BY <1>1, <1>4 DEF ConfinedInv, Writing
<1>6. PICK a \in Cells(p) : TRUE BY <1>1, <1>4 DEF do_erase
<1>7. p.from < p.to
    <2>1. p.from \in Int /\ p.to \in Int /\ p.shift \in Int BY <1>5 DEF PieceOK
    <2> QED BY <1>6, <2>1 DEF Cells
<1> DEFINE r == AlignedRange(p)
<1>8. r.from \in Int /\ r.to \in Int /\ r.from..(r.to - 1) \subseteq MayChange
    BY <1>1, <1>5, <1>7, SavedWithin
<1>9. DOMAIN buf' = r.from..(r.to - 1) BY <1>1, <1>4 DEF write_data, aligned_range
<1>10. MayChange' = MayChange BY <1>1, MayChangeKept
<1> HIDE DEF r
<1>11. \E lo, hi \in Int : DOMAIN buf' = lo..hi
    <2>1. r.to - 1 \in Int BY <1>8
    <2> QED BY <1>8, <1>9, <2>1
<1>12. Changing' BY <1>1, <1>8, <1>9, <1>10, <1>11 DEF Changing
<1> QED BY <1>1, <1>2, <1>3, <1>12 DEF ConfinedInv, Erasing

LEMMA WithoutEraseConfined ==
    ASSUME ConfinedInv, WithoutErase
    PROVE  ConfinedInv'
<1>1. /\ pc = "write" /\ todo # <<>> /\ todo' = todo
      /\ pc' = "refused" \/ (pc' = "program" /\ buf' = NewData)
      /\ UNCHANGED <<session, flash, ask, rest, before>>
    BY DEF WithoutErase
<1>2. Writing' BY <1>1, WritingStays
<1>3. Confined' BY <1>1, StillConfined DEF ConfinedInv
<1>4. CASE pc' = "refused" BY <1>1, <1>2, <1>3, <1>4 DEF ConfinedInv, Changing, Erasing
<1>5. CASE pc' = "program" /\ buf' = NewData
    <2>1. PICK p : p = Head1 OBVIOUS
    <2>2. DOMAIN ask.data = Asked /\ PieceOK(p) BY <1>1, <2>1 DEF ConfinedInv, Writing
    <2>3. Cells(p) \subseteq MayChange BY <1>1, <2>2, CellsWithin
    <2>4. DOMAIN buf' = Cells(p) BY <1>5, <2>1 DEF NewData
    <2>5. \E lo, hi \in Int : Cells(p) = lo..hi
        <3>1. p.from + p.shift \in Int /\ p.to + p.shift - 1 \in Int BY <2>2 DEF PieceOK
        <3> QED BY <3>1 DEF Cells
    <2>6. MayChange' = MayChange BY <1>1, <1>5, MayChangeKept
    <2>7. Changing' BY <1>1, <2>3, <2>4, <2>5, <2>6 DEF Changing
    <2> QED BY <1>1, <1>2, <1>3, <1>5, <2>7 DEF ConfinedInv, Erasing
<1> QED BY <1>1, <1>4, <1>5

LEMMA FlashEraseConfined ==
    ASSUME ConfinedInv, FlashErase
    PROVE  ConfinedInv'
<1>1. /\ pc = "erase" /\ pc' = "program" /\ todo' = todo /\ buf' = buf
      /\ flash' = Put(flash, [a \in DOMAIN buf |-> 1])
      /\ UNCHANGED <<session, ask, rest, before>>
    BY DEF FlashErase
<1>2. Writing' BY <1>1, WritingStays
<1>3. DOMAIN [a \in DOMAIN buf |-> 1] \subseteq MayChange BY <1>1 DEF ConfinedInv, Changing
<1>4. Confined' BY <1>1, <1>3, PutConfined DEF ConfinedInv
<1>5. MayChange' = MayChange BY <1>1, MayChangeKept
<1>6. Changing' BY <1>1, <1>5 DEF ConfinedInv, Changing
<1> QED BY <1>1, <1>2, <1>4, <1>6 DEF ConfinedInv, Erasing

LEMMA FlashWriteConfined ==
    ASSUME ConfinedInv, FlashWrite
    PROVE  ConfinedInv'
<1> DEFINE d == [a \in DOMAIN buf |-> IF buf[a] = 0 THEN 0 ELSE Read(flash, a)]
<1>1. /\ pc = "program" /\ pc' = "write" /\ todo # <<>> /\ todo' = Tail(todo)
      /\ flash' = Put(flash, d)
      /\ UNCHANGED <<session, ask, rest, before>>
    BY DEF FlashWrite, Program, ConfinedInv, Changing
<1>2. Writing' BY <1>1, WritingStays
<1>3. DOMAIN d \subseteq MayChange BY <1>1 DEF ConfinedInv, Changing
<1>4. Confined' BY <1>1, <1>3, PutConfined DEF ConfinedInv
<1> QED BY <1>1, <1>2, <1>4 DEF ConfinedInv, Erasing, Changing

\* The next sector is one of those that are left.
LEMMA SectorWithin ==
    ASSUME ConfinedInv, pc = "erase_all", Left
    PROVE  /\ rest.from \in Int /\ rest.from + Sector <= rest.to
           /\ (rest.to - (rest.from + Sector)) % Sector = 0
           /\ DOMAIN Erased(rest.from, rest.from + Sector) \subseteq MayChange
<1>1. Ranged /\ ask.data = Nothing /\ (rest.to - rest.from) % Sector = 0
    BY DEF ConfinedInv, Erasing
<1>2. Sector \in Nat \ {0} BY SectorIsPositive
<1>3. rest.from \in Int /\ rest.to \in Int /\ rest.from < rest.to BY <1>1 DEF Ranged, Left
<1>4. PICK n \in Int : n = rest.to - rest.from BY <1>3
<1>5. n >= Sector /\ (n - Sector) % Sector = 0
    <2>1. n > 0 /\ n % Sector = 0 BY <1>1, <1>3, <1>4
    <2> QED BY <2>1, SectorLeft
<1>6. rest.to - (rest.from + Sector) = n - Sector BY <1>2, <1>3, <1>4
<1>7. rest.from + Sector <= rest.to BY <1>2, <1>3, <1>4, <1>5
<1>8. MayChange = ask.from..(ask.to - 1) BY <1>1 DEF MayChange, Asked
<1>9. DOMAIN Erased(rest.from, rest.from + Sector) \subseteq MayChange
    BY <1>1, <1>2, <1>3, <1>7, <1>8 DEF Erased, Ranged
<1> QED BY <1>3, <1>5, <1>6, <1>7, <1>9

LEMMA EraseSectorConfined ==
    ASSUME ConfinedInv, EraseSector
    PROVE  ConfinedInv'
<1> DEFINE next == rest.from + Sector
<1>1. /\ pc = "erase_all" /\ pc' = pc /\ Left
      /\ flash' = Put(flash, Erased(rest.from, next))
      /\ rest' = [rest EXCEPT !.from = next]
      /\ UNCHANGED <<session, ask, todo, before>>
    BY DEF EraseSector
<1>2. /\ rest.from \in Int /\ next <= rest.to
      /\ (rest.to - next) % Sector = 0
      /\ DOMAIN Erased(rest.from, next) \subseteq MayChange
    BY <1>1, SectorWithin
<1>3. Confined' BY <1>1, <1>2, PutConfined DEF ConfinedInv
<1>4. Ranged /\ ask.data = Nothing BY <1>1 DEF ConfinedInv, Erasing
<1>5. next \in Int /\ rest.from <= next BY <1>2, SectorIsPositive
<1>6. Ranged' BY <1>1, <1>2, <1>4, <1>5 DEF Ranged
<1>7. rest'.to - rest'.from = rest.to - next BY <1>1, <1>4 DEF Ranged
<1>8. Erasing' BY <1>1, <1>2, <1>4, <1>6, <1>7 DEF Erasing
<1> QED BY <1>1, <1>3, <1>8 DEF ConfinedInv, Writing, Changing

\* An erase or a write that stops half way has changed a part of its range.
LEMMA PartWithin ==
    ASSUME NEW S, NEW lo \in Int, NEW hi \in Int, S = lo..hi, NEW k \in S
    PROVE  Min(S)..(k - 1) \subseteq S
<1>1. lo \in S /\ \A y \in S : lo <= y OBVIOUS
<1>2. Min(S) \in S BY <1>1 DEF Min
<1> QED BY <1>2

LEMMA FailureConfined ==
    ASSUME ConfinedInv, ConnectionFails
    PROVE  ConfinedInv'
<1>1. pc' = "failed" /\ UNCHANGED <<session, ask, before>> BY DEF ConnectionFails
<1>2. Confined BY DEF ConfinedInv
<1>3. Confined'
    <2>1. CASE pc \in {"read", "write"} /\ flash' = flash BY <1>1, <1>2, <2>1, StillConfined
    <2>2. CASE pc = "erase_all" /\ Left
               /\ flash' \in {flash, Put(flash, Erased(rest.from, rest.from + Sector))}
        <3>1. DOMAIN Erased(rest.from, rest.from + Sector) \subseteq MayChange
            BY <2>2, SectorWithin
        <3>2. CASE flash' = flash BY <1>1, <1>2, <2>2, <3>2, StillConfined
        <3>3. CASE flash' = Put(flash, Erased(rest.from, rest.from + Sector))
            BY <1>1, <1>2, <2>2, <3>1, <3>3, PutConfined
        <3> QED BY <2>2, <3>2, <3>3
    <2>3. CASE pc = "erase" /\ \E k \in {a \in DOMAIN buf : a % Sector = 0} :
                                   flash' = Put(flash, Erased(Min(DOMAIN buf), k))
        <3>1. PICK k \in DOMAIN buf : flash' = Put(flash, Erased(Min(DOMAIN buf), k)) BY <2>3
        <3>2. Min(DOMAIN buf)..(k - 1) \subseteq MayChange
            BY <2>3, PartWithin DEF ConfinedInv, Changing
        <3>3. DOMAIN Erased(Min(DOMAIN buf), k) \subseteq MayChange BY <3>2 DEF Erased
        <3> QED BY <1>1, <1>2, <2>3, <3>1, <3>3, PutConfined
    <2>4. CASE pc = "program" /\ \E k \in DOMAIN buf :
                  flash' = Program(flash, [a \in Min(DOMAIN buf)..(k - 1) |-> buf[a]])
        <3>1. PICK k \in DOMAIN buf :
                  flash' = Program(flash, [a \in Min(DOMAIN buf)..(k - 1) |-> buf[a]])
            BY <2>4
        <3>2. Min(DOMAIN buf)..(k - 1) \subseteq MayChange
            BY <2>4, PartWithin DEF ConfinedInv, Changing
        <3>3. PICK d : DOMAIN d = Min(DOMAIN buf)..(k - 1) /\ flash' = Put(flash, d)
            BY <3>1 DEF Program
        <3> QED BY <1>1, <1>2, <2>4, <3>2, <3>3, PutConfined
    <2> QED BY <2>1, <2>2, <2>3, <2>4 DEF ConnectionFails
<1> QED BY <1>1, <1>3 DEF ConfinedInv, Writing, Changing, Erasing

LEMMA ConfinedStep == ConfinedInv /\ [Next]_vars => ConfinedInv'
<1> SUFFICES ASSUME ConfinedInv, [Next]_vars PROVE ConfinedInv' OBVIOUS
<1>1. CASE CallRead
    <2>1. pc' = "read" /\ session' = session BY <1>1 DEF CallRead
    <2>2. Confined' BY <1>1, ConfinedAtFirst DEF CallRead
    <2> QED BY <2>1, <2>2 DEF ConfinedInv, Writing, Changing, Erasing
<1>2. CASE NextPiece BY <1>2, NextPieceConfined
<1>3. CASE ReadSplit
    <2>1. pc = "read" /\ UNCHANGED <<session, flash, pc, ask, before>> BY <1>3 DEF ReadSplit
    <2>2. Confined' BY <2>1, StillConfined DEF ConfinedInv
    <2> QED BY <2>1, <2>2 DEF ConfinedInv, Writing, Changing, Erasing
<1>4. CASE ReadPiece
    <2>1. pc = "read" /\ UNCHANGED <<session, flash, pc, ask, before>> BY <1>4 DEF ReadPiece
    <2>2. Confined' BY <2>1, StillConfined DEF ConfinedInv
    <2> QED BY <2>1, <2>2 DEF ConfinedInv, Writing, Changing, Erasing
<1>5. CASE CallWrite BY <1>5, CallWriteConfined
<1>6. CASE SkipUnchanged BY <1>6, SkipUnchangedConfined
<1>7. CASE SaveAround BY <1>7, SaveAroundConfined
<1>8. CASE FlashErase BY <1>8, FlashEraseConfined
<1>9. CASE WithoutErase BY <1>9, WithoutEraseConfined
<1>10. CASE FlashWrite BY <1>10, FlashWriteConfined
<1>11. CASE DiskTrim BY <1>11, DiskTrimConfined
<1>12. CASE LfsErase BY <1>12, LfsEraseConfined
<1>13. CASE EraseSector BY <1>13, EraseSectorConfined
<1>14. CASE Return
    <2>1. /\ pc' = "idle" /\ todo' = <<>> /\ session' = session BY <1>14 DEF Return
    <2> QED BY <2>1 DEF ConfinedInv, Writing, Changing, Erasing, Confined
<1>15. CASE ConnectionFails BY <1>15, FailureConfined
<1>16. CASE UNCHANGED vars
    <2>1. Writing' = Writing
        BY <1>16 DEF vars, Writing, Ranged, Head1, PieceOK, Asked, Target, IsBdev, enable_ftl
    <2>m. MayChange' = MayChange BY <1>16 DEF vars, MayChange, Asked, Target, IsBdev, enable_ftl
    <2>2. Changing' = Changing BY <1>16, <2>m DEF vars, Changing
    <2>3. Erasing' = Erasing BY <1>16 DEF vars, Erasing, Ranged
    <2>4. Confined' = Confined BY <1>16, <2>m DEF vars, Confined
    <2> QED BY <1>16, <2>1, <2>2, <2>3, <2>4 DEF vars, ConfinedInv
<1> QED
    BY <1>1, <1>2, <1>3, <1>4, <1>5, <1>6, <1>7, <1>8, <1>9, <1>10, <1>11, <1>12,
       <1>13, <1>14, <1>15, <1>16 DEF Next

\* No call changes the flash outside of what it may change, whatever is in the map,
\* on the chip and in the buffer, and wherever a call on the connection fails.
THEOREM ConfinedTheorem == Spec => []Confined
<1>1. ConfinedInv => Confined BY DEF ConfinedInv
<1> QED BY <1>1, ConfinedInitially, ConfinedStep, PTL DEF Spec

-----------------------------------------------------------------------------
(* What a write leaves.                                                    *)

\* The location of the chip that an address of the caller stands for.
OnChip(p) == Target(p) % Chip
\* What was asked for is not larger than the chip, so that no location of the chip is
\* meant by two of its addresses; and neither are the sectors around it.
Distinct == \A p, q \in Asked : OnChip(p) = OnChip(q) => p = q
ChipHolds ==
    \A p, q \in Asked : Target(q) - Target(p) = q - p =>
        RoundDown(Target(q) + 1) + Sector - RoundDown(Target(p)) <= Chip

\* The location l when the addresses before n have been written.
Written(n, l) ==
    IF \E p \in ask.from..(n - 1) : OnChip(p) = l
    THEN ask.data[CHOOSE p \in ask.from..(n - 1) : OnChip(p) = l] ELSE before[l]
\* The first address that was not written or read yet.
Upto == IF todo # <<>> THEN Head1.from ELSE rest.from
\* The layers go through all of what was asked for.
Onward == rest.to = ask.to /\ (rest.from <= rest.to \/ rest.from = ask.from)

FlashTyped == pc # "failed" => flash \in [Locs -> Bits]
Walking ==
    pc \in {"write", "erase", "program"} =>
        /\ session.client # "info" /\ Onward
        /\ ask.data \in [Asked -> Bits]
        /\ session.client = "littlefs" => \A p \in Asked : Read(before, Target(p)) = 1
        /\ todo # <<>> =>
              /\ ask.from <= Head1.from /\ Head1.from <= Head1.to /\ Head1.to <= ask.to
              /\ Head1.to = rest.from
WrittenSoFar == pc = "write" => \A l \in Locs : flash[l] = Written(Upto, l)
\* What is given to the connection completes the piece, on flash that was erased where
\* it has to be.
Completing ==
    pc \in {"erase", "program"} =>
        /\ \A a, b \in DOMAIN buf : a % Chip = b % Chip => a = b
        /\ \A a \in DOMAIN buf : buf[a] \in Bits /\ buf[a] = Written(Head1.to, a % Chip)
        /\ \A l \in Locs :
              (\A a \in DOMAIN buf : a % Chip # l) => flash[l] = Written(Head1.to, l)
        /\ pc = "program" => \A a \in DOMAIN buf : buf[a] = 1 => Read(flash, a) = 1
BufTyped == pc \in {"erase", "program"} => \A a \in DOMAIN buf : buf[a] \in Bits
ExactInv ==
    /\ ConfinedInv
    /\ FlashTyped /\ BufTyped /\ Walking
    /\ Distinct /\ ChipHolds => WrittenSoFar /\ Completing

\* Addresses of the flash are numbers.
LEMMA TargetIsNumber ==
    ASSUME session \in Sessions, NEW p \in Int
    PROVE  Target(p) \in Int
<1> DEFINE f == reverse_copy_mapping
<1>1. session.base \in Int BY SessionsAssumption
<1>2. CASE IsBdev BY <1>2 DEF Target
<1>3. CASE ~IsBdev /\ p \in Map!Covered(f)
    <2>1. PICK k \in DOMAIN f : p \in k..(f[k].to - 1)
        BY <1>3 DEF Map!Covered, Map!In
    <2>2. Map!Contents(f)[p] = f[k].storage + (p - k) BY <2>1, EntryContents
    <2>3. k \in Int /\ f[k].storage \in Int BY SizesAssumption, MappingAssumption
    <2> QED BY <1>1, <1>3, <2>2, <2>3 DEF Target
<1>4. CASE ~IsBdev /\ p \notin Map!Covered(f) BY <1>1, <1>4 DEF Target
<1> QED BY <1>2, <1>3, <1>4

\* As long as the call goes on, it is about the same addresses.
LEMMA CallKept ==
    ASSUME UNCHANGED <<session, ask, before>>
    PROVE  /\ Asked' = Asked
           /\ \A p : Target(p)' = Target(p) /\ OnChip(p)' = OnChip(p)
           /\ Distinct' = Distinct /\ ChipHolds' = ChipHolds
           /\ \A n, l : Written(n, l)' = Written(n, l)
<1>1. Asked' = Asked BY DEF Asked
<1>2. \A p : Target(p)' = Target(p) BY DEF Target, IsBdev
<1>3. \A p : OnChip(p)' = OnChip(p) BY <1>2 DEF OnChip
<1>4. Distinct' = Distinct BY <1>1, <1>3 DEF Distinct
<1>5. ChipHolds' = ChipHolds BY <1>1, <1>2 DEF ChipHolds
<1>6. ASSUME NEW n, NEW l PROVE Written(n, l)' = Written(n, l)
    <2> DEFINE P(p) == p \in ask.from..(n - 1) /\ OnChip(p) = l
    <2>1. \A p : P(p)' = P(p) BY <1>3
    <2>2. (CHOOSE p \in ask.from..(n - 1) : OnChip(p) = l)'
            = CHOOSE p \in ask.from..(n - 1) : OnChip(p) = l
        BY <1>3
    <2> QED BY <1>3, <2>2 DEF Written
<1> QED BY <1>1, <1>2, <1>3, <1>4, <1>5, <1>6

\* The value of a location that is meant by one of the addresses, and of another.
LEMMA WrittenIs ==
    ASSUME Distinct, ask.from \in Int, ask.to \in Int,
           NEW n \in Int, n <= ask.to, NEW l
    PROVE  /\ \A p \in ask.from..(n - 1) : OnChip(p) = l => Written(n, l) = ask.data[p]
           /\ (\A p \in ask.from..(n - 1) : OnChip(p) # l) => Written(n, l) = before[l]
<1>1. \A p \in ask.from..(n - 1) : p \in Asked BY DEF Asked
<1>2. ASSUME NEW p \in ask.from..(n - 1), OnChip(p) = l
      PROVE  Written(n, l) = ask.data[p]
    <2> DEFINE q == CHOOSE q \in ask.from..(n - 1) : OnChip(q) = l
    <2>1. q \in ask.from..(n - 1) /\ OnChip(q) = l BY <1>2
    <2>2. q = p BY <1>1, <1>2, <2>1 DEF Distinct
    <2> QED BY <1>2, <2>2 DEF Written
<1> QED BY <1>2 DEF Written

\* Two addresses that are less than the chip apart are at different locations.
LEMMA OnceOnChip ==
    ASSUME NEW lo \in Int, NEW hi \in Int, hi - lo < Chip,
           NEW a \in lo..hi, NEW b \in lo..hi, a % Chip = b % Chip
    PROVE  a = b
<1>1. Chip \in Nat \ {0} BY SizesAssumption
<1> DEFINE u == a \div Chip
           v == b \div Chip
           r == a % Chip
<1>2. u \in Int /\ v \in Int /\ r \in Int /\ a = Chip * u + r /\ b = Chip * v + r BY <1>1
<1> HIDE DEF u, v, r
<1>3. ASSUME NEW x \in Int, NEW y \in Int, x < y PROVE (Chip * x) + Chip <= Chip * y
    <2>1. Chip * (x + 1) <= Chip * y BY <1>1, <1>3
    <2>2. Chip * (x + 1) = (Chip * x) + Chip BY <1>1
    <2> QED BY <2>1, <2>2
<1>4. Chip * u \in Int /\ Chip * v \in Int BY <1>1, <1>2
<1>5. ~(u < v)
    <2> SUFFICES ASSUME u < v PROVE FALSE OBVIOUS
    <2>1. (Chip * u) + Chip <= Chip * v BY <1>2, <1>3
    <2> QED BY <1>1, <1>2, <1>4, <2>1
<1>6. ~(v < u)
    <2> SUFFICES ASSUME v < u PROVE FALSE OBVIOUS
    <2>1. (Chip * v) + Chip <= Chip * u BY <1>2, <1>3
    <2> QED BY <1>1, <1>2, <1>4, <2>1
<1>7. u = v BY <1>2, <1>5, <1>6
<1> QED BY <1>2, <1>7

\* What Put makes of the locations, when it is given one value for each.
LEMMA PutAt ==
    ASSUME NEW f, NEW d, DOMAIN d \subseteq Int,
           \A a, b \in DOMAIN d : a % Chip = b % Chip => a = b
    PROVE  /\ \A a \in DOMAIN d : a % Chip \in Locs => Put(f, d)[a % Chip] = d[a]
           /\ \A l \in Locs : (\A a \in DOMAIN d : a % Chip # l) => Put(f, d)[l] = f[l]
<1>1. ASSUME NEW a \in DOMAIN d, a % Chip \in Locs PROVE Put(f, d)[a % Chip] = d[a]
    <2>1. {b \in DOMAIN d : b % Chip = a % Chip} = {a} OBVIOUS
    <2>2. a \in Int OBVIOUS
    <2>3. Max({a}) = a BY <2>2 DEF Max
    <2> QED BY <1>1, <2>1, <2>3 DEF Put
<1> QED BY <1>1 DEF Put

LEMMA PutType ==
    ASSUME NEW f \in [Locs -> Bits], NEW lo \in Int, NEW hi \in Int, NEW d \in [lo..hi -> Bits]
    PROVE  Put(f, d) \in [Locs -> Bits]
<1> SUFFICES ASSUME NEW l \in Locs, \E a \in DOMAIN d : a % Chip = l
             PROVE  Max({a \in DOMAIN d : a % Chip = l}) \in lo..hi
    BY DEF Put
<1> DEFINE s == {a \in DOMAIN d : a % Chip = l}
<1>1. s \in SUBSET (lo..hi) /\ s # {} OBVIOUS
<1> HIDE DEF s
<1>2. Max(s) \in s BY <1>1, Largest
<1> QED BY <1>1, <1>2 DEF s

\* A piece of a write, by the flash it is for.
LEMMA PieceCells ==
    ASSUME NEW p, PieceOK(p)
    PROVE  /\ p.from + p.shift \in Int /\ p.to + p.shift \in Int
           /\ Cells(p) = (p.from + p.shift)..(p.to + p.shift - 1)
           /\ \A q \in p.from..(p.to - 1) :
                 q + p.shift \in Cells(p) /\ q \in Asked /\ Target(q) = q + p.shift
           /\ \A a \in Cells(p) : /\ a \in Int /\ a - p.shift \in p.from..(p.to - 1)
                                  /\ a = (a - p.shift) + p.shift
<1>1. p.from \in Int /\ p.to \in Int /\ p.shift \in Int BY DEF PieceOK
<1>2. \A q \in p.from..(p.to - 1) : q + p.shift \in Cells(p) BY <1>1 DEF Cells
<1>3. \A a \in Cells(p) : /\ a \in Int /\ a - p.shift \in p.from..(p.to - 1)
                          /\ a = (a - p.shift) + p.shift
    BY <1>1 DEF Cells
<1>4. Cells(p) = (p.from + p.shift)..(p.to + p.shift - 1) BY DEF Cells
<1> QED BY <1>1, <1>2, <1>3, <1>4 DEF PieceOK

\* What is written when a piece is: its cells have the data, the others what they had
\* before it.
LEMMA PieceWritten ==
    ASSUME Distinct, ask.from \in Int, ask.to \in Int,
           NEW p, PieceOK(p), ask.from <= p.from, p.from <= p.to, p.to <= ask.to
    PROVE  /\ \A a \in Cells(p) : Written(p.to, a % Chip) = ask.data[a - p.shift]
           /\ \A l : (\A a \in Cells(p) : a % Chip # l) => Written(p.to, l) = Written(p.from, l)
<1> PICK from : from = p.from OBVIOUS
<1> PICK to : to = p.to OBVIOUS
<1>1. from \in Int /\ to \in Int /\ ask.from <= from /\ from <= to /\ to <= ask.to
    BY DEF PieceOK
<1>2. /\ \A q \in from..(to - 1) : q + p.shift \in Cells(p) /\ Target(q) = q + p.shift
      /\ \A a \in Cells(p) : a - p.shift \in from..(to - 1) /\ a = (a - p.shift) + p.shift
    BY PieceCells
<1>3. ASSUME NEW a \in Cells(p)
      PROVE  Written(to, a % Chip) = ask.data[a - p.shift]
    <2>1. OnChip(a - p.shift) = a % Chip BY <1>2 DEF OnChip
    <2>2. a - p.shift \in ask.from..(to - 1) BY <1>1, <1>2
    <2> QED BY <1>1, <2>1, <2>2, WrittenIs
<1>4. ASSUME NEW l, \A a \in Cells(p) : a % Chip # l
      PROVE  Written(to, l) = Written(from, l)
    <2>1. \A q \in from..(to - 1) : OnChip(q) # l BY <1>2, <1>4 DEF OnChip
    <2>2. CASE \E q \in ask.from..(from - 1) : OnChip(q) = l
        <3>1. PICK q \in ask.from..(from - 1) : OnChip(q) = l BY <2>2
        <3>2. q \in ask.from..(to - 1) /\ from <= ask.to BY <1>1
        <3>3. Written(to, l) = ask.data[q] BY <1>1, <3>1, <3>2, WrittenIs
        <3>4. Written(from, l) = ask.data[q] BY <1>1, <3>1, <3>2, WrittenIs
        <3> QED BY <3>3, <3>4
    <2>3. CASE \A q \in ask.from..(from - 1) : OnChip(q) # l
        <3>1. \A q \in ask.from..(to - 1) : OnChip(q) # l BY <1>1, <2>1, <2>3
        <3>2. from <= ask.to BY <1>1
        <3>3. Written(to, l) = before[l] BY <1>1, <3>1, WrittenIs
        <3>4. Written(from, l) = before[l] BY <1>1, <2>3, <3>2, WrittenIs
        <3> QED BY <3>3, <3>4
    <2> QED BY <2>2, <2>3
<1> QED BY <1>3, <1>4

\* The sectors around a piece hold its cells, and no location of the chip twice.
LEMMA AroundPiece ==
    ASSUME ChipHolds, NEW p, PieceOK(p), p.from < p.to
    PROVE  LET r == AlignedRange(p)
           IN  /\ r.from \in Int /\ r.to \in Int /\ r.from < r.to
               /\ Cells(p) \subseteq r.from..(r.to - 1)
               /\ \A a, b \in r.from..(r.to - 1) : a % Chip = b % Chip => a = b
<1> PICK x : x = p.from + p.shift OBVIOUS
<1> PICK y : y = p.to + p.shift OBVIOUS
<1> PICK lo : lo = RoundDown(x) OBVIOUS
<1> PICK hi : hi = RoundDown(y) + Sector OBVIOUS
<1>1. p.from \in Int /\ p.to \in Int /\ p.shift \in Int BY DEF PieceOK
<1>2. x \in Int /\ y \in Int /\ x < y /\ Cells(p) = x..(y - 1) BY <1>1 DEF Cells
<1>3. Sector \in Nat \ {0} /\ Chip \in Nat \ {0} BY SizesAssumption
<1>4. lo \in Int /\ lo <= x BY <1>2, RoundingDown
<1>5. hi \in Int /\ y < hi
    <2>1. RoundDown(y) \in Int /\ y < RoundDown(y) + Sector BY <1>2, RoundingDown
    <2> QED BY <1>3, <2>1
<1>6. AlignedRange(p) = [from |-> lo, to |-> hi] BY DEF AlignedRange
<1>7. hi - lo <= Chip
    <2>1. p.from \in p.from..(p.to - 1) /\ p.to - 1 \in p.from..(p.to - 1) BY <1>1
    <2>2. /\ p.from \in Asked /\ Target(p.from) = p.from + p.shift
          /\ p.to - 1 \in Asked /\ Target(p.to - 1) = (p.to - 1) + p.shift
        BY <2>1 DEF PieceOK
    <2>3. Target(p.from) = x /\ Target(p.to - 1) = y - 1 BY <1>1, <2>2
    <2>4. Target(p.to - 1) - Target(p.from) = (p.to - 1) - p.from BY <1>1, <2>2
    <2>5. RoundDown(Target(p.to - 1) + 1) + Sector - RoundDown(Target(p.from)) <= Chip
        BY <2>2, <2>4 DEF ChipHolds
    <2>6. (y - 1) + 1 = y BY <1>2
    <2>7. RoundDown(y) + Sector - lo <= Chip BY <2>3, <2>5, <2>6
    <2>8. RoundDown(y) \in Int BY <1>2, RoundingDown
    <2> QED BY <1>3, <1>4, <2>7, <2>8
<1>8. ASSUME NEW a \in lo..(hi - 1), NEW b \in lo..(hi - 1), a % Chip = b % Chip
      PROVE  a = b
    <2>1. hi - 1 \in Int /\ (hi - 1) - lo < Chip BY <1>3, <1>4, <1>5, <1>7
    <2> QED BY <1>4, <1>8, <2>1, OnceOnChip
<1>9. Cells(p) \subseteq lo..(hi - 1) /\ lo < hi BY <1>2, <1>4, <1>5
<1> QED BY <1>4, <1>5, <1>6, <1>8, <1>9

LEMMA ExactInitially == Init => ExactInv
<1> SUFFICES ASSUME Init PROVE ExactInv OBVIOUS
<1>1. ConfinedInv BY ConfinedInitially
<1>2. flash \in [Locs -> Bits] BY ImagesAssumption DEF Init, Locs, Bits
<1> QED
    BY <1>1, <1>2 DEF Init, ExactInv, FlashTyped, BufTyped, Walking, WrittenSoFar, Completing

\* Outside of a write only the type of the flash matters.
LEMMA NotWriting ==
    ASSUME ConfinedInv', pc' \notin {"write", "erase", "program"},
           pc' = "failed" \/ flash' \in [Locs -> Bits]
    PROVE  ExactInv'
BY DEF ExactInv, FlashTyped, BufTyped, Walking, WrittenSoFar, Completing, Locs, Bits

LEMMA CallWriteExact ==
    ASSUME ExactInv, CallWrite
    PROVE  ExactInv'
<1>1. PICK r \in {q \in Askable(WriteSizes(session.client)) : Writable(q)} :
         \E data \in [r.from..(r.to - 1) -> Bits] : ask' = Ask(r, data) /\ rest' = Whole(r)
    BY DEF CallWrite
<1>2. PICK data \in [r.from..(r.to - 1) -> Bits] : ask' = Ask(r, data) /\ rest' = Whole(r)
    BY <1>1
<1>3. /\ pc = "idle" /\ pc' \in {"refused", "write"}
      /\ UNCHANGED <<session, flash, todo>> /\ before' = flash
    BY DEF CallWrite
<1>4. ConfinedInv' BY CallWriteConfined DEF ExactInv
<1>5. flash \in [Locs -> Bits] BY <1>3 DEF ExactInv, FlashTyped
<1>6. CASE pc' = "refused" BY <1>3, <1>4, <1>5, <1>6, NotWriting
<1>7. CASE pc' = "write"
    <2>1. r.from \in 0..(Limit - 1) /\ r.to \in 1..Limit BY DEF Askable
    <2>2. r.from \in Int /\ r.to \in Int /\ Limit \in Nat BY <2>1, SizesAssumption
    <2>3. /\ ask'.from = r.from /\ ask'.to = r.to /\ ask'.data = data
          /\ rest'.from = r.from /\ rest'.to = r.to
        BY <1>2 DEF Ask, Whole
    <2>4. todo' = <<>> BY <1>3 DEF ExactInv, ConfinedInv
    <2>5. Asked' = r.from..(r.to - 1) BY <2>3 DEF Asked
    <2>6. session.client # "info" BY <1>1 DEF Writable
    <2>7. ASSUME session.client = "littlefs", NEW p \in Asked'
          PROVE  Read(before', Target(p)') = 1
        <3>1. Target(p)' = p BY <1>3, <2>7 DEF Target, IsBdev
        <3>2. Read(flash, p) = 1 BY <1>1, <2>5, <2>7 DEF Writable
        <3> QED BY <1>3, <3>1, <3>2
    <2>8. Walking'
        <3>1. Onward' BY <2>3 DEF Onward
        <3>2. ask'.data \in [Asked' -> Bits'] BY <2>3, <2>5 DEF Bits
        <3>3. \A p \in Asked' : session.client = "littlefs" => Read(before', Target(p)') = 1
            BY <2>7
        <3>4. session' = session BY <1>3
        <3> QED BY <2>4, <2>6, <3>1, <3>2, <3>3, <3>4 DEF Walking, Read
    <2>9. WrittenSoFar'
        <3>1. Upto' = r.from BY <2>3, <2>4 DEF Upto
        <3>2. ask'.from..(r.from - 1) = {} BY <2>2, <2>3
        <3>3. \A l : Written(r.from, l)' = before'[l] BY <3>2 DEF Written
        <3>4. \A l : Written(Upto, l)' = Written(r.from, l)'
            BY <3>1 DEF Written
        <3> QED BY <1>3, <3>3, <3>4 DEF WrittenSoFar, Locs
    <2> QED BY <1>3, <1>4, <1>5, <1>7, <2>8, <2>9
            DEF ExactInv, FlashTyped, BufTyped, Completing, Locs, Bits
<1> QED BY <1>3, <1>6, <1>7

\* A step of a write that leaves the flash, the piece and the buffer alone.
LEMMA NextPieceExact ==
    ASSUME ExactInv, NextPiece
    PROVE  ExactInv'
<1> PICK p : p = Piece(rest.from, rest.to) OBVIOUS
<1>1. /\ todo = <<>> /\ todo' = <<p>> /\ rest' = [rest EXCEPT !.from = p.to]
      /\ UNCHANGED <<session, flash, pc, ask, buf, before>>
      /\ pc \in {"read", "write"} /\ rest.from < rest.to
    BY DEF NextPiece, Left
<1>2. ConfinedInv' BY NextPieceConfined DEF ExactInv
<1>3. CASE pc = "read" BY <1>1, <1>2, <1>3, NotWriting DEF ExactInv, FlashTyped
<1>4. CASE pc = "write"
    <2>1. /\ Ranged /\ 0 <= ask.from /\ ask.to <= Limit
        BY <1>4 DEF ExactInv, ConfinedInv, Writing
    <2>2. rest.from \in Int /\ rest.to \in Int /\ ask.from \in Int /\ ask.to \in Int
        BY <2>1 DEF Ranged
    <2>r. ask.from <= rest.from /\ rest.to <= ask.to BY <2>1 DEF Ranged
    <2>l. Limit \in Int BY SizesAssumption
    <2>3. 0 <= rest.from /\ rest.to <= Limit BY ONLY <2>1, <2>2, <2>r, <2>l
    <2>4. rest.from..(rest.to - 1) \subseteq Asked BY <2>2, <2>r DEF Asked
    <2>5. PieceOK(p) /\ rest.from <= p.to /\ p.to <= rest.to
        BY <1>1, <2>2, <2>3, <2>4, PieceLeads DEF ExactInv, ConfinedInv
    <2>6. p.from = rest.from BY DEF Piece
    <2>8. rest'.from = p.to /\ rest'.to = rest.to /\ Head1' = p BY <1>1, <2>1 DEF Ranged, Head1
    <2>9. Walking'
        <3>1. Asked' = Asked /\ \A q : Target(q)' = Target(q) BY <1>1, CallKept
        <3>2. Onward' BY <1>1, <1>4, <2>5, <2>8 DEF ExactInv, Walking, Onward
        <3>3. ask.from <= p.from /\ p.from <= p.to /\ p.to <= ask.to
            BY <2>1, <2>2, <2>5, <2>6 DEF Ranged, PieceOK
        <3> QED BY <1>1, <1>4, <2>8, <3>1, <3>2, <3>3 DEF ExactInv, Walking, Read, Bits
    <2>10. ASSUME Distinct', ChipHolds' PROVE WrittenSoFar'
        <3>1. WrittenSoFar BY <1>1, <2>10, CallKept DEF ExactInv
        <3> PICK n : n = rest.from OBVIOUS
        <3>2. Upto = n /\ Upto' = n BY <1>1, <2>6, <2>8 DEF Upto
        <3>3. \A l : Written(Upto, l)' = Written(Upto, l)
            <4>1. \A l : Written(n, l)' = Written(n, l) BY <1>1, CallKept
            <4>2. \A l : Written(Upto, l)' = Written(n, l)' BY <3>2 DEF Written
            <4> QED BY <3>2, <4>1, <4>2
        <3> QED BY <1>1, <1>4, <3>1, <3>3 DEF WrittenSoFar, Locs
    <2> QED BY <1>1, <1>2, <1>4, <2>9, <2>10
            DEF ExactInv, FlashTyped, BufTyped, Completing, Locs, Bits
<1> QED BY <1>1, <1>3, <1>4

\* While the piece, the buffer and the flash are kept.
LEMMA SamePiece ==
    ASSUME ExactInv, pc \in {"write", "erase", "program"}, todo # <<>>,
           UNCHANGED <<session, ask, rest, before>>, todo' = todo
    PROVE  /\ Head1' = Head1 /\ Upto' = Head1.from
           /\ pc' \in {"write", "erase", "program"} => Walking'
<1>1. Head1' = Head1 BY DEF Head1
<1>2. Upto' = Head1.from BY <1>1 DEF Upto
<1>3. Asked' = Asked /\ \A q : Target(q)' = Target(q) BY CallKept
<1>4. Walking' BY <1>1, <1>3 DEF ExactInv, Walking, Onward, Read, Bits
<1> QED BY <1>1, <1>2, <1>4

\* What is known of the piece that is being written.
LEMMA ThePiece ==
    ASSUME ExactInv, pc \in {"write", "erase", "program"}, todo # <<>>
    PROVE  /\ PieceOK(Head1) /\ todo = <<Head1>> /\ Tail(todo) = <<>>
           /\ ask.from \in Int /\ ask.to \in Int
           /\ ask.from <= Head1.from /\ Head1.from <= Head1.to /\ Head1.to <= ask.to
           /\ Head1.to = rest.from
           /\ ask.data \in [Asked -> Bits]
           /\ \A a \in Cells(Head1) : NewData[a] = ask.data[a - Head1.shift] /\ NewData[a] \in Bits
           /\ DOMAIN NewData = Cells(Head1)
<1> PICK p : p = Head1 OBVIOUS
<1>1. PieceOK(p) /\ todo = <<p>> BY DEF ExactInv, ConfinedInv, Writing
<1>2. /\ ask.from \in Int /\ ask.to \in Int /\ p.to = rest.from /\ rest.to <= ask.to
      /\ rest.from \in Int /\ rest.to \in Int
      /\ ask.from <= p.from /\ p.from <= p.to /\ ask.data \in [Asked -> Bits]
      /\ rest.to = ask.to /\ (rest.from <= rest.to \/ rest.from = ask.from)
      /\ p.to <= ask.to
    BY DEF ExactInv, ConfinedInv, Writing, Ranged, Walking, Onward
<1>3. p.from \in Int /\ p.to \in Int BY <1>1 DEF PieceOK
<1>4. \A a \in Cells(p) : a - p.shift \in Asked BY <1>1, PieceCells
<1>5. Tail(todo) = <<>> BY <1>1
<1> QED BY <1>1, <1>2, <1>3, <1>4, <1>5 DEF NewData

\* The data is in the flash already.
LEMMA SkipUnchangedExact ==
    ASSUME ExactInv, SkipUnchanged
    PROVE  ExactInv'
<1>1. /\ pc = "write" /\ pc' = pc /\ todo # <<>> /\ todo' = Tail(todo) /\ Same
      /\ UNCHANGED <<session, flash, ask, rest, buf, before>>
    BY DEF SkipUnchanged
<1>2. ConfinedInv' BY SkipUnchangedConfined DEF ExactInv
<1> PICK p : p = Head1 OBVIOUS
<1> PICK n : n = p.to OBVIOUS
<1>3. /\ PieceOK(p) /\ ask.from \in Int /\ ask.to \in Int /\ todo' = <<>>
      /\ ask.from <= p.from /\ p.from <= p.to /\ p.to <= ask.to /\ p.to = rest.from
      /\ \A a \in Cells(p) : NewData[a] = ask.data[a - p.shift]
    BY <1>1, ThePiece
<1>4. Asked' = Asked /\ \A q : Target(q)' = Target(q) BY <1>1, CallKept
<1>5. Walking' BY <1>1, <1>3, <1>4 DEF ExactInv, Walking, Onward, Read, Bits
<1>6. ASSUME Distinct', ChipHolds' PROVE WrittenSoFar'
    <2>1. Distinct /\ WrittenSoFar BY <1>1, <1>6, CallKept DEF ExactInv
    <2>2. Upto = p.from /\ Upto' = n BY <1>1, <1>3 DEF Upto
    <2>3. \A l \in Locs : flash[l] = Written(p.from, l) BY <1>1, <2>1, <2>2 DEF WrittenSoFar
    <2>4. ASSUME NEW l \in Locs PROVE flash[l] = Written(p.to, l)
        <3>1. CASE \E a \in Cells(p) : a % Chip = l
            <4>1. PICK a \in Cells(p) : a % Chip = l BY <3>1
            <4>2. flash[l] = NewData[a] BY <1>1, <4>1 DEF Same, Read
            <4> QED BY <1>3, <2>1, <4>1, <4>2, PieceWritten
        <3>2. CASE \A a \in Cells(p) : a % Chip # l
            BY <1>3, <2>1, <2>3, <3>2, PieceWritten
        <3> QED BY <3>1, <3>2
    <2>5. \A l : Written(Upto, l)' = Written(n, l)
        <3>1. \A l : Written(n, l)' = Written(n, l) BY <1>1, CallKept
        <3>2. \A l : Written(Upto, l)' = Written(n, l)' BY <2>2 DEF Written
        <3> QED BY <3>1, <3>2
    <2> QED BY <1>1, <2>4, <2>5 DEF WrittenSoFar, Locs
<1> QED BY <1>1, <1>2, <1>5, <1>6
        DEF ExactInv, FlashTyped, BufTyped, Completing, Locs, Bits

\* What is given to the connection, with or without what is saved around it, completes
\* the piece.
LEMMA BufferCompletes ==
    ASSUME ExactInv, pc = "write", todo # <<>>, Distinct, ChipHolds,
           NEW d, Cells(Head1) \subseteq DOMAIN d,
           \A a, b \in DOMAIN d : a % Chip = b % Chip => a = b,
           \A a \in DOMAIN d : a % Chip \in Locs,
           \A a \in Cells(Head1) : d[a] = NewData[a],
           \A a \in DOMAIN d : a \notin Cells(Head1) => d[a] = Read(flash, a)
    PROVE  /\ \A a \in DOMAIN d : d[a] = Written(Head1.to, a % Chip)
           /\ \A l \in Locs :
                 (\A a \in DOMAIN d : a % Chip # l) => flash[l] = Written(Head1.to, l)
<1> PICK p : p = Head1 OBVIOUS
<1>1. /\ PieceOK(p) /\ ask.from \in Int /\ ask.to \in Int
      /\ ask.from <= p.from /\ p.from <= p.to /\ p.to <= ask.to
      /\ \A a \in Cells(p) : NewData[a] = ask.data[a - p.shift]
    BY ThePiece
<1>2. \A l \in Locs : flash[l] = Written(p.from, l) BY DEF ExactInv, WrittenSoFar, Upto
<1>3. ASSUME NEW l \in Locs, \A a \in Cells(p) : a % Chip # l
      PROVE  flash[l] = Written(p.to, l)
    BY <1>1, <1>2, <1>3, PieceWritten
<1>4. ASSUME NEW a \in DOMAIN d PROVE d[a] = Written(p.to, a % Chip)
    <2>1. CASE a \in Cells(p) BY <1>1, <2>1, PieceWritten
    <2>2. CASE a \notin Cells(p)
        <3>1. \A b \in Cells(p) : b % Chip # a % Chip BY <1>4, <2>2
        <3>2. d[a] = flash[a % Chip] BY <2>2 DEF Read
        <3> QED BY <1>3, <3>1, <3>2
    <2> QED BY <2>1, <2>2
<1>5. ASSUME NEW l \in Locs, \A a \in DOMAIN d : a % Chip # l
      PROVE  flash[l] = Written(p.to, l)
    BY <1>3, <1>5
<1> QED BY <1>4, <1>5

LEMMA LocOf ==
    ASSUME NEW a \in Int
    PROVE  a % Chip \in Locs
BY SizesAssumption DEF Locs

\* Some bit has to be set: whole sectors are saved, the data among them.
LEMMA SaveAroundExact ==
    ASSUME ExactInv, SaveAround
    PROVE  ExactInv'
<1>1. /\ pc = "write" /\ pc' = "erase" /\ todo # <<>> /\ todo' = todo
      /\ do_erase /\ buf' = write_data
      /\ UNCHANGED <<session, flash, ask, rest, before>>
    BY DEF SaveAround
<1>2. ConfinedInv' BY SaveAroundConfined DEF ExactInv
<1> PICK p : p = Head1 OBVIOUS
<1> PICK n : n = p.to OBVIOUS
<1> PICK d : d = write_data OBVIOUS
<1> PICK r : r = AlignedRange(p) OBVIOUS
<1>3. /\ PieceOK(p) /\ \A a \in Cells(p) : NewData[a] \in Bits
      /\ DOMAIN NewData = Cells(p)
    BY <1>1, ThePiece
<1>4. /\ d = [a \in r.from..(r.to - 1) |-> IF a \in Cells(p) THEN NewData[a] ELSE Read(flash, a)]
    BY DEF write_data, aligned_range
<1>5. p.from < p.to
    <2>1. PICK a \in Cells(p) : TRUE BY <1>1 DEF do_erase
    <2>2. a - p.shift \in p.from..(p.to - 1) BY <1>3, PieceCells
    <2>3. p.from \in Int /\ p.to \in Int BY <1>3 DEF PieceOK
    <2> QED BY <2>2, <2>3
<1>6. flash \in [Locs -> Bits] BY <1>1 DEF ExactInv, FlashTyped
<1>7. \A a \in DOMAIN d : a \in Int /\ a % Chip \in Locs
    <2>1. \A a \in DOMAIN d : a \in Int BY <1>4
    <2> QED BY <2>1, LocOf
<1>8. \A a \in DOMAIN d : d[a] \in Bits BY <1>3, <1>4, <1>6, <1>7 DEF Read
<1>9. ASSUME Distinct', ChipHolds' PROVE Completing'
    <2>1. Distinct /\ ChipHolds BY <1>1, <1>9, CallKept
    <2>2. /\ Cells(p) \subseteq DOMAIN d
          /\ \A a, b \in DOMAIN d : a % Chip = b % Chip => a = b
        BY <1>3, <1>4, <1>5, <2>1, AroundPiece
    <2>3. /\ \A a \in Cells(p) : d[a] = NewData[a]
          /\ \A a \in DOMAIN d : a \notin Cells(p) => d[a] = Read(flash, a)
        BY <1>4, <2>2
    <2>4. /\ \A a \in DOMAIN d : d[a] = Written(n, a % Chip)
          /\ \A l \in Locs : (\A a \in DOMAIN d : a % Chip # l) => flash[l] = Written(n, l)
        BY <1>1, <1>7, <2>1, <2>2, <2>3, BufferCompletes
    <2>5. Head1'.to = n BY <1>1, SamePiece
    <2>6. \A l : Written(Head1.to, l)' = Written(n, l)
        <3>1. \A l : Written(n, l)' = Written(n, l) BY <1>1, CallKept
        <3>2. \A l : Written(Head1.to, l)' = Written(n, l)' BY <2>5 DEF Written
        <3> QED BY <3>1, <3>2
    <2> QED BY <1>1, <1>8, <2>2, <2>4, <2>6 DEF Completing, Locs, Bits
<1>10. Walking' BY <1>1, SamePiece
<1> QED BY <1>1, <1>2, <1>6, <1>8, <1>9, <1>10
        DEF ExactInv, FlashTyped, BufTyped, WrittenSoFar, Locs, Bits

\* No bit has to be set, or there is no layer that would erase for the caller.
LEMMA WithoutEraseExact ==
    ASSUME ExactInv, WithoutErase
    PROVE  ExactInv'
<1>1. /\ pc = "write" /\ todo # <<>> /\ todo' = todo
      /\ pc' = "refused" \/ (pc' = "program" /\ buf' = NewData)
      /\ enable_ftl => ~do_erase
      /\ UNCHANGED <<session, flash, ask, rest, before>>
    BY DEF WithoutErase
<1>2. ConfinedInv' BY WithoutEraseConfined DEF ExactInv
<1>3. flash \in [Locs -> Bits] BY <1>1 DEF ExactInv, FlashTyped
<1>4. CASE pc' = "refused" BY <1>1, <1>2, <1>3, <1>4, NotWriting
<1>5. CASE pc' = "program" /\ buf' = NewData
    <2> PICK p : p = Head1 OBVIOUS
    <2> PICK n : n = p.to OBVIOUS
    <2> PICK d : d = NewData OBVIOUS
    <2>1. /\ PieceOK(p) /\ \A a \in Cells(p) : d[a] \in Bits /\ d[a] = ask.data[a - p.shift]
          /\ DOMAIN d = Cells(p) /\ ask.from \in Int /\ ask.to \in Int
          /\ ask.from <= p.from /\ p.from <= p.to /\ p.to <= ask.to
        BY <1>1, ThePiece
    <2>2. \A a \in DOMAIN d : a \in Int /\ a % Chip \in Locs
        BY <2>1, PieceCells, LocOf
    <2>3. ASSUME Distinct', ChipHolds' PROVE Completing'
        <3>1. Distinct /\ ChipHolds BY <1>1, <2>3, CallKept
        <3>2. ASSUME NEW a \in DOMAIN d, NEW b \in DOMAIN d, a % Chip = b % Chip PROVE a = b
            <4>1. /\ a - p.shift \in Asked /\ Target(a - p.shift) = a
                  /\ b - p.shift \in Asked /\ Target(b - p.shift) = b
                BY <2>1, PieceCells
            <4>2. a - p.shift = b - p.shift BY <3>1, <3>2, <4>1 DEF Distinct, OnChip
            <4> QED BY <4>1, <4>2
        <3>3. /\ \A a \in DOMAIN d : d[a] = Written(n, a % Chip)
              /\ \A l \in Locs : (\A a \in DOMAIN d : a % Chip # l) => flash[l] = Written(n, l)
            BY <1>1, <2>1, <2>2, <3>1, <3>2, BufferCompletes
        <3>4. ASSUME NEW a \in DOMAIN d, d[a] = 1 PROVE Read(flash, a) = 1
            <4>1. Read(flash, a) \in Bits BY <1>3, <2>2 DEF Read
            <4>2. CASE enable_ftl
                <5>1. ~(d[a] = 1 /\ Read(flash, a) = 0) BY <1>1, <2>1, <4>2 DEF do_erase
                <5> QED BY <3>4, <4>1, <5>1 DEF Bits
            <4>3. CASE ~enable_ftl
                <5>1. session.client = "littlefs"
                    <6>1. session.client # "info" /\ session \in Sessions
                        BY <1>1 DEF ExactInv, Walking, ConfinedInv
                    <6> QED BY <4>3, <6>1, SessionsAssumption DEF enable_ftl
                <5>2. a - p.shift \in Asked /\ Target(a - p.shift) = a /\ a - p.shift \in p.from..(p.to - 1)
                    BY <2>1, PieceCells
                <5>3. before[a % Chip] = 1
                    BY <1>1, <5>1, <5>2 DEF ExactInv, Walking, Read
                <5>4. flash[a % Chip] = Written(p.from, a % Chip)
                    BY <1>1, <2>2, <3>1 DEF ExactInv, WrittenSoFar, Upto
                <5>5. \A q \in ask.from..(p.from - 1) : OnChip(q) # a % Chip
                    <6> SUFFICES ASSUME NEW q \in ask.from..(p.from - 1), OnChip(q) = a % Chip
                                 PROVE  FALSE
                        OBVIOUS
                    <6>1. p.from \in Int /\ p.to \in Int BY <2>1 DEF PieceOK
                    <6>2. q \in Asked BY <2>1, <6>1 DEF Asked
                    <6>3. q = a - p.shift BY <3>1, <5>2, <6>2 DEF Distinct, OnChip
                    <6> QED BY <5>2, <6>1, <6>3
                <5>6. p.from \in Int /\ p.from <= ask.to
                    <6>1. p.from \in Int /\ p.to \in Int BY <2>1 DEF PieceOK
                    <6> QED BY <2>1, <6>1
                <5>7. Written(p.from, a % Chip) = before[a % Chip]
                    BY <2>1, <3>1, <5>5, <5>6, WrittenIs
                <5> QED BY <5>3, <5>4, <5>7 DEF Read
            <4> QED BY <4>2, <4>3
        <3>5. Head1'.to = n BY <1>1, SamePiece
        <3>6. \A l : Written(Head1.to, l)' = Written(n, l)
            <4>1. \A l : Written(n, l)' = Written(n, l) BY <1>1, CallKept
            <4>2. \A l : Written(Head1.to, l)' = Written(n, l)' BY <3>5 DEF Written
            <4> QED BY <4>1, <4>2
        <3> QED BY <1>1, <1>5, <2>1, <3>2, <3>3, <3>4, <3>6 DEF Completing, Locs, Bits, Read
    <2>4. Walking' BY <1>1, <1>5, SamePiece
    <2>5. \A a \in DOMAIN buf' : buf'[a] \in Bits BY <1>5, <2>1
    <2> QED BY <1>1, <1>2, <1>3, <1>5, <2>3, <2>4, <2>5
            DEF ExactInv, FlashTyped, BufTyped, WrittenSoFar, Locs, Bits
<1> QED BY <1>1, <1>4, <1>5

\* What the buffer is for can be programmed once it is erased.
LEMMA FlashEraseExact ==
    ASSUME ExactInv, FlashErase
    PROVE  ExactInv'
<1> PICK d : d = [a \in DOMAIN buf |-> 1] OBVIOUS
<1>1. /\ pc = "erase" /\ pc' = "program" /\ todo' = todo /\ buf' = buf
      /\ flash' = Put(flash, d)
      /\ UNCHANGED <<session, ask, rest, before>>
    BY DEF FlashErase
<1>2. ConfinedInv' BY FlashEraseConfined DEF ExactInv
<1>3. todo # <<>> /\ \E lo, hi \in Int : DOMAIN buf = lo..hi
    BY <1>1 DEF ExactInv, ConfinedInv, Changing
<1>4. flash' \in [Locs -> Bits]
    <2>1. flash \in [Locs -> Bits] BY <1>1 DEF ExactInv, FlashTyped
    <2>2. PICK lo \in Int, hi \in Int : DOMAIN buf = lo..hi BY <1>3
    <2>3. d \in [lo..hi -> Bits] BY <2>2 DEF Bits
    <2> QED BY <1>1, <2>1, <2>2, <2>3, PutType
<1>5. Walking' BY <1>1, <1>3, SamePiece
<1>6. ASSUME Distinct', ChipHolds' PROVE Completing'
    <2>1. Completing BY <1>1, <1>6, CallKept DEF ExactInv
    <2> PICK n : n = Head1.to OBVIOUS
    <2>2. DOMAIN d = DOMAIN buf /\ \A a \in DOMAIN d : d[a] = 1 /\ a \in Int /\ a % Chip \in Locs
        <3>1. \A a \in DOMAIN buf : a \in Int BY <1>3
        <3> QED BY <3>1, LocOf
    <2>3. \A a \in DOMAIN buf : Read(flash', a) = 1
        BY <1>1, <2>1, <2>2, PutAt DEF Completing, Read
    <2>4. \A l \in Locs : (\A a \in DOMAIN buf : a % Chip # l) => flash'[l] = flash[l]
        BY <1>1, <2>1, <2>2, PutAt DEF Completing
    <2>5. \A l : Written(Head1.to, l)' = Written(n, l)
        <3>1. \A l : Written(n, l)' = Written(n, l) BY <1>1, CallKept
        <3>2. Head1' = Head1 BY <1>1 DEF Head1
        <3>3. \A l : Written(Head1.to, l)' = Written(n, l)' BY <3>2 DEF Written
        <3> QED BY <3>1, <3>3
    <2> QED BY <1>1, <2>1, <2>3, <2>4, <2>5 DEF Completing, Locs, Bits, Read
<1>7. BufTyped' BY <1>1 DEF ExactInv, BufTyped, Bits
<1> QED BY <1>1, <1>2, <1>4, <1>5, <1>6, <1>7 DEF ExactInv, FlashTyped, WrittenSoFar, Locs, Bits

LEMMA FlashWriteExact ==
    ASSUME ExactInv, FlashWrite
    PROVE  ExactInv'
<1> PICK d : d = [a \in DOMAIN buf |-> IF buf[a] = 0 THEN 0 ELSE Read(flash, a)] OBVIOUS
<1>1. /\ pc = "program" /\ pc' = "write" /\ todo # <<>> /\ todo' = Tail(todo)
      /\ flash' = Put(flash, d)
      /\ UNCHANGED <<session, ask, rest, before>>
    BY DEF FlashWrite, Program, ExactInv, ConfinedInv, Changing
<1>2. ConfinedInv' BY FlashWriteConfined DEF ExactInv
<1>3. todo' = <<>> /\ Head1.to = rest.from BY <1>1, ThePiece
<1>4. /\ \A a \in DOMAIN d : a \in Int /\ a % Chip \in Locs
      /\ flash' \in [Locs -> Bits]
    <2>1. flash \in [Locs -> Bits] BY <1>1 DEF ExactInv, FlashTyped
    <2>2. PICK lo \in Int, hi \in Int : DOMAIN buf = lo..hi
        BY <1>1 DEF ExactInv, ConfinedInv, Changing
    <2>3. \A a \in lo..hi : a \in Int /\ a % Chip \in Locs BY LocOf
    <2>4. \A a \in lo..hi : Read(flash, a) \in Bits BY <2>1, <2>3 DEF Read
    <2>5. d \in [lo..hi -> Bits] BY <2>2, <2>4 DEF Bits
    <2> QED BY <1>1, <2>1, <2>3, <2>5, PutType
<1>5. Asked' = Asked /\ \A q : Target(q)' = Target(q) BY <1>1, CallKept
<1>6. Walking' BY <1>1, <1>3, <1>5 DEF ExactInv, Walking, Onward, Read, Bits
<1>7. ASSUME Distinct', ChipHolds' PROVE WrittenSoFar'
    <2>1. Completing BY <1>1, <1>7, CallKept DEF ExactInv
    <2> PICK n : n = Head1.to OBVIOUS
    <2>2. \A a \in DOMAIN buf : d[a] = buf[a] BY <1>1, <2>1 DEF Completing, Bits
    <2>3. ASSUME NEW l \in Locs PROVE flash'[l] = Written(n, l)
        <3>1. CASE \E a \in DOMAIN d : a % Chip = l
            <4>1. PICK a \in DOMAIN d : a % Chip = l BY <3>1
            <4>2. flash'[l] = d[a] BY <1>1, <1>4, <2>1, <4>1, PutAt DEF Completing
            <4> QED BY <1>1, <2>1, <2>2, <4>1, <4>2 DEF Completing
        <3>2. CASE \A a \in DOMAIN d : a % Chip # l
            <4>0. \A a, b \in DOMAIN d : a % Chip = b % Chip => a = b
                BY <1>1, <2>1 DEF Completing
            <4>1. flash'[l] = flash[l]
                <5>1. DOMAIN d \subseteq Int BY <1>4
                <5>2. Put(flash, d)[l] = flash[l]
                    BY ONLY <3>2, <4>0, <5>1, PutAt, l \in Locs
                <5> QED BY <1>1, <5>2
            <4>2. DOMAIN d = DOMAIN buf OBVIOUS
            <4>3. flash[l] = Written(n, l)
                BY ONLY <1>1, <2>1, <3>2, <4>2, n = Head1.to, l \in Locs DEF Completing
            <4> QED BY <4>1, <4>3
        <3> QED BY <3>1, <3>2
    <2>4. \A l : Written(Upto, l)' = Written(n, l)
        <3>1. \A l : Written(n, l)' = Written(n, l) BY <1>1, CallKept
        <3>2. Upto' = n BY <1>1, <1>3 DEF Upto
        <3>3. \A l : Written(Upto, l)' = Written(n, l)' BY <3>2 DEF Written
        <3> QED BY <3>1, <3>3
    <2> QED BY <1>1, <2>3, <2>4 DEF WrittenSoFar, Locs
<1> QED BY <1>1, <1>2, <1>4, <1>6, <1>7
        DEF ExactInv, FlashTyped, BufTyped, Completing, Locs, Bits

LEMMA EraseSectorExact ==
    ASSUME ExactInv, EraseSector
    PROVE  ExactInv'
<1>1. /\ pc = "erase_all" /\ pc' = pc /\ Left
      /\ flash' = Put(flash, Erased(rest.from, rest.from + Sector))
    BY DEF EraseSector
<1>2. ConfinedInv' BY EraseSectorConfined DEF ExactInv
<1>3. flash \in [Locs -> Bits] BY <1>1 DEF ExactInv, FlashTyped
<1> PICK lo : lo = rest.from OBVIOUS
<1> PICK hi : hi = (rest.from + Sector) - 1 OBVIOUS
<1>4. lo \in Int /\ hi \in Int
    BY <1>1, SectorWithin, SectorIsPositive DEF ExactInv
<1>5. Erased(rest.from, rest.from + Sector) \in [lo..hi -> Bits]
    BY DEF Erased, Bits
<1>6. flash' \in [Locs -> Bits] BY <1>1, <1>3, <1>4, <1>5, PutType
<1> QED BY <1>1, <1>2, <1>6, NotWriting

LEMMA ExactStep == ExactInv /\ [Next]_vars => ExactInv'
<1> SUFFICES ASSUME ExactInv, [Next]_vars PROVE ExactInv' OBVIOUS
<1>0. ConfinedInv' BY ConfinedStep DEF ExactInv
<1> USE DEF FlashTyped
<1>1. CASE CallRead BY <1>0, <1>1, NotWriting DEF CallRead, ExactInv
<1>2. CASE NextPiece BY <1>2, NextPieceExact
<1>3. CASE ReadSplit BY <1>0, <1>3, NotWriting DEF ReadSplit, ExactInv
<1>4. CASE ReadPiece BY <1>0, <1>4, NotWriting DEF ReadPiece, ExactInv
<1>5. CASE CallWrite BY <1>5, CallWriteExact
<1>6. CASE SkipUnchanged BY <1>6, SkipUnchangedExact
<1>7. CASE SaveAround BY <1>7, SaveAroundExact
<1>8. CASE FlashErase BY <1>8, FlashEraseExact
<1>9. CASE WithoutErase BY <1>9, WithoutEraseExact
<1>10. CASE FlashWrite BY <1>10, FlashWriteExact
<1>11. CASE DiskTrim BY <1>0, <1>11, NotWriting DEF DiskTrim, ExactInv
<1>12. CASE LfsErase BY <1>0, <1>12, NotWriting DEF LfsErase, ExactInv
<1>13. CASE EraseSector BY <1>13, EraseSectorExact
<1>14. CASE Return BY <1>0, <1>14, NotWriting DEF Return, ExactInv
<1>15. CASE ConnectionFails BY <1>0, <1>15, NotWriting DEF ConnectionFails
<1>16. CASE UNCHANGED vars
    <2>1. UNCHANGED <<session, ask, before, flash, pc, todo, rest, buf>> BY <1>16 DEF vars
    <2>2. Head1' = Head1 /\ Upto' = Upto BY <2>1 DEF Head1, Upto
    <2>3. WrittenSoFar' = WrittenSoFar
        <3> PICK n : n = Upto OBVIOUS
        <3>1. \A l : Written(Upto, l)' = Written(n, l)
            <4>1. \A l : Written(Upto, l)' = Written(n, l)' BY <2>2 DEF Written
            <4> QED BY <2>1, <4>1, CallKept
        <3> QED BY <2>1, <3>1 DEF WrittenSoFar, Locs
    <2>4. Completing' = Completing
        <3> PICK n : n = Head1.to OBVIOUS
        <3>1. \A l : Written(Head1.to, l)' = Written(n, l)
            <4>1. \A l : Written(Head1.to, l)' = Written(n, l)' BY <2>2 DEF Written
            <4> QED BY <2>1, <4>1, CallKept
        <3> QED BY <2>1, <3>1 DEF Completing, Locs, Bits, Read
    <2>5. Walking' = Walking
        <3>1. Asked' = Asked /\ \A q : Target(q)' = Target(q) BY <2>1, CallKept
        <3> QED BY <2>1, <2>2, <3>1 DEF Walking, Onward, Read, Bits
    <2>6. Distinct' = Distinct /\ ChipHolds' = ChipHolds BY <2>1, CallKept
    <2> QED BY <1>0, <2>1, <2>3, <2>4, <2>5, <2>6 DEF ExactInv, BufTyped, Locs, Bits
<1> QED
    BY <1>1, <1>2, <1>3, <1>4, <1>5, <1>6, <1>7, <1>8, <1>9, <1>10, <1>11, <1>12,
       <1>13, <1>14, <1>15, <1>16 DEF Next

\* When a write has come to its end, it has written what was asked for.
LEMMA WrittenInTheEnd ==
    ASSUME ExactInv, Distinct, ChipHolds
    PROVE  WriteExact
<1> DEFINE D == [a \in {Target(p) : p \in Asked} |->
                    ask.data[CHOOSE p \in Asked : Target(p) = a]]
<1> SUFFICES ASSUME pc = "write", todo = <<>>, ~Left PROVE flash = Put(before, D)
    BY DEF WriteExact
<1> PICK d : d = D OBVIOUS
<1>1. /\ Ranged /\ Onward /\ session \in Sessions /\ flash \in [Locs -> Bits]
      /\ \A l \in Locs : flash[l] = Written(rest.from, l)
    BY DEF ExactInv, ConfinedInv, Writing, Walking, FlashTyped, WrittenSoFar, Upto
<1>2. /\ ask.from \in Int /\ ask.to \in Int /\ rest.from \in Int
      /\ ask.from..(rest.from - 1) = Asked
    BY <1>1 DEF Ranged, Onward, Left, Asked
<1>3. \A p \in Asked : Target(p) \in Int /\ OnChip(p) \in Locs
    <2>1. \A p \in Asked : p \in Int BY <1>2 DEF Asked
    <2> QED BY <1>1, <2>1, TargetIsNumber, LocOf DEF OnChip
<1>4. /\ DOMAIN d = {Target(p) : p \in Asked}
      /\ \A p \in Asked : d[Target(p)] = ask.data[p]
    <2>1. ASSUME NEW p \in Asked PROVE d[Target(p)] = ask.data[p]
        <3> DEFINE q == CHOOSE q \in Asked : Target(q) = Target(p)
        <3>1. q \in Asked /\ Target(q) = Target(p) OBVIOUS
        <3>2. q = p BY <3>1 DEF Distinct, OnChip
        <3> QED BY <3>2
    <2> QED BY <2>1
<1>5. /\ DOMAIN d \subseteq Int
      /\ \A a, b \in DOMAIN d : a % Chip = b % Chip => a = b
    BY <1>3, <1>4 DEF Distinct, OnChip
<1>6. ASSUME NEW l \in Locs PROVE flash[l] = Put(before, d)[l]
    <2>1. CASE \E p \in Asked : OnChip(p) = l
        <3>1. PICK p \in Asked : OnChip(p) = l BY <2>1
        <3> DEFINE q == CHOOSE q \in ask.from..(rest.from - 1) : OnChip(q) = l
        <3>2. q \in ask.from..(rest.from - 1) /\ OnChip(q) = l BY <1>2, <3>1
        <3>3. Written(rest.from, l) = ask.data[p]
            <4>1. q = p BY <1>2, <3>1, <3>2 DEF Distinct
            <4> QED BY <3>2, <4>1 DEF Written
        <3>4. Put(before, d)[l] = d[Target(p)] BY <1>3, <1>4, <1>5, <3>1, PutAt DEF OnChip
        <3> QED BY <1>1, <1>4, <3>3, <3>4
    <2>2. CASE \A p \in Asked : OnChip(p) # l
        <3>1. Written(rest.from, l) = before[l] BY <1>2, <2>2 DEF Written
        <3>2. \A a \in DOMAIN d : a % Chip # l BY <1>4, <2>2 DEF OnChip
        <3>3. Put(before, d)[l] = before[l] BY <1>5, <3>2, PutAt
        <3> QED BY <1>1, <3>1, <3>3
    <2> QED BY <2>1, <2>2
<1>7. Put(before, d) = [l \in Locs |-> Put(before, d)[l]] BY DEF Put
<1>8. flash = [l \in Locs |-> flash[l]] BY <1>1
<1> QED BY <1>6, <1>7, <1>8

\* A write that returns has changed what it was asked to change and nothing else, in
\* whichever pieces it was written and whatever had to be erased around them, unless it
\* was asked for more than the chip holds.
THEOREM WriteExactTheorem == Spec => [](Distinct /\ ChipHolds => WriteExact)
<1>1. ExactInv => (Distinct /\ ChipHolds => WriteExact) BY WrittenInTheEnd
<1> QED BY <1>1, ExactInitially, ExactStep, PTL DEF Spec

-----------------------------------------------------------------------------
(* What a read returns.                                                    *)

Pieces == [from : Int, to : Int, shift : Int]
\* A read walks through what it was asked for; the pieces of an iteration that is split
\* follow each other.
Reading ==
    pc = "read" =>
        /\ Ranged /\ 0 <= ask.from /\ ask.to <= Limit /\ Onward
        /\ todo \in Seq(Pieces)
        /\ \A i \in 1..Len(todo) :
              /\ PieceOK(todo[i]) /\ todo[i].from <= todo[i].to
              /\ todo[i].to = IF i = Len(todo) THEN rest.from ELSE todo[i + 1].from
        /\ ask.from <= Upto
        /\ got = [p \in ask.from..(Upto - 1) |-> Read(flash, Target(p))]
\* What is cached are ranges.
Interval(s) == \E lo, hi \in Int : lo <= hi /\ s = lo..hi
CachedRanges ==
    /\ flash_cache \in Seq(Entries)
    /\ \A i \in 1..Len(flash_cache) : Interval(DOMAIN flash_cache[i])
ReadInv ==
    /\ CacheInv /\ session \in Sessions
    /\ pc = "idle" => todo = <<>>
    /\ CachedRanges
    /\ Reading

\* The least and the greatest of a range.
LEMMA EndsOfInterval ==
    ASSUME NEW lo \in Int, NEW hi \in Int, lo <= hi
    PROVE  Min(lo..hi) = lo /\ Max(lo..hi) = hi
<1>1. lo \in lo..hi /\ \A y \in lo..hi : lo <= y OBVIOUS
<1>2. hi \in lo..hi /\ \A y \in lo..hi : hi >= y OBVIOUS
<1>3. Min(lo..hi) \in lo..hi /\ \A y \in lo..hi : Min(lo..hi) <= y BY <1>1, Zenon DEF Min
<1>4. Max(lo..hi) \in lo..hi /\ \A y \in lo..hi : Max(lo..hi) >= y BY <1>2, Zenon DEF Max
<1> QED BY <1>1, <1>2, <1>3, <1>4

LEMMA LesserOf ==
    ASSUME NEW a \in Int, NEW b \in Int
    PROVE  Min({a, b}) \in {a, b} /\ Min({a, b}) <= a /\ Min({a, b}) <= b
<1>1. \E x \in {a, b} : \A y \in {a, b} : x <= y OBVIOUS
<1>2. Min({a, b}) \in {a, b} /\ \A y \in {a, b} : Min({a, b}) <= y BY <1>1, Zenon DEF Min
<1> QED BY <1>2

\* How far read_cached has looked: what it has left of lo..hi-1, the others being in one
\* of the first k entries, and a point to split at within that.
Lookings == [from : Int, to : Int, split : Int]
LookedAt(s, lo, hi, k) ==
    /\ s \in Lookings
    /\ lo <= s.from /\ s.from <= s.to /\ s.to <= hi
    /\ s.split # 0 => s.from < s.split /\ s.split < s.to
    /\ \A a \in lo..(hi - 1) : a \notin s.from..(s.to - 1) =>
          \E i \in 1..k : a \in DOMAIN flash_cache[i]

\* The loop looks at one more entry.
LEMMA LoopLooks ==
    ASSUME CachedRanges, NEW lo \in Int, NEW hi \in Int,
           NEW k \in 0..(Len(flash_cache) - 1),
           NEW s, LookedAt(s, lo, hi, k)
    PROVE  LookedAt(CacheLoop(s, flash_cache[k + 1]), lo, hi, k + 1)
<1> PICK e : e = flash_cache[k + 1] OBVIOUS
<1>1. Len(flash_cache) \in Nat /\ k \in Nat /\ k + 1 \in 1..Len(flash_cache)
    BY DEF CachedRanges
<1>2. PICK start \in Int, last \in Int : start <= last /\ DOMAIN e = start..last
    BY <1>1 DEF CachedRanges, Interval
<1>3. Min(DOMAIN e) = start /\ Max(DOMAIN e) = last BY <1>2, EndsOfInterval
<1> PICK f : f = s.from OBVIOUS
<1> PICK t : t = s.to OBVIOUS
<1>4. /\ s \in Lookings /\ f \in Int /\ t \in Int /\ s.split \in Int
      /\ lo <= f /\ f <= t /\ t <= hi
      /\ s.split # 0 => f < s.split /\ s.split < t
    BY DEF LookedAt, Lookings
<1>5. \A a \in lo..(hi - 1) : a \notin f..(t - 1) =>
          \E i \in 1..(k + 1) : a \in DOMAIN flash_cache[i]
    BY <1>1 DEF LookedAt
<1>6. \A a \in DOMAIN e : \E i \in 1..(k + 1) : a \in DOMAIN flash_cache[i] BY <1>1
<1>7. CASE Untouched(s, e)
    BY <1>4, <1>5, <1>7 DEF CacheLoop, LookedAt
<1>8. CASE ~Untouched(s, e)
    <2>1. /\ s.split = 0 /\ f < t
          /\ \E a \in start..last : a \in f..(t - 1)
        <3>1. f # t /\ s.split = 0 /\ DOMAIN e \cap f..(t - 1) # {} BY <1>8 DEF Untouched
        <3>2. f < t BY <1>4, <3>1
        <3> QED BY <1>2, <3>1, <3>2
    <2>2. start < t /\ f <= last
        <3>1. PICK a \in start..last : a \in f..(t - 1) BY <2>1
        <3> QED BY ONLY <1>2, <1>4, <3>1, start \in Int, last \in Int
    <2>3. CASE start <= f
        <3> PICK end : end = last + 1 OBVIOUS
        <3> PICK n : n = Min({end, t}) OBVIOUS
        <3>0. end \in Int BY <1>2
        <3>1. n \in {end, t} /\ n <= end /\ n <= t BY <1>4, <3>0, LesserOf
        <3>2. n \in Int /\ f <= n BY <1>2, <1>4, <2>2, <3>0, <3>1
        <3>3. CacheLoop(s, e) = [from |-> n, to |-> t, split |-> s.split]
            <4>1. Min({Max(DOMAIN e) + 1, s.to}) = n BY <1>3
            <4>2. ~(s.from < Min(DOMAIN e)) BY <1>2, <1>3, <1>4, <2>3
            <4>3. CacheLoop(s, e) = Narrow(s, Min({Max(DOMAIN e) + 1, s.to}), s.to)
                BY <1>3, <1>8, <2>3, <4>2 DEF CacheLoop
            <4>4. CacheLoop(s, e) = Narrow(s, n, t) BY <4>1, <4>3
            <4> QED BY <1>4, <4>4 DEF Narrow, Lookings
        <3>4. ASSUME NEW a \in lo..(hi - 1), a \notin n..(t - 1)
              PROVE  \E i \in 1..(k + 1) : a \in DOMAIN flash_cache[i]
            <4>1. CASE a \in f..(t - 1)
                <5>1. a \in Int /\ f <= a /\ a < t /\ a < n BY <1>4, <3>2, <3>4, <4>1
                <5>2. start <= a /\ a <= last BY <1>2, <1>4, <2>3, <3>0, <3>1, <3>2, <5>1
                <5>3. a \in DOMAIN e BY <1>2, <5>1, <5>2
                <5> QED BY <1>6, <5>3
            <4>2. CASE a \notin f..(t - 1) BY <1>5, <4>2
            <4> QED BY <4>1, <4>2
        <3> PICK new : new = [from |-> n, to |-> t, split |-> s.split] OBVIOUS
        <3>5. new \in Lookings /\ new.from = n /\ new.to = t /\ new.split = 0
            BY <1>4, <2>1, <3>2 DEF Lookings
        <3>6. lo <= n BY <1>4, <3>2
        <3>7. LookedAt(new, lo, hi, k + 1) BY <1>4, <3>1, <3>4, <3>5, <3>6 DEF LookedAt
        <3> QED BY <3>3, <3>7
    <2>4. CASE f < start /\ t <= last + 1
        <3>1. CacheLoop(s, e) = [from |-> f, to |-> start, split |-> s.split]
            <4>1. ~(start <= f) BY <1>2, <1>4, <2>4
            <4>2. CacheLoop(s, e) = Narrow(s, f, start)
                BY <1>2, <1>3, <1>4, <1>8, <2>4, <4>1 DEF CacheLoop
            <4> QED BY <1>4, <4>2 DEF Narrow, Lookings
        <3>2. ASSUME NEW a \in lo..(hi - 1), a \notin f..(start - 1)
              PROVE  \E i \in 1..(k + 1) : a \in DOMAIN flash_cache[i]
            <4>1. CASE a \in f..(t - 1)
                <5>1. a \in DOMAIN e BY <1>2, <1>4, <2>4, <3>2, <4>1
                <5> QED BY <1>6, <5>1
            <4>2. CASE a \notin f..(t - 1) BY <1>5, <4>2
            <4> QED BY <4>1, <4>2
        <3> QED BY <1>2, <1>4, <2>1, <2>2, <2>4, <3>1, <3>2 DEF LookedAt, Lookings
    <2>5. CASE f < start /\ last + 1 < t
        <3>1. CacheLoop(s, e) = [from |-> f, to |-> t, split |-> start]
            BY <1>2, <1>3, <1>4, <1>8, <2>5 DEF CacheLoop, Narrow, Lookings
        <3> QED BY <1>2, <1>4, <1>5, <2>2, <2>5, <3>1 DEF LookedAt, Lookings
    <2> QED BY <1>2, <1>4, <2>3, <2>4, <2>5
<1> QED BY <1>7, <1>8

LoopOver(all) == FoldLeft(CacheLoop, all, flash_cache)
LEMMA LookedIsFold ==
    ASSUME NEW all
    PROVE  LoopOver(all) =
             (CHOOSE iter : iter = [s \in SUBSET (DOMAIN flash_cache) |->
                IF s = {} THEN all
                ELSE CacheLoop(iter[s \ {Max(s)}], flash_cache[Max(s)])])[DOMAIN flash_cache]
BY Zenon DEF LoopOver, FoldLeft, MapThenFoldSet

\* When it has looked at all entries.
LEMMA AllLooked ==
    ASSUME CachedRanges, NEW lo \in Int, NEW hi \in Int, lo <= hi,
           NEW all, all = [from |-> lo, to |-> hi, split |-> 0]
    PROVE  LookedAt(LoopOver(all), lo, hi, Len(flash_cache))
<1> DEFINE n == Len(flash_cache)
           V == Lookings
           op == [x \in (1..n) \X V |-> CacheLoop(x[2], flash_cache[x[1]])]
           Folds(it) == it = [S \in SUBSET (1..n) |->
                               IF S = {} THEN all
                               ELSE CacheLoop(it[S \ {Max(S)}], flash_cache[Max(S)])]
           iter == CHOOSE it : Folds(it)
           K == {k \in 0..n : LookedAt(iter[1..k], lo, hi, k)}
<1>1. n \in Nat /\ DOMAIN flash_cache = 1..n BY DEF CachedRanges
<1>2. all \in V BY DEF Lookings
<1>3. LoopOver(all) = iter[1..n]
    <2>1. LoopOver(all) =
             (CHOOSE it : it = [s \in SUBSET (DOMAIN flash_cache) |->
                IF s = {} THEN all
                ELSE CacheLoop(it[s \ {Max(s)}], flash_cache[Max(s)])])[DOMAIN flash_cache]
        BY LookedIsFold
    <2> HIDE DEF n
    <2> QED BY <1>1, <2>1, Zenon
<1>4. ASSUME NEW k \in 1..n, NEW v \in V PROVE CacheLoop(v, flash_cache[k]) \in V
    <2> PICK e : e = flash_cache[k] OBVIOUS
    <2>1. PICK start \in Int, last \in Int : start <= last /\ DOMAIN e = start..last
        BY <1>1 DEF CachedRanges, Interval
    <2>2. Min(DOMAIN e) = start /\ Max(DOMAIN e) = last BY <2>1, EndsOfInterval
    <2>3. v \in Lookings /\ v.from \in Int /\ v.to \in Int /\ v.split \in Int BY DEF Lookings
    <2>4. Min({last + 1, v.to}) \in Int
        <3>1. last + 1 \in Int BY <2>1
        <3> QED BY <2>3, <3>1, LesserOf
    <2>5. CASE Untouched(v, e) BY <2>3, <2>5 DEF CacheLoop
    <2>6. CASE ~Untouched(v, e)
        <3>1. \/ start <= v.from \/ (v.from < start /\ v.to <= last + 1)
              \/ (v.from < start /\ last + 1 < v.to)
            BY <2>1, <2>3
        <3> QED BY <2>1, <2>2, <2>3, <2>4, <2>6, <3>1 DEF CacheLoop, Narrow, Lookings
    <2> QED BY <2>5, <2>6
<1> HIDE DEF n, V
<1>5. \A k \in 1..n : \A v \in V :
        op[<<k, v>>] = CacheLoop(v, flash_cache[k]) /\ CacheLoop(v, flash_cache[k]) \in V
    BY <1>4
<1>6. op \in [(1..n) \X V -> V] BY <1>5
<1> HIDE DEF op
<1>7. \E it : Folds(it)
    <2>1. PICK it \in [SUBSET (1..n) -> V] : IteratesOver(it, n, all, op)
        BY <1>1, <1>2, <1>6, FoldExists
    <2>2. ASSUME NEW S \in SUBSET (1..n), S # {}
          PROVE  op[<<Max(S), it[S \ {Max(S)}]>>] = CacheLoop(it[S \ {Max(S)}], flash_cache[Max(S)])
        <3>1. Max(S) \in 1..n
            <4>1. 1 \in Int /\ n \in Int BY <1>1
            <4>2. Max(S) \in S BY <2>2, <4>1, Largest
            <4> QED BY <4>2
        <3>2. S \ {Max(S)} \in SUBSET (1..n) OBVIOUS
        <3>3. it[S \ {Max(S)}] \in V BY <2>1, <3>2
        <3> QED BY <1>5, <3>1, <3>3
    <2>3. Folds(it) BY <2>1, <2>2 DEF IteratesOver
    <2> QED BY <2>3
<1>8. \A S \in SUBSET (1..n) :
        iter[S] = IF S = {} THEN all ELSE CacheLoop(iter[S \ {Max(S)}], flash_cache[Max(S)])
    <2>1. Folds(iter) BY <1>7
    <2> HIDE DEF iter
    <2> QED BY <2>1
<1> HIDE DEF iter
<1>9. 0 \in K
    <2>1. 1..0 = {} /\ 1..0 \in SUBSET (1..n) OBVIOUS
    <2>2. iter[1..0] = all BY <1>8, <2>1
    <2>3. LookedAt(all, lo, hi, 0) BY DEF LookedAt, Lookings
    <2> QED BY <1>1, <2>2, <2>3
<1>10. ASSUME NEW k \in 0..(n - 1), k \in K PROVE k + 1 \in K
    <2>1. iter[1..(k + 1)] = CacheLoop(iter[1..k], flash_cache[k + 1])
        <3>1. /\ 1..(k + 1) \in SUBSET (1..n) /\ 1..(k + 1) # {}
              /\ Max(1..(k + 1)) = k + 1 /\ (1..(k + 1)) \ {k + 1} = 1..k
            BY <1>1, Prefix
        <3> QED BY <1>8, <3>1
    <2>2. LookedAt(iter[1..k], lo, hi, k) BY <1>10
    <2>3. LookedAt(CacheLoop(iter[1..k], flash_cache[k + 1]), lo, hi, k + 1)
        BY <2>2, LoopLooks DEF n
    <2> QED BY <1>1, <2>1, <2>3
<1>11. LookedAt(iter[1..n], lo, hi, n)
    <2> HIDE DEF K
    <2>1. \A k \in 0..n : k \in K BY <1>1, <1>9, <1>10, UpTo
    <2>2. n \in K BY <1>1, <2>1
    <2> QED BY <2>2 DEF K
<1> QED BY <1>3, <1>11 DEF n

\* What read_cached leaves of a piece to be read, and that the rest is cached.
LEMMA WhatIsLooked ==
    ASSUME CachedRanges, NEW p \in Pieces, p.from <= p.to,
           NEW s, s = Looked(p)
    PROVE  /\ s.from \in Int /\ s.to \in Int /\ s.split \in Int
           /\ p.from + p.shift <= s.from /\ s.from <= s.to /\ s.to <= p.to + p.shift
           /\ s.split # 0 => s.from < s.split /\ s.split < s.to
           /\ \A q \in p.from..(p.to - 1) : q + p.shift \notin s.from..(s.to - 1) =>
                 \E i \in 1..Len(flash_cache) : q + p.shift \in DOMAIN flash_cache[i]
<1> PICK lo : lo = p.from + p.shift OBVIOUS
<1> PICK hi : hi = p.to + p.shift OBVIOUS
<1> PICK all : all = [from |-> lo, to |-> hi, split |-> 0] OBVIOUS
<1>1. p.from \in Int /\ p.to \in Int /\ p.shift \in Int BY DEF Pieces
<1>2. lo \in Int /\ hi \in Int /\ lo <= hi BY <1>1
<1>3. LookedAt(s, lo, hi, Len(flash_cache))
    <2>1. CASE use_flash_cache
        <3>1. s = LoopOver(all) BY <2>1 DEF Looked, LoopOver
        <3> QED BY <1>2, <3>1, AllLooked
    <2>2. CASE ~use_flash_cache
        <3>1. s = all BY <2>2 DEF Looked
        <3> QED BY <1>2, <3>1 DEF LookedAt, Lookings
    <2> QED BY <2>1, <2>2
<1>4. \A q \in p.from..(p.to - 1) : q + p.shift \in lo..(hi - 1) BY <1>1
<1> QED BY <1>3, <1>4 DEF LookedAt, Lookings

\* What the cache gives is what the flash holds.
LEMMA CachedIsRead ==
    ASSUME CacheIsTrue, CachedRanges, NEW a,
           \E i \in 1..Len(flash_cache) : a \in DOMAIN flash_cache[i]
    PROVE  Cached(a) = Read(flash, a)
<1> DEFINE e == CHOOSE c \in ToSet(flash_cache) : a \in DOMAIN c
<1>1. ToSet(flash_cache) = {flash_cache[i] : i \in 1..Len(flash_cache)}
    BY DEF ToSet, CachedRanges
<1>2. e \in ToSet(flash_cache) /\ a \in DOMAIN e BY <1>1
<1>3. PICK i \in 1..Len(flash_cache) : e = flash_cache[i] BY <1>1, <1>2
<1>4. flash_cache[i][a] = Read(flash, a) BY <1>2, <1>3 DEF CacheIsTrue
<1> QED BY <1>3, <1>4 DEF Cached

LEMMA ReadInitially == Init => ReadInv
<1> SUFFICES ASSUME Init PROVE ReadInv OBVIOUS
<1>1. CacheInv BY CacheInitially
<1> QED BY <1>1 DEF Init, ReadInv, CachedRanges, Reading

\* Steps that leave the cache alone and are not about a read.
LEMMA NotReading ==
    ASSUME ReadInv, CacheInv', UNCHANGED session, pc' # "read", pc' = "idle" => todo' = <<>>,
           flash_cache' = flash_cache \/ flash_cache' = <<>>
    PROVE  ReadInv'
<1>1. CachedRanges'
    <2>1. CASE flash_cache' = flash_cache BY <2>1 DEF ReadInv, CachedRanges, Interval, Entries, Bits
    <2>2. CASE flash_cache' = <<>> BY <2>2 DEF CachedRanges
    <2> QED BY <2>1, <2>2
<1> QED BY <1>1 DEF ReadInv, Reading

LEMMA CallReadReads ==
    ASSUME ReadInv, CacheInv', CallRead
    PROVE  ReadInv'
<1>1. /\ pc = "idle" /\ pc' = "read" /\ got' = Nothing
      /\ UNCHANGED <<session, flash, flash_cache, todo>>
    BY DEF CallRead
<1>2. PICK r \in Askable(ReadSizes(session.client)) : ask' = Ask(r, Nothing) /\ rest' = Whole(r)
    BY DEF CallRead
<1>3. r.from \in 0..(Limit - 1) /\ r.to \in 1..Limit BY DEF Askable
<1>4. r.from \in Int /\ r.to \in Int /\ Limit \in Int /\ 0 <= r.from /\ r.to <= Limit
    BY <1>3, SizesAssumption
<1>5. /\ ask'.from = r.from /\ ask'.to = r.to /\ rest' = [from |-> r.from, to |-> r.to]
    BY <1>2 DEF Ask, Whole
<1>6. todo' = <<>> BY <1>1 DEF ReadInv
<1>7. Upto' = r.from BY <1>5, <1>6 DEF Upto
<1>8. got' = [p \in ask'.from..(Upto' - 1) |-> Read(flash', Target(p)')]
    <2>1. ask'.from..(Upto' - 1) = {} BY <1>4, <1>5, <1>7
    <2> QED BY <1>1, <2>1 DEF Nothing
<1>9. Ranged' /\ Onward' BY <1>4, <1>5 DEF Ranged, Onward
<1>10. CachedRanges' BY <1>1 DEF ReadInv, CachedRanges, Interval, Entries, Bits
<1>11. Reading' BY <1>4, <1>5, <1>6, <1>7, <1>8, <1>9 DEF Reading, Read
<1> QED BY <1>1, <1>10, <1>11 DEF ReadInv

\* What is in the buffer stays right.
LEMMA GotStays ==
    ASSUME UNCHANGED <<session, flash, ask>>, NEW n, NEW g,
           g = [p \in ask.from..(n - 1) |-> Read(flash, Target(p))]
    PROVE  g = [p \in ask'.from..(n - 1) |-> Read(flash', Target(p)')]
<1>1. \A p : Target(p)' = Target(p) BY DEF Target, IsBdev
<1> QED BY <1>1

LEMMA NextPieceReads ==
    ASSUME ReadInv, CacheInv', NextPiece
    PROVE  ReadInv'
<1> PICK p : p = Piece(rest.from, rest.to) OBVIOUS
<1> PICK n : n = rest.from OBVIOUS
<1>1. /\ todo = <<>> /\ todo' = <<p>> /\ rest' = [rest EXCEPT !.from = p.to]
      /\ UNCHANGED <<session, flash, flash_cache, pc, ask, got>>
      /\ pc \in {"read", "write"} /\ rest.from < rest.to
    BY DEF NextPiece, Left
<1>2. CASE pc = "write" BY <1>1, <1>2, NotReading
<1>3. CASE pc = "read"
    <2>1. /\ Ranged /\ 0 <= ask.from /\ ask.to <= Limit /\ Onward
          /\ got = [q \in ask.from..(n - 1) |-> Read(flash, Target(q))]
          /\ ask.from <= n
        BY <1>1, <1>3 DEF ReadInv, Reading, Upto
    <2>2. rest.from \in Int /\ rest.to \in Int /\ ask.from \in Int /\ ask.to \in Int
        BY <2>1 DEF Ranged
    <2>r. ask.from <= rest.from /\ rest.to <= ask.to BY <2>1 DEF Ranged
    <2>l. Limit \in Int BY SizesAssumption
    <2>3. 0 <= rest.from /\ rest.to <= Limit BY ONLY <2>1, <2>2, <2>r, <2>l
    <2>4. rest.from..(rest.to - 1) \subseteq Asked BY <2>2, <2>r DEF Asked
    <2>5. PieceOK(p) /\ rest.from <= p.to /\ p.to <= rest.to
        BY <1>1, <2>2, <2>3, <2>4, PieceLeads DEF ReadInv
    <2>6. p.from = n /\ p = [from |-> p.from, to |-> p.to, shift |-> p.shift] BY DEF Piece
    <2>7. p \in Pieces BY <2>5, <2>6 DEF Pieces, PieceOK
    <2>8. rest'.from = p.to /\ rest'.to = rest.to /\ Head1' = p BY <1>1, <2>1 DEF Ranged, Head1
    <2>9. Upto' = n BY <1>1, <2>6, <2>8 DEF Upto
    <2>10. PieceOK(p)' BY <1>1, <2>5, PieceStays
    <2>11. todo' \in Seq(Pieces) /\ Len(todo') = 1 /\ todo'[1] = p BY <1>1, <2>7
    <2>12. got' = [q \in ask'.from..(n - 1) |-> Read(flash', Target(q)')]
        BY <1>1, <2>1, GotStays
    <2>13. Ranged'
        <3>1. rest' \in [from : Int, to : Int] BY <1>1, <2>1, <2>5 DEF Ranged, PieceOK
        <3> QED BY <1>1, <2>1, <2>2, <2>5, <2>8, <3>1 DEF Ranged, PieceOK
    <2>14. Onward' BY <1>1, <2>1, <2>5, <2>8 DEF Onward
    <2>15. PieceOK(todo[1])'
        <3>1. \A q \in p.from..(p.to - 1) : q \in Asked' /\ Target(q)' = q + p.shift
            BY <2>10 DEF PieceOK
        <3> QED BY <2>5, <2>11, <3>1 DEF PieceOK
    <2>16. Reading'
        <3>1. \A i \in 1..Len(todo') : i = 1 BY <2>11
        <3>2. got' = [q \in ask'.from..(Upto' - 1) |-> Read(flash', Target(q)')]
            BY <2>9, <2>12
        <3> QED BY <1>1, <2>1, <2>5, <2>6, <2>8, <2>9, <2>11, <2>13, <2>14, <2>15, <3>1, <3>2
                DEF Reading, Read, Pieces
    <2>17. CachedRanges' BY <1>1 DEF ReadInv, CachedRanges, Interval, Entries, Bits
    <2> QED BY <1>1, <1>3, <2>16, <2>17 DEF ReadInv
<1> QED BY <1>1, <1>2, <1>3

\* What is known of the piece that is read next.
LEMMA TheReadPiece ==
    ASSUME ReadInv, pc = "read", todo # <<>>, NEW n, n = Len(todo), NEW h, h = Head1
    PROVE  /\ n \in Nat /\ 1 <= n /\ h = todo[1] /\ h \in Pieces /\ PieceOK(h) /\ h.from <= h.to
           /\ h.from \in Int /\ h.to \in Int /\ h.shift \in Int
           /\ h.to = IF n = 1 THEN rest.from ELSE todo[2].from
           /\ ask.from \in Int /\ ask.from <= h.from /\ Upto = h.from
           /\ Tail(todo) \in Seq(Pieces) /\ Len(Tail(todo)) = n - 1
           /\ \A i \in 1..(n - 1) : Tail(todo)[i] = todo[i + 1]
<1>1. todo \in Seq(Pieces) BY DEF ReadInv, Reading
<1>2. n \in Nat /\ 1 <= n /\ 1 \in 1..n BY <1>1, EmptySeq
<1>3. /\ Tail(todo) \in Seq(Pieces) /\ Len(Tail(todo)) = n - 1
      /\ \A i \in 1..(n - 1) : Tail(todo)[i] = todo[i + 1]
    BY <1>1, <1>2, HeadTailProperties
<1>4. h = todo[1] BY DEF Head1
<1>5. h \in Pieces BY <1>1, <1>2, <1>4
<1>6. /\ PieceOK(h) /\ h.from <= h.to
      /\ h.to = IF 1 = n THEN rest.from ELSE todo[1 + 1].from
      /\ Ranged /\ ask.from <= Upto
    BY <1>2, <1>4 DEF ReadInv, Reading
<1>7. Upto = h.from BY DEF Upto
<1>8. h.from \in Int /\ h.to \in Int /\ h.shift \in Int BY <1>5 DEF Pieces
<1>9. ask.from \in Int BY <1>6 DEF Ranged
<1>10. h.to = IF n = 1 THEN rest.from ELSE todo[2].from
    <2>1. 1 + 1 = 2 OBVIOUS
    <2> QED BY <1>6, <2>1
<1> QED BY <1>2, <1>3, <1>4, <1>5, <1>6, <1>7, <1>8, <1>9, <1>10

\* The middle of a piece is cached: it becomes two.
LEMMA ReadSplitReads ==
    ASSUME ReadInv, CacheInv', ReadSplit
    PROVE  ReadInv'
<1> PICK h : h = Head1 OBVIOUS
<1> PICK n : n = Len(todo) OBVIOUS
<1> PICK s : s = Looked(h) OBVIOUS
<1> PICK at : at = s.split - h.shift OBVIOUS
<1> PICK t : t = Tail(todo) OBVIOUS
<1> PICK a : a = [h EXCEPT !.to = at] OBVIOUS
<1> PICK b : b = [h EXCEPT !.from = at] OBVIOUS
<1> PICK new : new = todo' OBVIOUS
<1>1. /\ pc = "read" /\ todo # <<>> /\ s.split # 0
      /\ todo' = <<a, b>> \o t
      /\ UNCHANGED <<session, flash, flash_cache, pc, ask, rest, got>>
    BY DEF ReadSplit, Halves
<1>2. /\ n \in Nat /\ 1 <= n /\ h = todo[1] /\ h \in Pieces /\ PieceOK(h) /\ h.from <= h.to
      /\ h.from \in Int /\ h.to \in Int /\ h.shift \in Int
      /\ h.to = IF n = 1 THEN rest.from ELSE todo[2].from
      /\ t \in Seq(Pieces) /\ Len(t) = n - 1
      /\ \A i \in 1..(n - 1) : t[i] = todo[i + 1]
      /\ Upto = h.from
    BY <1>1, TheReadPiece
<1>3. at \in Int /\ h.from <= at /\ at <= h.to
    <2>1. /\ s.split \in Int /\ s.from \in Int /\ s.to \in Int
          /\ h.from + h.shift <= s.from /\ s.to <= h.to + h.shift
          /\ s.from < s.split /\ s.split < s.to
        BY <1>1, <1>2, WhatIsLooked DEF ReadInv
    <2>2. h.from \in Int /\ h.to \in Int /\ h.shift \in Int BY <1>2
    <2>3. \A x, y, z, lo, hi, split \in Int :
            x + z <= lo /\ hi <= y + z /\ lo < split /\ split < hi
                => x <= split - z /\ split - z <= y
        OBVIOUS
    <2>4. h.from <= s.split - h.shift /\ s.split - h.shift <= h.to BY <2>1, <2>2, <2>3
    <2> QED BY <2>1, <2>2, <2>4
<1>4. /\ a = [from |-> h.from, to |-> at, shift |-> h.shift]
      /\ b = [from |-> at, to |-> h.to, shift |-> h.shift]
    BY <1>2 DEF Pieces
<1>5. a \in Pieces /\ b \in Pieces BY <1>2, <1>3, <1>4 DEF Pieces
<1>6. PieceOK(a) /\ PieceOK(b)
    <2>0. \A x, y, z \in Int : x <= y /\ y <= z =>
             /\ \A q \in x..(y - 1) : q \in x..(z - 1)
             /\ \A q \in y..(z - 1) : q \in x..(z - 1)
        OBVIOUS
    <2>1. \A q \in h.from..(at - 1) : q \in h.from..(h.to - 1) BY ONLY <1>2, <1>3, <2>0
    <2>2. \A q \in at..(h.to - 1) : q \in h.from..(h.to - 1) BY ONLY <1>2, <1>3, <2>0
    <2> QED BY <1>2, <1>3, <1>4, <2>1, <2>2 DEF PieceOK
<1>7. /\ new \in Seq(Pieces) /\ Len(new) = n + 1
      /\ new[1] = a /\ new[2] = b
      /\ \A i \in 3..(n + 1) : new[i] = todo[i - 1]
    <2> PICK two : two = <<a, b>> OBVIOUS
    <2>1. two \in Seq(Pieces) /\ Len(two) = 2 /\ two[1] = a /\ two[2] = b BY <1>5
    <2>2. /\ new \in Seq(Pieces) /\ Len(new) = 2 + (n - 1)
          /\ \A i \in 1..(2 + (n - 1)) : new[i] = IF i <= 2 THEN two[i] ELSE t[i - 2]
        BY <1>1, <1>2, <2>1, ConcatProperties
    <2>3. n \in Int /\ 2 + (n - 1) = n + 1 /\ 1 \in 1..(n + 1) /\ 2 \in 1..(n + 1) BY <1>2
    <2>4. ASSUME NEW i \in 3..(n + 1) PROVE new[i] = todo[i - 1]
        <3>0. n \in Int /\ 1 <= n BY <1>2
        <3>1. \A m \in Int : \A j \in 3..(m + 1) :
                  /\ j \in 1..(2 + (m - 1)) /\ ~(j <= 2) /\ j - 2 \in 1..(m - 1)
                  /\ (j - 2) + 1 = j - 1
            OBVIOUS
        <3>2. i \in 1..(2 + (n - 1)) /\ ~(i <= 2) /\ i - 2 \in 1..(n - 1) /\ (i - 2) + 1 = i - 1
            BY <3>0, <3>1
        <3>3. new[i] = t[i - 2] BY <2>2, <3>2
        <3>4. t[i - 2] = todo[(i - 2) + 1] BY <1>2, <3>2
        <3> QED BY <3>2, <3>3, <3>4
    <2>5. Len(new) = n + 1 /\ new \in Seq(Pieces) BY <2>2, <2>3
    <2>6. 1 <= 2 /\ 2 <= 2 /\ 1 \in 1..(2 + (n - 1)) /\ 2 \in 1..(2 + (n - 1)) BY <2>3
    <2>7. new[1] = a /\ new[2] = b BY <2>1, <2>2, <2>6
    <2> QED BY <2>4, <2>5, <2>7
<1>8. Asked' = Asked /\ \A q : Target(q)' = Target(q)
    BY <1>1 DEF Asked, Target, IsBdev
<1>9. ASSUME NEW i \in 1..(n + 1)
      PROVE  /\ PieceOK(new[i]) /\ new[i].from <= new[i].to
             /\ new[i].to = IF i = n + 1 THEN rest.from ELSE new[i + 1].from
    <2>1. CASE i = 1
        <3>1. n \in Int /\ 1 <= n BY <1>2
        <3>2. i # n + 1 /\ i + 1 = 2 BY <2>1, <3>1
        <3>3. new[i] = a /\ new[i + 1] = b BY <1>7, <2>1, <3>2
        <3>4. a.from = h.from /\ a.to = at /\ b.from = at BY <1>4
        <3> QED BY <1>3, <1>6, <3>2, <3>3, <3>4
    <2>2. CASE i = 2
        <3>0. /\ n \in Int /\ 1 <= n /\ new[i] = b /\ b.from = at /\ b.to = h.to
              /\ at <= h.to /\ PieceOK(b)
              /\ h.to = IF n = 1 THEN rest.from ELSE todo[2].from
            <4>1. n \in Int /\ 1 <= n BY <1>2
            <4>2. new[i] = b BY <1>7, <2>2
            <4>3. b.from = at /\ b.to = h.to /\ at <= h.to BY <1>3, <1>4
            <4> QED BY <1>2, <1>6, <4>1, <4>2, <4>3
        <3>1. CASE n = 1
            <4>1. i = n + 1 BY <2>2, <3>1
            <4>2. b.to = rest.from BY <3>0, <3>1
            <4> QED BY <3>0, <4>1, <4>2
        <3>2. CASE n # 1
            <4>1. 3 \in 3..(n + 1) /\ 3 - 1 = 2 /\ 3 = i + 1 /\ i # n + 1 BY <2>2, <3>0, <3>2
            <4>2. new[i + 1] = todo[2] BY <1>7, <4>1
            <4>3. b.to = new[i + 1].from BY <3>0, <3>2, <4>2
            <4> QED BY <3>0, <4>1, <4>3
        <3> QED BY <3>1, <3>2
    <2>3. CASE i # 1 /\ i # 2
        <3>0. \A m \in Int : \A j \in 1..(m + 1) : j # 1 /\ j # 2 =>
                  j \in 3..(m + 1) /\ j - 1 \in 1..m /\ (j - 1) + 1 = j
            OBVIOUS
        <3>1. i \in 3..(n + 1) /\ i - 1 \in 1..n /\ (i - 1) + 1 = i
            <4>1. n \in Int BY <1>2
            <4> QED BY <2>3, <3>0, <4>1
        <3>2. new[i] = todo[i - 1] BY <1>7, <3>1
        <3>3. /\ PieceOK(todo[i - 1]) /\ todo[i - 1].from <= todo[i - 1].to
              /\ todo[i - 1].to = IF i - 1 = n THEN rest.from ELSE todo[(i - 1) + 1].from
            BY <1>1, <3>1 DEF ReadInv, Reading
        <3>4. CASE i = n + 1 BY <1>2, <3>2, <3>3, <3>4
        <3>5. CASE i # n + 1
            <4>0. \A m \in Int : \A j \in 3..(m + 1) :
                      j # m + 1 => j + 1 \in 3..(m + 1) /\ (j + 1) - 1 = j /\ j - 1 # m
                OBVIOUS
            <4>1. i + 1 \in 3..(n + 1) /\ (i + 1) - 1 = i /\ i - 1 # n
                <5>1. n \in Int BY <1>2
                <5> QED BY <3>1, <3>5, <4>0, <5>1
            <4>2. new[i + 1] = todo[i] BY <1>7, <4>1
            <4> QED BY <3>1, <3>2, <3>3, <3>5, <4>1, <4>2
        <3> QED BY <3>4, <3>5
    <2> QED BY <2>1, <2>2, <2>3
<1>10. Upto' = h.from
    <2>1. todo' # <<>> /\ Head1' = a
        <3>1. todo' # <<>> BY <1>2, <1>7
        <3> QED BY <1>7, <3>1 DEF Head1
    <2> QED BY <1>4, <2>1 DEF Upto
<1>11. Reading'
    <2> PICK k : k = h.from OBVIOUS
    <2>1. /\ Ranged /\ 0 <= ask.from /\ ask.to <= Limit /\ Onward /\ ask.from <= k
          /\ got = [p \in ask.from..(k - 1) |-> Read(flash, Target(p))]
        BY <1>1, <1>2 DEF ReadInv, Reading
    <2>2. got' = [p \in ask'.from..(k - 1) |-> Read(flash', Target(p)')]
        BY <1>1, <2>1, GotStays
    <2>3. \A i \in 1..Len(todo') :
              /\ PieceOK(todo[i])' /\ todo'[i].from <= todo'[i].to
              /\ todo'[i].to = IF i = Len(todo') THEN rest'.from ELSE todo'[i + 1].from
        <3>1. \A i \in 1..(n + 1) : PieceOK(todo[i])'
            BY <1>8, <1>9 DEF PieceOK
        <3>2. Len(new) = n + 1 /\ new = todo' /\ rest' = rest BY <1>1, <1>7
        <3>3. \A i \in 1..(n + 1) :
                  /\ new[i].from <= new[i].to
                  /\ new[i].to = IF i = n + 1 THEN rest.from ELSE new[i + 1].from
            BY <1>9
        <3> QED BY <3>1, <3>2, <3>3
    <2>4. Ranged' /\ Onward' BY <1>1, <2>1 DEF Ranged, Onward
    <2> QED BY <1>1, <1>7, <1>10, <2>1, <2>2, <2>3, <2>4 DEF Reading, Read, Pieces
<1>12. CachedRanges' BY <1>1 DEF ReadInv, CachedRanges, Interval, Entries, Bits
<1> QED BY <1>1, <1>11, <1>12 DEF ReadInv

\* The next piece is in the buffer, from the cache or from the flash.
LEMMA ReadPieceReads ==
    ASSUME ReadInv, CacheInv', ReadPiece
    PROVE  ReadInv'
<1> PICK h : h = Head1 OBVIOUS
<1> PICK n : n = Len(todo) OBVIOUS
<1> PICK s : s = Looked(h) OBVIOUS
<1> PICK left : left = s.from..(s.to - 1) OBVIOUS
<1> PICK to : to = h.to OBVIOUS
<1>1. /\ pc = "read" /\ todo # <<>> /\ todo' = Tail(todo)
      /\ got' = Over(got, Filled(h, left))
      /\ flash_cache' = IF use_flash_cache /\ left # {}
                        THEN Append(flash_cache, [a \in left |-> Read(flash, a)])
                        ELSE flash_cache
      /\ UNCHANGED <<session, flash, pc, ask, rest>>
    BY DEF ReadPiece
<1>2. /\ n \in Nat /\ 1 <= n /\ h = todo[1] /\ h \in Pieces /\ PieceOK(h) /\ h.from <= to
      /\ h.from \in Int /\ to \in Int /\ h.shift \in Int
      /\ to = IF n = 1 THEN rest.from ELSE todo[2].from
      /\ todo' \in Seq(Pieces) /\ Len(todo') = n - 1
      /\ \A i \in 1..(n - 1) : todo'[i] = todo[i + 1]
      /\ Upto = h.from /\ ask.from \in Int /\ ask.from <= h.from
    BY <1>1, TheReadPiece
<1>3. /\ s.from \in Int /\ s.to \in Int
      /\ \A q \in h.from..(to - 1) : q + h.shift \notin left =>
            \E i \in 1..Len(flash_cache) : q + h.shift \in DOMAIN flash_cache[i]
    BY <1>2, WhatIsLooked DEF ReadInv
<1>4. ASSUME NEW q \in h.from..(to - 1)
      PROVE  Filled(h, left)[q] = Read(flash, Target(q))
    <2>1. Target(q) = q + h.shift BY <1>2 DEF PieceOK
    <2>2. CASE q + h.shift \in left BY <2>1, <2>2 DEF Filled
    <2>3. CASE q + h.shift \notin left
        <3>1. Cached(q + h.shift) = Read(flash, q + h.shift)
            BY <1>3, <2>3, CachedIsRead DEF ReadInv, CacheInv
        <3> QED BY <2>1, <2>3, <3>1 DEF Filled
    <2> QED BY <2>2, <2>3
<1>5. got' = [q \in ask'.from..(to - 1) |-> Read(flash', Target(q)')]
    <2> PICK k : k = h.from OBVIOUS
    <2>1. got = [q \in ask.from..(k - 1) |-> Read(flash, Target(q))]
        BY <1>1, <1>2 DEF ReadInv, Reading
    <2> PICK g : g = Over(got, Filled(h, left)) OBVIOUS
    <2>2. DOMAIN got = ask.from..(k - 1) /\ DOMAIN Filled(h, left) = k..(to - 1)
        BY <2>1 DEF Filled
    <2>3. (ask.from..(k - 1)) \cup (k..(to - 1)) = ask.from..(to - 1) BY <1>2
    <2>4. \A q \in ask.from..(to - 1) : g[q] = Read(flash, Target(q))
        <3> SUFFICES ASSUME NEW q \in ask.from..(to - 1) PROVE g[q] = Read(flash, Target(q))
            OBVIOUS
        <3>1. CASE q \in k..(to - 1) BY <1>4, <2>2, <2>3, <3>1 DEF Over
        <3>2. CASE q \notin k..(to - 1)
            <4>1. q \in ask.from..(k - 1) BY <2>3, <3>2
            <4> QED BY <2>1, <2>2, <2>3, <3>2, <4>1 DEF Over
        <3> QED BY <3>1, <3>2
    <2>5. g = [q \in ask.from..(to - 1) |-> Read(flash, Target(q))]
        <3>1. g = [q \in ask.from..(to - 1) |-> g[q]] BY <2>2, <2>3 DEF Over
        <3> QED BY <2>4, <3>1
    <2> QED BY <1>1, <2>5, GotStays
<1>6. Upto' = to
    <2>1. CASE n = 1
        <3>1. todo' = <<>> BY <1>2, <2>1, EmptySeq
        <3> QED BY <1>1, <1>2, <2>1, <3>1 DEF Upto
    <2>2. CASE n # 1
        <3>1. todo' # <<>> /\ todo'[1] = todo[2]
            <4>1. 1 \in 1..(n - 1) BY <1>2, <2>2
            <4> QED BY <1>2, <4>1
        <3> QED BY <1>2, <2>2, <3>1 DEF Upto, Head1
    <2> QED BY <2>1, <2>2
<1>7. Asked' = Asked /\ \A q : Target(q)' = Target(q)
    BY <1>1 DEF Asked, Target, IsBdev
<1>8. Reading'
    <2>1. Ranged /\ 0 <= ask.from /\ ask.to <= Limit /\ Onward
        BY <1>1, <1>2 DEF ReadInv, Reading
    <2>2. ASSUME NEW i \in 1..(n - 1)
          PROVE  /\ PieceOK(todo'[i]) /\ todo'[i].from <= todo'[i].to
                 /\ todo'[i].to = IF i = n - 1 THEN rest.from ELSE todo'[i + 1].from
        <3>1. i + 1 \in 1..n /\ i \in 1..(n - 1) BY <1>2
        <3>2. /\ PieceOK(todo[i + 1]) /\ todo[i + 1].from <= todo[i + 1].to
              /\ todo[i + 1].to = IF i + 1 = n THEN rest.from ELSE todo[(i + 1) + 1].from
            BY <1>1, <3>1 DEF ReadInv, Reading
        <3>3. CASE i = n - 1 BY <1>2, <3>2, <3>3
        <3>4. CASE i # n - 1
            <4>1. i + 1 \in 1..(n - 1) /\ i + 1 # n BY <1>2, <3>1, <3>4
            <4> QED BY <1>2, <3>2, <3>4, <4>1
        <3> QED BY <3>3, <3>4
    <2>3. \A i \in 1..Len(todo') :
              /\ PieceOK(todo[i])' /\ todo'[i].from <= todo'[i].to
              /\ todo'[i].to = IF i = Len(todo') THEN rest'.from ELSE todo'[i + 1].from
        <3>1. \A i \in 1..(n - 1) : PieceOK(todo[i])' BY <1>7, <2>2 DEF PieceOK
        <3> QED BY <1>1, <1>2, <2>2, <3>1
    <2>4. Ranged' /\ Onward' BY <1>1, <2>1 DEF Ranged, Onward
    <2>5. got' = [p \in ask'.from..(Upto' - 1) |-> Read(flash', Target(p)')]
        BY <1>5, <1>6
    <2>6. ask'.from <= Upto' BY <1>1, <1>2, <1>6
    <2> QED BY <1>1, <1>2, <2>1, <2>3, <2>4, <2>5, <2>6 DEF Reading, Read, Pieces
<1>9. CachedRanges'
    <2>1. CASE ~(use_flash_cache /\ left # {})
        <3>1. flash_cache' = flash_cache BY <1>1, <2>1
        <3> QED BY <3>1 DEF ReadInv, CachedRanges, Interval, Entries, Bits
    <2>2. CASE use_flash_cache /\ left # {}
        <3> PICK e : e = [a \in left |-> Read(flash, a)] OBVIOUS
        <3>1. flash_cache' = Append(flash_cache, e) BY <1>1, <2>2
        <3>2. flash_cache' \in Seq(Entries) BY DEF CacheInv, Entries, Bits
        <3>3. /\ Len(flash_cache') = Len(flash_cache) + 1 /\ Len(flash_cache) \in Nat
              /\ \A i \in 1..Len(flash_cache) : flash_cache'[i] = flash_cache[i]
              /\ flash_cache'[Len(flash_cache) + 1] = e
            BY <3>1, AppendProperties DEF ReadInv, CachedRanges
        <3>4. Interval(DOMAIN e)
            <4>1. s.from <= s.to - 1 /\ s.to - 1 \in Int BY <1>3, <2>2
            <4> QED BY <1>3, <4>1 DEF Interval
        <3>5. \A i \in 1..Len(flash_cache') : Interval(DOMAIN flash_cache'[i])
            <4> SUFFICES ASSUME NEW i \in 1..(Len(flash_cache) + 1)
                         PROVE  Interval(DOMAIN flash_cache'[i])
                BY <3>3
            <4>1. CASE i \in 1..Len(flash_cache) BY <3>3, <4>1 DEF ReadInv, CachedRanges
            <4>2. CASE i = Len(flash_cache) + 1 BY <3>3, <3>4, <4>2
            <4> QED BY <3>3, <4>1, <4>2
        <3> QED BY <3>2, <3>5 DEF CachedRanges, Interval, Entries, Bits
    <2> QED BY <2>1, <2>2
<1>10. pc' = "read" /\ session' = session BY <1>1
<1> QED BY <1>8, <1>9, <1>10 DEF ReadInv

LEMMA ReadStep == ReadInv /\ [Next]_vars => ReadInv'
<1> SUFFICES ASSUME ReadInv, [Next]_vars PROVE ReadInv' OBVIOUS
<1>0. CacheInv' BY CacheStep DEF ReadInv
<1>1. CASE CallRead BY <1>0, <1>1, CallReadReads
<1>2. CASE NextPiece BY <1>0, <1>2, NextPieceReads
<1>3. CASE ReadSplit BY <1>0, <1>3, ReadSplitReads
<1>4. CASE ReadPiece BY <1>0, <1>4, ReadPieceReads
<1>5. CASE CallWrite BY <1>0, <1>5, NotReading DEF CallWrite
<1>6. CASE SkipUnchanged BY <1>0, <1>6, NotReading DEF SkipUnchanged
<1>7. CASE SaveAround BY <1>0, <1>7, NotReading DEF SaveAround
<1>8. CASE FlashErase BY <1>0, <1>8, NotReading DEF FlashErase
<1>9. CASE WithoutErase BY <1>0, <1>9, NotReading DEF WithoutErase
<1>10. CASE FlashWrite BY <1>0, <1>10, NotReading DEF FlashWrite
<1>11. CASE DiskTrim BY <1>0, <1>11, NotReading DEF DiskTrim
<1>12. CASE LfsErase BY <1>0, <1>12, NotReading DEF LfsErase
<1>13. CASE EraseSector BY <1>0, <1>13, NotReading DEF EraseSector
<1>14. CASE Return BY <1>0, <1>14, NotReading DEF Return
<1>15. CASE ConnectionFails BY <1>0, <1>15, NotReading DEF ConnectionFails
<1>16. CASE UNCHANGED vars
    <2>1. UNCHANGED <<session, flash, flash_cache, pc, ask, rest, todo, got>> BY <1>16 DEF vars
    <2>2. Asked' = Asked /\ Upto' = Upto /\ \A q : Target(q)' = Target(q)
        BY <2>1 DEF Asked, Upto, Head1, Target, IsBdev
    <2>3. Reading'
        <3>1. CASE pc = "read"
            <4> PICK n : n = Upto OBVIOUS
            <4>1. Reading BY DEF ReadInv
            <4>2. got' = [p \in ask'.from..(n - 1) |-> Read(flash', Target(p)')]
                BY <2>1, <3>1, <4>1, GotStays DEF Reading
            <4>3. \A i : PieceOK(todo[i])' <=> PieceOK(todo[i])
                BY <2>1, <2>2 DEF PieceOK
            <4> QED BY <2>1, <2>2, <3>1, <4>1, <4>2, <4>3
                    DEF Reading, Ranged, Onward, Pieces, Read
        <3>2. CASE pc # "read" BY <2>1, <3>2 DEF Reading
        <3> QED BY <3>1, <3>2
    <2>4. CachedRanges' BY <2>1 DEF ReadInv, CachedRanges, Interval, Entries, Bits
    <2> QED BY <1>0, <2>1, <2>3, <2>4 DEF ReadInv
<1> QED
    BY <1>1, <1>2, <1>3, <1>4, <1>5, <1>6, <1>7, <1>8, <1>9, <1>10, <1>11, <1>12,
       <1>13, <1>14, <1>15, <1>16 DEF Next

\* A read that returns has filled the buffer with what is in the flash, however the
\* copy mapping cuts what was asked for into pieces, and the cache these.
THEOREM ReadExactTheorem == Spec => []ReadExact
<1>1. ReadInv => ReadExact
    <2> SUFFICES ASSUME ReadInv, pc = "read", todo = <<>>, ~Left
                 PROVE  got = [p \in Asked |-> Read(flash, Target(p))]
        BY DEF ReadExact
    <2>1. Ranged /\ Onward /\ got = [p \in ask.from..(rest.from - 1) |-> Read(flash, Target(p))]
        BY DEF ReadInv, Reading, Upto
    <2>2. ask.from..(rest.from - 1) = Asked BY <2>1 DEF Ranged, Onward, Left, Asked
    <2> QED BY <2>1, <2>2
<1> QED BY <1>1, ReadInitially, ReadStep, PTL DEF Spec
=============================================================================
