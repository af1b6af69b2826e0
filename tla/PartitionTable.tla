---------------------------- MODULE PartitionTable ----------------------------
(***************************************************************************)
(* Partition tables: how partition create of main.cpp places the           *)
(* partitions of a JSON file, how partition_table_item of metadata.h       *)
(* writes them as words, and what get_partition_info makes of the words    *)
(* that a device holds.                                                    *)
(*                                                                         *)
(* A word is a record of what it is for, since where one kind of word ends *)
(* and the next begins is all that a reader has to go by.  Permissions and *)
(* links, which are copied bit by bit, are left out, and the letters of a  *)
(* name: it is a number of words.                                          *)
(***************************************************************************)
EXTENDS Integers, SequencesExt, FiniteSetsExt

CONSTANTS
    DefaultFamilies,        \* those with a flag of their own
    MaxExtraFamilies,       \* PICOBIN_PARTITION_MAX_EXTRA_FAMILIES
    abs_block_sector,       \* sector of settings.uf2.abs_block_loc
    no_partition            \* what a device without a table has

FirstFree == 2              \* cur_pos before the first partition
SectorBytes == 4096
LocationBits == 13          \* of PICOBIN_PARTITION_LOCATION_FIRST_SECTOR and LAST_SECTOR
NotGiven == -1

\* One of the "partitions" of the file; start and size are sectors or bytes.
JsonPartitions ==
    [start : Nat \union {NotGiven}, size : Nat \ {0}, families : Seq(STRING), id : BOOLEAN,
     name : Nat]

-----------------------------------------------------------------------------
(* partition create                                                        *)

\* Numbers of 4096 and more are bytes; a start that was not given is in sectors.
InBytes(start, p) == start >= SectorBytes \/ p.size >= SectorBytes
Start(cur_pos, p) == IF p.start = NotGiven THEN cur_pos ELSE p.start
InSectors(n) == n \div SectorBytes
first_sector(cur_pos, p) ==
    LET start == Start(cur_pos, p)
    IN  IF InBytes(start, p) /\ start # cur_pos THEN InSectors(start) ELSE start
sectors(cur_pos, p) ==
    IF InBytes(Start(cur_pos, p), p) THEN InSectors(p.size) ELSE p.size
Misaligned(cur_pos, p) ==
    LET start == Start(cur_pos, p)
    IN  InBytes(start, p) /\ (p.size % SectorBytes # 0
                              \/ (start # cur_pos /\ start % SectorBytes # 0))
HoldsAbsoluteBlock(cur_pos, p) ==
    LET start == first_sector(cur_pos, p)
    IN  start <= abs_block_sector /\ abs_block_sector < start + sectors(cur_pos, p)

extra_families(p) == SelectSeq(p.families, LAMBDA f : f \notin DefaultFamilies)
\* The number of extra families is put into its field once for every family of the
\* partition, over what is there, so that the bits of smaller numbers remain.
NumExtraFamilies(p) ==
    LET set(b) == \E n \in 0..Len(extra_families(p)) : (n \div 2^b) % 2 = 1
    IN  (IF set(0) THEN 1 ELSE 0) + (IF set(1) THEN 2 ELSE 0)

Created(w, p) ==
    LET start == first_sector(w.cur_pos, p)
        size == sectors(w.cur_pos, p)
    IN  [cur_pos |-> start + size,
         refused |-> w.refused \/ Misaligned(w.cur_pos, p) \/ HoldsAbsoluteBlock(w.cur_pos, p)
                     \/ Len(extra_families(p)) > MaxExtraFamilies,
         partitions |-> Append(w.partitions,
             [first |-> start, last |-> start + size - 1, id |-> p.id, name |-> p.name,
              default |-> ToSet(p.families) \intersect DefaultFamilies,
              extra |-> extra_families(p), num_extra |-> NumExtraFamilies(p)])]
partition_create(json) ==
    FoldLeft(Created, [cur_pos |-> FirstFree, refused |-> FALSE, partitions |-> <<>>], json)

-----------------------------------------------------------------------------
(* The words of a table                                                    *)

Location(p) ==
    [kind |-> "location", first |-> p.first % 2^LocationBits, last |-> p.last % 2^LocationBits]
Flags(p) ==
    [kind |-> "flags", default |-> p.default, num_extra |-> p.num_extra, id |-> p.id,
     name |-> p.name]
Words(kind, n) == [i \in 1..n |-> [kind |-> kind]]
partition_to_words(p) ==
    <<Location(p), Flags(p)>> \o (IF p.id THEN Words("id", 2) ELSE <<>>)
    \o [i \in DOMAIN p.extra |-> [kind |-> "family", id |-> p.extra[i]]]
    \o Words("name", p.name)
to_words(partitions) == FlattenSeq([i \in DOMAIN partitions |-> partition_to_words(partitions[i])])

\* Reading goes by the flags alone.  A device does not take a table in which these
\* lead to something that is not a partition.
Behind(words, i) ==
    LET flags == words[i + 1]
    IN  i + 2 + (IF flags.id THEN 2 ELSE 0) + flags.num_extra + flags.name
IsPartition(words, i) ==
    /\ i < Len(words) /\ words[i].kind = "location" /\ words[i + 1].kind = "flags"
    /\ Behind(words, i) <= Len(words) + 1
FamiliesAt(words, i) ==
    LET from == i + 2 + (IF words[i + 1].id THEN 2 ELSE 0)
    IN  {words[k].id : k \in {k \in from..(from + words[i + 1].num_extra - 1) :
                              words[k].kind = "family"}}
\* get_partition_info: the end is behind the last sector.
PartitionAt(words, i) ==
    [start |-> words[i].first, end |-> words[i].last + 1,
     families |-> words[i + 1].default \union FamiliesAt(words, i)]
parse(words) ==
    LET from[i \in 1..(Len(words) + 1)] ==
            IF i > Len(words) THEN [legible |-> TRUE, partitions |-> <<>>]
            ELSE IF ~IsPartition(words, i) THEN [legible |-> FALSE, partitions |-> <<>>]
            ELSE LET rest == from[Behind(words, i)]
                 IN  [rest EXCEPT !.partitions = <<PartitionAt(words, i)>> \o @]
    IN  from[1]
HasTable(words) == words # no_partition /\ parse(words).legible
get_partitions(words) == IF HasTable(words) THEN parse(words).partitions ELSE no_partition
=============================================================================
