----------------------------- MODULE MCFlashLoad -----------------------------
(***************************************************************************)
(* FlashLoad on a flash of 4 sectors of 2 cells: files of one or two       *)
(* ranges that begin and end anywhere in it or run past its end, in PSRAM, *)
(* in RAM, in both flash and RAM, and across the end of a region.          *)
(***************************************************************************)
EXTENDS FlashLoad

R(f, t) == [from |-> f, to |-> t]
In(f, t) == R(FlashStart + f, FlashStart + t)

OneRange == {{In(f, t)} : f \in 0..8, t \in 1..10}
TwoRanges == {{In(f, t), In(g, u)} : f \in 0..2, t \in 1..4, g \in 2..5, u \in 3..7}
ElsewhereFiles ==
    {{R(FlashEndRP2040, FlashEndRP2040 + 3)}, {R(FlashEndRP2350 - 2, FlashEndRP2350)},
     {R(FlashEndRP2350 - 2, FlashEndRP2350 + 1)},
     {R(SramStart, SramStart + 3)}, {R(SramStart + 1, SramEnd)},
     {In(0, 3), R(SramStart, SramStart + 1), R(SramStart + 1, SramEnd)}}
WellFormed(f) ==
    /\ \A r \in f : r.from < r.to
    /\ \A r, s \in f : r = s \/ r.to <= s.from \/ s.to <= r.from
AllFiles == {f \in OneRange \cup TwoRanges \cup ElsewhereFiles : WellFormed(f)}

LoadFlags(n, N, u, v, x) ==
    [command |-> "load", all |-> FALSE, no_overwrite |-> n, no_overwrite_force |-> N, update |-> u, verify |-> v,
     execute |-> x, partition |-> -1, ignore_pt |-> TRUE, offset |-> 0,
     range_set |-> FALSE, from |-> 0, to |-> 0]
AllOptions ==
    {LoadFlags(n, N, FALSE, FALSE, FALSE) : n, N \in BOOLEAN}
    \cup {LoadFlags(FALSE, FALSE, u, TRUE, TRUE) : u \in BOOLEAN}
In1(s, f, t, k) ==
    [settings |-> s, file |-> f, table |-> t, target |-> k]

\* Tables with a start and sizes in sectors, in bytes, and with families, ids and
\* names in between that a reader has to skip.
P(start, size, families, id, name) ==
    [start |-> start, size |-> size, families |-> families, id |-> id, name |-> name]
PlainTable == <<P(1, 1, <<"arm">>, FALSE, 0), P(-1, 2, <<>>, FALSE, 0)>>
BytesTable == <<P(8192, 4096, <<"data", "mine">>, TRUE, 1), P(-1, 4096, <<"arm">>, TRUE, 0)>>
FamilyTable == <<P(-1, 1, <<"arm", "mine">>, FALSE, 2), P(1, 1, <<"a", "b", "c">>, TRUE, 1),
                 P(3, 1, <<"data", "arm">>, FALSE, 0)>>
TwoFamilies == <<P(-1, 1, <<"arm", "a", "b">>, FALSE, 1), P(-1, 1, <<"data">>, FALSE, 0)>>
MCTables == {PlainTable, BytesTable, FamilyTable}
Accepting(t) == {k \in 0..(Len(t) - 1) : "arm" \in ToSet(t[k + 1].families)}

PartitionFiles ==
    {{In(0, t)} : t \in 1..5} \cup {{In(0, t), In(g, u)} : t \in 1..2, g \in 2..3, u \in 4..6}
    \cup {{In(1, 3)}, {R(SramStart, SramStart + 3)}}
Into(p, ignore, u) == [LoadFlags(FALSE, FALSE, u, FALSE, FALSE) EXCEPT !.partition = p, !.ignore_pt = ignore]
Partitioned ==
    {In1(Into(p, TRUE, FALSE), f, t, 255) :
        p \in 0..2, f \in {g \in PartitionFiles : find_binary_start(g) # 0}, t \in MCTables}
    \cup {In1(Into(-1, FALSE, TRUE), f, t, k) : f \in PartitionFiles, t \in {BytesTable}, k \in {1, 255, -1}}
    \cup {In1(Into(-1, FALSE, FALSE), f, FamilyTable, k) : f \in PartitionFiles, k \in {0, 2}}
    \cup {In1(Into(0, TRUE, FALSE), {In(0, 3)}, no_partition, 255)}
    \cup {In1([Into(-1, FALSE, u) EXCEPT !.offset = FlashStart + o], f, no_partition, 255) :
            u \in BOOLEAN, o \in {1, 4}, f \in {{In(0, t)} : t \in 1..5}}

OnRange(s, from, to) == [s EXCEPT !.range_set = TRUE, !.from = from, !.to = to]
Erase(p) == [LoadFlags(FALSE, FALSE, FALSE, FALSE, FALSE) EXCEPT !.command = "erase", !.partition = p]
Erasures ==
    {In1(OnRange(Erase(-1), a, b), {}, no_partition, 255) :
        a \in FlashStart..(FlashStart + 7), b \in FlashStart + 1..(FlashStart + 9)}
    \cup {In1(Erase(-1), {}, no_partition, 255),
          In1(OnRange(Erase(-1), SramStart, SramEnd), {}, no_partition, 255)}
    \cup {In1(Erase(p), {}, t, 255) : p \in 0..2, t \in MCTables \cup {no_partition}}
Verify1(o) == [LoadFlags(FALSE, FALSE, FALSE, FALSE, FALSE) EXCEPT !.command = "verify", !.offset = o]
Verifications ==
    {In1(s, f, no_partition, 255) :
        s \in {Verify1(0), OnRange(Verify1(FlashStart), FlashStart + 1, FlashStart + 4),
                OnRange(Verify1(0), FlashStart + 4, FlashStart + 1)},
        f \in {{In(0, 3), In(4, 6)}, {In(0, 2), R(FlashEndRP2350 - 1, FlashEndRP2350 + 2)}}}
Save(all, v) == [LoadFlags(FALSE, FALSE, FALSE, v, FALSE) EXCEPT !.command = "save", !.all = all]
Saves ==
    {In1(Save(all, v), {}, no_partition, 255) : all, v \in BOOLEAN}
    \cup {In1(OnRange(Save(FALSE, TRUE), a, b), {}, no_partition, 255) :
            a \in {FlashStart, FlashStart + 2, FlashStart + 3}, b \in {FlashStart + 2, FlashStart + 9, FlashEnd + 1}}
    \cup {In1(OnRange(Save(FALSE, FALSE), SramStart, SramEnd), {}, no_partition, 255)}

AllInputs ==
    {In1(s, f, no_partition, 255) : s \in AllOptions, f \in AllFiles}
    \cup Partitioned \cup Erasures \cup Saves \cup Verifications

\* For the runs that look for one thing only.
UnalignedInputs ==
    {In1(LoadFlags(FALSE, FALSE, FALSE, FALSE, FALSE), f, no_partition, 255) :
        f \in {{In(a, b)} : a \in 0..3, b \in 4..8}}
FamiliesInputs == {In1(Into(1, TRUE, FALSE), {In(0, 2)}, TwoFamilies, 255)}
=============================================================================
