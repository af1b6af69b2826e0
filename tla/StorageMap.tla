----------------------------- MODULE StorageMap -----------------------------
(***************************************************************************)
(* What struct range_map of main.cpp promises its users: a partial map     *)
(* from addresses to storage (a position in a file, or the address data is *)
(* copied from), in which a run of addresses leads to a run of storage.    *)
(***************************************************************************)
EXTENDS Integers

CONSTANTS
    Limit,              \* 2^32: addresses and offsets are below it
    Storage             \* where the data of a range may begin

VARIABLES
    where,              \* storage of every mapped address
    refused             \* the last operation threw

Addresses == 0..(Limit - 1)

\* A range [from, to), below the end of the address space; it may be empty.
Ranges == {r \in [from : Addresses, to : Addresses] : r.from <= r.to}
Cells(r) == r.from..(r.to - 1)

Assign(r, t) ==
    [a \in DOMAIN where \cup Cells(r) |->
        IF a \in Cells(r) THEN t + (a - r.from) ELSE where[a]]

Free(r) == Cells(r) \cap DOMAIN where = {}

\* Nothing that is mapped already may be mapped again.
Insert(r, t) ==
    \/ Free(r) /\ where' = Assign(r, t) /\ refused' = FALSE
    \/ ~Free(r) /\ where' = where /\ refused' = TRUE

\* The new range wins, and nothing else changes.
InsertOverwrite(r, t) == where' = Assign(r, t) /\ refused' = FALSE

\* Every address moves with its storage, modulo Limit.
Plus(a, o) == IF a + o < Limit THEN a + o ELSE a + o - Limit
Minus(a, o) == IF a < o THEN a - o + Limit ELSE a - o
OffsetBy(o) ==
    /\ where' = [a \in {Plus(b, o) : b \in DOMAIN where} |-> where[Minus(a, o)]]
    /\ refused' = FALSE

Init == where = [a \in {} |-> 0] /\ refused = FALSE

Next ==
    \/ \E r \in Ranges, t \in Storage : Insert(r, t) \/ InsertOverwrite(r, t)
    \/ \E o \in Addresses : OffsetBy(o)

Spec == Init /\ [][Next]_<<where, refused>>
=============================================================================
