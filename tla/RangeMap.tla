------------------------------ MODULE RangeMap ------------------------------
(***************************************************************************)
(* struct range_map of main.cpp: a std::map m from the start of a range to *)
(* its end and to the storage of its first address.  insert refuses a      *)
(* range that overlaps another, insert_overwrite cuts away what it         *)
(* overlaps; both look only at the entries upper_bound leads them to.      *)
(* Every file and every load map is read through such a map.               *)
(*                                                                         *)
(* A release build does not check that a range ends behind its start, so   *)
(* ranges never reach the end of the address space here: no device has     *)
(* memory there.                                                           *)
(***************************************************************************)
EXTENDS Integers

CONSTANTS
    Limit,              \* 2^32
    Storage             \* where the data of a range may begin

ASSUME RangeMapAssumption == Limit \in Nat \ {0} /\ Storage \subseteq Nat

VARIABLES
    m,                  \* m[from] = [to |-> ..., storage |-> ...]
    refused             \* the last operation threw failure_error
vars == <<m, refused>>

Addresses == 0..(Limit - 1)
Ranges == {r \in [from : Addresses, to : Addresses] : r.from <= r.to}
Cells(r) == r.from..(r.to - 1)

-----------------------------------------------------------------------------
\* The element before upper_bound(p), if there is one.
LastBefore(p) == {k \in DOMAIN m : k <= p /\ \A j \in DOMAIN m : j <= p => j <= k}

\* range::intersects: a range that ends where r begins counts as well.
Intersects(r, other) == ~(other.from >= r.to \/ other.to < r.from)

\* The entries the loops of insert and insert_overwrite look at.
Scanned_FromUpperBound(r) == {k \in DOMAIN m : k < r.to /\ r.from < k}
Scanned(r) == {k \in DOMAIN m : k < r.to /\ (r.from < k \/ k \in LastBefore(r.from))}
Hit(r) == {k \in Scanned(r) : Intersects([from |-> k, to |-> m[k].to], r)}

Entry(to, storage) == [to |-> to, storage |-> storage]

\* std::map::insert never replaces an element.
Insert(r, t) ==
    \/ /\ r.to = r.from
       /\ m' = m /\ refused' = FALSE
    \/ /\ r.to # r.from /\ Hit(r) = {}
       /\ m' = [k \in DOMAIN m \cup {r.from} |->
                  IF k \in DOMAIN m THEN m[k] ELSE Entry(r.to, t)]
       /\ refused' = FALSE
    \/ /\ r.to # r.from /\ Hit(r) # {}
       /\ m' = m /\ refused' = TRUE

\* What is left of the entries that are cut: a head that ends where r begins,
\* a tail that begins where r ends, that much further into its storage.
Heads(r) == {k \in Hit(r) : k < r.from}
Tails(r) == {k \in Hit(r) : m[k].to > r.to}
TailOf_SameStorage(k, r) == Entry(m[k].to, m[k].storage)
TailOf(k, r) == Entry(m[k].to, m[k].storage + (r.to - k))

\* The entries that are not hit stay, then heads and tails are added, then r.
Overwritten(r, t) ==
    LET kept == DOMAIN m \ Hit(r)
        tail == {r.to : k \in Tails(r)}
    IN  [k \in kept \cup Heads(r) \cup tail \cup {r.from} |->
            CASE k \in kept -> m[k]
              [] k \in Heads(r) -> Entry(r.from, m[k].storage)
              [] k \in tail \ kept -> TailOf(CHOOSE j \in Tails(r) : TRUE, r)
              [] OTHER -> Entry(r.to, t)]

InsertOverwrite(r, t) ==
    /\ IF r.to = r.from THEN m' = m ELSE m' = Overwritten(r, t)
    /\ refused' = FALSE

\* offset_by inserts every range again, moved modulo 2^32. An offset that would
\* put a range across the end of the address space is left out.
Plus(a, o) == IF a + o < Limit THEN a + o ELSE a + o - Limit
Fits(o) == \A k \in DOMAIN m : Plus(k, o) + (m[k].to - k) < Limit
Shifted(o) ==
    [k \in {Plus(j, o) : j \in DOMAIN m} |->
        LET j == CHOOSE i \in DOMAIN m : Plus(i, o) = k
        IN  Entry(Plus(m[j].to, o), m[j].storage)]
OffsetBy(o) ==
    /\ Fits(o)
    /\ m' = Shifted(o)
    /\ refused' = FALSE

-----------------------------------------------------------------------------
(* Looking an address up.                                                  *)

\* get: the last entry that starts at or before p, if p lies in it.
Found_AtStart(p) == {k \in LastBefore(p) : p = k}
Found(p) == {k \in LastBefore(p) : p < m[k].to}
Get(p, k) ==
    [offset |-> p - k, max_offset |-> m[k].to - k, storage |-> m[k].storage]

\* next: the start of the first entry behind p, or the largest uint32_t.
IsNext(n, p) ==
    \/ n \in DOMAIN m /\ p < n /\ \A j \in DOMAIN m : p < j => n <= j
    \/ n = Limit - 1 /\ \A j \in DOMAIN m : j <= p

-----------------------------------------------------------------------------
Init == m = [k \in {} |-> Entry(0, 0)] /\ refused = FALSE

Next ==
    \/ \E r \in Ranges, t \in Storage : Insert(r, t) \/ InsertOverwrite(r, t)
    \/ \E o \in Addresses : OffsetBy(o)

Spec == Init /\ [][Next]_vars

-----------------------------------------------------------------------------
(* Properties.                                                             *)

TypeOK ==
    /\ DOMAIN m \subseteq Addresses
    /\ m \in [DOMAIN m -> [to : Addresses, storage : Nat]]
    /\ refused \in BOOLEAN

\* "ranges should not overlap", and none is empty: the searches rely on it.
Separate(f) ==
    /\ \A k \in DOMAIN f : k < f[k].to
    /\ \A k, j \in DOMAIN f : k < j => f[k].to <= j
NoOverlap == Separate(m)

\* The addresses a map covers, and the storage of each.
In(f, k) == k..(f[k].to - 1)
Covered(f) == UNION {In(f, k) : k \in DOMAIN f}
Contents(f) ==
    [a \in Covered(f) |->
        LET k == CHOOSE i \in DOMAIN f : a \in In(f, i)
        IN  f[k].storage + (a - k)]

\* Whatever the ranges are and in whatever order they come, the map stands for
\* what was inserted: nothing refused that is free, nothing lost at the edges of
\* an overwritten range, nothing moved in its storage.
Abstract == INSTANCE StorageMap WITH where <- Contents(m)
ImplementsStorageMap == Abstract!Spec

\* get finds an address if and only if it is mapped, with its storage; when it
\* is not, nothing is mapped up to next, so that a read may fill the gap with zeros.
LookupFinds ==
    \A p \in Addresses :
        /\ p \in Covered(m) => Found(p) # {}
        /\ \A k \in Found(p) :
              /\ p \in Covered(m)
              /\ Get(p, k).storage + Get(p, k).offset = Contents(m)[p]
              /\ Get(p, k).offset < Get(p, k).max_offset
        /\ Found(p) = {} =>
              \A n \in Addresses : IsNext(n, p) => p..(n - 1) \cap Covered(m) = {}
=============================================================================
