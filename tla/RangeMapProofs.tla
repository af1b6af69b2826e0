--------------------------- MODULE RangeMapProofs ---------------------------
(***************************************************************************)
(* RangeMap for every Limit and Storage: its entries never overlap, what   *)
(* is looked up is what is mapped, and it implements StorageMap.           *)
(***************************************************************************)
EXTENDS RangeMap, TLAPS

IInv == TypeOK /\ NoOverlap

-----------------------------------------------------------------------------
(* Maps without overlaps.                                                  *)

\* The entry that covers an address is the only one, and gives its storage.
LEMMA ContentsAt ==
    ASSUME NEW f, Separate(f), DOMAIN f \subseteq Addresses,
           f \in [DOMAIN f -> [to : Addresses, storage : Nat]],
           NEW k \in DOMAIN f, NEW a \in In(f, k)
    PROVE  a \in Covered(f) /\ Contents(f)[a] = f[k].storage + (a - k)
<1>1. a \in Covered(f)
  BY DEF Covered
<1> DEFINE j == CHOOSE i \in DOMAIN f : a \in In(f, i)
<1>2. j \in DOMAIN f /\ a \in In(f, j)
  OBVIOUS
<1>3. j = k
  BY <1>2, RangeMapAssumption DEF Separate, In, Addresses
<1> QED BY <1>1, <1>3 DEF Contents

\* The loops of insert and insert_overwrite find every entry r overlaps.
LEMMA HitAll ==
    ASSUME IInv, NEW r \in Ranges, r.to # r.from
    PROVE  Hit(r) = {k \in DOMAIN m : k < r.to /\ r.from < m[k].to}
<1>1. r.from \in Addresses /\ r.to \in Addresses /\ r.from < r.to
  BY RangeMapAssumption DEF Ranges, Addresses
<1>2. \A k \in DOMAIN m : k \in Addresses /\ m[k].to \in Addresses
  BY DEF IInv, TypeOK
<1>3. \A k \in DOMAIN m : k <= r.from /\ r.from < m[k].to => k \in LastBefore(r.from)
  BY <1>1, <1>2, RangeMapAssumption DEF IInv, NoOverlap, Separate, LastBefore, Addresses
<1>4. \A k \in Hit(r) : k \in DOMAIN m /\ k < r.to /\ r.from < m[k].to
  BY <1>1, <1>2, RangeMapAssumption DEF Hit, Scanned, Intersects, Addresses
<1>5. \A k \in DOMAIN m : k < r.to /\ r.from < m[k].to => k \in Hit(r)
  BY <1>1, <1>2, <1>3, RangeMapAssumption DEF Hit, Scanned, Intersects, Addresses
<1> QED BY <1>4, <1>5

\* insert refuses a range if and only if an address of it is mapped.
LEMMA HitIsTaken ==
    ASSUME IInv, NEW r \in Ranges, r.to # r.from
    PROVE  Hit(r) = {} <=> Cells(r) \cap Covered(m) = {}
<1>1. r.from \in Addresses /\ r.to \in Addresses /\ r.from < r.to
  BY RangeMapAssumption DEF Ranges, Addresses
<1>2. \A k \in DOMAIN m : k \in Addresses /\ m[k].to \in Addresses /\ k < m[k].to
  BY DEF IInv, TypeOK, NoOverlap, Separate
<1>3. ASSUME NEW k \in DOMAIN m, k < r.to, r.from < m[k].to
      PROVE  \E a \in Cells(r) : a \in In(m, k)
  <2>1. CASE k <= r.from
    BY <1>1, <1>2, <1>3, <2>1, r.from \in Cells(r), r.from \in In(m, k)
       DEF Cells, In, Addresses
  <2>2. CASE r.from < k
    BY <1>1, <1>2, <1>3, <2>2, k \in Cells(r), k \in In(m, k) DEF Cells, In, Addresses
  <2> QED BY <1>1, <1>2, <2>1, <2>2 DEF Addresses
<1>4. ASSUME NEW a \in Cells(r), NEW k \in DOMAIN m, a \in In(m, k)
      PROVE  k < r.to /\ r.from < m[k].to
  BY <1>1, <1>2, <1>4 DEF Cells, In, Addresses
<1> QED BY <1>3, <1>4, HitAll DEF Covered

-----------------------------------------------------------------------------
(* insert.                                                                 *)

Inserted(r, t) ==
    [k \in DOMAIN m \cup {r.from} |-> IF k \in DOMAIN m THEN m[k] ELSE Entry(r.to, t)]

\* A range that overlaps nothing becomes an entry between the others.
LEMMA InsertedSeparate ==
    ASSUME IInv, NEW r \in Ranges, NEW t \in Storage, r.to # r.from, Hit(r) = {}
    PROVE  /\ Inserted(r, t) \in [DOMAIN Inserted(r, t) -> [to : Addresses, storage : Nat]]
           /\ DOMAIN Inserted(r, t) = DOMAIN m \cup {r.from}
           /\ r.from \notin DOMAIN m
           /\ DOMAIN Inserted(r, t) \subseteq Addresses
           /\ Separate(Inserted(r, t))
<1>1. r.from \in Addresses /\ r.to \in Addresses /\ r.from < r.to /\ t \in Nat
  BY RangeMapAssumption DEF Ranges, Addresses
<1>2. \A k \in DOMAIN m :
         k \in Addresses /\ m[k].to \in Addresses /\ m[k].storage \in Nat /\ k < m[k].to
  BY DEF IInv, TypeOK, NoOverlap, Separate
<1>3. \A k \in DOMAIN m : r.to <= k \/ m[k].to <= r.from
  BY <1>1, <1>2, HitAll, RangeMapAssumption DEF Addresses
<1>4. r.from \notin DOMAIN m
  BY <1>1, <1>2, <1>3, RangeMapAssumption DEF Addresses
<1>5. Inserted(r, t) \in [DOMAIN Inserted(r, t) -> [to : Addresses, storage : Nat]]
  BY <1>1, <1>2 DEF Inserted, Entry, IInv, TypeOK
<1>6. \A k \in DOMAIN m : Inserted(r, t)[k] = m[k]
  BY DEF Inserted
<1>7. Inserted(r, t)[r.from].to = r.to
  BY <1>4 DEF Inserted, Entry
<1>8. DOMAIN Inserted(r, t) = DOMAIN m \cup {r.from}
  BY DEF Inserted
<1>9. Separate(Inserted(r, t))
  BY <1>1, <1>2, <1>3, <1>6, <1>7, <1>8, RangeMapAssumption
     DEF Separate, IInv, NoOverlap, Addresses
<1> QED BY <1>1, <1>2, <1>4, <1>5, <1>8, <1>9

\* It covers what was covered and r, and leaves the storage of the others alone.
LEMMA InsertedContents ==
    ASSUME IInv, NEW r \in Ranges, NEW t \in Storage, r.to # r.from, Hit(r) = {}
    PROVE  Contents(Inserted(r, t)) = Abstract!Assign(r, t)
<1> DEFINE f == Inserted(r, t)
<1>1. /\ f \in [DOMAIN f -> [to : Addresses, storage : Nat]] /\ DOMAIN f \subseteq Addresses
      /\ Separate(f) /\ DOMAIN f = DOMAIN m \cup {r.from} /\ r.from \notin DOMAIN m
  BY InsertedSeparate
<1>2. /\ m \in [DOMAIN m -> [to : Addresses, storage : Nat]] /\ DOMAIN m \subseteq Addresses
      /\ Separate(m)
  BY DEF IInv, TypeOK, NoOverlap
<1>3. f[r.from] = Entry(r.to, t) /\ \A k \in DOMAIN m : f[k] = m[k]
  BY <1>1 DEF Inserted
<1>4. In(f, r.from) = Cells(r) /\ \A k \in DOMAIN m : In(f, k) = In(m, k)
  BY <1>3 DEF In, Cells, Entry
<1>5. Covered(f) = Covered(m) \cup Cells(r)
  BY <1>1, <1>4 DEF Covered
<1>6. ASSUME NEW a \in Cells(r)
      PROVE  Contents(f)[a] = t + (a - r.from)
  BY <1>1, <1>3, <1>4, <1>6, ContentsAt DEF Entry
<1>7. ASSUME NEW a \in Covered(m), a \notin Cells(r)
      PROVE  Contents(f)[a] = Contents(m)[a]
  <2>1. PICK k \in DOMAIN m : a \in In(m, k)
    BY DEF Covered
  <2>2. Contents(m)[a] = m[k].storage + (a - k)
    BY <1>2, <2>1, ContentsAt
  <2>3. Contents(f)[a] = f[k].storage + (a - k)
    BY <1>1, <1>4, <2>1, ContentsAt
  <2> QED BY <1>3, <2>2, <2>3
<1>8. Contents(f) = [a \in Covered(f) |-> Contents(f)[a]]
  BY DEF Contents
<1>9. DOMAIN Contents(m) = Covered(m)
  BY DEF Contents
<1> HIDE DEF f
<1>10. Contents(f) = [a \in Covered(m) \cup Cells(r) |->
                        IF a \in Cells(r) THEN t + (a - r.from) ELSE Contents(m)[a]]
  BY <1>5, <1>6, <1>7, <1>8
<1>11. Abstract!Cells(r) = Cells(r)
  BY DEF Cells, Abstract!Cells
<1> QED BY <1>9, <1>10, <1>11 DEF Abstract!Assign, f

-----------------------------------------------------------------------------
(* insert_overwrite.                                                       *)

Kept(r) == {k \in DOMAIN m : r.to <= k \/ m[k].to <= r.from}

\* What Overwritten is made of: the entries beside r, the heads, at most one
\* tail, and r.
LEMMA OverwrittenParts ==
    ASSUME IInv, NEW r \in Ranges, NEW t \in Storage, r.to # r.from,
           NEW f, f = Overwritten(r, t)
    PROVE  /\ DOMAIN f = Kept(r) \cup Heads(r) \cup {r.to : k \in Tails(r)} \cup {r.from}
           /\ Heads(r) = {k \in DOMAIN m : k < r.from /\ r.from < m[k].to}
           /\ Tails(r) = {k \in DOMAIN m : k < r.to /\ r.to < m[k].to}
           /\ \A k \in Kept(r) : f[k] = m[k]
           /\ \A k \in Heads(r) : f[k] = Entry(r.from, m[k].storage)
           /\ \A k \in Tails(r) : f[r.to] = Entry(m[k].to, m[k].storage + (r.to - k))
           /\ f[r.from] = Entry(r.to, t)
<1>1. r.from \in Addresses /\ r.to \in Addresses /\ r.from < r.to /\ t \in Nat
  BY RangeMapAssumption DEF Ranges, Addresses
<1>2. \A k \in DOMAIN m :
         k \in Addresses /\ m[k].to \in Addresses /\ m[k].storage \in Nat /\ k < m[k].to
  BY DEF IInv, TypeOK, NoOverlap, Separate
<1>3. Hit(r) = {k \in DOMAIN m : k < r.to /\ r.from < m[k].to}
  BY HitAll
<1>4. DOMAIN m \ Hit(r) = Kept(r)
  BY <1>1, <1>2, <1>3, RangeMapAssumption DEF Kept, Addresses
<1>5. Heads(r) = {k \in DOMAIN m : k < r.from /\ r.from < m[k].to}
  BY <1>1, <1>2, <1>3, RangeMapAssumption DEF Heads, Addresses
<1>6. Tails(r) = {k \in DOMAIN m : k < r.to /\ r.to < m[k].to}
  BY <1>1, <1>2, <1>3, RangeMapAssumption DEF Tails, Addresses
<1>7. r.from \notin Kept(r) /\ r.from \notin Heads(r)
  BY <1>1, <1>2, <1>5, RangeMapAssumption DEF Kept, Addresses
<1>8. Heads(r) \cap Kept(r) = {}
  BY <1>1, <1>2, <1>5, RangeMapAssumption DEF Kept, Addresses
<1>9. \A k \in Tails(r) : r.to \notin Kept(r)
  BY <1>1, <1>2, <1>6, RangeMapAssumption DEF Kept, Addresses, IInv, NoOverlap, Separate
<1>10. r.to \notin Heads(r) /\ r.to # r.from
  BY <1>1, <1>2, <1>5, RangeMapAssumption DEF Addresses
<1>11. \A k, j \in Tails(r) : k = j
  BY <1>1, <1>2, <1>6, RangeMapAssumption DEF Addresses, IInv, NoOverlap, Separate
<1>12. f = [k \in Kept(r) \cup Heads(r) \cup {r.to : j \in Tails(r)} \cup {r.from} |->
              CASE k \in Kept(r) -> m[k]
                [] k \in Heads(r) -> Entry(r.from, m[k].storage)
                [] k \in {r.to : j \in Tails(r)} \ Kept(r) ->
                      TailOf(CHOOSE j \in Tails(r) : TRUE, r)
                [] OTHER -> Entry(r.to, t)]
  BY <1>4 DEF Overwritten
<1>13. DOMAIN f = Kept(r) \cup Heads(r) \cup {r.to : k \in Tails(r)} \cup {r.from}
  BY <1>12
<1>14. \A k \in Kept(r) : f[k] = m[k]
  BY <1>8, <1>9, <1>12
<1>15. \A k \in Heads(r) : f[k] = Entry(r.from, m[k].storage)
  BY <1>8, <1>10, <1>12
<1>16. ASSUME NEW k \in Tails(r)
       PROVE  f[r.to] = Entry(m[k].to, m[k].storage + (r.to - k))
  <2>1. (CHOOSE j \in Tails(r) : TRUE) = k
    BY <1>11
  <2>2. f[r.to] = TailOf(k, r)
    BY <1>9, <1>10, <1>12, <2>1
  <2> QED BY <2>2 DEF TailOf
<1>17. f[r.from] = Entry(r.to, t)
  BY <1>7, <1>10, <1>12
<1> QED BY <1>5, <1>6, <1>13, <1>14, <1>15, <1>16, <1>17

\* The parts do not overlap.
LEMMA OverwrittenSeparate ==
    ASSUME IInv, NEW r \in Ranges, NEW t \in Storage, r.to # r.from,
           NEW f, f = Overwritten(r, t)
    PROVE  /\ f \in [DOMAIN f -> [to : Addresses, storage : Nat]]
           /\ DOMAIN f \subseteq Addresses
           /\ Separate(f)
<1>1. r.from \in Addresses /\ r.to \in Addresses /\ r.from < r.to /\ t \in Nat
  BY RangeMapAssumption DEF Ranges, Addresses
<1>2. \A k \in DOMAIN m :
         k \in Addresses /\ m[k].to \in Addresses /\ m[k].storage \in Nat /\ k < m[k].to
  BY DEF IInv, TypeOK, NoOverlap, Separate
<1>3. \A k, j \in DOMAIN m : k < j => m[k].to <= j
  BY DEF IInv, NoOverlap, Separate
<1>4. /\ DOMAIN f = Kept(r) \cup Heads(r) \cup {r.to : k \in Tails(r)} \cup {r.from}
      /\ Heads(r) = {k \in DOMAIN m : k < r.from /\ r.from < m[k].to}
      /\ Tails(r) = {k \in DOMAIN m : k < r.to /\ r.to < m[k].to}
      /\ \A k \in Kept(r) : f[k] = m[k]
      /\ \A k \in Heads(r) : f[k] = Entry(r.from, m[k].storage)
      /\ \A k \in Tails(r) : f[r.to] = Entry(m[k].to, m[k].storage + (r.to - k))
      /\ f[r.from] = Entry(r.to, t)
  BY OverwrittenParts
\* In terms of m: which entry of m an entry of f comes from.
<1>5. ASSUME NEW k \in Heads(r)
      PROVE  f[k].to = r.from /\ f[k].storage = m[k].storage
  <2>1. f[k] = Entry(r.from, m[k].storage)
    BY <1>4
  <2> QED BY <2>1 DEF Entry
<1>6. ASSUME NEW k \in Tails(r)
      PROVE  f[r.to].to = m[k].to /\ f[r.to].storage = m[k].storage + (r.to - k)
  <2>1. f[r.to] = Entry(m[k].to, m[k].storage + (r.to - k))
    BY <1>4
  <2> QED BY <2>1 DEF Entry
<1>7. f[r.from].to = r.to /\ f[r.from].storage = t
  BY <1>4 DEF Entry
<1>8. \A k \in DOMAIN f : k \in Addresses /\ f[k] \in [to : Addresses, storage : Nat]
  <2>1. \A k \in Kept(r) : k \in Addresses /\ f[k] \in [to : Addresses, storage : Nat]
    BY <1>4 DEF Kept, IInv, TypeOK
  <2>2. ASSUME NEW k \in Heads(r)
        PROVE  k \in Addresses /\ f[k] \in [to : Addresses, storage : Nat]
    <3>1. f[k] = Entry(r.from, m[k].storage) /\ k \in DOMAIN m
      BY <1>4
    <3> QED BY <1>1, <1>2, <3>1 DEF Entry
  <2>3. ASSUME NEW k \in Tails(r)
        PROVE  f[r.to] \in [to : Addresses, storage : Nat]
    <3>1. f[r.to] = Entry(m[k].to, m[k].storage + (r.to - k)) /\ k \in DOMAIN m /\ k < r.to
      BY <1>4
    <3>2. m[k].storage + (r.to - k) \in Nat
      BY <1>1, <1>2, <3>1, RangeMapAssumption DEF Addresses
    <3> QED BY <1>2, <3>1, <3>2 DEF Entry
  <2>4. f[r.from] \in [to : Addresses, storage : Nat]
    BY <1>1, <1>4 DEF Entry
  <2> QED BY <1>1, <1>4, <2>1, <2>2, <2>3, <2>4
<1>9. ASSUME NEW k \in DOMAIN f
      PROVE  k < f[k].to
  BY <1>1, <1>2, <1>4, <1>5, <1>6, <1>7, RangeMapAssumption DEF Kept, Addresses
<1>10. ASSUME NEW k \in DOMAIN f, NEW j \in DOMAIN f, k < j
       PROVE  f[k].to <= j
  <2>1. CASE k \in Kept(r)
    BY <1>1, <1>2, <1>3, <1>4, <1>10, <2>1, RangeMapAssumption DEF Kept, Addresses
  <2>2. CASE k \in Heads(r)
    BY <1>1, <1>2, <1>3, <1>4, <1>5, <1>10, <2>2, RangeMapAssumption DEF Kept, Addresses
  <2>3. CASE k = r.to /\ Tails(r) # {}
    BY <1>1, <1>2, <1>3, <1>4, <1>6, <1>10, <2>3, RangeMapAssumption DEF Kept, Addresses
  <2>4. CASE k = r.from
    BY <1>1, <1>2, <1>3, <1>4, <1>7, <1>10, <2>4, RangeMapAssumption DEF Kept, Addresses
  <2> QED BY <1>4, <2>1, <2>2, <2>3, <2>4
<1>11. f = [k \in DOMAIN f |-> f[k]]
  BY DEF Overwritten
<1> QED BY <1>8, <1>9, <1>10, <1>11 DEF Separate

\* r covers its addresses with its own storage; every other address that was
\* covered still is, from where it was.
LEMMA OverwrittenContents ==
    ASSUME IInv, NEW r \in Ranges, NEW t \in Storage, r.to # r.from
    PROVE  Contents(Overwritten(r, t)) = Abstract!Assign(r, t)
<1> DEFINE f == Overwritten(r, t)
<1>1. r.from \in Addresses /\ r.to \in Addresses /\ r.from < r.to /\ t \in Nat
  BY RangeMapAssumption DEF Ranges, Addresses
<1>2. /\ m \in [DOMAIN m -> [to : Addresses, storage : Nat]] /\ DOMAIN m \subseteq Addresses
      /\ Separate(m)
  BY DEF IInv, TypeOK, NoOverlap
<1>3. \A k \in DOMAIN m :
         k \in Addresses /\ m[k].to \in Addresses /\ m[k].storage \in Nat /\ k < m[k].to
  BY <1>2 DEF Separate
<1>4. /\ DOMAIN f = Kept(r) \cup Heads(r) \cup {r.to : k \in Tails(r)} \cup {r.from}
      /\ Heads(r) = {k \in DOMAIN m : k < r.from /\ r.from < m[k].to}
      /\ Tails(r) = {k \in DOMAIN m : k < r.to /\ r.to < m[k].to}
      /\ \A k \in Kept(r) : f[k] = m[k]
      /\ \A k \in Heads(r) : f[k] = Entry(r.from, m[k].storage)
      /\ \A k \in Tails(r) : f[r.to] = Entry(m[k].to, m[k].storage + (r.to - k))
      /\ f[r.from] = Entry(r.to, t)
  BY OverwrittenParts
<1>5. /\ f \in [DOMAIN f -> [to : Addresses, storage : Nat]] /\ DOMAIN f \subseteq Addresses
      /\ Separate(f)
  BY OverwrittenSeparate
<1> HIDE DEF f
<1>6. ASSUME NEW k \in Kept(r)
      PROVE  k \in DOMAIN m /\ In(f, k) = In(m, k) /\ f[k].storage = m[k].storage
             /\ \A a \in In(m, k) : a \notin Cells(r)
  <2>1. f[k] = m[k] /\ k \in DOMAIN m /\ (r.to <= k \/ m[k].to <= r.from)
    BY <1>4 DEF Kept
  <2> QED BY <1>1, <1>3, <2>1 DEF In, Cells, Addresses
<1>7. ASSUME NEW k \in Heads(r)
      PROVE  /\ k \in DOMAIN m /\ f[k].storage = m[k].storage /\ In(f, k) = k..(r.from - 1)
             /\ k < r.from /\ r.from < m[k].to
  <2>1. f[k] = Entry(r.from, m[k].storage)
    BY <1>4
  <2> QED BY <1>4, <2>1 DEF Entry, In
<1>8. ASSUME NEW k \in Tails(r)
      PROVE  /\ k \in DOMAIN m /\ f[r.to].storage = m[k].storage + (r.to - k)
             /\ In(f, r.to) = r.to..(m[k].to - 1) /\ k < r.to /\ r.to < m[k].to
  <2>1. f[r.to] = Entry(m[k].to, m[k].storage + (r.to - k))
    BY <1>4
  <2> QED BY <1>4, <2>1 DEF Entry, In
<1>9. In(f, r.from) = Cells(r) /\ f[r.from].storage = t
  BY <1>4 DEF Entry, In, Cells
\* The three groups of entries of m, as seen from an address outside r.
<1>10. ASSUME NEW k \in DOMAIN m, NEW a \in In(m, k), a \notin Cells(r)
       PROVE  \/ k \in Kept(r)
              \/ k \in Heads(r) /\ a \in k..(r.from - 1)
              \/ k \in Tails(r) /\ a \in r.to..(m[k].to - 1)
  BY <1>1, <1>3, <1>4, <1>10 DEF Kept, In, Cells, Addresses
<1>11. ASSUME NEW a \in Cells(r)
       PROVE  a \in Covered(f) /\ Contents(f)[a] = t + (a - r.from)
  BY <1>4, <1>5, <1>9, <1>11, ContentsAt
<1>12. ASSUME NEW a \in Covered(m), a \notin Cells(r)
       PROVE  a \in Covered(f) /\ Contents(f)[a] = Contents(m)[a]
  <2>1. PICK k \in DOMAIN m : a \in In(m, k)
    BY DEF Covered
  <2>2. Contents(m)[a] = m[k].storage + (a - k)
    BY <1>2, <2>1, ContentsAt
  <2>3. CASE k \in Kept(r)
    <3>1. a \in In(f, k) /\ k \in DOMAIN f
      BY <1>4, <1>6, <2>1, <2>3
    <3>2. a \in Covered(f) /\ Contents(f)[a] = f[k].storage + (a - k)
      BY <1>5, <3>1, ContentsAt
    <3> QED BY <1>6, <2>2, <2>3, <3>2
  <2>4. CASE k \in Heads(r) /\ a \in k..(r.from - 1)
    <3>1. a \in In(f, k) /\ k \in DOMAIN f
      BY <1>4, <1>7, <2>4
    <3>2. a \in Covered(f) /\ Contents(f)[a] = f[k].storage + (a - k)
      BY <1>5, <3>1, ContentsAt
    <3> QED BY <1>7, <2>2, <2>4, <3>2
  <2>5. CASE k \in Tails(r) /\ a \in r.to..(m[k].to - 1)
    <3>1. a \in In(f, r.to) /\ r.to \in DOMAIN f
      BY <1>4, <1>8, <2>5
    <3>2. a \in Covered(f) /\ Contents(f)[a] = f[r.to].storage + (a - r.to)
      BY <1>5, <3>1, ContentsAt
    <3>3. f[r.to].storage = m[k].storage + (r.to - k)
      BY <1>8, <2>5
    <3> QED BY <1>1, <1>3, <2>1, <2>2, <3>2, <3>3 DEF In, Addresses
  <2> QED BY <1>10, <1>12, <2>1, <2>3, <2>4, <2>5
<1>13. ASSUME NEW a \in Covered(f), a \notin Cells(r)
       PROVE  a \in Covered(m)
  <2>1. PICK k \in DOMAIN f : a \in In(f, k)
    BY DEF Covered
  <2>2. CASE k \in Kept(r)
    BY <1>6, <2>1, <2>2 DEF Covered
  <2>3. CASE k \in Heads(r)
    <3>1. a \in k..(r.from - 1) /\ k \in DOMAIN m /\ r.from < m[k].to
      BY <1>7, <2>1, <2>3
    <3>2. a \in In(m, k)
      BY <1>1, <1>3, <3>1, RangeMapAssumption DEF In, Addresses
    <3> QED BY <3>1, <3>2 DEF Covered
  <2>4. ASSUME NEW j \in Tails(r), k = r.to
        PROVE  a \in Covered(m)
    <3>1. a \in r.to..(m[j].to - 1) /\ j \in DOMAIN m /\ j < r.to
      BY <1>8, <2>1, <2>4
    <3>2. a \in In(m, j)
      BY <1>1, <1>3, <3>1, RangeMapAssumption DEF In, Addresses
    <3> QED BY <3>1, <3>2 DEF Covered
  <2>5. k # r.from
    BY <1>9, <1>13, <2>1
  <2> QED BY <1>4, <2>1, <2>2, <2>3, <2>4, <2>5
<1>14. Covered(f) = Covered(m) \cup Cells(r)
  BY <1>11, <1>12, <1>13
<1>15. Contents(f) = [a \in Covered(f) |-> Contents(f)[a]] /\ DOMAIN Contents(m) = Covered(m)
  BY DEF Contents
<1>16. Contents(f) = [a \in Covered(m) \cup Cells(r) |->
                        IF a \in Cells(r) THEN t + (a - r.from) ELSE Contents(m)[a]]
  BY <1>11, <1>12, <1>14, <1>15
<1>17. Abstract!Cells(r) = Cells(r)
  BY DEF Cells, Abstract!Cells
<1> QED BY <1>15, <1>16, <1>17 DEF Abstract!Assign, f

-----------------------------------------------------------------------------
(* offset_by.                                                              *)

\* Two addresses never meet when they are moved by the same offset.
LEMMA PlusInjective ==
    \A a, b, o \in Addresses :
        /\ Plus(a, o) \in Addresses
        /\ Plus(a, o) = Plus(b, o) => a = b
  BY RangeMapAssumption DEF Plus, Addresses

\* The entries after the move, each with the one it comes from.
LEMMA ShiftedParts ==
    ASSUME IInv, NEW o \in Addresses, Fits(o), NEW f, f = Shifted(o)
    PROVE  /\ DOMAIN f = {Plus(k, o) : k \in DOMAIN m}
           /\ \A k \in DOMAIN m :
                 /\ f[Plus(k, o)].to = Plus(k, o) + (m[k].to - k)
                 /\ f[Plus(k, o)].storage = m[k].storage
                 /\ f[Plus(k, o)] \in [to : Addresses, storage : Nat]
<1>1. \A k \in DOMAIN m :
         k \in Addresses /\ m[k].to \in Addresses /\ m[k].storage \in Nat /\ k < m[k].to
  BY DEF IInv, TypeOK, NoOverlap, Separate
<1>2. DOMAIN f = {Plus(k, o) : k \in DOMAIN m}
  BY DEF Shifted
<1>3. ASSUME NEW k \in DOMAIN m
      PROVE  /\ f[Plus(k, o)].to = Plus(k, o) + (m[k].to - k)
             /\ f[Plus(k, o)].storage = m[k].storage
             /\ f[Plus(k, o)] \in [to : Addresses, storage : Nat]
  <2>1. (CHOOSE i \in DOMAIN m : Plus(i, o) = Plus(k, o)) = k
    BY <1>1, PlusInjective
  <2>2. f[Plus(k, o)] = Entry(Plus(m[k].to, o), m[k].storage)
    BY <2>1 DEF Shifted
  <2>3. Plus(m[k].to, o) = Plus(k, o) + (m[k].to - k)
    BY <1>1, RangeMapAssumption DEF Fits, Plus, Addresses
  <2>4. Plus(m[k].to, o) \in Addresses
    BY <1>1, PlusInjective
  <2> QED BY <1>1, <2>2, <2>3, <2>4 DEF Entry
<1> QED BY <1>2, <1>3

\* Ranges that did not overlap do not after the move either.
LEMMA ShiftedSeparate ==
    ASSUME IInv, NEW o \in Addresses, Fits(o), NEW f, f = Shifted(o)
    PROVE  /\ f \in [DOMAIN f -> [to : Addresses, storage : Nat]]
           /\ DOMAIN f \subseteq Addresses
           /\ Separate(f)
<1>1. \A k \in DOMAIN m : k \in Addresses /\ m[k].to \in Addresses /\ k < m[k].to
  BY DEF IInv, TypeOK, NoOverlap, Separate
<1>2. DOMAIN f = {Plus(k, o) : k \in DOMAIN m}
  BY ShiftedParts
<1>3. \A k \in DOMAIN m : f[Plus(k, o)].to = Plus(k, o) + (m[k].to - k)
  BY ShiftedParts
<1>4. DOMAIN f \subseteq Addresses
  BY <1>1, <1>2, PlusInjective
<1>5. f = [k \in DOMAIN f |-> f[k]]
  BY DEF Shifted
<1>6. ASSUME NEW k \in DOMAIN m
      PROVE  f[Plus(k, o)] \in [to : Addresses, storage : Nat]
  BY ShiftedParts
<1>7. ASSUME NEW k \in DOMAIN m
      PROVE  Plus(k, o) < f[Plus(k, o)].to
  BY <1>1, <1>3, RangeMapAssumption DEF Plus, Addresses
<1>8. ASSUME NEW k \in DOMAIN m, NEW j \in DOMAIN m, Plus(k, o) < Plus(j, o)
      PROVE  f[Plus(k, o)].to <= Plus(j, o)
  <2>1. Plus(k, o) + (m[k].to - k) < Limit /\ Plus(j, o) + (m[j].to - j) < Limit
    BY DEF Fits
  <2>2. (k < j => m[k].to <= j) /\ (j < k => m[j].to <= k)
    BY DEF IInv, NoOverlap, Separate
  <2>3. f[Plus(k, o)].to = Plus(k, o) + (m[k].to - k)
    BY <1>3
  <2> QED BY <1>1, <1>8, <2>1, <2>2, <2>3, RangeMapAssumption DEF Plus, Addresses
<1>9. Separate(f)
  BY <1>2, <1>7, <1>8 DEF Separate
<1>10. \A k \in DOMAIN f : f[k] \in [to : Addresses, storage : Nat]
  BY <1>2, <1>6
<1> QED BY <1>4, <1>5, <1>9, <1>10

\* Every address keeps its storage.
LEMMA ShiftedContents ==
    ASSUME IInv, NEW o \in Addresses, Fits(o)
    PROVE  Contents(Shifted(o)) =
             [a \in {Abstract!Plus(b, o) : b \in DOMAIN Contents(m)} |->
                Contents(m)[Abstract!Minus(a, o)]]
<1> DEFINE f == Shifted(o)
<1>1. \A k \in DOMAIN m : k \in Addresses /\ m[k].to \in Addresses /\ k < m[k].to
  BY DEF IInv, TypeOK, NoOverlap, Separate
<1>2. /\ m \in [DOMAIN m -> [to : Addresses, storage : Nat]] /\ DOMAIN m \subseteq Addresses
      /\ Separate(m)
  BY DEF IInv, TypeOK, NoOverlap
<1>3. DOMAIN f = {Plus(k, o) : k \in DOMAIN m}
  BY ShiftedParts
<1>4. /\ f \in [DOMAIN f -> [to : Addresses, storage : Nat]] /\ DOMAIN f \subseteq Addresses
      /\ Separate(f)
  BY ShiftedSeparate
<1>5. ASSUME NEW k \in DOMAIN m
      PROVE  f[Plus(k, o)].to = Plus(k, o) + (m[k].to - k) /\ f[Plus(k, o)].storage = m[k].storage
  <2>1. \A j \in DOMAIN m :
           /\ f[Plus(j, o)].to = Plus(j, o) + (m[j].to - j)
           /\ f[Plus(j, o)].storage = m[j].storage
           /\ f[Plus(j, o)] \in [to : Addresses, storage : Nat]
    BY ShiftedParts
  <2> QED BY <2>1
<1>6. \A k \in DOMAIN m : Plus(k, o) + (m[k].to - k) < Limit
  BY DEF Fits
<1> HIDE DEF f
<1>7. Covered(m) \subseteq Addresses /\ Covered(f) \subseteq Addresses
  BY <1>2, <1>4, RangeMapAssumption DEF Covered, In, Addresses
<1>8. ASSUME NEW k \in DOMAIN m, NEW b \in In(m, k)
      PROVE  /\ Plus(b, o) \in In(f, Plus(k, o))
             /\ Plus(b, o) - Plus(k, o) = b - k
  <2>1. b \in k..(m[k].to - 1)
    BY DEF In
  <2>2. Plus(b, o) = Plus(k, o) + (b - k)
    BY <1>1, <1>6, <2>1, RangeMapAssumption DEF Plus, Addresses
  <2>3. Plus(k, o) \in Addresses
    BY <1>1, PlusInjective
  <2>4. f[Plus(k, o)].to = Plus(k, o) + (m[k].to - k)
    BY <1>5
  <2> QED BY <1>1, <2>1, <2>2, <2>3, <2>4 DEF In, Addresses
<1>9. ASSUME NEW b \in Covered(m)
      PROVE  Plus(b, o) \in Covered(f) /\ Contents(f)[Plus(b, o)] = Contents(m)[b]
  <2>1. PICK k \in DOMAIN m : b \in In(m, k)
    BY DEF Covered
  <2>2. Plus(b, o) \in In(f, Plus(k, o)) /\ Plus(b, o) - Plus(k, o) = b - k
    BY <1>8, <2>1
  <2>3. Plus(k, o) \in DOMAIN f
    BY <1>3
  <2>4. /\ Plus(b, o) \in Covered(f)
        /\ Contents(f)[Plus(b, o)] = f[Plus(k, o)].storage + (Plus(b, o) - Plus(k, o))
    BY <1>4, <2>2, <2>3, ContentsAt
  <2>5. Contents(m)[b] = m[k].storage + (b - k)
    BY <1>2, <2>1, ContentsAt
  <2> QED BY <1>5, <2>2, <2>4, <2>5
<1>10. ASSUME NEW a \in Covered(f)
       PROVE  \E b \in Covered(m) : a = Plus(b, o)
  <2>1. PICK k \in DOMAIN m : a \in In(f, Plus(k, o))
    BY <1>3 DEF Covered
  <2>2. a \in Plus(k, o)..(Plus(k, o) + (m[k].to - k) - 1)
    <3>1. f[Plus(k, o)].to = Plus(k, o) + (m[k].to - k)
      BY <1>5
    <3>2. Plus(k, o) \in Addresses
      BY <1>1, PlusInjective
    <3> QED BY <1>1, <2>1, <3>1, <3>2 DEF In, Addresses
  <2>3. Plus(k, o) \in Addresses
    BY <1>1, PlusInjective
  <2> DEFINE b == k + (a - Plus(k, o))
  <2>4. b \in In(m, k)
    BY <1>1, <2>2, <2>3 DEF In, Addresses
  <2>5. Plus(b, o) - Plus(k, o) = b - k
    BY <1>8, <2>4
  <2>6. Plus(b, o) \in Addresses
    BY <1>7, <2>4, PlusInjective DEF Covered
  <2>7. a = Plus(b, o)
    BY <1>1, <2>2, <2>3, <2>5, <2>6 DEF Addresses
  <2> QED BY <2>4, <2>7 DEF Covered
<1>11. \A b \in Addresses : Abstract!Plus(b, o) = Plus(b, o) /\ Abstract!Minus(Plus(b, o), o) = b
  BY RangeMapAssumption DEF Abstract!Plus, Abstract!Minus, Plus, Addresses
<1>12. DOMAIN Contents(m) = Covered(m) /\ Contents(f) = [a \in Covered(f) |-> Contents(f)[a]]
  BY DEF Contents
<1>13. Covered(f) = {Abstract!Plus(b, o) : b \in DOMAIN Contents(m)}
  BY <1>7, <1>9, <1>10, <1>11, <1>12
<1>14. ASSUME NEW a \in Covered(f)
       PROVE  Contents(f)[a] = Contents(m)[Abstract!Minus(a, o)]
  BY <1>7, <1>9, <1>10, <1>11
<1>15. Contents(f) = [a \in {Abstract!Plus(b, o) : b \in DOMAIN Contents(m)} |->
                        Contents(m)[Abstract!Minus(a, o)]]
  BY <1>12, <1>13, <1>14
<1> QED BY <1>15 DEF f

-----------------------------------------------------------------------------
(* The theorems.                                                           *)

\* The empty map is separate.
LEMMA InitIInv == Init => IInv
  BY DEF Init, IInv, TypeOK, NoOverlap, Separate, Entry

\* A refused range changes nothing, an accepted one is separate from the others.
LEMMA InsertPreserves ==
    ASSUME IInv, NEW r \in Ranges, NEW t \in Storage, Insert(r, t)
    PROVE  IInv'
<1>1. CASE m' = m /\ refused' \in BOOLEAN
  BY <1>1 DEF IInv, TypeOK, NoOverlap, Separate
<1>2. CASE r.to # r.from /\ Hit(r) = {} /\ m' = Inserted(r, t) /\ refused' = FALSE
  BY <1>2, InsertedSeparate DEF IInv, TypeOK, NoOverlap, Separate
<1> QED BY <1>1, <1>2 DEF Insert, Inserted

\* Cutting the entries around r leaves separate entries.
LEMMA InsertOverwritePreserves ==
    ASSUME IInv, NEW r \in Ranges, NEW t \in Storage, InsertOverwrite(r, t)
    PROVE  IInv'
<1>1. CASE m' = m /\ refused' = FALSE
  BY <1>1 DEF IInv, TypeOK, NoOverlap, Separate
<1>2. CASE r.to # r.from /\ m' = Overwritten(r, t) /\ refused' = FALSE
  BY <1>2, OverwrittenSeparate DEF IInv, TypeOK, NoOverlap, Separate
<1> QED BY <1>1, <1>2 DEF InsertOverwrite

\* Moving all entries alike keeps them apart.
LEMMA OffsetByPreserves ==
    ASSUME IInv, NEW o \in Addresses, OffsetBy(o)
    PROVE  IInv'
  BY ShiftedSeparate DEF OffsetBy, IInv, TypeOK, NoOverlap, Separate

\* The entries of the map are well typed and separate, whatever is inserted.
THEOREM InvariantHolds == Spec => []IInv
<1>1. IInv /\ [Next]_vars => IInv'
  <2> SUFFICES ASSUME IInv, [Next]_vars
               PROVE  IInv'
    OBVIOUS
  <2>1. CASE \E r \in Ranges, t \in Storage : Insert(r, t)
    BY <2>1, InsertPreserves
  <2>2. CASE \E r \in Ranges, t \in Storage : InsertOverwrite(r, t)
    BY <2>2, InsertOverwritePreserves
  <2>3. CASE \E o \in Addresses : OffsetBy(o)
    BY <2>3, OffsetByPreserves
  <2>4. CASE UNCHANGED vars
    BY <2>4 DEF vars, IInv, TypeOK, NoOverlap, Separate
  <2> QED BY <2>1, <2>2, <2>3, <2>4 DEF Next
<1> QED BY <1>1, InitIInv, PTL DEF Spec

\* Starts, ends and storage keep their types: a tail never begins before the
\* storage of the entry it is cut from.
THEOREM TypeCorrect == Spec => []TypeOK
<1>1. IInv => TypeOK
  BY DEF IInv
<1> QED BY <1>1, InvariantHolds, PTL

\* "ranges should not overlap": they never do, so the searches by upper_bound
\* that insert, insert_overwrite and get make are right.
THEOREM RangesNeverOverlap == Spec => []NoOverlap
<1>1. IInv => NoOverlap
  BY DEF IInv
<1> QED BY <1>1, InvariantHolds, PTL

\* get and next tell the truth about every address.
LEMMA LookupIsRight == IInv => LookupFinds
<1> SUFFICES ASSUME IInv, NEW p \in Addresses
             PROVE  /\ p \in Covered(m) => Found(p) # {}
                    /\ \A k \in Found(p) :
                          /\ p \in Covered(m)
                          /\ Get(p, k).storage + Get(p, k).offset = Contents(m)[p]
                          /\ Get(p, k).offset < Get(p, k).max_offset
                    /\ Found(p) = {} =>
                          \A n \in Addresses : IsNext(n, p) => p..(n - 1) \cap Covered(m) = {}
  BY DEF LookupFinds
<1>1. \A k \in DOMAIN m :
         k \in Addresses /\ m[k].to \in Addresses /\ m[k].storage \in Nat /\ k < m[k].to
  BY DEF IInv, TypeOK, NoOverlap, Separate
<1>2. \A k, j \in DOMAIN m : k < j => m[k].to <= j
  BY DEF IInv, NoOverlap, Separate
<1>3. ASSUME NEW k \in DOMAIN m, p \in In(m, k)
      PROVE  k \in Found(p)
  <2>1. k <= p /\ p < m[k].to
    BY <1>1, <1>3, RangeMapAssumption DEF In, Addresses
  <2>2. \A j \in DOMAIN m : j <= p => j <= k
    BY <1>1, <1>2, <2>1, RangeMapAssumption DEF Addresses
  <2> QED BY <2>1, <2>2 DEF Found, LastBefore
<1>4. p \in Covered(m) => Found(p) # {}
  BY <1>3 DEF Covered
<1>5. ASSUME NEW k \in Found(p)
      PROVE  /\ p \in Covered(m)
             /\ Get(p, k).storage + Get(p, k).offset = Contents(m)[p]
             /\ Get(p, k).offset < Get(p, k).max_offset
  <2>1. k \in DOMAIN m /\ k <= p /\ p < m[k].to
    BY DEF Found, LastBefore
  <2>2. p \in In(m, k)
    BY <1>1, <2>1, RangeMapAssumption DEF In, Addresses
  <2>3. p \in Covered(m) /\ Contents(m)[p] = m[k].storage + (p - k)
    BY <2>1, <2>2, ContentsAt DEF IInv, TypeOK, NoOverlap
  <2> QED BY <1>1, <2>1, <2>3, RangeMapAssumption DEF Get, Addresses
<1>6. ASSUME Found(p) = {}, NEW n \in Addresses, IsNext(n, p)
      PROVE  p..(n - 1) \cap Covered(m) = {}
  <2> SUFFICES ASSUME NEW a \in p..(n - 1), NEW j \in DOMAIN m, a \in In(m, j)
               PROVE  FALSE
    BY DEF Covered
  <2>1. j <= a /\ a < m[j].to /\ p <= a /\ a < n
    BY <1>1, RangeMapAssumption DEF In, Addresses
  <2>2. CASE j <= p
    BY <1>1, <1>3, <1>6, <2>1, <2>2, RangeMapAssumption DEF In, Addresses
  <2>3. CASE p < j
    BY <1>1, <1>6, <2>1, <2>3, RangeMapAssumption DEF IsNext, Addresses
  <2> QED BY <1>1, <2>2, <2>3, RangeMapAssumption DEF Addresses
<1> QED BY <1>4, <1>5, <1>6

\* What is looked up is what is mapped, so zeros only ever fill real gaps.
THEOREM LookupSound == Spec => []LookupFinds
  BY LookupIsRight, InvariantHolds, PTL

-----------------------------------------------------------------------------
(* The refinement.                                                         *)

\* Nothing is mapped at first.
LEMMA InitImplements == Init => Abstract!Init
<1> SUFFICES ASSUME Init
             PROVE  Abstract!Init
  OBVIOUS
<1>1. DOMAIN m = {} /\ refused = FALSE
  BY DEF Init
<1>2. Covered(m) = {}
  BY <1>1 DEF Covered
<1>3. Contents(m) = [a \in {} |-> 0]
  BY <1>2 DEF Contents
<1> QED BY <1>1, <1>3 DEF Abstract!Init

\* insert maps a free range, refuses any other and ignores an empty one.
LEMMA InsertImplements ==
    ASSUME IInv, NEW r \in Ranges, NEW t \in Storage, Insert(r, t)
    PROVE  Abstract!Insert(r, t)
<1>1. r.from \in Addresses /\ r.to \in Addresses /\ r.from <= r.to
  BY DEF Ranges
<1>2. Abstract!Cells(r) = Cells(r) /\ DOMAIN Contents(m) = Covered(m)
  BY DEF Cells, Abstract!Cells, Contents
<1>3. CASE r.to = r.from /\ m' = m /\ refused' = FALSE
  <2>1. Cells(r) = {}
    BY <1>1, <1>3, RangeMapAssumption DEF Cells, Addresses
  <2>2. Contents(m) = Abstract!Assign(r, t)
    BY <1>2, <2>1 DEF Abstract!Assign, Contents
  <2>3. Contents(m)' = Contents(m)
    BY <1>3 DEF Contents, Covered, In
  <2> QED BY <1>2, <1>3, <2>1, <2>2, <2>3 DEF Abstract!Insert, Abstract!Free
<1>4. CASE r.to # r.from /\ Hit(r) = {} /\ m' = Inserted(r, t) /\ refused' = FALSE
  <2>1. Contents(m)' = Contents(Inserted(r, t))
    BY <1>4 DEF Contents, Covered, In
  <2>2. Cells(r) \cap Covered(m) = {}
    BY <1>4, HitIsTaken
  <2> QED BY <1>2, <1>4, <2>1, <2>2, InsertedContents DEF Abstract!Insert, Abstract!Free
<1>5. CASE r.to # r.from /\ Hit(r) # {} /\ m' = m /\ refused' = TRUE
  <2>1. Cells(r) \cap Covered(m) # {}
    BY <1>5, HitIsTaken
  <2>2. Contents(m)' = Contents(m)
    BY <1>5 DEF Contents, Covered, In
  <2> QED BY <1>2, <1>5, <2>1, <2>2 DEF Abstract!Insert, Abstract!Free
<1> QED BY <1>3, <1>4, <1>5 DEF Insert, Inserted

\* insert_overwrite assigns r, whatever it has to cut.
LEMMA InsertOverwriteImplements ==
    ASSUME IInv, NEW r \in Ranges, NEW t \in Storage, InsertOverwrite(r, t)
    PROVE  Abstract!InsertOverwrite(r, t)
<1>1. r.from \in Addresses /\ r.to \in Addresses /\ r.from <= r.to
  BY DEF Ranges
<1>2. Abstract!Cells(r) = Cells(r) /\ DOMAIN Contents(m) = Covered(m)
  BY DEF Cells, Abstract!Cells, Contents
<1>3. CASE r.to = r.from /\ m' = m /\ refused' = FALSE
  <2>1. Cells(r) = {}
    BY <1>1, <1>3, RangeMapAssumption DEF Cells, Addresses
  <2>2. Contents(m) = Abstract!Assign(r, t)
    BY <1>2, <2>1 DEF Abstract!Assign, Contents
  <2>3. Contents(m)' = Contents(m)
    BY <1>3 DEF Contents, Covered, In
  <2> QED BY <1>3, <2>2, <2>3 DEF Abstract!InsertOverwrite
<1>4. CASE r.to # r.from /\ m' = Overwritten(r, t) /\ refused' = FALSE
  <2>1. Contents(m)' = Contents(Overwritten(r, t))
    BY <1>4 DEF Contents, Covered, In
  <2> QED BY <1>4, <2>1, OverwrittenContents DEF Abstract!InsertOverwrite
<1> QED BY <1>3, <1>4 DEF InsertOverwrite

\* offset_by moves what is mapped.
LEMMA OffsetByImplements ==
    ASSUME IInv, NEW o \in Addresses, OffsetBy(o)
    PROVE  Abstract!OffsetBy(o)
<1>1. m' = Shifted(o) /\ Fits(o) /\ refused' = FALSE
  BY DEF OffsetBy
<1>2. Contents(m)' = Contents(Shifted(o))
  BY <1>1 DEF Contents, Covered, In
<1> QED BY <1>1, <1>2, ShiftedContents DEF Abstract!OffsetBy

\* The std::map with its searches and cuts implements the plain map from
\* addresses to storage.
THEOREM Implementation == Spec => ImplementsStorageMap
<1>1. IInv /\ [Next]_vars => [Abstract!Next]_<<Contents(m), refused>>
  <2> SUFFICES ASSUME IInv, [Next]_vars
               PROVE  [Abstract!Next]_<<Contents(m), refused>>
    OBVIOUS
  <2>1. Abstract!Ranges = Ranges /\ Abstract!Addresses = Addresses
    BY DEF Ranges, Abstract!Ranges, Addresses, Abstract!Addresses
  <2>2. CASE \E r \in Ranges, t \in Storage : Insert(r, t)
    BY <2>1, <2>2, InsertImplements DEF Abstract!Next
  <2>3. CASE \E r \in Ranges, t \in Storage : InsertOverwrite(r, t)
    BY <2>1, <2>3, InsertOverwriteImplements DEF Abstract!Next
  <2>4. CASE \E o \in Addresses : OffsetBy(o)
    BY <2>1, <2>4, OffsetByImplements DEF Abstract!Next
  <2>5. CASE UNCHANGED vars
    BY <2>5 DEF vars, Contents, Covered, In
  <2> QED BY <2>2, <2>3, <2>4, <2>5 DEF Next
<1> QED BY <1>1, InitImplements, InvariantHolds, PTL
        DEF Spec, ImplementsStorageMap, Abstract!Spec
=============================================================================
