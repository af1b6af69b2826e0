------------------------------ MODULE Uf2Proofs ------------------------------
(***************************************************************************)
(* Proofs about Uf2: what uf2 convert and uf2 combine leave on disk is the *)
(* beginning of what a boot ROM can count its way through                  *)
(* (WellFormedTheorem), a file that lacks its end shows it, though nothing *)
(* looked (CutOffTheorem), and the blocks of a flash binary fall into      *)
(* sectors by their numbers (SectorsTheorem), for all files, options and   *)
(* sizes of pages and sectors.                                             *)
(*                                                                         *)
(* None is inductive: that a finished file is numbered needs that the      *)
(* unfinished one is, and that the count in its blocks is the one it will  *)
(* reach.  CountInv says so of a file while it is written: Converting of   *)
(* uf2 convert, where block n is the page with n pages below it, and       *)
(* Combining of uf2 combine, where it is the n-th block that counts of the *)
(* two files.  That numbers go by sectors rests on Full: with the padding, *)
(* a sector that is touched has all its pages up to the last page, so the  *)
(* pages come in runs of SectorPages (AllGrouped), and a move by whole     *)
(* sectors keeps that (MovedStaysFull).                                    *)
(*                                                                         *)
(* The second half is about what the files hold.  A file that was          *)
(* converted or combined and not cut off reads as the programs it was of   *)
(* (ReadsBackTheorem), and a file that is moved is moved as a whole        *)
(* (MovedTheorem).  KeepInv follows the bytes: the fragments of a page are *)
(* the bytes of the segments taken so far (PagesHold), a finished file is  *)
(* its pages (WrittenIsKept), what has been copied is what was in the      *)
(* files it came from (Copying), and while a file is read its ranges are   *)
(* the blocks up to the position (MappedTo).  That the loop of             *)
(* find_binary_start finds what Begins says is StartFound.                 *)
(***************************************************************************)
EXTENDS Uf2, SequenceTheorems, FoldTheorems, TLAPS

(***************************************************************************)
(* Quotients and ranks                                                     *)
(***************************************************************************)
\* A number has only one quotient.
LEMMA QuotientOf ==
    ASSUME NEW d \in Nat \ {0}, NEW q \in Int, NEW r \in 0..(d - 1)
    PROVE  ((d * q) + r) \div d = q
<1> DEFINE a == (d * q) + r
           u == a \div d
<1>1. d * q \in Int /\ a \in Int OBVIOUS
<1>2. a % d = r BY RemainderOf
<1>3. u \in Int /\ a = (d * u) + (a % d) BY <1>1
<1>4. d * u \in Int BY <1>3
<1> HIDE DEF u
<1>5. d * u = d * q BY <1>1, <1>2, <1>3, <1>4
<1>6. \A x, y \in Int : x < y => (d * x) + d <= d * y
    <2> SUFFICES ASSUME NEW x \in Int, NEW y \in Int, x < y PROVE (d * x) + d <= d * y
        OBVIOUS
    <2>1. d * (x + 1) <= d * y OBVIOUS
    <2>2. d * (x + 1) = (d * x) + d OBVIOUS
    <2> QED BY <2>1, <2>2
<1>7. ~(u < q) BY <1>1, <1>3, <1>4, <1>5, <1>6
<1>8. ~(q < u) BY <1>1, <1>3, <1>4, <1>5, <1>6
<1> QED BY <1>3, <1>7, <1>8 DEF u

LEMMA DivisionOf ==
    ASSUME NEW d \in Nat \ {0}, NEW a \in Int
    PROVE  /\ a \div d \in Int /\ a % d \in 0..(d - 1)
           /\ a = (d * (a \div d)) + (a % d)
OBVIOUS

\* From one number to the next.
LEMMA NextNumber ==
    ASSUME NEW d \in Nat \ {0}, NEW a \in Int
    PROVE  IF a % d = d - 1
           THEN (a + 1) \div d = (a \div d) + 1 /\ (a + 1) % d = 0
           ELSE (a + 1) \div d = a \div d /\ (a + 1) % d = (a % d) + 1
<1> PICK q \in Int : q = a \div d BY DivisionOf
<1> PICK r \in 0..(d - 1) : r = a % d BY DivisionOf
<1>1. a = (d * q) + r BY DivisionOf
<1>2. d * q \in Int OBVIOUS
<1>3. CASE r = d - 1
    <2>1. d * (q + 1) = (d * q) + d OBVIOUS
    <2>2. a + 1 = (d * (q + 1)) + 0 BY <1>1, <1>2, <1>3, <2>1
    <2>3. q + 1 \in Int /\ 0 \in 0..(d - 1) OBVIOUS
    <2>4. (a + 1) \div d = q + 1 /\ (a + 1) % d = 0 BY <2>2, <2>3, QuotientOf, RemainderOf
    <2> QED BY <1>3, <2>4
<1>4. CASE r # d - 1
    <2>1. r + 1 \in 0..(d - 1) BY <1>4
    <2>2. a + 1 = (d * q) + (r + 1) BY <1>1, <1>2
    <2>3. (a + 1) \div d = q /\ (a + 1) % d = r + 1 BY <2>1, <2>2, QuotientOf, RemainderOf
    <2> QED BY <1>4, <2>3
<1> QED BY <1>3, <1>4

LEMMA QuotientGrows ==
    ASSUME NEW d \in Nat \ {0}, NEW a \in Int, NEW b \in Int, a <= b
    PROVE  a \div d <= b \div d
<1> PICK q \in Int : q = a \div d BY DivisionOf
<1> PICK u \in Int : u = b \div d BY DivisionOf
<1>1. a = (d * q) + (a % d) /\ b = (d * u) + (b % d)
      /\ a % d \in 0..(d - 1) /\ b % d \in 0..(d - 1) BY DivisionOf
<1>2. d * q \in Int /\ d * u \in Int OBVIOUS
<1> SUFFICES ASSUME u < q PROVE FALSE OBVIOUS
<1>3. d * (u + 1) <= d * q OBVIOUS
<1>4. d * (u + 1) = (d * u) + d OBVIOUS
<1> QED BY <1>1, <1>2, <1>3, <1>4

\* How many elements of S are below p.
Rank(S, p) == Cardinality({q \in S : q < p})
Nth(S, n) == CHOOSE p \in S : Cardinality({q \in S : q < p}) = n

LEMMA RankFollows ==
    ASSUME NEW S \in SUBSET Int, IsFiniteSet(S), NEW p \in S, NEW q \in S, p < q,
           \A r \in S : ~(p < r /\ r < q)
    PROVE  Rank(S, q) = Rank(S, p) + 1
<1> DEFINE L(x) == {r \in S : r < x}
<1>1. IsFiniteSet(L(p)) BY FS_Subset
<1>2. p \notin L(p) OBVIOUS
<1>3. L(q) = L(p) \union {p}
    <2>1. \A r \in S : r \in Int OBVIOUS
    <2>2. \A r \in S : r < q <=> (r < p \/ r = p) BY <2>1
    <2> QED BY <2>2
<1>4. Cardinality(L(p) \union {p}) = Cardinality(L(p)) + 1 BY <1>1, <1>2, FS_AddElement
<1> QED BY <1>3, <1>4 DEF Rank

LEMMA RankGrows ==
    ASSUME NEW S \in SUBSET Int, IsFiniteSet(S), NEW p \in S, NEW q \in S, p < q
    PROVE  Rank(S, p) \in Nat /\ Rank(S, q) \in Nat /\ Rank(S, p) < Rank(S, q)
<1> DEFINE L(x) == {r \in S : r < x}
<1>1. IsFiniteSet(L(p)) /\ IsFiniteSet(L(q)) BY FS_Subset
<1>2. p \notin L(p) /\ L(p) \union {p} \subseteq L(q)
    <2>1. \A r \in S : r \in Int OBVIOUS
    <2>2. \A r \in S : (r < p \/ r = p) => r < q BY <2>1
    <2>3. ~(p < p) BY <2>1
    <2> QED BY <2>2, <2>3
<1>3. Cardinality(L(p) \union {p}) = Cardinality(L(p)) + 1 BY <1>1, <1>2, FS_AddElement
<1>4. Cardinality(L(p) \union {p}) <= Cardinality(L(q)) BY <1>1, <1>2, FS_Subset
<1>5. Cardinality(L(p)) \in Nat /\ Cardinality(L(q)) \in Nat BY <1>1, FS_CardinalityType
<1> HIDE DEF L
<1>6. Cardinality(L(p)) < Cardinality(L(q)) BY <1>3, <1>4, <1>5
<1> QED BY <1>5, <1>6 DEF Rank, L

\* Every rank below the size is someone's.
LEMMA RankTaken ==
    ASSUME NEW S \in SUBSET Nat, IsFiniteSet(S), NEW n \in 0..(Cardinality(S) - 1)
    PROVE  \E p \in S : Rank(S, p) = n
<1> PICK N \in Nat : N = Cardinality(S) BY FS_CardinalityType
<1> DEFINE K == {k \in 0..(N - 1) : \E p \in S : Rank(S, p) = k}
<1>1. 0 \in K
    <2>1. N > 0 OBVIOUS
    <2>2. S # {} BY <2>1, FS_EmptySet
    <2>3. PICK p \in S : \A q \in S : p <= q BY <2>2, Least
    <2>0. \A q \in S : q \in Int OBVIOUS
    <2>4. {q \in S : q < p} = {}
        <3>1. \A q \in S : ~(q < p) BY <2>0, <2>3
        <3> QED BY <3>1
    <2>5. Rank(S, p) = 0 BY <2>4, FS_EmptySet DEF Rank
    <2> QED BY <2>1, <2>5
<1>2. ASSUME NEW k \in 0..((N - 1) - 1), k \in K PROVE k + 1 \in K
    <2>1. PICK p \in S : Rank(S, p) = k BY <1>2
    <2> DEFINE T == {q \in S : p < q}
               L == {q \in S : q < p}
    <2>2. T # {}
        <3> SUFFICES ASSUME T = {} PROVE FALSE OBVIOUS
        <3>0. \A r \in S : r \in Int OBVIOUS
        <3>1. S = L \union {p} /\ p \notin L
            <4>1. \A r \in S : ~(p < r) OBVIOUS
            <4>2. \A r \in S : r < p \/ r = p BY <3>0, <4>1
            <4>3. ~(p < p) BY <3>0
            <4> QED BY <4>2, <4>3
        <3>2. IsFiniteSet(L) BY FS_Subset
        <3>3. Cardinality(S) = Cardinality(L) + 1 BY <3>1, <3>2, FS_AddElement
        <3>4. Cardinality(L) = k BY <2>1 DEF Rank
        <3> HIDE DEF L
        <3> QED BY <3>3, <3>4
    <2>3. PICK q \in T : \A r \in T : q <= r
        <3>1. T \in SUBSET Nat OBVIOUS
        <3> HIDE DEF T
        <3> QED BY <2>2, <3>1, Least
    <2>4. q \in S /\ p < q /\ \A r \in S : ~(p < r /\ r < q) BY <2>3
    <2>5. Rank(S, q) = k + 1 BY <2>1, <2>4, RankFollows
    <2> QED BY <2>4, <2>5
<1>3. N - 1 \in Nat OBVIOUS
<1> HIDE DEF K
<1>4. \A k \in 0..(N - 1) : k \in K BY <1>1, <1>2, <1>3, UpTo
<1> QED BY <1>4 DEF K

LEMMA NthTaken ==
    ASSUME NEW S \in SUBSET Nat, IsFiniteSet(S), NEW n \in 0..(Cardinality(S) - 1)
    PROVE  Nth(S, n) \in S /\ Rank(S, Nth(S, n)) = n
BY RankTaken DEF Nth, Rank

LEMMA NthGrows ==
    ASSUME NEW S \in SUBSET Nat, IsFiniteSet(S),
           NEW m \in 0..(Cardinality(S) - 1), NEW n \in 0..(Cardinality(S) - 1), m < n
    PROVE  Nth(S, m) < Nth(S, n)
<1> PICK p : p = Nth(S, m) OBVIOUS
<1> PICK q : q = Nth(S, n) OBVIOUS
<1>1. p \in S /\ q \in S /\ Rank(S, p) = m /\ Rank(S, q) = n BY NthTaken
<1>2. p # q BY <1>1
<1>3. ~(q < p)
    <2> SUFFICES ASSUME q < p PROVE FALSE OBVIOUS
    <2>1. Rank(S, q) < Rank(S, p) BY <1>1, RankGrows
    <2> QED BY <1>1, <2>1
<1> QED BY <1>1, <1>2, <1>3

\* The next one comes right behind.
LEMMA NthFollows ==
    ASSUME NEW S \in SUBSET Nat, IsFiniteSet(S), NEW n \in 0..((Cardinality(S) - 1) - 1)
    PROVE  \A r \in S : ~(Nth(S, n) < r /\ r < Nth(S, n + 1))
<1>0. Cardinality(S) \in Nat BY FS_CardinalityType
<1>1. n \in 0..(Cardinality(S) - 1) /\ n + 1 \in 0..(Cardinality(S) - 1) BY <1>0
<1> PICK p : p = Nth(S, n) OBVIOUS
<1> PICK q : q = Nth(S, n + 1) OBVIOUS
<1>2. p \in S /\ q \in S /\ Rank(S, p) = n /\ Rank(S, q) = n + 1 BY <1>1, NthTaken
<1> SUFFICES ASSUME NEW r \in S, p < r, r < q PROVE FALSE OBVIOUS
<1>3. Rank(S, p) < Rank(S, r) /\ Rank(S, r) < Rank(S, q) /\ Rank(S, r) \in Nat
    BY <1>2, RankGrows
<1> QED BY <1>2, <1>3

(***************************************************************************)
(* Pages in sectors                                                        *)
(***************************************************************************)
PageIndex(p) == p \div PageSize
\* Every touched sector is complete, up to the last page.
Full(S) ==
    /\ \A p \in S : p % PageSize = 0
    /\ \A p, last \in S : \A x \in Nat :
          x % PageSize = 0 /\ SectorOf(x) = SectorOf(p) /\ x <= last => x \in S

\* Page i, of pages of w bytes, s to a sector.
LEMMA SectorOfIndex ==
    ASSUME NEW w \in Nat \ {0}, NEW s \in Nat \ {0}, NEW i \in Nat
    PROVE  (w * i) \div (w * s) = i \div s
<1> PICK u \in Int : u = i \div s BY DivisionOf
<1> PICK r \in 0..(s - 1) : r = i % s BY DivisionOf
<1>1. i = (s * u) + r BY DivisionOf
<1>2. w * i = ((w * s) * u) + (w * r)
    <2>1. s * u \in Int /\ r \in Int OBVIOUS
    <2>2. w * ((s * u) + r) = (w * (s * u)) + (w * r) BY <2>1
    <2>3. w * (s * u) = (w * s) * u OBVIOUS
    <2> QED BY <1>1, <2>2, <2>3
<1>3. w * s \in Nat \ {0} OBVIOUS
<1>4. w * r \in 0..((w * s) - 1)
    <2>1. w * r \in Nat OBVIOUS
    <2>2. w * r <= w * (s - 1) OBVIOUS
    <2>3. w * (s - 1) = (w * s) - w OBVIOUS
    <2> QED BY <1>3, <2>1, <2>2, <2>3
<1> PICK d \in Nat \ {0} : d = w * s BY <1>3
<1> PICK e \in 0..(d - 1) : e = w * r BY <1>4
<1>5. ((d * u) + e) \div d = u BY QuotientOf
<1> QED BY <1>2, <1>5

\* The sector of the page with index i.
LEMMA SectorOfPage ==
    ASSUME NEW i \in Nat
    PROVE  /\ PageSize * i \in Nat /\ (PageSize * i) % PageSize = 0
           /\ PageIndex(PageSize * i) = i
           /\ SectorOf(PageSize * i) = i \div SectorPages
<1>1. PageSize \in Nat \ {0} /\ SectorPages \in Nat \ {0} BY SizesAssumption
<1>2. SectorOf(PageSize * i) = i \div SectorPages
    BY <1>1, SectorOfIndex DEF SectorOf, SectorSize
<1>3. /\ ((PageSize * i) + 0) % PageSize = 0
      /\ ((PageSize * i) + 0) \div PageSize = i
    <2>1. 0 \in 0..(PageSize - 1) /\ i \in Int BY <1>1
    <2> QED BY <1>1, <2>1, QuotientOf, RemainderOf
<1>4. PageSize * i \in Nat /\ (PageSize * i) + 0 = PageSize * i BY <1>1
<1> QED BY <1>2, <1>3, <1>4 DEF PageIndex

LEMMA PageAtIndex ==
    ASSUME NEW p \in Nat, p % PageSize = 0
    PROVE  PageIndex(p) \in Nat /\ p = PageSize * PageIndex(p)
<1>1. PageSize \in Nat \ {0} BY SizesAssumption
<1> PICK i \in Int : i = p \div PageSize BY <1>1, DivisionOf
<1>2. p = (PageSize * i) + 0 BY <1>1, DivisionOf
<1>3. PageSize * i \in Int BY <1>1
<1>4. p = PageSize * i BY <1>2, <1>3
<1>5. ~(i < 0)
    <2> SUFFICES ASSUME i <= -1 PROVE FALSE OBVIOUS
    <2>1. PageSize * i <= PageSize * (-1) BY <1>1
    <2>2. PageSize * (-1) = -PageSize BY <1>1
    <2> QED BY <1>1, <1>3, <1>4, <2>1, <2>2
<1> QED BY <1>4, <1>5 DEF PageIndex

LEMMA PagesInOrder ==
    ASSUME NEW i \in Nat, NEW j \in Nat
    PROVE  /\ i < j <=> PageSize * i < PageSize * j
           /\ i <= j <=> PageSize * i <= PageSize * j
<1>1. PageSize \in Nat \ {0} BY SizesAssumption
<1>2. \A x, y \in Nat : x < y => PageSize * x < PageSize * y
    <2> SUFFICES ASSUME NEW x \in Nat, NEW y \in Nat, x < y PROVE PageSize * x < PageSize * y
        OBVIOUS
    <2>1. PageSize * (x + 1) <= PageSize * y BY <1>1
    <2>2. PageSize * (x + 1) = (PageSize * x) + PageSize BY <1>1
    <2>3. PageSize * x \in Nat /\ PageSize * y \in Nat BY <1>1
    <2> QED BY <1>1, <2>1, <2>2, <2>3
<1>3. PageSize * i \in Nat /\ PageSize * j \in Nat BY <1>1
<1>4. CASE i < j BY <1>2, <1>3, <1>4
<1>5. CASE j < i BY <1>2, <1>3, <1>5
<1>6. CASE i = j BY <1>3, <1>6
<1> QED BY <1>4, <1>5, <1>6

\* The n-th page of full sectors is in the sector that n counts to.
Grouped(S, n) ==
    /\ PageIndex(Nth(S, n)) % SectorPages = n % SectorPages
    /\ \A m \in 0..n :
          SectorOf(Nth(S, m)) = SectorOf(Nth(S, n)) <=> m \div SectorPages = n \div SectorPages

LEMMA FirstIsGrouped ==
    ASSUME NEW S \in SUBSET Nat, IsFiniteSet(S), Full(S), Cardinality(S) > 0
    PROVE  Grouped(S, 0)
<1> PICK p : p = Nth(S, 0) OBVIOUS
<1> PICK i : i = PageIndex(p) OBVIOUS
<1>0. SectorPages \in Nat \ {0} BY SizesAssumption
<1>1. Cardinality(S) \in Nat BY FS_CardinalityType
<1>2. p \in S /\ Rank(S, p) = 0 BY <1>1, NthTaken
<1>3. p % PageSize = 0 BY <1>2 DEF Full
<1>4. i \in Nat /\ p = PageSize * i BY <1>2, <1>3, PageAtIndex
<1>5. i % SectorPages = 0
    <2> SUFFICES ASSUME i % SectorPages # 0 PROVE FALSE OBVIOUS
    <2>1. i # 0 BY <1>0, SmallRemainder
    <2>2. i - 1 \in Nat /\ (i - 1) + 1 = i /\ i - 1 < i BY <1>4, <2>1
    <2>3. (i - 1) \div SectorPages = i \div SectorPages BY <1>0, <2>2, NextNumber
    <2> PICK x : x = PageSize * (i - 1) OBVIOUS
    <2>4. x \in Nat /\ x % PageSize = 0 /\ SectorOf(x) = SectorOf(p)
        BY <1>4, <2>2, <2>3, SectorOfPage
    <2>5. x < p BY <1>4, <2>2, PagesInOrder
    <2>6. x \in S
        <3>1. x <= p BY <1>2, <2>4, <2>5
        <3> QED BY <1>2, <2>4, <3>1 DEF Full
    <2>7. Rank(S, x) \in Nat /\ Rank(S, x) < Rank(S, p) BY <1>2, <2>5, <2>6, RankGrows
    <2> QED BY <1>2, <2>7
<1>6. 0 % SectorPages = 0 BY <1>0, SmallRemainder
<1>7. \A m \in 0..0 : m = 0 OBVIOUS
<1> QED BY <1>5, <1>6, <1>7 DEF Grouped

LEMMA NextIsGrouped ==
    ASSUME NEW S \in SUBSET Nat, IsFiniteSet(S), Full(S),
           NEW n \in 0..((Cardinality(S) - 1) - 1), Grouped(S, n)
    PROVE  Grouped(S, n + 1)
<1> PICK p : p = Nth(S, n) OBVIOUS
<1> PICK q : q = Nth(S, n + 1) OBVIOUS
<1> PICK i : i = PageIndex(p) OBVIOUS
<1> PICK j : j = PageIndex(q) OBVIOUS
<1>0. SectorPages \in Nat \ {0} /\ PageSize \in Nat \ {0} BY SizesAssumption
<1>1. Cardinality(S) \in Nat BY FS_CardinalityType
<1>2. n \in 0..(Cardinality(S) - 1) /\ n + 1 \in 0..(Cardinality(S) - 1) /\ n < n + 1
      /\ n \in Int
    BY <1>1
<1>3. p \in S /\ q \in S /\ p < q BY <1>2, NthTaken, NthGrows
<1>4. /\ i \in Nat /\ p = PageSize * i /\ SectorOf(p) = i \div SectorPages
      /\ j \in Nat /\ q = PageSize * j /\ SectorOf(q) = j \div SectorPages
    BY <1>3, PageAtIndex, SectorOfPage DEF Full
<1>5. i < j BY <1>3, <1>4, PagesInOrder
<1>i. i \in Int /\ j \in Int BY <1>4
<1>6. \A x \in S : ~(p < x /\ x < q) BY NthFollows
<1>7. i % SectorPages = n % SectorPages BY DEF Grouped
<1>8. \A m \in 0..(n + 1) : m = n + 1 \/ m \in 0..n BY <1>2
<1>9. CASE i % SectorPages # SectorPages - 1
    <2>1. /\ (i + 1) \div SectorPages = i \div SectorPages
          /\ (i + 1) % SectorPages = (i % SectorPages) + 1
        BY <1>0, <1>i, <1>9, NextNumber
    <2>2. /\ (n + 1) \div SectorPages = n \div SectorPages
          /\ (n + 1) % SectorPages = (n % SectorPages) + 1
        BY <1>0, <1>2, <1>7, <1>9, NextNumber
    <2> PICK x : x = PageSize * (i + 1) OBVIOUS
    <2>3. i + 1 \in Nat /\ i < i + 1 /\ i + 1 <= j BY <1>4, <1>5
    <2>4. x \in Nat /\ x % PageSize = 0 /\ SectorOf(x) = SectorOf(p)
        BY <1>4, <2>1, <2>3, SectorOfPage
    <2>5. p < x /\ x <= q BY <1>4, <2>3, PagesInOrder
    <2>6. x \in S BY <1>3, <2>4, <2>5 DEF Full
    <2>7. q = x
        <3>1. q \in Int /\ x \in Int BY <1>3, <2>4
        <3> QED BY <1>6, <2>5, <2>6, <3>1
    <2>8. j = i + 1 BY <1>4, <2>3, <2>7, SectorOfPage
    <2>9. j % SectorPages = (n + 1) % SectorPages BY <1>7, <2>1, <2>2, <2>8
    <2>10. SectorOf(q) = SectorOf(p) BY <1>4, <2>1, <2>8
    <2> QED BY <1>8, <2>2, <2>9, <2>10 DEF Grouped
<1>10. CASE i % SectorPages = SectorPages - 1
    <2>1. (i + 1) \div SectorPages = (i \div SectorPages) + 1 /\ (i + 1) % SectorPages = 0
        BY <1>0, <1>i, <1>10, NextNumber
    <2>2. (n + 1) \div SectorPages = (n \div SectorPages) + 1 /\ (n + 1) % SectorPages = 0
        BY <1>0, <1>2, <1>7, <1>10, NextNumber
    <2>3. j % SectorPages = 0
        <3> SUFFICES ASSUME j % SectorPages # 0 PROVE FALSE OBVIOUS
        <3>1. j - 1 \in Nat /\ (j - 1) + 1 = j /\ j - 1 < j /\ i <= j - 1 BY <1>4, <1>5
        <3>2. (j - 1) \div SectorPages = j \div SectorPages BY <1>0, <3>1, NextNumber
        <3> PICK x : x = PageSize * (j - 1) OBVIOUS
        <3>3. x \in Nat /\ x % PageSize = 0 /\ SectorOf(x) = SectorOf(q)
            BY <1>4, <3>1, <3>2, SectorOfPage
        <3>4. x < q BY <1>4, <3>1, PagesInOrder
        <3>5. x \in S
            <4>1. q \in Int /\ x <= q BY <1>3, <3>3, <3>4
            <4> QED BY <1>3, <3>3, <4>1 DEF Full
        <3>6. ~(p < x) BY <1>6, <3>4, <3>5
        <3>7. ~(i < j - 1) BY <1>4, <3>1, <3>6, PagesInOrder
        <3>8. j = i + 1 BY <1>4, <3>1, <3>7
        <3> QED BY <2>1, <3>8
    <2>4. (i \div SectorPages) + 1 <= j \div SectorPages
        <3>1. i + 1 <= j /\ i + 1 \in Int /\ j \in Int BY <1>4, <1>5
        <3>2. (i + 1) \div SectorPages <= j \div SectorPages BY <1>0, <3>1, QuotientGrows
        <3> QED BY <2>1, <3>2
    <2>5. i \div SectorPages \in Int /\ j \div SectorPages \in Int /\ n \div SectorPages \in Int
        BY <1>0, <1>2, <1>i, DivisionOf
    <2>6. ASSUME NEW m \in 0..n
          PROVE  /\ SectorOf(Nth(S, m)) # SectorOf(q)
                 /\ m \div SectorPages # (n + 1) \div SectorPages
        <3>0. m \in 0..(Cardinality(S) - 1) /\ m \in Int /\ m <= n BY <1>1, <1>2
        <3> PICK t : t = Nth(S, m) OBVIOUS
        <3>1. t \in S /\ t \in Nat BY <3>0, NthTaken
        <3>2. t <= p
            <4>1. CASE m < n
                <5>1. t < p BY <1>2, <3>0, <4>1, NthGrows
                <5>2. t \in Int /\ p \in Int BY <1>3, <3>1
                <5> QED BY <5>1, <5>2
            <4>2. CASE m = n BY <3>1, <4>2
            <4> QED BY <3>0, <4>1, <4>2, <1>2
        <3>3. SectorSize \in Nat \ {0} BY <1>0 DEF SectorSize
        <3>4. SectorOf(t) <= SectorOf(p) BY <1>3, <3>1, <3>2, <3>3, QuotientGrows DEF SectorOf
        <3>5. m \div SectorPages <= n \div SectorPages BY <1>0, <1>2, <3>0, QuotientGrows
        <3>6. SectorOf(t) \in Int /\ m \div SectorPages \in Int
            BY <1>0, <3>0, <3>1, <3>3, DivisionOf DEF SectorOf
        <3>7. SectorOf(t) # SectorOf(q) BY <1>4, <2>4, <2>5, <3>4, <3>6
        <3>8. m \div SectorPages # (n + 1) \div SectorPages BY <2>2, <2>5, <3>5, <3>6
        <3> QED BY <3>7, <3>8
    <2>7. j % SectorPages = (n + 1) % SectorPages BY <2>2, <2>3
    <2> QED BY <1>8, <2>6, <2>7 DEF Grouped
<1> QED BY <1>9, <1>10

LEMMA AllGrouped ==
    ASSUME NEW S \in SUBSET Nat, IsFiniteSet(S), Full(S),
           NEW m \in 0..(Cardinality(S) - 1), NEW n \in 0..(Cardinality(S) - 1)
    PROVE  SectorOf(Nth(S, m)) = SectorOf(Nth(S, n)) <=> m \div SectorPages = n \div SectorPages
<1> PICK N \in Nat : N = Cardinality(S) - 1
    <2>1. Cardinality(S) \in Nat BY FS_CardinalityType
    <2> QED BY <2>1
<1> DEFINE K == {k \in 0..N : Grouped(S, k)}
<1>1. 0 \in K
    <2>1. Cardinality(S) > 0 /\ 0 \in 0..N BY FS_CardinalityType
    <2> QED BY <2>1, FirstIsGrouped
<1>2. \A k \in 0..(N - 1) : k \in K => k + 1 \in K
    <2> SUFFICES ASSUME NEW k \in 0..(N - 1), k \in K PROVE k + 1 \in K OBVIOUS
    <2>1. Grouped(S, k) /\ k + 1 \in 0..N OBVIOUS
    <2>2. Grouped(S, k + 1) BY <2>1, NextIsGrouped
    <2> QED BY <2>1, <2>2
<1> HIDE DEF K
<1>3. \A k \in 0..N : k \in K BY <1>1, <1>2, UpTo
<1>4. \A k \in 0..N : Grouped(S, k) BY <1>3 DEF K
<1>5. m \in 0..N /\ n \in 0..N OBVIOUS
<1>6. CASE m <= n
    <2>1. m \in 0..n /\ Grouped(S, n) BY <1>4, <1>5, <1>6
    <2> QED BY <2>1 DEF Grouped
<1>7. CASE n <= m
    <2>1. n \in 0..m /\ Grouped(S, m) BY <1>4, <1>5, <1>7
    <2>2. SectorOf(Nth(S, n)) = SectorOf(Nth(S, m)) <=> n \div SectorPages = m \div SectorPages
        BY <2>1 DEF Grouped
    <2> QED BY <2>2
<1> QED BY <1>5, <1>6, <1>7

(***************************************************************************)
(* The invariant: what is written and what was                             *)
(***************************************************************************)
FileSet == [type : {"elf", "bin", "uf2"}, entry : Nat, segs : Seq(Segments), blocks : Seq(Blocks)]
Fragments == {f \in [file_offset : Nat, page_offset : Nat, bytes : Nat \ {0}] :
                 f.page_offset + f.bytes <= PageSize}
JobFields == {"op", "from", "to", "o", "part", "n", "ok"}
PagesTyped ==
    /\ IsFiniteSet(DOMAIN pages) /\ DOMAIN pages \subseteq Nat
    /\ pages \in [DOMAIN pages -> Seq(Fragments)]
FilesTyped ==
    /\ disk \in [Names -> FileSet] /\ DOMAIN meant = Names
    /\ \A f \in Names : disk[f].type = "bin" => Len(disk[f].segs) = 1
Typed ==
    /\ FilesTyped /\ PagesTyped
    /\ pc \in {"idle", "bin", "type", "segments", "absolute", "page", "close", "count",
               "combined_absolute", "copy", "map", "mapped", "read"}
    /\ DOMAIN job = JobFields
    /\ job.op \in {"", "convert", "combine", "info", "read"}
    /\ job.part \in 0..2 /\ job.n \in [DOMAIN MaxCommands -> Nat]
    /\ num_blocks \in Nat /\ block_no \in Nat /\ pos \in Nat \ {0}
    /\ segments \in Seq(Segments)

Output == disk[job.to].blocks
\* Behind s absolute blocks the others are numbered, all with this count and family.
NumberedAs(blocks, s, total, family) ==
    \A k \in 1..Len(blocks) :
        IF k <= s THEN blocks[k].abs /\ blocks[k].num_blocks = 2
        ELSE /\ ~blocks[k].abs /\ blocks[k].usable
             /\ blocks[k].block_no = (k - s) - 1
             /\ blocks[k].num_blocks = total /\ blocks[k].file_size = family

\* Which binaries are padded and not moved within a sector.
WillBeGrouped ==
    /\ Input.type = "elf" /\ ~RamStyle(Input, job.o.chip)
    /\ job.o.offset = NotSet \/ job.o.offset % SectorSize = 0
\* Block b is the page with n pages below it.
PageWritten(b, n) ==
    LET p == Nth(DOMAIN pages, n)
    IN  b.target_addr = p /\ b.data = realize_page(pages[p])
\* A command has begun to write a file.
Begun(m) == m = [NoMeaning EXCEPT !.numbered = m.numbered]
\* While a binary is converted: where its pages are and what is written of them.
Converting ==
    (pc \in {"bin", "type", "segments", "absolute", "page"} \/ (pc = "close" /\ job.op = "convert")) =>
        /\ job.op = "convert" /\ job.part = 1 /\ job.from \in [1..1 -> Names]
        /\ job.to \in Names
        /\ job.to = job.from[1] => pc \in {"bin", "type"} /\ Input.segs = <<>>
        /\ job.o \in ConvertOptions /\ family_id = job.o.family
        /\ Begun(meant[job.to])
        /\ pc = "bin" /\ job.to # job.from[1] => Input.type = "bin"
        /\ pc \in {"type", "segments"} /\ job.to # job.from[1] => Input.type = "elf"
        /\ pc \notin {"page", "close"} => Output = <<>> /\ block_no = 0
        /\ pc \in {"bin", "type"} => pages = EmptyMap
        /\ pc \in {"bin", "type"} => segments = Input.segs
        /\ pc \in {"absolute", "page", "close"} => DOMAIN pages # {}
        /\ pc = "segments" /\ ~RamStyle(Input, job.o.chip) =>
               DOMAIN pages \subseteq {PageOf(a) : a \in flash_start..(flash_end - 1)}
        /\ pc \in {"absolute", "page", "close"} /\ WillBeGrouped => Full(DOMAIN pages)
        /\ pc \in {"page", "close"} =>
            /\ num_blocks = Cardinality(DOMAIN pages)
            /\ IF pc = "page" THEN block_no < num_blocks ELSE block_no = num_blocks
            /\ \E s \in 0..1 :
                 /\ Len(Output) = s + block_no
                 /\ NumberedAs(Output, s, num_blocks, family_id)
                 /\ \A k \in (s + 1)..(s + block_no) : PageWritten(Output[k], (k - s) - 1)

CombineSet == [family : Nat, abs : BOOLEAN, offset : Nat]
Below(blocks, p) == {k \in Counted(blocks) : k < p}
Blocks1 == disk[job.from[1]].blocks
Blocks2 == disk[job.from[2]].blocks
\* While two files are combined: the blocks that count are copied, and counted.
Combining ==
    (pc \in {"count", "combined_absolute", "copy"} \/ (pc = "close" /\ job.op # "convert")) =>
        /\ job.op = "combine" /\ job.part \in 1..2 /\ job.from \in [1..2 -> Names]
        /\ job.to \in Names
        /\ pc # "count" => job.to # job.from[1] /\ job.to # job.from[2]
        /\ job.o \in CombineSet /\ family_id \in Nat
        /\ Begun(meant[job.to])
        /\ job.to # job.from[1] /\ job.to # job.from[2] =>
               (meant[job.to].numbered => meant[job.from[1]].numbered /\ meant[job.from[2]].numbered)
        /\ (pc # "count" \/ job.part = 2) => family_id # 0 /\ Blocks1 # <<>>
        /\ pc # "count" => Blocks2 # <<>>
        /\ pc \notin {"copy", "close"} => Output = <<>> /\ block_no = 0 /\ pos = 1
        /\ num_blocks = IF pc = "count" /\ job.part = 1 THEN 0
                        ELSE IF pc = "count" THEN FirstBlock(Blocks1).num_blocks
                        ELSE FirstBlock(Blocks1).num_blocks + FirstBlock(Blocks2).num_blocks
        /\ pc = "combined_absolute" => job.part = 1
        /\ pc \in {"copy", "close"} =>
            /\ pos <= Len(Input.blocks) + 1
            /\ job.part = 2 => ~Stranded(Blocks1)
            /\ block_no = IF job.part = 1 THEN Cardinality(Below(Blocks1, pos))
                          ELSE Cardinality(Counted(Blocks1)) + Cardinality(Below(Blocks2, pos))
            /\ \E s \in 0..1 :
                 /\ Len(Output) = s + block_no
                 /\ NumberedAs(Output, s, num_blocks, family_id)
        /\ pc = "close" => job.part = 2 /\ pos = Len(Blocks2) + 1 /\ ~Stranded(Blocks2)

\* A numbered file takes its count from its first block, and if it is cut off it says so.
CountedFirst(blocks) ==
    \/ blocks = <<>>
    \/ Stranded(blocks) /\ blocks[1].num_blocks = 2
    \/ \E k \in Counted(blocks) : FirstBlock(blocks) = blocks[k]
Numbering(f) ==
    meant[f].numbered =>
        /\ NumberedFrom0(disk[f].blocks)
        /\ CountedFirst(disk[f].blocks)
        /\ Open(f) \/ (meant[f].complete <=> AllThere(disk[f].blocks))
CountInv ==
    /\ Typed /\ Converting /\ Combining
    /\ \A f \in Names : Numbering(f)
    /\ AbsoluteFirst /\ SectorsByNumber

(***************************************************************************)
(* Pages and fragments                                                     *)
(***************************************************************************)
LEMMA MinOfTwo ==
    ASSUME NEW a \in Int, NEW b \in Int
    PROVE  Min({a, b}) = (IF a <= b THEN a ELSE b)
<1> PICK m : m = IF a <= b THEN a ELSE b OBVIOUS
<1>1. m \in {a, b} /\ \A y \in {a, b} : m <= y OBVIOUS
<1>2. Min({a, b}) \in {a, b} /\ \A y \in {a, b} : Min({a, b}) <= y BY <1>1, Zenon DEF Min
<1> QED BY <1>2

LEMMA MaxOfTwo ==
    ASSUME NEW a \in Int, NEW b \in Int
    PROVE  Max({a, b}) = (IF a <= b THEN b ELSE a)
<1> PICK m : m = IF a <= b THEN b ELSE a OBVIOUS
<1>1. m \in {a, b} /\ \A y \in {a, b} : m >= y OBVIOUS
<1>2. Max({a, b}) \in {a, b} /\ \A y \in {a, b} : Max({a, b}) >= y BY <1>1, Zenon DEF Max
<1> QED BY <1>2

LEMMA MappedSizeTyped ==
    ASSUME NEW seg \in Segments
    PROVE  /\ MappedSize(seg) \in Nat
           /\ MappedSize(seg) <= seg.filez /\ MappedSize(seg) <= seg.memsz
<1>1. seg.filez \in Nat /\ seg.memsz \in Nat BY DEF Segments
<1>2. MappedSize(seg) = IF seg.filez <= seg.memsz THEN seg.filez ELSE seg.memsz
    BY <1>1, MinOfTwo DEF MappedSize
<1> QED BY <1>1, <1>2

\* The page that an address is in.
LEMMA PageOfTyped ==
    ASSUME NEW a \in Nat
    PROVE  /\ PageOf(a) \in Nat /\ PageOf(a) % PageSize = 0
           /\ PageOf(a) <= a /\ a < PageOf(a) + PageSize
<1>1. PageSize \in Nat \ {0} BY SizesAssumption
<1> PICK q \in Int : q = a \div PageSize BY <1>1, DivisionOf
<1> PICK r \in 0..(PageSize - 1) : r = a % PageSize BY <1>1, DivisionOf
<1>2. a = (PageSize * q) + r BY <1>1, DivisionOf
<1>3. PageSize * q \in Int BY <1>1
<1>4. PageOf(a) = PageSize * q BY <1>2, <1>3 DEF PageOf
<1>5. q >= 0
    <2> SUFFICES ASSUME q <= -1 PROVE FALSE OBVIOUS
    <2>1. PageSize * q <= PageSize * (-1) BY <1>1
    <2>2. PageSize * (-1) = -PageSize BY <1>1
    <2> QED BY <1>1, <1>2, <1>3, <2>1, <2>2
<1>6. (PageSize * q) % PageSize = 0 BY <1>5, SectorOfPage
<1>7. PageSize * q >= 0 BY <1>1, <1>5
<1> QED BY <1>1, <1>2, <1>3, <1>4, <1>6, <1>7

LEMMA OnlyPage ==
    ASSUME NEW p \in Nat, p % PageSize = 0, NEW a \in Nat, p <= a, a < p + PageSize
    PROVE  PageOf(a) = p
<1>1. PageSize \in Nat \ {0} BY SizesAssumption
<1> PICK c \in 0..(PageSize - 1) : a = p + c BY <1>1
<1>2. (p + c) % PageSize = c % PageSize
    <2>1. p \in Int /\ c \in Int BY <1>1
    <2> QED BY <1>1, <2>1, SameRemainder, Zenon
<1>3. c % PageSize = c BY <1>1, SmallRemainder
<1>4. p = a - c OBVIOUS
<1> QED BY <1>2, <1>3, <1>4 DEF PageOf

\* The fragment of a piece in one of its pages is all of what is in that page.
HoldsOf(f, page, offset, addr, size) ==
    /\ f \in Fragments
    /\ \A k \in 0..(PageSize - 1) :
         (k >= f.page_offset /\ k < f.page_offset + f.bytes)
             <=> page + k \in addr..(addr + size - 1)
    /\ f.file_offset - f.page_offset = (offset + page) - addr
LEMMA FragmentHolds ==
    ASSUME NEW offset \in Nat, NEW addr \in Nat, NEW size \in Nat,
           NEW a \in addr..(addr + size - 1), NEW page \in Nat, page = PageOf(a)
    PROVE  HoldsOf(FragmentIn(page, offset, addr, size), page, offset, addr, size)
<1>1. PageSize \in Nat \ {0} BY SizesAssumption
<1>2. a \in Nat /\ addr + size \in Nat OBVIOUS
<1>3. page <= a /\ a < page + PageSize BY <1>2, PageOfTyped
<1> PICK from : from = Max({page, addr}) OBVIOUS
<1> PICK to : to = Min({page + PageSize, addr + size}) OBVIOUS
<1>4. from = IF page <= addr THEN addr ELSE page BY MaxOfTwo
<1>5. to = IF page + PageSize <= addr + size THEN page + PageSize ELSE addr + size
    BY <1>1, <1>2, MinOfTwo
<1>6. /\ from \in Nat /\ to \in Nat /\ from <= a /\ a < to
      /\ page <= from /\ addr <= from /\ to <= page + PageSize /\ to <= addr + size
    BY <1>1, <1>2, <1>3, <1>4, <1>5
<1> PICK f : f = FragmentIn(page, offset, addr, size) OBVIOUS
<1>7. f = [file_offset |-> offset + from - addr, page_offset |-> from - page, bytes |-> to - from]
    BY DEF FragmentIn, Fragment
<1>8. offset + from - addr \in Nat /\ from - page \in Nat /\ to - from \in Nat \ {0}
      /\ (from - page) + (to - from) <= PageSize
    BY <1>1, <1>6
<1>9. /\ f \in Fragments
      /\ f.file_offset = offset + from - addr
      /\ f.page_offset = from - page /\ f.bytes = to - from
    <2>1. f \in [file_offset : Nat, page_offset : Nat, bytes : Nat \ {0}] BY <1>7, <1>8
    <2>2. /\ f.file_offset = offset + from - addr
          /\ f.page_offset = from - page /\ f.bytes = to - from BY <1>7
    <2>3. f.page_offset + f.bytes <= PageSize BY <1>8, <2>2
    <2> QED BY <2>1, <2>2, <2>3 DEF Fragments
<1>10. ASSUME NEW k \in 0..(PageSize - 1)
       PROVE  (k >= from - page /\ k < (from - page) + (to - from))
                  <=> page + k \in addr..(addr + size - 1)
    BY <1>1, <1>2, <1>4, <1>5, <1>6
<1>11. (offset + from - addr) - (from - page) = (offset + page) - addr BY <1>6
<1>12. HoldsOf(f, page, offset, addr, size) BY <1>9, <1>10, <1>11 DEF HoldsOf
<1> QED BY <1>12

PagesOf(addr, size) == {PageOf(a) : a \in addr..(addr + size - 1)}
LEMMA PagesForTyped ==
    ASSUME NEW offset \in Nat, NEW addr \in Nat, NEW size \in Nat
    PROVE  /\ DOMAIN PagesFor(offset, addr, size) = PagesOf(addr, size)
           /\ PagesFor(offset, addr, size) \in [PagesOf(addr, size) -> Seq(Fragments)]
           /\ PagesOf(addr, size) \subseteq Nat /\ IsFiniteSet(PagesOf(addr, size))
           /\ size > 0 => PagesOf(addr, size) # {}
<1> PICK D : D = PagesOf(addr, size) OBVIOUS
<1>1. \A a \in addr..(addr + size - 1) : a \in Nat OBVIOUS
<1>2. D \subseteq Nat BY <1>1, PageOfTyped DEF PagesOf
<1>3. IsFiniteSet(D)
    <2>1. IsFiniteSet(addr..(addr + size - 1)) BY FS_Interval
    <2> PICK g : g = [a \in addr..(addr + size - 1) |-> PageOf(a)] OBVIOUS
    <2>2. g \in [addr..(addr + size - 1) -> D] /\ \A y \in D : \E x \in addr..(addr + size - 1) : g[x] = y
        BY DEF PagesOf
    <2>3. g \in Surjection(addr..(addr + size - 1), D) BY <2>2 DEF Surjection
    <2> QED BY <2>1, <2>3, FS_Surjection
<1>4. PagesFor(offset, addr, size) = [page \in D |-> <<FragmentIn(page, offset, addr, size)>>]
    BY DEF PagesFor, PagesOf
<1>5. ASSUME NEW page \in D PROVE <<FragmentIn(page, offset, addr, size)>> \in Seq(Fragments)
    <2>1. PICK a \in addr..(addr + size - 1) : page = PageOf(a) BY <1>5 DEF PagesOf
    <2>2. page \in Nat BY <1>2
    <2>3. FragmentIn(page, offset, addr, size) \in Fragments BY <2>1, <2>2, FragmentHolds DEF HoldsOf
    <2> QED BY <2>3
<1>6. size > 0 => D # {}
    <2>1. size > 0 => addr \in addr..(addr + size - 1) OBVIOUS
    <2> QED BY <2>1 DEF PagesOf
<1> QED BY <1>2, <1>3, <1>4, <1>5, <1>6

LEMMA JoinedTyped ==
    ASSUME NEW A, NEW B, IsFiniteSet(A), IsFiniteSet(B), A \subseteq Nat, B \subseteq Nat,
           NEW old \in [A -> Seq(Fragments)], NEW new \in [B -> Seq(Fragments)]
    PROVE  /\ Joined(old, new) \in [A \union B -> Seq(Fragments)]
           /\ IsFiniteSet(A \union B) /\ A \union B \subseteq Nat
<1>1. IsFiniteSet(A \union B) BY FS_Union
<1>2. Joined(old, new) =
        [page \in A \union B |->
            (IF page \in A THEN old[page] ELSE <<>>) \o (IF page \in B THEN new[page] ELSE <<>>)]
    BY DEF Joined
<1>3. ASSUME NEW page \in A \union B
      PROVE  (IF page \in A THEN old[page] ELSE <<>>) \o (IF page \in B THEN new[page] ELSE <<>>)
                 \in Seq(Fragments)
    <2>1. (IF page \in A THEN old[page] ELSE <<>>) \in Seq(Fragments) OBVIOUS
    <2>2. (IF page \in B THEN new[page] ELSE <<>>) \in Seq(Fragments) OBVIOUS
    <2> QED BY <2>1, <2>2, ConcatProperties
<1> QED BY <1>1, <1>2, <1>3

LEMMA RealizedTyped ==
    ASSUME NEW fragments \in Seq(Fragments)
    PROVE  realize_page(fragments) \in [0..(PageSize - 1) -> Nat]
<1>1. PageSize \in Nat \ {0} BY SizesAssumption
<1> SUFFICES ASSUME NEW k \in 0..(PageSize - 1)
             PROVE  LET at == {f \in ToSet(fragments) :
                                  k >= f.page_offset /\ k < f.page_offset + f.bytes}
                    IN  (IF at = {} THEN 0
                         ELSE LET g == CHOOSE f \in at : TRUE
                              IN  g.file_offset + k - g.page_offset) \in Nat
    BY DEF realize_page
<1> PICK at : at = {f \in ToSet(fragments) : k >= f.page_offset /\ k < f.page_offset + f.bytes}
    OBVIOUS
<1>2. ToSet(fragments) \subseteq Fragments BY DEF ToSet
<1>3. CASE at = {} BY <1>3
<1>4. CASE at # {}
    <2> PICK g : g = CHOOSE f \in at : TRUE OBVIOUS
    <2>1. g \in at BY <1>4
    <2>2. g \in Fragments /\ k >= g.page_offset BY <1>2, <2>1
    <2>3. g.file_offset \in Nat /\ g.page_offset \in Nat BY <2>2 DEF Fragments
    <2>4. g.file_offset + k - g.page_offset \in Nat BY <2>2, <2>3
    <2> QED BY <1>4, <2>4
<1> QED BY <1>3, <1>4

(***************************************************************************)
(* The steps                                                               *)
(***************************************************************************)
Results == (\A f \in Names : Numbering(f)) /\ AbsoluteFirst /\ SectorsByNumber

LEMMA CountInitially == Init => CountInv
<1> SUFFICES ASSUME Init PROVE CountInv OBVIOUS
<1>1. /\ disk \in [Names -> [type : {"elf", "bin", "uf2"}, entry : Nat, segs : Seq(Segments),
                             blocks : Seq(Blocks)]]
      /\ \A f \in Names : /\ disk[f].type = "bin" => Len(disk[f].segs) = 1
                          /\ disk[f].type # "uf2" => disk[f].blocks = <<>>
    BY FilesAssumption DEF Init
<1>2. FilesTyped BY <1>1 DEF Init, FilesTyped, FileSet
<1>3. PagesTyped
    <2>1. pages = EmptyMap /\ DOMAIN pages = {} BY DEF Init, EmptyMap
    <2>2. IsFiniteSet({}) BY FS_EmptySet
    <2>3. pages \in [{} -> Seq(Fragments)] BY <2>1 DEF EmptyMap
    <2> QED BY <2>1, <2>2, <2>3 DEF PagesTyped
<1>4. Typed
    <2>1. DOMAIN job = JobFields BY DEF Init, NoJob, JobFields
    <2>2. job.op = "" /\ job.part = 0 /\ job.n = [kind \in DOMAIN MaxCommands |-> 0]
        BY DEF Init, NoJob
    <2>3. job.n \in [DOMAIN MaxCommands -> Nat]
        <3> PICK D : D = DOMAIN MaxCommands OBVIOUS
        <3>1. [kind \in D |-> 0] \in [D -> Nat] OBVIOUS
        <3> QED BY <2>2, <3>1
    <2>4. /\ segments = <<>> /\ num_blocks = 0 /\ block_no = 0 /\ pos = 1 /\ pc = "idle"
        BY DEF Init
    <2>5. segments \in Seq(Segments) BY <2>4
    <2>6. job.op \in {"", "convert", "combine", "info", "read"} /\ job.part \in 0..2
        <3>1. job.op = "" /\ job.part = 0 BY <2>2
        <3>2. job.op \in {"", "convert", "combine", "info", "read"} BY <3>1
        <3>0. 0 \in 0..2 OBVIOUS
        <3>3. job.part \in 0..2 BY <3>0, <3>1, Zenon
        <3> QED BY <3>2, <3>3
    <2>7. num_blocks \in Nat /\ block_no \in Nat /\ pos \in Nat \ {0} BY <2>4
    <2>8. pc \in {"idle", "bin", "type", "segments", "absolute", "page", "close", "count",
                  "combined_absolute", "copy", "map", "mapped", "read"} BY <2>4
    <2> QED BY <1>2, <1>3, <2>1, <2>3, <2>5, <2>6, <2>7, <2>8 DEF Typed
<1>5. Converting /\ Combining BY DEF Init, Converting, Combining
<1>6. ASSUME NEW f \in Names
      PROVE  /\ Numbering(f) /\ ~meant[f].grouped
             /\ meant[f].ours => disk[f].blocks = <<>>
    <2> PICK file : file = disk[f] OBVIOUS
    <2>1. meant[f] = Given(file) BY DEF Init
    <2>2. CASE file.type # "uf2"
        <3>1. meant[f] = NoMeaning BY <2>1, <2>2 DEF Given
        <3>2. ~meant[f].numbered /\ ~meant[f].grouped BY <3>1 DEF NoMeaning
        <3>3. file.blocks = <<>> BY <1>1, <2>2
        <3> QED BY <3>2, <3>3 DEF Numbering
    <2>3. CASE file.type = "uf2"
        <3> PICK usable : usable = {block \in ToSet(file.blocks) : Passes(block)} OBVIOUS
        <3> PICK numbered : numbered = (usable # {} /\ Passes(FirstBlock(file.blocks)) /\ NumberedFrom0(file.blocks))
            OBVIOUS
        <3> PICK complete : complete = (numbered /\ AllThere(file.blocks)) OBVIOUS
        <3> PICK of : of = Given(file).of OBVIOUS
        <3>0. meant[f] = [of |-> of, whole |-> usable # {}, numbered |-> numbered, complete |-> complete,
                          ours |-> FALSE, grouped |-> FALSE]
            BY <2>1, <2>3 DEF Given
        <3>1. /\ ~meant[f].ours /\ ~meant[f].grouped
              /\ meant[f].numbered = numbered /\ meant[f].complete = complete
            BY <3>0
        <3>2. ASSUME meant[f].numbered
              PROVE  \E k \in Counted(file.blocks) : FirstBlock(file.blocks) = file.blocks[k]
            <4>1. usable # {} /\ Passes(FirstBlock(file.blocks)) BY <3>1, <3>2
            <4>2. file.blocks \in Seq(Blocks)
                <5>1. disk[f] \in [type : {"elf", "bin", "uf2"}, entry : Nat, segs : Seq(Segments), blocks : Seq(Blocks)]
                    BY <1>1
                <5> QED BY <5>1
            <4>3. PICK k \in DOMAIN file.blocks : TRUE BY <4>1 DEF ToSet
            <4>4. 1 \in DOMAIN file.blocks /\ (Len(file.blocks) > 1 => 2 \in DOMAIN file.blocks)
                BY <4>2, <4>3
            <4> QED BY <4>1, <4>4 DEF FirstBlock, Counted
        <3> QED BY <3>1, <3>2 DEF Numbering, CountedFirst
    <2> QED BY <2>2, <2>3
<1>7. AbsoluteFirst
    <2> SUFFICES ASSUME NEW f \in Names, meant[f].ours, NEW k \in DOMAIN disk[f].blocks PROVE FALSE
        BY DEF AbsoluteFirst
    <2>1. disk[f].blocks = <<>> BY <1>6
    <2> QED BY <2>1
<1>8. SectorsByNumber BY <1>6 DEF SectorsByNumber
<1> QED BY <1>4, <1>5, <1>6, <1>7, <1>8 DEF CountInv

\* Files that nothing is written to are as good as before.
LEMMA FilesStay ==
    ASSUME CountInv, UNCHANGED Files, pc \notin {"copy", "close"} \/ UNCHANGED <<pc, job>>
    PROVE  Results' /\ FilesTyped'
<1>1. disk' = disk /\ meant' = meant BY DEF Files
<1>2. ASSUME NEW f \in Names PROVE Numbering(f)'
    <2>1. Open(f) => Open(f)' BY DEF Open
    <2> QED BY <1>1, <2>1 DEF CountInv, Numbering
<1>3. AbsoluteFirst' BY <1>1 DEF CountInv, AbsoluteFirst
<1>4. SectorsByNumber' BY <1>1 DEF CountInv, SectorsByNumber
<1>5. FilesTyped' BY <1>1 DEF CountInv, Typed, FilesTyped
<1> QED BY <1>2, <1>3, <1>4, <1>5 DEF Results

\* Behind a command nothing is being written.
LEMMA NothingWritten ==
    ASSUME CountInv, UNCHANGED Files, pc \notin {"copy", "close"},
           pc' \in {"idle", "map", "mapped", "read"}, Typed'
    PROVE  CountInv'
<1>1. Converting' /\ Combining' BY DEF Converting, Combining
<1> QED BY <1>1, FilesStay DEF CountInv, Results

\* The blocks of a flash binary are in the sectors of their numbers.
BySector(B) ==
    \A b, c \in {b \in ToSet(B) : ~b.abs} :
        (SectorOf(b.target_addr) = SectorOf(c.target_addr))
            <=> (b.block_no \div SectorPages = c.block_no \div SectorPages)

\* Only the output is written to, and nothing is meant by it yet.
LEMMA OutputWritten ==
    ASSUME CountInv, NEW t \in Names, NEW B \in Seq(Blocks),
           disk' = [disk EXCEPT ![t].blocks = B], t = job.to,
           \A f \in Names : f # t => meant'[f] = meant[f],
           DOMAIN meant' = Names,
           Numbering(t)', meant'[t].ours, \A k \in 1..Len(B) : B[k].abs => k = 1,
           meant'[t].grouped => BySector(B)
    PROVE  /\ Results' /\ FilesTyped'
           /\ disk'[t].blocks = B
           /\ \A f \in Names : f # t => disk'[f] = disk[f]
<1>1. disk \in [Names -> FileSet] BY DEF CountInv, Typed, FilesTyped
<1>2. /\ disk' = [disk EXCEPT ![t] = [disk[t] EXCEPT !.blocks = B]]
      /\ disk[t] \in FileSet
    BY <1>1
<1>3. /\ \A f \in Names : f # t => disk'[f] = disk[f]
      /\ disk'[t] = [disk[t] EXCEPT !.blocks = B]
    BY <1>1, <1>2
<1>4. disk'[t].blocks = B /\ disk'[t].segs = disk[t].segs /\ disk'[t].type = disk[t].type
      /\ disk'[t] \in FileSet
    <2>1. PICK d \in FileSet : d = disk[t] BY <1>2
    <2>2. PICK e : e = [d EXCEPT !.blocks = B] OBVIOUS
    <2>3. e.blocks = B /\ e.segs = d.segs /\ e.type = d.type /\ e \in FileSet
        BY ONLY <2>2, B \in Seq(Blocks), d \in FileSet DEF FileSet
    <2> QED BY <1>3, <2>1, <2>2, <2>3
<1>5. FilesTyped'
    <2>1. disk' \in [Names -> FileSet] BY <1>1, <1>2, <1>4
    <2>2. ASSUME NEW f \in Names, disk'[f].type = "bin" PROVE Len(disk'[f].segs) = 1
        <3>1. disk[f].type = "bin" => Len(disk[f].segs) = 1 BY DEF CountInv, Typed, FilesTyped
        <3>2. disk'[f].type = disk[f].type /\ disk'[f].segs = disk[f].segs BY <1>3, <1>4
        <3> QED BY <2>2, <3>1, <3>2
    <2> QED BY <2>1, <2>2 DEF FilesTyped
<1>6. ASSUME NEW f \in Names PROVE Numbering(f)'
    <2>1. CASE f = t BY <2>1
    <2>2. CASE f # t
        <3>1. disk'[f] = disk[f] /\ meant'[f] = meant[f] BY <1>3, <2>2
        <3>2. Numbering(f) /\ ~Open(f) BY <2>2 DEF CountInv, Open
        <3> QED BY <3>1, <3>2 DEF Numbering
    <2> QED BY <2>1, <2>2
<1>7. AbsoluteFirst'
    <2> SUFFICES ASSUME NEW f \in Names, meant'[f].ours, NEW k \in DOMAIN disk'[f].blocks,
                        disk'[f].blocks[k].abs
                 PROVE  k = 1
        BY DEF AbsoluteFirst, check_abs_block
    <2>1. CASE f = t
        <3>1. k \in 1..Len(B) /\ B[k].abs BY <1>4, <2>1
        <3> QED BY <3>1
    <2>2. CASE f # t
        <3>1. disk'[f] = disk[f] /\ meant'[f] = meant[f] BY <1>3, <2>2
        <3> QED BY <3>1 DEF CountInv, AbsoluteFirst, check_abs_block
    <2> QED BY <2>1, <2>2
<1>8. SectorsByNumber'
    <2> SUFFICES ASSUME NEW f \in Names, meant'[f].grouped PROVE BySector(disk'[f].blocks)
        BY DEF SectorsByNumber, BySector
    <2>1. CASE f = t BY <1>4, <2>1
    <2>2. CASE f # t
        <3>1. disk'[f] = disk[f] /\ meant'[f] = meant[f] BY <1>3, <2>2
        <3>2. meant[f].grouped => BySector(disk[f].blocks)
            BY DEF CountInv, SectorsByNumber, BySector
        <3> QED BY <3>1, <3>2
    <2> QED BY <2>1, <2>2
<1> QED BY <1>3, <1>4, <1>5, <1>6, <1>7, <1>8 DEF Results

LEMMA NoPages ==
    ASSUME pages' = EmptyMap
    PROVE  PagesTyped'
<1>1. DOMAIN pages' = {} /\ pages' \in [{} -> Seq(Fragments)] BY DEF EmptyMap
<1>2. IsFiniteSet({}) BY FS_EmptySet
<1> QED BY <1>1, <1>2 DEF PagesTyped

\* A command begins.
LEMMA Starts ==
    ASSUME CountInv, NEW op \in {"convert", "combine", "info", "read"}, NEW from, NEW to, NEW o,
           Start(op, from, to, o)
    PROVE  /\ DOMAIN job' = JobFields /\ job'.ok
           /\ job'.op = op /\ job'.from = from /\ job'.to = to /\ job'.o = o /\ job'.part = 1
           /\ job'.n \in [DOMAIN MaxCommands -> Nat]
           /\ pages' = EmptyMap /\ PagesTyped'
           /\ num_blocks' = 0 /\ block_no' = 0 /\ pos' = 1
<1> PICK D : D = DOMAIN MaxCommands OBVIOUS
<1> PICK kind : kind = IF op = "info" THEN "read" ELSE op OBVIOUS
<1>1. D = {"convert", "combine", "read"} BY OptionsAssumption
<1>2. kind \in D BY <1>1
<1> PICK n : n = [job.n EXCEPT ![kind] = @ + 1] OBVIOUS
<1>3. n \in [D -> Nat]
    <2>1. job.n \in [D -> Nat] BY DEF CountInv, Typed
    <2> QED BY <1>2, <2>1
<1>4. job' = [NoJob EXCEPT !.op = op, !.from = from, !.to = to, !.o = o, !.part = 1, !.n = n]
    BY DEF Start
<1>5. job' = [op |-> op, from |-> from, to |-> to, o |-> o, part |-> 1, n |-> n, ok |-> TRUE]
    BY <1>4 DEF NoJob
<1>6. pages' = EmptyMap /\ num_blocks' = 0 /\ block_no' = 0 /\ pos' = 1 BY DEF Start
<1> QED BY <1>3, <1>5, <1>6, NoPages DEF JobFields

\* The rest of the types, when a command begins.
LEMMA StartTyped ==
    ASSUME CountInv, NEW op \in {"convert", "combine", "info", "read"}, NEW from, NEW to, NEW o,
           Start(op, from, to, o), FilesTyped', segments' \in Seq(Segments),
           pc' \in {"bin", "type", "count", "read", "map"}
    PROVE  Typed'
<1>1. /\ DOMAIN job' = JobFields /\ job'.op = op /\ job'.part = 1
      /\ job'.n \in [DOMAIN MaxCommands -> Nat] /\ PagesTyped'
      /\ num_blocks' = 0 /\ block_no' = 0 /\ pos' = 1
    BY Starts
<1>2. 1 \in 0..2 /\ 0 \in Nat /\ 1 \in Nat \ {0} OBVIOUS
<1>3. job'.op \in {"", "convert", "combine", "info", "read"} BY <1>1
<1> QED BY <1>1, <1>2, <1>3 DEF Typed

LEMMA StartReadCounts ==
    ASSUME CountInv, NEW op \in {"info", "read"}, NEW f \in Names, NEW offset,
           StartRead(op, f, offset)
    PROVE  CountInv'
<1>1. /\ Start(op, <<f>>, "", [offset |-> offset]) /\ UNCHANGED <<Files, segments>>
      /\ pc' \in {"read", "map"} /\ pc = "idle"
    BY DEF StartRead, Start
<1>2. FilesTyped' BY <1>1, FilesStay
<1>3. segments' \in Seq(Segments) BY <1>1 DEF CountInv, Typed
<1>4. pc' \in {"bin", "type", "count", "read", "map"} BY <1>1
<1>5. Typed' BY <1>1, <1>2, <1>3, <1>4, StartTyped
<1>6. pc' \in {"idle", "map", "mapped", "read"} BY <1>1
<1> QED BY <1>1, <1>5, <1>6, NothingWritten

\* The output of a command is empty and nothing is meant by it.
LEMMA OutputOpened ==
    ASSUME CountInv, NEW op \in {"convert", "combine"}, NEW from, NEW t \in Names, NEW o,
           NEW numbered, StartWriting(op, from, t, o, numbered)
    PROVE  /\ Results' /\ FilesTyped'
           /\ disk'[t] = Uf2File(<<>>) /\ disk'[t].blocks = <<>> /\ disk'[t].segs = <<>>
           /\ Begun(meant'[t]) /\ meant'[t].numbered = numbered
           /\ \A f \in Names : f # t => disk'[f] = disk[f] /\ meant'[f] = meant[f]
<1>m. PICK m : m = [NoMeaning EXCEPT !.numbered = numbered] OBVIOUS
<1>1. /\ disk' = [disk EXCEPT ![t] = Uf2File(<<>>)] /\ meant' = [meant EXCEPT ![t] = m]
      /\ pc = "idle"
    BY <1>m DEF StartWriting, Start
<1>2. /\ disk \in [Names -> FileSet] /\ DOMAIN meant = Names
      /\ \A f \in Names : disk[f].type = "bin" => Len(disk[f].segs) = 1
    BY DEF CountInv, Typed, FilesTyped
<1>3. Uf2File(<<>>) = [type |-> "uf2", entry |-> 0, segs |-> <<>>, blocks |-> <<>>] BY DEF Uf2File
<1>4. /\ Uf2File(<<>>) \in FileSet /\ Uf2File(<<>>).type = "uf2" /\ Uf2File(<<>>).blocks = <<>>
      /\ Uf2File(<<>>).segs = <<>>
    <2> PICK e : e = <<>> OBVIOUS
    <2>1. e \in Seq(Segments) /\ e \in Seq(Blocks) OBVIOUS
    <2>2. [type |-> "uf2", entry |-> 0, segs |-> e, blocks |-> e] \in FileSet BY <2>1 DEF FileSet
    <2> QED BY <1>3, <2>2
<1>5. disk' \in [Names -> FileSet] BY <1>1, <1>2, <1>4
<1>6. /\ disk'[t] = Uf2File(<<>>) /\ meant'[t] = m /\ DOMAIN meant' = Names
      /\ \A f \in Names : f # t => disk'[f] = disk[f] /\ meant'[f] = meant[f]
    BY <1>1, <1>2
<1>7. FilesTyped'
    <2>1. ASSUME NEW f \in Names, disk'[f].type = "bin" PROVE Len(disk'[f].segs) = 1
        <3>1. f # t BY <1>4, <1>6, <2>1
        <3> QED BY <1>2, <1>6, <2>1, <3>1
    <2> QED BY <1>5, <1>6, <2>1 DEF FilesTyped
<1>8. ~m.complete /\ ~m.grouped /\ m.numbered = numbered /\ Begun(m) BY <1>m DEF NoMeaning, Begun
<1>9. ASSUME NEW f \in Names PROVE Numbering(f)'
    <2>1. CASE f = t
        <3>b. PICK B : B = disk'[f].blocks OBVIOUS
        <3>1. B = <<>> BY <1>4, <1>6, <2>1, <3>b
        <3>2. Counted(B) = {} BY <3>1 DEF Counted
        <3>3. NumberedFrom0(B) /\ ~AllThere(B) /\ CountedFirst(B)
            BY <3>1, <3>2 DEF NumberedFrom0, AllThere, CountedFirst
        <3> QED BY <1>6, <1>8, <2>1, <3>3, <3>b DEF Numbering
    <2>2. CASE f # t
        <3>1. Numbering(f) /\ ~Open(f) BY <1>1 DEF CountInv, Open
        <3> QED BY <1>6, <2>2, <3>1 DEF Numbering
    <2> QED BY <2>1, <2>2
<1>10. AbsoluteFirst'
    <2> SUFFICES ASSUME NEW f \in Names, meant'[f].ours, NEW k \in DOMAIN disk'[f].blocks,
                        disk'[f].blocks[k].abs
                 PROVE  k = 1
        BY DEF AbsoluteFirst, check_abs_block
    <2>1. f # t
        <3> SUFFICES ASSUME f = t PROVE FALSE OBVIOUS
        <3>1. disk'[f].blocks = <<>> BY <1>4, <1>6
        <3> QED BY <3>1
    <2> QED BY <1>6, <2>1 DEF CountInv, AbsoluteFirst, check_abs_block
<1>11. SectorsByNumber'
    <2> SUFFICES ASSUME NEW f \in Names, meant'[f].grouped
                 PROVE  \A b, c \in {b \in ToSet(disk'[f].blocks) : ~b.abs} :
                          (SectorOf(b.target_addr) = SectorOf(c.target_addr))
                              <=> (b.block_no \div SectorPages = c.block_no \div SectorPages)
        BY DEF SectorsByNumber
    <2>1. f # t BY <1>6, <1>8
    <2> QED BY <1>6, <2>1 DEF CountInv, SectorsByNumber
<1> QED BY <1>4, <1>6, <1>7, <1>8, <1>9, <1>10, <1>11 DEF Results

LEMMA StartConvertCounts ==
    ASSUME CountInv, NEW f \in Names, NEW t \in Names, NEW o \in ConvertOptions,
           StartConvert(f, t, o)
    PROVE  CountInv'
<1>1. /\ disk[f].type \in {"elf", "bin"}
      /\ StartWriting("convert", <<f>>, t, o, TRUE)
      /\ segments' = disk'[f].segs /\ family_id' = o.family
      /\ pc' = IF disk[f].type = "bin" THEN "bin" ELSE "type"
    BY ONLY StartConvert(f, t, o) DEF StartConvert
<1>3. Start("convert", <<f>>, t, o) BY <1>1 DEF StartWriting
<1>4. /\ Results' /\ FilesTyped' /\ disk'[t].blocks = <<>> /\ disk'[t].segs = <<>>
      /\ Begun(meant'[t]) /\ (f # t => disk'[f] = disk[f])
    <2>1. PICK op, from, numbered : op = "convert" /\ from = <<f>> /\ numbered = TRUE OBVIOUS
    <2>2. op \in {"convert", "combine"} BY <2>1
    <2>3. StartWriting(op, from, t, o, numbered) BY ONLY <1>1, <2>1, Zenon
    <2>4. /\ Results' /\ FilesTyped'
          /\ disk'[t] = Uf2File(<<>>) /\ disk'[t].blocks = <<>> /\ disk'[t].segs = <<>>
          /\ Begun(meant'[t]) /\ meant'[t].numbered = numbered
          /\ \A g \in Names : g # t => disk'[g] = disk[g] /\ meant'[g] = meant[g]
        BY ONLY CountInv, t \in Names, <2>2, <2>3, OutputOpened
    <2> QED BY <2>4
<1>5. segments' \in Seq(Segments)
    <2>1. disk'[f] \in FileSet BY <1>4 DEF FilesTyped
    <2> QED BY <1>1, <2>1 DEF FileSet
<1>6. Typed' BY <1>1, <1>3, <1>4, <1>5, StartTyped
<1>7. /\ job'.op = "convert" /\ job'.from = <<f>> /\ job'.to = t /\ job'.o = o /\ job'.part = 1
      /\ pages' = EmptyMap /\ num_blocks' = 0 /\ block_no' = 0 /\ pos' = 1
    BY <1>3, Starts
<1>8. /\ Input' = disk'[f] /\ job'.from \in [1..1 -> Names] /\ job'.from[1] = f
      /\ f # t => Input' = disk[f]
    BY <1>4, <1>7 DEF Input
<1>9. Converting'
    <2>1. f = t => Input'.segs = <<>> BY <1>4, <1>8
    <2>2. pc' = "bin" => disk[f].type = "bin" BY <1>1
    <2>3. pc' = "type" => disk[f].type = "elf" BY <1>1
    <2>4. pc' \in {"bin", "type"} BY <1>1
    <2>5. segments' = Input'.segs /\ family_id' = o.family BY <1>1, <1>8
    <2>6. Output' = <<>> BY <1>4, <1>7 DEF Output
    <2> QED BY <1>4, <1>7, <1>8, <2>1, <2>2, <2>3, <2>4, <2>5, <2>6 DEF Converting
<1>10. Combining' BY <1>1 DEF Combining
<1> QED BY <1>4, <1>6, <1>9, <1>10 DEF CountInv, Results

LEMMA StartCombineCounts ==
    ASSUME CountInv, NEW f \in Names, NEW g \in Names, NEW t \in Names, NEW o \in CombineOptions,
           StartCombine(f, g, t, o)
    PROVE  CountInv'
<1>n. PICK numbered : numbered = (meant[f].numbered /\ meant[g].numbered) OBVIOUS
<1>1. /\ StartWriting("combine", <<f, g>>, t, o, numbered)
      /\ pc' = "count" /\ family_id' = o.family /\ UNCHANGED segments
    BY <1>n DEF StartCombine
<1>3. Start("combine", <<f, g>>, t, o) BY <1>1 DEF StartWriting
<1>4. /\ Results' /\ FilesTyped' /\ disk'[t].blocks = <<>> /\ Begun(meant'[t])
      /\ meant'[t].numbered = numbered
      /\ \A h \in Names : h # t => meant'[h] = meant[h]
    BY <1>1, OutputOpened
<1>5. segments' \in Seq(Segments) BY <1>1 DEF CountInv, Typed
<1>6. Typed' BY <1>1, <1>3, <1>4, <1>5, StartTyped
<1>7. /\ job'.op = "combine" /\ job'.from = <<f, g>> /\ job'.to = t /\ job'.o = o /\ job'.part = 1
      /\ num_blocks' = 0 /\ block_no' = 0 /\ pos' = 1
    BY <1>3, Starts
<1>8. o \in CombineSet /\ o.family \in Nat BY OptionsAssumption DEF CombineSet
<1>9. job'.from \in [1..2 -> Names] /\ job'.from[1] = f /\ job'.from[2] = g BY <1>7
<1>10. Combining'
    <2>1. t # f /\ t # g => (meant'[t].numbered => meant'[f].numbered /\ meant'[g].numbered)
        BY <1>4, <1>n
    <2>2. Output' = <<>> BY <1>4, <1>7 DEF Output
    <2> QED BY <1>1, <1>4, <1>7, <1>8, <1>9, <2>1, <2>2 DEF Combining
<1>11. Converting' BY <1>1 DEF Converting
<1> QED BY <1>4, <1>6, <1>10, <1>11 DEF CountInv, Results

\* A command ends before it wrote anything.
LEMMA FailCounts ==
    ASSUME CountInv, Fail, pc \notin {"copy", "close"}
    PROVE  CountInv'
<1>1. pc' = "idle" /\ job' = [job EXCEPT !.ok = FALSE]
      /\ UNCHANGED <<Files, segments, pages, num_blocks, block_no, pos>>
    BY DEF Fail, Writing, Reading
<1>2. DOMAIN job = JobFields BY DEF CountInv, Typed
<1>3. /\ DOMAIN job' = JobFields /\ job'.op = job.op /\ job'.part = job.part /\ job'.n = job.n
    BY <1>1, <1>2 DEF JobFields
<1>4. FilesTyped' BY <1>1, FilesStay
<1>5. PagesTyped' BY <1>1 DEF CountInv, Typed, PagesTyped
<1>6. Typed' BY <1>1, <1>3, <1>4, <1>5 DEF CountInv, Typed
<1> QED BY <1>1, <1>6, NothingWritten

\* Reading a file writes to none.
LEMMA ReadingCounts ==
    ASSUME CountInv, UNCHANGED Files, UNCHANGED Writing, pc \in {"map", "mapped", "read"},
           pc' \in {"idle", "map", "mapped", "read"},
           pos' \in Nat \ {0}, DOMAIN job' = JobFields, job'.op = job.op,
           job'.part \in 0..2, job'.n = job.n
    PROVE  CountInv'
<1>1. UNCHANGED <<segments, pages, num_blocks, block_no>> BY DEF Writing
<1>2. FilesTyped' BY FilesStay
<1>3. PagesTyped' BY <1>1 DEF CountInv, Typed, PagesTyped
<1>4. job'.op \in {"", "convert", "combine", "info", "read"} /\ job'.n \in [DOMAIN MaxCommands -> Nat]
    BY DEF CountInv, Typed
<1>5. num_blocks' \in Nat /\ block_no' \in Nat /\ segments' \in Seq(Segments)
    BY <1>1 DEF CountInv, Typed
<1>6. Typed' BY <1>2, <1>3, <1>4, <1>5 DEF Typed
<1> QED BY <1>6, NothingWritten

LEMMA ReadsCount ==
    ASSUME CountInv,
           MapFile \/ build_rmap_uf2 \/ ReadFirst \/ ReadFamilies \/ ShowFamily
    PROVE  CountInv'
<1>1. /\ DOMAIN job = JobFields /\ job.part \in 0..2 /\ pos \in Nat \ {0}
    BY DEF CountInv, Typed
<1>2. pos + 1 \in Nat \ {0} /\ 1 \in Nat \ {0} /\ 2 \in 0..2 BY <1>1
<1>3. CASE MapFile
    <2>1. /\ UNCHANGED <<Files, Writing, job, pos>> /\ pc = "map" /\ pc' = "mapped"
        BY <1>3 DEF MapFile
    <2> QED BY <1>1, <2>1, ReadingCounts
<1>4. CASE build_rmap_uf2
    <2>1. /\ UNCHANGED <<Files, Writing, job>> /\ pc = "read" /\ pc' = "read" /\ pos' = pos + 1
        BY <1>4 DEF build_rmap_uf2
    <2> QED BY <1>1, <1>2, <2>1, ReadingCounts
<1>5. CASE ReadFirst
    <2>1. /\ UNCHANGED <<Files, Writing, job, pos>> /\ pc \in {"read", "mapped"} /\ pc' = "idle"
        BY <1>5 DEF ReadFirst
    <2> QED BY <1>1, <2>1, ReadingCounts
<1>6. CASE ReadFamilies
    <2>1. /\ UNCHANGED <<Files, Writing>> /\ pc = "read" /\ pc' = "read" /\ pos' = 1
          /\ job' = [job EXCEPT !.part = 2, !.from = Append(@, Head(@))]
        BY <1>6 DEF ReadFamilies
    <2>2. DOMAIN job' = JobFields /\ job'.op = job.op /\ job'.part = 2 /\ job'.n = job.n
        BY <1>1, <2>1 DEF JobFields
    <2> QED BY <1>2, <2>1, <2>2, ReadingCounts
<1>7. CASE ShowFamily
    <2>1. /\ UNCHANGED <<Files, Writing, job>> /\ pc = "read" /\ pc' \in {"idle", "read"}
          /\ pos' \in {pos, 1}
        BY <1>7 DEF ShowFamily
    <2> QED BY <1>1, <1>2, <2>1, ReadingCounts
<1> QED BY <1>3, <1>4, <1>5, <1>6, <1>7

\* What is given while the file is being converted.
LEMMA WhileConverting ==
    ASSUME CountInv,
           pc \in {"bin", "type", "segments", "absolute", "page"} \/ (pc = "close" /\ job.op = "convert")
    PROVE  /\ job.from[1] \in Names /\ job.to \in Names
           /\ pc \notin {"bin", "type"} => job.to # job.from[1]
           /\ job.to = job.from[1] => Input.segs = <<>>
           /\ Input = disk[job.from[1]] /\ Input \in FileSet /\ disk[job.to] \in FileSet
           /\ job.o \in ConvertOptions /\ job.o.family \in Nat \ {0}
           /\ job.o.offset \in Nat \union {NotSet} /\ family_id = job.o.family
           /\ Begun(meant[job.to])
<1>1. /\ job.part = 1 /\ job.from \in [1..1 -> Names] /\ job.to \in Names
      /\ job.to = job.from[1] => pc \in {"bin", "type"} /\ Input.segs = <<>>
      /\ job.o \in ConvertOptions /\ family_id = job.o.family /\ Begun(meant[job.to])
    BY DEF CountInv, Converting
<1>2. 1 \in 1..1 OBVIOUS
<1>3. job.from[1] \in Names BY <1>1, <1>2
<1>4. disk \in [Names -> FileSet] BY DEF CountInv, Typed, FilesTyped
<1>5. job.o.family \in Nat \ {0} /\ job.o.offset \in Nat \union {NotSet}
    BY <1>1, OptionsAssumption
<1> QED BY <1>1, <1>3, <1>4, <1>5 DEF Input

\* Before the first block is written.
LEMMA NothingYet ==
    ASSUME CountInv, pc \in {"bin", "type", "segments"}, PagesTyped', segments' \in Seq(Segments),
           UNCHANGED <<Files, job, num_blocks, block_no, pos, family_id>>,
           pc' \in {"segments", "absolute"}, job.to # job.from[1],
           pc' = "segments" => Input.type = "elf",
           pc' = "absolute" => DOMAIN pages' # {},
           pc' = "segments" /\ ~RamStyle(Input, job.o.chip) =>
               DOMAIN pages' \subseteq {PageOf(a) : a \in flash_start..(flash_end - 1)},
           pc' = "absolute" /\ WillBeGrouped => Full(DOMAIN pages')
    PROVE  CountInv'
<1>1. Results' /\ FilesTyped' BY FilesStay
<1>2. UNCHANGED <<disk, meant, job, num_blocks, block_no, pos, family_id>> BY DEF Files
<1>3. Typed' BY <1>1, <1>2 DEF CountInv, Typed
<1>4. Input' = Input /\ Output' = Output BY <1>2 DEF Input, Output
<1>5. RamStyle(Input, job.o.chip)' = RamStyle(Input, job.o.chip)
    BY <1>2, <1>4
<1>6. WillBeGrouped' = WillBeGrouped BY <1>2, <1>4, <1>5 DEF WillBeGrouped
<1>7. /\ job.op = "convert" /\ job.part = 1 /\ job.from \in [1..1 -> Names]
      /\ job.to \in Names
      /\ job.o \in ConvertOptions /\ family_id = job.o.family
      /\ Begun(meant[job.to])
      /\ Output = <<>> /\ block_no = 0
    BY DEF CountInv, Converting
<1>8. Converting' BY <1>2, <1>4, <1>5, <1>6, <1>7 DEF Converting
<1>9. Combining' BY DEF Combining
<1> QED BY <1>1, <1>3, <1>8, <1>9 DEF CountInv, Results

(***************************************************************************)
(* The pages of a flash binary                                             *)
(***************************************************************************)
LEMMA LowestIsMin ==
    ASSUME NEW S \in SUBSET Nat, S # {}
    PROVE  Min(S) \in S /\ \A y \in S : Min(S) <= y
BY Least DEF Min

LEMMA SizesTyped == PageSize \in Nat \ {0} /\ SectorPages \in Nat \ {0} /\ SectorSize \in Nat \ {0}
<1>1. PageSize \in Nat \ {0} /\ SectorPages \in Nat \ {0} BY SizesAssumption
<1>2. \A w, s \in Nat \ {0} : w * s \in Nat \ {0} OBVIOUS
<1> QED BY <1>1, <1>2 DEF SectorSize

LEMMA Distributes ==
    ASSUME NEW d \in Int, NEW q \in Int, NEW c \in Int
    PROVE  d * (q + c) = (d * q) + (d * c)
OBVIOUS

LEMMA QuotientsFurther ==
    ASSUME NEW d \in Nat \ {0}, NEW a \in Int, NEW c \in Int
    PROVE  /\ (a + (d * c)) \div d = (a \div d) + c
           /\ (a + (d * c)) % d = a % d
<1>9. d * c \in Int OBVIOUS
<1> PICK q \in Int : q = a \div d BY DivisionOf
<1> PICK r \in 0..(d - 1) : r = a % d BY DivisionOf
<1>1. a = (d * q) + r BY DivisionOf
<1>0. d \in Int /\ q \in Int /\ c \in Int OBVIOUS
<1>2. d * (q + c) = (d * q) + (d * c) BY <1>0, Distributes, Zenon
<1>3. d * q \in Int OBVIOUS
<1>4. a + (d * c) = (d * (q + c)) + r BY <1>9, <1>1, <1>2, <1>3
<1>5. q + c \in Int OBVIOUS
<1> PICK b \in Int : b = a + (d * c) BY <1>9
<1>7. /\ ((d * (q + c)) + r) \div d = q + c
      /\ ((d * (q + c)) + r) % d = r
    BY <1>5, QuotientOf, RemainderOf, Zenon
<1>6. b \div d = q + c /\ b % d = r BY <1>4, <1>7, Zenon
<1> QED BY <1>6

LEMMA Difference ==
    ASSUME NEW d \in Int, NEW u \in Int, NEW v \in Int
    PROVE  \A x, y \in Int : x = d * v /\ y = d * u => x - y = d * (v - u)
<1>1. (d * v) - (d * u) = d * (v - u) OBVIOUS
<1> QED BY <1>1

\* c sectors, of s pages of w bytes, further on.
LEMMA SectorsFurther ==
    ASSUME NEW w \in Nat \ {0}, NEW s \in Nat \ {0}, NEW a \in Int, NEW c \in Int
    PROVE  /\ (a + ((w * s) * c)) \div (w * s) = (a \div (w * s)) + c
           /\ (a + ((w * s) * c)) % (w * s) = a % (w * s)
           /\ (a + ((w * s) * c)) % w = a % w
<1> PICK d \in Nat \ {0} : d = w * s
    <2>1. w * s \in Nat \ {0} OBVIOUS
    <2> QED BY <2>1
<1>1. d * c \in Int OBVIOUS
<1>2. /\ (a + (d * c)) \div d = (a \div d) + c
      /\ (a + (d * c)) % d = a % d
    BY QuotientsFurther
<1>3. (a + (d * c)) % w = a % w
    <2> PICK q \in Int : q = a \div w BY DivisionOf
    <2> PICK r \in 0..(w - 1) : r = a % w BY DivisionOf
    <2> PICK e \in Int : e = s * c OBVIOUS
    <2>1. a = (w * q) + r BY DivisionOf
    <2>2. (w * s) * c = w * e OBVIOUS
    <2>0. w \in Int /\ q \in Int /\ e \in Int OBVIOUS
    <2>3. w * (q + e) = (w * q) + (w * e) BY ONLY <2>0, Distributes, Zenon
    <2>4. w * q \in Int /\ w * e \in Int /\ q + e \in Int OBVIOUS
    <2>5. a + (d * c) = (w * (q + e)) + r BY <2>1, <2>2, <2>3, <2>4
    <2> PICK b \in Int : b = a + (d * c) BY <1>1
    <2>7. ((w * (q + e)) + r) % w = r BY <2>4, RemainderOf, Zenon
    <2>6. b % w = r BY <2>5, <2>7, Zenon
    <2> QED BY <2>6
<1> QED BY <1>2, <1>3

\* Where the sector of x begins.
LEMMA SectorBegins ==
    ASSUME NEW x \in Nat
    PROVE  /\ SectorOf(x) \in Nat
           /\ SectorSize * SectorOf(x) \in Nat /\ SectorSize * SectorOf(x) <= x
           /\ (SectorSize * SectorOf(x)) % PageSize = 0
           /\ (SectorSize * SectorOf(x)) % SectorSize = 0
           /\ SectorOf(SectorSize * SectorOf(x)) = SectorOf(x)
<1>1. PageSize \in Nat \ {0} /\ SectorPages \in Nat \ {0} /\ SectorSize \in Nat \ {0} BY SizesTyped
<1> PICK d \in Nat \ {0} : d = SectorSize BY <1>1
<1> PICK q \in Int : q = x \div d BY DivisionOf
<1> PICK r \in 0..(d - 1) : r = x % d BY DivisionOf
<1>2. x = (d * q) + r BY DivisionOf
<1>3. d * q \in Int OBVIOUS
<1>4. q >= 0
    <2> SUFFICES ASSUME q <= -1 PROVE FALSE OBVIOUS
    <2>1. d * q <= d * (-1) OBVIOUS
    <2>2. d * (-1) = -d OBVIOUS
    <2> QED BY <1>2, <1>3, <2>1, <2>2
<1>5. d * q >= 0 BY <1>4
<1>6. ((d * q) + 0) \div d = q /\ ((d * q) + 0) % d = 0
    <2>1. 0 \in 0..(d - 1) OBVIOUS
    <2> QED BY <2>1, QuotientOf, RemainderOf
<1>7. (d * q) + 0 = d * q BY <1>3
<1>8. (d * q) % PageSize = 0
    <2>1. (0 + ((PageSize * SectorPages) * q)) % PageSize = 0 % PageSize
        BY <1>1, SectorsFurther
    <2>2. 0 % PageSize = 0 BY <1>1
    <2>3. 0 + (d * q) = d * q BY <1>3
    <2> QED BY <2>1, <2>2, <2>3 DEF SectorSize
<1> QED BY <1>2, <1>3, <1>4, <1>5, <1>6, <1>7, <1>8 DEF SectorOf

\* Flash begins with a sector.
LEMMA FlashBegins ==
    /\ flash_start \in Nat /\ flash_end \in Nat
    /\ flash_start % PageSize = 0 /\ flash_start = SectorSize * SectorOf(flash_start)
<1>1. flash_start \in Nat /\ flash_end \in Nat /\ flash_start % SectorSize = 0
    BY MemoryAssumption DEF SectorSize
<1> PICK d \in Nat \ {0} : d = SectorSize BY SizesTyped
<1>2. flash_start = (d * (flash_start \div d)) + (flash_start % d) BY <1>1, DivisionOf
<1>3. d * (flash_start \div d) \in Nat /\ (d * (flash_start \div d)) % PageSize = 0
    BY <1>1, SectorBegins DEF SectorOf
<1>4. flash_start = d * (flash_start \div d) BY <1>1, <1>2, <1>3
<1> QED BY <1>1, <1>3, <1>4 DEF SectorOf

\* What is in a sector that has a page in flash is not before it.
LEMMA NotBeforeFlash ==
    ASSUME NEW x \in Nat, NEW p \in Nat, flash_start <= p, SectorOf(x) = SectorOf(p)
    PROVE  flash_start <= x
<1>1. flash_start \in Nat /\ flash_start = SectorSize * SectorOf(flash_start) BY FlashBegins
<1> PICK d \in Nat \ {0} : d = SectorSize BY SizesTyped
<1>2. SectorOf(flash_start) <= SectorOf(p) BY <1>1, QuotientGrows DEF SectorOf
<1>3. /\ SectorOf(flash_start) \in Nat /\ SectorOf(x) \in Nat
      /\ d * SectorOf(x) \in Nat /\ d * SectorOf(x) <= x
    BY <1>1, SectorBegins
<1> PICK u \in Nat : u = SectorOf(flash_start) BY <1>3
<1> PICK v \in Nat : v = SectorOf(x) BY <1>3
<1>4. d * u <= d * v BY <1>2
<1>5. d * u \in Nat OBVIOUS
<1> QED BY <1>1, <1>3, <1>4, <1>5

FlashPages == {PageOf(a) : a \in flash_start..(flash_end - 1)}
LEMMA FlashPagesTyped ==
    /\ FlashPages \subseteq flash_start..(flash_end - 1) /\ IsFiniteSet(FlashPages)
    /\ FlashPages \subseteq Nat
    /\ \A p \in FlashPages : p % PageSize = 0
    /\ \A x \in flash_start..(flash_end - 1) : x % PageSize = 0 => x \in FlashPages
<1>1. flash_start \in Nat /\ flash_end \in Nat /\ flash_start % PageSize = 0 BY FlashBegins
<1>2. ASSUME NEW a \in flash_start..(flash_end - 1)
      PROVE  PageOf(a) \in flash_start..(flash_end - 1) /\ PageOf(a) % PageSize = 0
    <2>1. a \in Nat /\ PageSize \in Nat \ {0} BY <1>1, SizesTyped
    <2>2. PageOf(a) \in Nat /\ PageOf(a) % PageSize = 0 /\ PageOf(a) <= a /\ a < PageOf(a) + PageSize
        BY <2>1, PageOfTyped
    <2>3. ~(PageOf(a) < flash_start)
        <3> SUFFICES ASSUME PageOf(a) < flash_start PROVE FALSE OBVIOUS
        <3>1. flash_start < PageOf(a) + PageSize BY <1>1, <2>1, <2>2
        <3>2. PageOf(flash_start) = PageOf(a)
            BY <1>1, <2>2, <3>1, OnlyPage
        <3>3. PageOf(flash_start) = flash_start BY <1>1, <2>1, OnlyPage
        <3> QED BY <1>1, <2>2, <3>2, <3>3
    <2> QED BY <1>1, <2>1, <2>2, <2>3
<1>3. FlashPages \subseteq flash_start..(flash_end - 1) /\ \A p \in FlashPages : p % PageSize = 0
    BY <1>2 DEF FlashPages
<1>4. IsFiniteSet(FlashPages)
    <2>1. IsFiniteSet(flash_start..(flash_end - 1)) BY <1>1, FS_Interval
    <2> QED BY <1>3, <2>1, FS_Subset
<1>5. ASSUME NEW x \in flash_start..(flash_end - 1), x % PageSize = 0 PROVE x \in FlashPages
    <2>1. x \in Nat /\ PageSize \in Nat \ {0} BY <1>1, SizesTyped
    <2>2. x < x + PageSize /\ x <= x BY <2>1
    <2>3. PageOf(x) = x BY <1>5, <2>1, <2>2, OnlyPage
    <2> QED BY <2>3 DEF FlashPages
<1>6. FlashPages \subseteq Nat BY <1>1, <1>3
<1> QED BY <1>3, <1>4, <1>5, <1>6

\* Padding completes the sectors.
LEMMA PaddedIsFull ==
    ASSUME PagesTyped, DOMAIN pages # {}, DOMAIN pages \subseteq FlashPages
    PROVE  /\ Padded \in [DOMAIN Padded -> Seq(Fragments)]
           /\ IsFiniteSet(DOMAIN Padded) /\ DOMAIN Padded \subseteq Nat /\ DOMAIN Padded # {}
           /\ Full(DOMAIN Padded)
<1> PICK D : D = DOMAIN pages OBVIOUS
<1> PICK P : P = PaddingPages OBVIOUS
<1>1. /\ D \subseteq flash_start..(flash_end - 1) /\ flash_start \in Nat /\ flash_end \in Nat
      /\ D \subseteq Nat /\ IsFiniteSet(D) /\ pages \in [D -> Seq(Fragments)]
    BY FlashPagesTyped, FlashBegins DEF PagesTyped
<1> PICK last : last = Max(D) OBVIOUS
<1>2. last \in D /\ \A p \in D : p <= last
    <2>1. D \in SUBSET (flash_start..(flash_end - 1)) /\ D # {}
          /\ flash_start \in Int /\ flash_end - 1 \in Int BY <1>1
    <2> QED BY <2>1, Largest
<1>3. P = {page \in FlashPages : page < last /\ \E p \in D : SectorOf(p) = SectorOf(page)}
    BY DEF PaddingPages, FlashPages
<1>4. P \subseteq FlashPages /\ P \subseteq Nat /\ IsFiniteSet(P)
    <2>1. P \subseteq FlashPages BY <1>3
    <2> QED BY <2>1, FlashPagesTyped, FS_Subset
<1> PICK new : new = [page \in P |-> <<>>] OBVIOUS
<1>5. new \in [P -> Seq(Fragments)]
    <2>1. <<>> \in Seq(Fragments) OBVIOUS
    <2> QED BY <2>1
<1>6. Padded = Joined(pages, new) BY DEF Padded
<1>7. /\ Padded \in [D \union P -> Seq(Fragments)]
      /\ IsFiniteSet(D \union P) /\ D \union P \subseteq Nat
    BY <1>1, <1>4, <1>5, <1>6, JoinedTyped
<1>8. DOMAIN Padded = D \union P BY <1>7
<1>9. D \union P \subseteq FlashPages BY <1>4
<1>10. \A p \in D \union P : p <= last /\ \E q \in D : SectorOf(q) = SectorOf(p)
    <2>1. last \in Nat BY <1>1, <1>2
    <2>2. ASSUME NEW p \in P PROVE p <= last /\ \E q \in D : SectorOf(q) = SectorOf(p)
        <3>1. p < last /\ \E q \in D : SectorOf(q) = SectorOf(p) BY <1>3
        <3>2. p \in Nat BY <1>4
        <3> QED BY <2>1, <3>1, <3>2
    <2> QED BY <1>2, <2>2
<1>11. ASSUME NEW p \in D \union P, NEW q \in D \union P, NEW x \in Nat,
              x % PageSize = 0, SectorOf(x) = SectorOf(p), x <= q
       PROVE  x \in D \union P
    <2>1. PICK r \in D : SectorOf(r) = SectorOf(p) BY <1>10
    <2>2. r \in Nat /\ flash_start <= r BY <1>1
    <2>3. flash_start <= x BY <1>11, <2>1, <2>2, NotBeforeFlash
    <2>4. q <= last /\ q \in Nat /\ last \in Nat /\ last <= flash_end - 1
        <3>1. q <= last BY <1>10
        <3>2. q \in Nat BY <1>7
        <3>3. last \in flash_start..(flash_end - 1) BY <1>1, <1>2
        <3> QED BY <1>1, <3>1, <3>2, <3>3
    <2>5. x <= last BY <1>11, <2>4
    <2>6. x \in flash_start..(flash_end - 1) BY <1>1, <2>3, <2>4, <2>5
    <2>7. x \in FlashPages BY <1>11, <2>6, FlashPagesTyped
    <2>8. CASE x = last BY <1>2, <2>8
    <2>9. CASE x # last
        <3>1. x < last BY <2>4, <2>5, <2>9
        <3>2. SectorOf(r) = SectorOf(x) BY <1>11, <2>1
        <3>3. x \in P BY <1>3, <2>1, <2>7, <3>1, <3>2
        <3> QED BY <3>3
    <2> QED BY <2>8, <2>9
<1>12. \A p \in D \union P : p % PageSize = 0 BY <1>9, FlashPagesTyped
<1>13. Full(D \union P) BY <1>11, <1>12 DEF Full
<1>14. D \union P # {} BY <1>2
<1> QED BY <1>7, <1>8, <1>13, <1>14

LEMMA SectorMoved ==
    ASSUME NEW a \in Int, NEW c \in Int
    PROVE  /\ SectorOf(a + (SectorSize * c)) = SectorOf(a) + c
           /\ (a + (SectorSize * c)) % PageSize = a % PageSize
           /\ SectorOf(a) \in Int
<1>1. PageSize \in Nat \ {0} /\ SectorPages \in Nat \ {0} /\ SectorSize \in Nat \ {0}
    BY SizesTyped
<1>2. /\ (a + ((PageSize * SectorPages) * c)) \div (PageSize * SectorPages)
           = (a \div (PageSize * SectorPages)) + c
      /\ (a + ((PageSize * SectorPages) * c)) % PageSize = a % PageSize
    <2>1. \A w, s \in Nat \ {0} : /\ (a + ((w * s) * c)) \div (w * s) = (a \div (w * s)) + c
                                 /\ (a + ((w * s) * c)) % w = a % w
        BY SectorsFurther
    <2> QED BY ONLY <1>1, <2>1, Zenon
<1>3. a \div SectorSize \in Int BY <1>1
<1> QED BY <1>2, <1>3 DEF SectorOf, SectorSize

\* Pages that are moved from the sector they begin with to another one.
LEMMA MovedStaysFull ==
    ASSUME NEW S \in SUBSET Nat, S # {}, Full(S), NEW offset \in Nat, offset % SectorSize = 0
    PROVE  Full({p + (offset - Min(S)) : p \in S})
<1> PICK m : m = Min(S) OBVIOUS
<1>1. m \in S /\ m \in Nat /\ \A y \in S : m <= y BY LowestIsMin
<1>s. PageSize \in Nat \ {0} /\ SectorPages \in Nat \ {0} /\ SectorSize \in Nat \ {0}
      /\ SectorSize = PageSize * SectorPages
    BY SizesTyped DEF SectorSize
<1> PICK w \in Nat \ {0} : w = PageSize BY <1>s
<1> PICK d \in Nat \ {0} : d = SectorSize BY <1>s
<1> PICK u \in Nat : u = SectorOf(m) BY <1>1, SectorBegins
<1>2. d * u \in Nat /\ d * u <= m /\ (d * u) % w = 0 /\ SectorOf(d * u) = u
    BY <1>1, SectorBegins
<1>3. d * u \in S BY <1>1, <1>2 DEF Full
<1>4. m = d * u BY <1>1, <1>2, <1>3
<1> PICK v \in Nat : v = SectorOf(offset) BY SectorBegins
<1>5. offset = d * v
    <2>1. offset = (d * (offset \div d)) + (offset % d) BY DivisionOf
    <2>2. d * v \in Nat OBVIOUS
    <2>3. v = offset \div d BY DEF SectorOf
    <2> QED BY <2>1, <2>2, <2>3
<1> PICK by \in Int : by = offset - m BY <1>1
<1> PICK c \in Int : by = SectorSize * c
    <2>1. by = d * (v - u) BY <1>4, <1>5, Difference
    <2>2. v - u \in Int OBVIOUS
    <2> QED BY <2>1, <2>2
<1>7. ASSUME NEW a \in Int
      PROVE  SectorOf(a + by) = SectorOf(a) + c /\ (a + by) % PageSize = a % PageSize
             /\ SectorOf(a) \in Int
    <2>1. /\ SectorOf(a + (SectorSize * c)) = SectorOf(a) + c
          /\ (a + (SectorSize * c)) % PageSize = a % PageSize
          /\ SectorOf(a) \in Int
        BY SectorMoved
    <2>2. a + by = a + (SectorSize * c) OBVIOUS
    <2> QED BY <2>1, <2>2, Zenon
<1> PICK T : T = {p + by : p \in S} OBVIOUS
<1>8. ASSUME NEW t \in T PROVE t % PageSize = 0
    <2>1. PICK p \in S : t = p + by BY <1>8
    <2>2. p % PageSize = 0 /\ p \in Int BY DEF Full
    <2> QED BY <1>7, <2>1, <2>2
<1>9. ASSUME NEW t \in T, NEW last \in T, NEW y \in Nat,
             y % PageSize = 0, SectorOf(y) = SectorOf(t), y <= last
      PROVE  y \in T
    <2>1. PICK p \in S : t = p + by BY <1>9
    <2>2. PICK q \in S : last = q + by BY <1>9
    <2> PICK x \in Int : x = y - by OBVIOUS
    <2>3. y = x + by OBVIOUS
    <2>4. p \in Int /\ p \in Nat /\ q \in Int BY <2>1, <2>2
    <2>5. SectorOf(x + by) = SectorOf(x) + c /\ SectorOf(p + by) = SectorOf(p) + c
          /\ (x + by) % PageSize = x % PageSize
          /\ SectorOf(x) \in Int /\ SectorOf(p) \in Int
        BY <1>7, <2>4
    <2>6. SectorOf(x) = SectorOf(p)
        <3>1. SectorOf(x + by) = SectorOf(p + by) BY <1>9, <2>1, <2>3, Zenon
        <3> PICK i \in Int : i = SectorOf(x) BY <2>5
        <3> PICK j \in Int : j = SectorOf(p) BY <2>5
        <3>2. i + c = j + c BY <2>5, <3>1
        <3>3. \A k, g, h \in Int : k + h = g + h => k = g OBVIOUS
        <3> QED BY <3>2, <3>3, Zenon
    <2>7. x % PageSize = 0 BY <1>9, <2>3, <2>5
    <2>8. x <= q BY <1>9, <2>2, <2>3, <2>4
    <2>9. x \in Nat
        <3> PICK e \in Nat : e = SectorOf(p) BY <2>4, SectorBegins
        <3>1. x = (d * (x \div d)) + (x % d) /\ x % d \in 0..(d - 1) BY DivisionOf
        <3>2. x \div d = e BY <2>6 DEF SectorOf
        <3>3. d * e \in Nat OBVIOUS
        <3> QED BY <3>1, <3>2, <3>3
    <2>10. x \in S BY <2>1, <2>2, <2>6, <2>7, <2>8, <2>9 DEF Full
    <2> QED BY <2>3, <2>10
<1>10. Full(T) BY <1>8, <1>9 DEF Full
<1> QED BY <1>10

(***************************************************************************)
(* uf2 convert                                                             *)
(***************************************************************************)
LEMMA BinCounts ==
    ASSUME CountInv, bin2uf2
    PROVE  CountInv'
<1>1. /\ pc = "bin" /\ segments # <<>> /\ MappedSize(Head(segments)) > 0
      /\ pages' = PagesFor(Head(segments).offset,
                           IF job.o.offset = NotSet THEN flash_start ELSE job.o.offset,
                           MappedSize(Head(segments)))
      /\ pc' = "absolute"
      /\ UNCHANGED <<Files, job, segments, num_blocks, block_no, family_id, pos>>
    BY DEF bin2uf2, Reading
<1>2. /\ Input.type = "bin" /\ segments = Input.segs /\ Input = disk[job.from[1]]
      /\ job.from[1] \in Names /\ job.o.offset \in Nat \union {NotSet} /\ Input \in FileSet
      /\ job.to # job.from[1]
    <2>1. segments = Input.segs BY <1>1 DEF CountInv, Converting
    <2>2. job.to # job.from[1] BY <1>1, <2>1, WhileConverting
    <2>3. Input.type = "bin" BY <1>1, <2>2 DEF CountInv, Converting
    <2> QED BY <1>1, <2>1, <2>2, <2>3, WhileConverting
<1>3. Len(segments) = 1 /\ segments \in Seq(Segments)
    BY <1>2 DEF CountInv, Typed, FilesTyped
<1>4. Head(segments) \in Segments BY <1>3
<1> PICK seg : seg = Head(segments) OBVIOUS
<1>a. PICK addr : addr = IF job.o.offset = NotSet THEN flash_start ELSE job.o.offset OBVIOUS
<1>5. addr \in Nat BY <1>a, <1>2, FlashBegins
<1>6. seg.offset \in Nat /\ MappedSize(seg) \in Nat BY <1>4, MappedSizeTyped DEF Segments
<1> PICK P : P = PagesOf(addr, MappedSize(seg)) OBVIOUS
<1>7. /\ pages' \in [P -> Seq(Fragments)] /\ P \subseteq Nat /\ IsFiniteSet(P) /\ P # {}
    <2> PICK size \in Nat : size = MappedSize(seg) BY <1>6
    <2>1. /\ PagesFor(seg.offset, addr, size) \in [PagesOf(addr, size) -> Seq(Fragments)]
          /\ PagesOf(addr, size) \subseteq Nat /\ IsFiniteSet(PagesOf(addr, size))
          /\ size > 0 => PagesOf(addr, size) # {}
        BY <1>5, <1>6, PagesForTyped, Zenon
    <2>2. size > 0 /\ pages' = PagesFor(seg.offset, addr, size) BY <1>1, <1>a
    <2> QED BY <2>1, <2>2, Zenon
<1>8. DOMAIN pages' = P BY <1>7
<1>9. PagesTyped' BY <1>7, <1>8 DEF PagesTyped
<1>10. ~WillBeGrouped BY <1>2 DEF WillBeGrouped
<1>11. segments' \in Seq(Segments) BY <1>1, <1>3
<1>12. DOMAIN pages' # {} BY <1>7, <1>8
<1> QED BY <1>1, <1>2, <1>9, <1>10, <1>11, <1>12, NothingYet

LEMMA TypeCounts ==
    ASSUME CountInv, rp_determine_binary_type
    PROVE  CountInv'
<1>1. /\ pc = "type" /\ pc' = "segments" /\ DeterminesType(Input, job.o.chip)
      /\ UNCHANGED <<Files, job, segments, pages, num_blocks, block_no, family_id, pos>>
    BY DEF rp_determine_binary_type, Writing, Reading
<1>a. job.to # job.from[1]
    <2>1. DOMAIN Input.segs # {} BY <1>1 DEF DeterminesType, Entered
    <2>2. Input.segs # <<>> BY <2>1
    <2> QED BY <1>1, <2>2, WhileConverting
<1>2. Input.type = "elf" /\ pages = EmptyMap BY <1>1, <1>a DEF CountInv, Converting
<1>3. PagesTyped' BY <1>1 DEF CountInv, Typed, PagesTyped
<1>4. DOMAIN pages' = {} BY <1>1, <1>2 DEF EmptyMap
<1>5. segments' \in Seq(Segments) BY <1>1 DEF CountInv, Typed
<1>6. DOMAIN pages' \subseteq {PageOf(a) : a \in flash_start..(flash_end - 1)} BY <1>4
<1> QED BY <1>1, <1>a, <1>2, <1>3, <1>5, <1>6, NothingYet

LEMMA OneBehindThree ==
    ASSUME NEW S, NEW u \in Seq(S), NEW m \in S, Len(u) = 3
    PROVE  LET r == u \o <<m>>
           IN  DOMAIN r = 1..4 /\ r[1] = u[1] /\ r[2] = u[2] /\ r[3] = u[3] /\ r[4] = m
<1>1. PICK r : r = Append(u, m) OBVIOUS
<1>2. /\ r \in Seq(S) /\ Len(r) = Len(u) + 1
      /\ (\A k \in 1..Len(u) : r[k] = u[k]) /\ r[Len(u) + 1] = m
    <2>1. /\ Append(u, m) \in Seq(S) /\ Len(Append(u, m)) = Len(u) + 1
          /\ (\A k \in 1..Len(u) : Append(u, m)[k] = u[k]) /\ Append(u, m)[Len(u) + 1] = m
        BY ONLY u \in Seq(S), m \in S, AppendProperties
    <2> QED BY ONLY <1>1, <2>1
<1>3. DOMAIN r = 1..4 BY <1>2
<1>4. r = u \o <<m>> BY <1>1, AppendIsConcat
<1>5. 1 \in 1..3 /\ 2 \in 1..3 /\ 3 \in 1..3 /\ 3 + 1 = 4 OBVIOUS
<1> QED BY <1>2, <1>3, <1>4, <1>5

LEMMA ThreeAndOne ==
    ASSUME NEW f, NEW s, NEW x, NEW m
    PROVE  LET r == <<f, s, x>> \o <<m>>
           IN  DOMAIN r = 1..4 /\ r[1] = f /\ r[2] = s /\ r[3] = x /\ r[4] = m
<1>1. PICK S : f \in S /\ s \in S /\ x \in S /\ m \in S
    <2> WITNESS {f, s, x, m}
    <2> QED OBVIOUS
<1>2. <<f, s, x>> \in Seq(S) BY <1>1
<1>3. PICK u \in Seq(S) : u = <<f, s, x>> BY <1>2
<1>4. Len(u) = 3 /\ u[1] = f /\ u[2] = s /\ u[3] = x BY <1>3
<1>5. /\ DOMAIN (u \o <<m>>) = 1..4 /\ (u \o <<m>>)[1] = u[1] /\ (u \o <<m>>)[2] = u[2]
      /\ (u \o <<m>>)[3] = u[3] /\ (u \o <<m>>)[4] = m
    BY ONLY <1>1, <1>4, OneBehindThree, u \in Seq(S)
<1> QED BY <1>3, <1>4, <1>5

\* What is converted to flash is in flash.
LEMMA ContentsInFlash ==
    ASSUME NEW addr \in Nat, NEW size \in Nat, NEW chip,
           TypeOf(address_ranges_flash(chip), addr, size) = "contents"
    PROVE  flash_start <= addr /\ flash_end >= addr + size
<1> PICK ranges : ranges = address_ranges_flash(chip) OBVIOUS
<1>1. /\ DOMAIN ranges \in {1..3, 1..4} /\ ranges[1] = Region(flash_start, flash_end, "contents")
      /\ \A k \in DOMAIN ranges : k = 1 \/ ranges[k].type = "no_contents"
    <2>1. CASE chip = "rp2040"
        <3>f. PICK f : f = Region(flash_start, flash_end, "contents") OBVIOUS
        <3>s. PICK s : s = Region(sram_start, sram_end, "no_contents") OBVIOUS
        <3>x. PICK x : x = Region(xip_sram_start, xip_sram_end, "no_contents") OBVIOUS
        <3>m. PICK m : m = Region(main_ram_banked_start, main_ram_banked_end, "no_contents") OBVIOUS
        <3>1. ranges = <<f, s, x>> \o <<m>> BY <2>1, <3>f, <3>s, <3>x, <3>m DEF address_ranges_flash
        <3>3. DOMAIN ranges = 1..4 /\ ranges[1] = f /\ ranges[2] = s /\ ranges[3] = x /\ ranges[4] = m
            BY <3>1, ThreeAndOne
        <3>4. s.type = "no_contents" /\ x.type = "no_contents" /\ m.type = "no_contents"
            BY <3>s, <3>x, <3>m DEF Region
        <3> QED BY <3>f, <3>3, <3>4
    <2>2. CASE chip # "rp2040"
        <3>f. PICK f : f = Region(flash_start, flash_end, "contents") OBVIOUS
        <3>s. PICK s : s = Region(sram_start, sram_end, "no_contents") OBVIOUS
        <3>x. PICK x : x = Region(xip_sram_start, xip_sram_end, "no_contents") OBVIOUS
        <3>1. ranges = <<f, s, x>> \o <<>> BY <2>2, <3>f, <3>s, <3>x DEF address_ranges_flash
        <3>2. <<f, s, x>> \o <<>> = <<f, s, x>> OBVIOUS
        <3>3. ranges = <<f, s, x>> BY <3>1, <3>2
        <3>4. s.type = "no_contents" /\ x.type = "no_contents" BY <3>s, <3>x DEF Region
        <3> QED BY <3>f, <3>3, <3>4
    <2> QED BY <2>1, <2>2
<1> PICK fits : fits = {k \in DOMAIN ranges : Holds(ranges[k], addr, size)} OBVIOUS
<1>2. fits # {} /\ ranges[Min(fits)].type = "contents" BY DEF TypeOf
<1>3. fits \in SUBSET Nat BY <1>1
<1>4. Min(fits) \in fits BY <1>2, <1>3, LowestIsMin
<1>5. Min(fits) \in DOMAIN ranges BY <1>4
<1>6. Min(fits) = 1 BY <1>1, <1>2, <1>5
<1>7. Holds(ranges[1], addr, size) BY <1>4, <1>6
<1> QED BY <1>1, <1>7 DEF Holds, Region

LEMMA SegmentCounts ==
    ASSUME CountInv, check_elf32_ph_entries
    PROVE  CountInv'
<1> PICK seg : seg = Head(segments) OBVIOUS
<1>1. /\ pc = "segments" /\ segments # <<>> /\ segments' = Tail(segments)
      /\ pages' = IF SegmentType(seg) = "contents" THEN Joined(pages, SegmentPages(seg)) ELSE pages
      /\ UNCHANGED <<Files, job, pc, num_blocks, block_no, family_id, pos>>
    BY DEF check_elf32_ph_entries, Reading
<1>2. /\ Input.type = "elf" /\ job.to # job.from[1]
      /\ ~RamStyle(Input, job.o.chip) => DOMAIN pages \subseteq FlashPages
    BY <1>1 DEF CountInv, Converting, FlashPages
<1>3. segments \in Seq(Segments) /\ PagesTyped BY DEF CountInv, Typed
<1>4. seg \in Segments /\ segments' \in Seq(Segments) BY <1>1, <1>3
<1> PICK size \in Nat : size = MappedSize(seg) BY <1>4, MappedSizeTyped
<1>5. seg.offset \in Nat /\ seg.paddr \in Nat BY <1>4 DEF Segments
<1>6. PagesTyped' /\ (~RamStyle(Input, job.o.chip) => DOMAIN pages' \subseteq FlashPages)
    <2>1. CASE SegmentType(seg) # "contents" BY <1>1, <1>2, <1>3, <2>1 DEF PagesTyped
    <2>2. CASE SegmentType(seg) = "contents"
        <3>1. size # 0 /\ TypeOf(valid_ranges(Input, job.o.chip), seg.paddr, size) = "contents"
            BY <2>2 DEF SegmentType
        <3>2. SegmentPages(seg) = PagesFor(seg.offset, seg.paddr, size) BY <3>1 DEF SegmentPages
        <3> PICK P : P = PagesOf(seg.paddr, size) OBVIOUS
        <3> PICK new : new = SegmentPages(seg) OBVIOUS
        <3>3. new \in [P -> Seq(Fragments)] /\ P \subseteq Nat /\ IsFiniteSet(P)
            <4>1. /\ PagesFor(seg.offset, seg.paddr, size) \in [PagesOf(seg.paddr, size) -> Seq(Fragments)]
                  /\ PagesOf(seg.paddr, size) \subseteq Nat /\ IsFiniteSet(PagesOf(seg.paddr, size))
                BY <1>5, PagesForTyped, Zenon
            <4> QED BY <3>2, <4>1, Zenon
        <3> PICK D : D = DOMAIN pages OBVIOUS
        <3>4. pages \in [D -> Seq(Fragments)] /\ D \subseteq Nat /\ IsFiniteSet(D)
            BY <1>3 DEF PagesTyped
        <3>5. pages' = Joined(pages, new) BY <1>1, <2>2
        <3>6. /\ pages' \in [D \union P -> Seq(Fragments)]
              /\ IsFiniteSet(D \union P) /\ D \union P \subseteq Nat
            BY <3>3, <3>4, <3>5, JoinedTyped
        <3>7. DOMAIN pages' = D \union P BY <3>6
        <3>8. PagesTyped' BY <3>6, <3>7 DEF PagesTyped
        <3>9. ASSUME ~RamStyle(Input, job.o.chip) PROVE P \subseteq FlashPages
            <4>1. TypeOf(address_ranges_flash(job.o.chip), seg.paddr, size) = "contents"
                BY <3>1, <3>9 DEF valid_ranges
            <4>2. flash_start <= seg.paddr /\ flash_end >= seg.paddr + size
                BY <1>5, <4>1, ContentsInFlash
            <4>3. \A a \in seg.paddr..(seg.paddr + size - 1) : a \in flash_start..(flash_end - 1)
                BY <1>5, <4>2, FlashBegins
            <4> QED BY <4>3 DEF PagesOf, FlashPages
        <3> QED BY <1>2, <3>7, <3>8, <3>9
    <2> QED BY <2>1, <2>2
<1>7. DOMAIN pages' \subseteq {PageOf(a) : a \in flash_start..(flash_end - 1)} \/ RamStyle(Input, job.o.chip)
    BY <1>6 DEF FlashPages
<1>8. pc' = "segments" BY <1>1
<1> QED BY <1>1, <1>2, <1>4, <1>6, <1>7, <1>8, NothingYet

LEMMA PlaceCounts ==
    ASSUME CountInv, PlacePages
    PROVE  CountInv'
<1>f. PICK final : final = IF RamStyle(Input, job.o.chip) THEN pages ELSE Padded OBVIOUS
<1>b. PICK by : by = IF job.o.offset = NotSet THEN 0 ELSE job.o.offset - Min(DOMAIN final) OBVIOUS
<1>1. /\ pc = "segments" /\ pages # EmptyMap /\ pc' = "absolute"
      /\ pages' = [page \in {p + by : p \in DOMAIN final} |-> final[page - by]]
      /\ UNCHANGED <<Files, job, segments, num_blocks, block_no, family_id, pos>>
    BY <1>f, <1>b DEF PlacePages, Reading
<1>2. /\ ~RamStyle(Input, job.o.chip) => DOMAIN pages \subseteq FlashPages
      /\ segments' \in Seq(Segments) /\ PagesTyped /\ job.to # job.from[1]
    BY <1>1 DEF CountInv, Converting, Typed, FlashPages
<1>3. job.o.offset \in Nat \union {NotSet} BY <1>1, WhileConverting
<1>4. DOMAIN pages # {}
    <2> SUFFICES ASSUME DOMAIN pages = {} PROVE FALSE OBVIOUS
    <2>1. pages = [a \in {} |-> pages[a]] BY <1>2 DEF PagesTyped
    <2>2. pages = [a \in {} |-> 0] BY <2>1
    <2> QED BY <1>1, <2>2 DEF EmptyMap
<1>d. PICK F : F = DOMAIN final OBVIOUS
<1>5. /\ final \in [F -> Seq(Fragments)] /\ IsFiniteSet(F) /\ F \subseteq Nat /\ F # {}
      /\ ~RamStyle(Input, job.o.chip) => Full(F)
    <2>1. CASE RamStyle(Input, job.o.chip) BY <1>2, <1>4, <1>f, <1>d, <2>1 DEF PagesTyped
    <2>2. CASE ~RamStyle(Input, job.o.chip) BY <1>2, <1>4, <1>f, <1>d, <2>2, PaddedIsFull
    <2> QED BY <2>1, <2>2
<1>m. PICK m : m = Min(F) OBVIOUS
<1>6. m \in F /\ m \in Nat /\ \A p \in F : m <= p BY <1>5, <1>m, LowestIsMin
<1>7. by \in Int /\ \A p \in F : p + by \in Nat
    <2>1. \A p \in F : p \in Nat BY <1>5
    <2>2. CASE job.o.offset = NotSet BY <1>b, <2>1, <2>2
    <2>3. CASE job.o.offset # NotSet
        <3>1. job.o.offset \in Nat /\ by = job.o.offset - m BY <1>3, <1>b, <1>d, <1>m, <2>3
        <3> QED BY <1>6, <2>1, <3>1
    <2> QED BY <2>2, <2>3
<1>p. PICK P : P = {p + by : p \in F} OBVIOUS
<1>8. pages' = [page \in P |-> final[page - by]] BY <1>1, <1>d, <1>p
<1>9. \A page \in P : page - by \in F
    <2> SUFFICES ASSUME NEW page \in P PROVE page - by \in F OBVIOUS
    <2>1. PICK p \in F : page = p + by BY <1>p
    <2>2. p \in Nat /\ page - by = p BY <1>5, <1>7, <2>1
    <2> QED BY <2>2
<1>10. pages' \in [P -> Seq(Fragments)] BY <1>5, <1>8, <1>9
<1>11. P \subseteq Nat /\ P # {} BY <1>5, <1>7, <1>p
<1>12. IsFiniteSet(P)
    <2>g. PICK g : g = [p \in F |-> p + by] OBVIOUS
    <2>1. g \in [F -> P] /\ \A y \in P : \E x \in F : g[x] = y BY <1>p, <2>g
    <2>2. g \in Surjection(F, P) BY <2>1 DEF Surjection
    <2> QED BY <1>5, <2>2, FS_Surjection
<1>13. DOMAIN pages' = P BY <1>8
<1>14. PagesTyped' BY <1>10, <1>11, <1>12, <1>13 DEF PagesTyped
<1>15. ASSUME WillBeGrouped PROVE Full(P)
    <2>1. /\ ~RamStyle(Input, job.o.chip) /\ Full(F)
          /\ job.o.offset = NotSet \/ job.o.offset % SectorSize = 0
        BY <1>5, <1>15 DEF WillBeGrouped
    <2>2. CASE job.o.offset = NotSet
        <3>1. by = 0 BY <1>b, <2>2
        <3>2. \A p \in F : p + by = p BY <1>5, <3>1
        <3>3. P = F BY <1>p, <3>2
        <3> QED BY <2>1, <3>3
    <2>3. CASE job.o.offset # NotSet
        <3>1. job.o.offset \in Nat /\ job.o.offset % SectorSize = 0 BY <1>3, <2>1, <2>3
        <3>2. P = {p + (job.o.offset - Min(F)) : p \in F} BY <1>b, <1>d, <1>p, <2>3
        <3> QED BY <1>5, <2>1, <3>1, <3>2, MovedStaysFull
    <2> QED BY <2>2, <2>3
<1> QED BY <1>1, <1>2, <1>11, <1>13, <1>14, <1>15, NothingYet

(***************************************************************************)
(* Blocks                                                                  *)
(***************************************************************************)
LEMMA BlockTyped ==
    ASSUME NEW addr \in Nat, NEW no \in Nat, NEW total \in Nat, NEW family \in Nat \ {0},
           NEW data \in [0..(PageSize - 1) -> Nat]
    PROVE  /\ Block(addr, no, total, family, data) \in Blocks
           /\ ~Block(addr, no, total, family, data).abs
           /\ Block(addr, no, total, family, data).usable
           /\ Block(addr, no, total, family, data).target_addr = addr
           /\ Block(addr, no, total, family, data).block_no = no
           /\ Block(addr, no, total, family, data).num_blocks = total
           /\ Block(addr, no, total, family, data).file_size = family
           /\ Block(addr, no, total, family, data).data = data
BY DEF Block, Blocks

LEMMA AbsoluteTyped ==
    /\ gen_abs_block(abs_block_loc) \in Blocks /\ gen_abs_block(abs_block_loc).abs
    /\ gen_abs_block(abs_block_loc).num_blocks = 2
<1>z. PICK zeros : zeros = [k \in 0..(PageSize - 1) |-> 0] OBVIOUS
<1>1. zeros \in [0..(PageSize - 1) -> Nat] BY <1>z
<1>2. abs_block_loc \in Nat /\ ABSOLUTE_FAMILY_ID \in Nat \ {0} /\ 0 \in Nat /\ 2 \in Nat
    BY OptionsAssumption
<1>b. PICK b : b = Block(abs_block_loc, 0, 2, ABSOLUTE_FAMILY_ID, zeros) OBVIOUS
<1>3. b \in Blocks /\ b.num_blocks = 2
    <2>1. PICK total : total = 2 OBVIOUS
    <2>2. total \in Nat BY <2>1
    <2>3. b = Block(abs_block_loc, 0, total, ABSOLUTE_FAMILY_ID, zeros) BY <1>b, <2>1
    <2>4. b.num_blocks = total BY ONLY <2>3 DEF Block
    <2>5. b \in Blocks BY ONLY <2>3, <1>1, <1>2, <2>2 DEF Block, Blocks
    <2> QED BY ONLY <2>1, <2>4, <2>5
<1>4. gen_abs_block(abs_block_loc) = [b EXCEPT !.abs = TRUE] BY <1>z, <1>b DEF gen_abs_block
<1> QED BY <1>3, <1>4 DEF Blocks

\* How many blocks count, and whether that is all.
LEMMA NumberedIsCounted ==
    ASSUME NEW B \in Seq(Blocks), NEW s \in 0..1, NEW w \in Nat, NEW total \in Nat, NEW family,
           NumberedAs(B, s, total, family), Len(B) = s + w, w <= total
    PROVE  /\ NumberedFrom0(B) /\ CountedFirst(B)
           /\ AllThere(B) <=> (w # 0 /\ w = total)
<1>n. PICK n \in Nat : n = Len(B) OBVIOUS
<1>i. s \in Int /\ n \in Int /\ n >= s /\ n - s = w BY <1>n
<1>1. \A k \in 1..n :
        /\ k <= s => B[k].abs /\ B[k].num_blocks = 2
        /\ ~(k <= s) => /\ ~B[k].abs /\ B[k].usable /\ B[k].block_no = (k - s) - 1
                        /\ B[k].num_blocks = total /\ B[k].file_size = family
    BY <1>n DEF NumberedAs
<1>2. Counted(B) = (s + 1)..n
    <2>1. \A k : k \in Counted(B) <=> k \in 1..n /\ ~(k <= s)
        BY <1>n, <1>1 DEF Counted, Passes, check_abs_block
    <2>2. \A k : k \in (s + 1)..n <=> k \in 1..n /\ ~(k <= s) BY <1>i
    <2> QED BY <2>1, <2>2
<1>3. Cardinality(Counted(B)) = w
    <2>1. Cardinality((s + 1)..n) = IF s + 1 > n THEN 0 ELSE n - (s + 1) + 1
        BY <1>i, FS_Interval
    <2>2. n - (s + 1) + 1 = n - s BY <1>i
    <2> QED BY <1>i, <1>2, <2>1, <2>2
<1>4. ASSUME NEW k \in (s + 1)..n PROVE Cardinality({j \in (s + 1)..n : j < k}) = (k - s) - 1
    <2>1. {j \in (s + 1)..n : j < k} = (s + 1)..(k - 1) BY <1>i
    <2>2. Cardinality((s + 1)..(k - 1)) = IF s + 1 > k - 1 THEN 0 ELSE (k - 1) - (s + 1) + 1
        BY <1>i, FS_Interval
    <2>3. k \in Int /\ k >= s + 1 BY <1>i
    <2>4. s + 1 > k - 1 => (k - s) - 1 = 0 BY <1>i, <2>3
    <2>5. (k - 1) - (s + 1) + 1 = (k - s) - 1 BY <1>i, <2>3
    <2> QED BY <2>1, <2>2, <2>4, <2>5
<1>5. \A k \in (s + 1)..n : k \in 1..n /\ ~(k <= s) /\ (k - s) - 1 < w BY <1>i
<1>6. NumberedFrom0(B)
    <2> SUFFICES ASSUME NEW k \in Counted(B)
                 PROVE  /\ B[k].block_no = Cardinality({j \in Counted(B) : j < k})
                        /\ B[k].block_no < B[k].num_blocks
                        /\ \A j \in Counted(B) : /\ B[k].file_size = B[j].file_size
                                                 /\ B[k].num_blocks = B[j].num_blocks
        BY DEF NumberedFrom0
    <2>1. k \in (s + 1)..n /\ k \in Int BY <1>2, <1>i
    <2>2. B[k].block_no = (k - s) - 1 /\ B[k].num_blocks = total /\ B[k].file_size = family
        BY <1>1, <1>5, <2>1
    <2>3. \A j \in Counted(B) : B[j].file_size = family /\ B[j].num_blocks = total BY <1>1, <1>2, <1>5
    <2>4. Cardinality({j \in Counted(B) : j < k}) = (k - s) - 1 BY <1>2, <1>4, <2>1
    <2>5. (k - s) - 1 < total
        <3>1. (k - s) - 1 < w BY <1>5, <2>1
        <3> QED BY <1>i, <2>1, <3>1
    <2> QED BY <2>2, <2>3, <2>4, <2>5
<1>7. w # 0 => s + 1 \in Counted(B) /\ s + 1 \in 1..n BY <1>2, <1>i
<1>8. ASSUME w # 0 PROVE FirstBlock(B) = B[s + 1]
    <2>1. CASE s = 0
        <3>1. 1 \in 1..n /\ ~(1 <= s) BY <1>i, <1>8, <2>1
        <3>2. ~B[1].abs BY <1>1, <3>1
        <3> QED BY <2>1, <3>2 DEF FirstBlock, check_abs_block
    <2>2. CASE s = 1
        <3>1. 1 \in 1..n /\ 1 <= s /\ Len(B) > 1 BY <1>n, <1>i, <1>8, <2>2
        <3>2. B[1].abs BY <1>1, <3>1
        <3> QED BY <2>2, <3>1, <3>2 DEF FirstBlock, check_abs_block
    <2> QED BY <2>1, <2>2
<1>9. CountedFirst(B)
    <2>1. CASE w # 0
        <3>1. \E k \in Counted(B) : FirstBlock(B) = B[k] BY <1>7, <1>8, <2>1
        <3> QED BY <3>1 DEF CountedFirst
    <2>2. CASE w = 0 /\ s = 0
        <3>1. Len(B) = 0 BY <1>n, <1>i, <2>2
        <3>2. B = <<>> BY <3>1
        <3> QED BY <3>2 DEF CountedFirst
    <2>3. CASE w = 0 /\ s = 1
        <3>1. Len(B) = 1 /\ 1 \in 1..n /\ 1 <= s BY <1>n, <1>i, <2>3
        <3>2. B[1].abs /\ B[1].num_blocks = 2 BY <1>1, <3>1
        <3> QED BY <3>1, <3>2 DEF CountedFirst, Stranded, check_abs_block
    <2> QED BY <2>1, <2>2, <2>3
<1>10. AllThere(B) <=> (w # 0 /\ w = total)
    <2>1. \A k \in Counted(B) : B[k].num_blocks = total BY <1>1, <1>2, <1>5
    <2>2. Counted(B) # {} <=> w # 0
        <3>1. w = 0 => Counted(B) = {} BY <1>2, <1>i
        <3> QED BY <1>7, <3>1
    <2> QED BY <1>3, <2>1, <2>2 DEF AllThere
<1> QED BY <1>6, <1>9, <1>10

\* A beginning is numbered as well.
LEMMA PrefixNumbered ==
    ASSUME NEW B \in Seq(Blocks), NEW s \in 0..1, NEW w \in Nat, NEW total, NEW family,
           NumberedAs(B, s, total, family), Len(B) = s + w, NEW left \in CutOff(B)
    PROVE  /\ left \in Seq(Blocks)
           /\ \E r \in 0..1, v \in Nat :
                /\ NumberedAs(left, r, total, family) /\ Len(left) = r + v /\ v <= w
                /\ left # B => v = 0 \/ v < w
<1>1. PICK n \in 0..Len(B) : left = SubSeq(B, 1, n) BY DEF CutOff
<1>2. /\ left \in Seq(Blocks) /\ Len(left) = n /\ \A k \in 1..n : left[k] = B[k]
      /\ n = Len(B) => left = B
    <2>1. SubSeq(B, 1, n) = [k \in 1..n |-> B[k]] OBVIOUS
    <2>2. \A k \in 1..n : B[k] \in Blocks OBVIOUS
    <2>3. left \in Seq(Blocks) /\ Len(left) = n BY <1>1, <2>1, <2>2
    <2>4. \A k \in 1..n : left[k] = B[k] BY <1>1, <2>1
    <2>5. ASSUME n = Len(B) PROVE left = B
        <3>1. B = [k \in 1..n |-> B[k]] BY <2>5
        <3> QED BY <1>1, <2>1, <3>1
    <2> QED BY <2>3, <2>4, <2>5
<1>3. \A r \in 0..1 : (r = s \/ n = 0) => NumberedAs(left, r, total, family)
    <2> SUFFICES ASSUME NEW r \in 0..1, r = s \/ n = 0, NEW k \in 1..Len(left)
                 PROVE  IF k <= r THEN left[k].abs /\ left[k].num_blocks = 2
                        ELSE /\ ~left[k].abs /\ left[k].usable
                             /\ left[k].block_no = (k - r) - 1
                             /\ left[k].num_blocks = total /\ left[k].file_size = family
        BY DEF NumberedAs
    <2>1. k \in 1..Len(B) /\ left[k] = B[k] /\ r = s BY <1>2
    <2> QED BY <2>1 DEF NumberedAs
<1>4. CASE s <= n
    <2>1. n - s \in Nat /\ n = s + (n - s) /\ n - s <= w BY <1>4
    <2>2. left # B => n - s < w BY <1>2, <2>1
    <2> QED BY <1>2, <1>3, <2>1, <2>2
<1>5. CASE ~(s <= n)
    <2>1. n = 0 /\ 0 \in 0..1 BY <1>5
    <2> QED BY <1>2, <1>3, <2>1
<1> QED BY <1>4, <1>5

\* What is numbered says at least as many blocks as it has.
LEMMA WithinCount ==
    ASSUME NEW B \in Seq(Blocks), B # <<>>, NumberedFrom0(B), CountedFirst(B)
    PROVE  /\ Cardinality(Counted(B)) <= FirstBlock(B).num_blocks
           /\ Stranded(B) => Counted(B) = {} /\ FirstBlock(B).num_blocks = 2
           /\ ~Stranded(B) =>
                /\ Counted(B) # {}
                /\ AllThere(B) <=> Cardinality(Counted(B)) = FirstBlock(B).num_blocks
<1>1. Counted(B) \subseteq 1..Len(B) /\ Len(B) \in Nat /\ IsFiniteSet(Counted(B))
    <2>1. Counted(B) \subseteq 1..Len(B) /\ Len(B) \in Nat BY DEF Counted
    <2>2. IsFiniteSet(1..Len(B)) BY <2>1, FS_Interval
    <2> QED BY <2>1, <2>2, FS_Subset
<1>2. CASE Stranded(B)
    <2>1. Len(B) = 1 /\ B[1].abs BY <1>2 DEF Stranded, check_abs_block
    <2>2. Counted(B) = {}
        <3>1. \A k \in Counted(B) : k = 1 /\ ~B[k].abs
            BY <1>1, <2>1 DEF Counted, Passes, check_abs_block
        <3> QED BY <2>1, <3>1
    <2>3. B[1].num_blocks = 2 BY <2>2 DEF CountedFirst
    <2>4. FirstBlock(B) = B[1] BY <2>1 DEF FirstBlock
    <2>5. Cardinality(Counted(B)) = 0 BY <2>2, FS_EmptySet
    <2> QED BY <1>2, <2>2, <2>3, <2>4, <2>5
<1>3. CASE ~Stranded(B)
    <2>1. PICK k \in Counted(B) : FirstBlock(B) = B[k] BY <1>3 DEF CountedFirst
    <2>n. PICK N \in Nat : N = Cardinality(Counted(B)) BY <1>1, FS_CardinalityType
    <2>2. N # 0 BY <1>1, <2>1, <2>n, FS_EmptySet
    <2>3. PICK p \in Counted(B) : Rank(Counted(B), p) = N - 1
        <3>1. Counted(B) \in SUBSET Nat BY <1>1
        <3>2. N - 1 \in 0..(Cardinality(Counted(B)) - 1) BY <2>n, <2>2
        <3> QED BY <1>1, <3>1, <3>2, RankTaken, Zenon
    <2>4. \A j \in Counted(B) : B[j].num_blocks = B[k].num_blocks BY DEF NumberedFrom0
    <2>5. B[p].block_no = N - 1 /\ B[p].block_no < B[p].num_blocks
        BY <2>3 DEF NumberedFrom0, Rank
    <2>6. B[k].num_blocks \in Nat
        <3>1. k \in 1..Len(B) BY <1>1
        <3>2. B[k] \in Blocks BY <3>1
        <3> QED BY <3>2 DEF Blocks
    <2>7. N <= B[k].num_blocks BY <2>4, <2>5, <2>6
    <2>8. AllThere(B) <=> N = B[k].num_blocks BY <2>4, <2>n DEF AllThere
    <2> QED BY <1>3, <2>1, <2>7, <2>8, <2>n
<1> QED BY <1>2, <1>3

\* One more block.
LEMMA OneMore ==
    ASSUME NEW B \in Seq(Blocks), NEW b \in Blocks, NEW s \in 0..1, NEW no \in Nat,
           NEW total, NEW family,
           Len(B) = s + no, NumberedAs(B, s, total, family), ~b.abs, b.usable, b.block_no = no,
           b.num_blocks = total, b.file_size = family
    PROVE  /\ Append(B, b) \in Seq(Blocks)
           /\ Len(Append(B, b)) = s + (no + 1)
           /\ \A k \in 1..Len(B) : Append(B, b)[k] = B[k]
           /\ Append(B, b)[(s + no) + 1] = b
           /\ NumberedAs(Append(B, b), s, total, family)
<1>c. PICK C : C = Append(B, b) OBVIOUS
<1>n. PICK n \in Nat : n = Len(B) OBVIOUS
<1>1. C \in Seq(Blocks) /\ Len(C) = n + 1 /\ \A k \in 1..n : C[k] = B[k] BY <1>c, <1>n
<1>2. C[n + 1] = b BY <1>c, <1>n
<1>3. n = s + no /\ s \in Int BY <1>n
<1>4. NumberedAs(C, s, total, family)
    <2> SUFFICES ASSUME NEW k \in 1..Len(C)
                 PROVE  IF k <= s THEN C[k].abs /\ C[k].num_blocks = 2
                        ELSE /\ ~C[k].abs /\ C[k].usable /\ C[k].block_no = (k - s) - 1
                             /\ C[k].num_blocks = total /\ C[k].file_size = family
        BY DEF NumberedAs
    <2>1. CASE k \in 1..n BY <1>n, <1>1, <2>1 DEF NumberedAs
    <2>2. CASE k = n + 1
        <3>1. ~(k <= s) /\ (k - s) - 1 = no BY <1>3, <2>2
        <3> QED BY <1>2, <2>2, <3>1
    <2>3. k \in 1..n \/ k = n + 1 BY <1>1
    <2> QED BY <2>1, <2>2, <2>3
<1>5. n + 1 = s + (no + 1) /\ n + 1 = (s + no) + 1 BY <1>3
<1> QED BY <1>c, <1>n, <1>1, <1>2, <1>4, <1>5

LEMMA OnlyFirstAbsolute ==
    ASSUME NEW B \in Seq(Blocks), NEW s \in 0..1, NEW total, NEW family,
           NumberedAs(B, s, total, family)
    PROVE  \A k \in 1..Len(B) : B[k].abs => k = 1
<1>1. \A k \in 1..Len(B) : ~(k <= s) => ~B[k].abs BY DEF NumberedAs
<1>2. \A k \in 1..Len(B) : k <= s => k = 1 OBVIOUS
<1> QED BY <1>1, <1>2

\* The blocks of a file may be put in its place.
LEMMA SameBlocks ==
    ASSUME CountInv, NEW t \in Names
    PROVE  /\ disk[t].blocks \in Seq(Blocks)
           /\ disk = [disk EXCEPT ![t].blocks = disk[t].blocks]
<1>1. disk \in [Names -> FileSet] BY DEF CountInv, Typed, FilesTyped
<1>f. PICK file : file = disk[t] OBVIOUS
<1>2. file \in FileSet BY <1>1, <1>f
<1>3. file.blocks \in Seq(Blocks) BY <1>2 DEF FileSet
<1>4. [file EXCEPT !.blocks = file.blocks] = file BY <1>2 DEF FileSet
<1>5. [disk EXCEPT ![t] = file] = disk BY <1>1, <1>f
<1>6. [disk EXCEPT ![t].blocks = disk[t].blocks] = [disk EXCEPT ![t] = [file EXCEPT !.blocks = file.blocks]]
    BY <1>1, <1>f
<1> QED BY <1>3, <1>4, <1>5, <1>6, <1>f

\* A block is written.
LEMMA PageStep ==
    ASSUME CountInv, pc \in {"absolute", "page"}, pc' \in {"page", "close"},
           UNCHANGED <<meant, job, segments, pages, pos, family_id>>,
           NEW B \in Seq(Blocks), disk' = [disk EXCEPT ![job.to].blocks = B],
           num_blocks' = Cardinality(DOMAIN pages), block_no' \in Nat,
           IF pc' = "page" THEN block_no' < num_blocks' ELSE block_no' = num_blocks',
           NEW s \in 0..1, Len(B) = s + block_no', NumberedAs(B, s, num_blocks', family_id),
           \A k \in (s + 1)..(s + block_no') : PageWritten(B[k], (k - s) - 1)
    PROVE  CountInv'
<1>t. PICK t : t = job.to OBVIOUS
<1>1. /\ job.op = "convert" /\ job.part = 1 /\ job.from \in [1..1 -> Names]
      /\ t \in Names /\ t # job.from[1] /\ job.from[1] \in Names
      /\ job.o \in ConvertOptions /\ family_id = job.o.family /\ Begun(meant[t])
      /\ DOMAIN pages # {} /\ (WillBeGrouped => Full(DOMAIN pages))
    BY <1>t, WhileConverting DEF CountInv, Converting
<1>2. /\ \A k \in 1..Len(B) : B[k].abs => k = 1
      /\ Begun(meant'[t]) /\ DOMAIN meant' = Names
      /\ disk' = [disk EXCEPT ![t].blocks = B]
    BY <1>1, <1>t, OnlyFirstAbsolute DEF CountInv, Typed, FilesTyped
<1>b. meant'[t].ours /\ ~meant'[t].grouped /\ ~meant'[t].complete
    BY <1>2 DEF NoMeaning, Begun
<1>c. num_blocks' \in Nat
    <2>1. IsFiniteSet(DOMAIN pages) BY DEF CountInv, Typed, PagesTyped
    <2> QED BY <2>1, FS_CardinalityType
<1>n. Numbering(t)'
    <2>1. block_no' <= num_blocks' BY <1>c
    <2>2. /\ NumberedFrom0(B) /\ CountedFirst(B)
          /\ AllThere(B) <=> (block_no' # 0 /\ block_no' = num_blocks')
        BY <1>c, <2>1, NumberedIsCounted
    <2>3. disk'[t].blocks = B
        <3>1. disk \in [Names -> FileSet] BY DEF CountInv, Typed, FilesTyped
        <3> QED BY <1>1, <1>2, <3>1 DEF FileSet
    <2>4. CASE pc' = "close"
        <3>1. Open(t)' BY <1>t, <2>4 DEF Open
        <3> QED BY <2>2, <2>3, <3>1 DEF Numbering
    <2>5. CASE pc' = "page"
        <3>1. ~AllThere(B) BY <1>c, <2>2, <2>5
        <3> QED BY <1>b, <2>2, <2>3, <3>1 DEF Numbering
    <2> QED BY <2>4, <2>5
<1>3. meant'[t].ours /\ ~meant'[t].grouped /\ Numbering(t)' BY <1>b, <1>n
<1>4. /\ Results' /\ FilesTyped' /\ disk'[t].blocks = B
      /\ disk'[job.from[1]] = disk[job.from[1]]
    <2>1. \A f \in Names : f # t => meant'[f] = meant[f] OBVIOUS
    <2>3. /\ Results' /\ FilesTyped' /\ disk'[t].blocks = B
          /\ \A f \in Names : f # t => disk'[f] = disk[f]
        <3>1. CountInv /\ t \in Names /\ B \in Seq(Blocks) BY <1>1
        <3>2. meant'[t].grouped => BySector(B) BY <1>3
        <3> QED BY ONLY <1>2, <1>3, <1>t, <2>1, <3>1, <3>2, OutputWritten
    <2> QED BY <1>1, <2>3
<1>5. Typed'
    <2>1. PagesTyped' BY DEF CountInv, Typed, PagesTyped
    <2> QED BY <1>4, <1>c, <2>1 DEF CountInv, Typed
<1>6. Input = disk[job.from[1]] /\ Input' = Input BY <1>1, <1>4 DEF Input
<1>7. RamStyle(Input, job.o.chip)' = RamStyle(Input, job.o.chip) BY <1>6
<1>8. WillBeGrouped' = WillBeGrouped BY <1>6, <1>7 DEF WillBeGrouped
<1>9. Output' = B BY <1>4, <1>t DEF Output
<1>10. \A k \in (s + 1)..(s + block_no') : PageWritten(Output[k], (k - s) - 1)'
    BY <1>9 DEF PageWritten
<1>11. \E r \in 0..1 :
          /\ Len(Output') = r + block_no'
          /\ NumberedAs(Output', r, num_blocks', family_id')
          /\ \A k \in (r + 1)..(r + block_no') : PageWritten(Output[k], (k - r) - 1)'
    BY <1>9, <1>10
<1>12. Converting'
    <2>1. job'.to # job'.from[1] BY <1>1, <1>t
    <2>2. /\ job'.op = "convert" /\ job'.part = 1 /\ job'.from \in [1..1 -> Names]
          /\ job'.to \in Names
          /\ job'.o \in ConvertOptions /\ family_id' = job'.o.family
          /\ Begun(meant'[job'.to])
          /\ DOMAIN pages' # {} /\ (WillBeGrouped' => Full(DOMAIN pages'))
        BY <1>1, <1>2, <1>8, <1>t
    <2> QED BY <1>11, <2>1, <2>2 DEF Converting
<1>13. Combining' BY <1>1 DEF Combining
<1> QED BY <1>4, <1>5, <1>12, <1>13 DEF CountInv, Results

LEMMA AbsoluteCounts ==
    ASSUME CountInv, WriteAbsolute
    PROVE  CountInv'
<1>a. PICK b : b = gen_abs_block(abs_block_loc) OBVIOUS
<1>t. PICK t : t = job.to OBVIOUS
<1>1. /\ pc = "absolute" /\ pc' = "page" /\ num_blocks' = Cardinality(DOMAIN pages)
      /\ disk' = [disk EXCEPT ![t].blocks = Append(@, b)] \/ disk' = disk
      /\ UNCHANGED <<meant, job, segments, pages, block_no, pos, family_id>>
    BY <1>a, <1>t DEF WriteAbsolute, Write, Reading
<1>2. /\ t \in Names /\ Output = <<>> /\ block_no = 0 /\ DOMAIN pages # {}
      /\ disk[t].blocks = <<>> /\ IsFiniteSet(DOMAIN pages)
    BY <1>1, <1>t, WhileConverting DEF CountInv, Converting, Output, Typed, PagesTyped
<1>3. b \in Blocks /\ b.abs BY <1>a, AbsoluteTyped
<1>4. block_no' = 0 /\ block_no' \in Nat /\ block_no' < num_blocks'
    <2>1. Cardinality(DOMAIN pages) \in Nat /\ Cardinality(DOMAIN pages) # 0
        BY <1>2, FS_CardinalityType, FS_EmptySet
    <2> QED BY <1>1, <1>2, <2>1
<1>5. CASE disk' = disk
    <2>e. PICK B : B = disk[t].blocks OBVIOUS
    <2>1. disk' = [disk EXCEPT ![t].blocks = B] /\ B \in Seq(Blocks)
        BY <1>2, <1>5, <2>e, SameBlocks
    <2>2. Len(B) = 0 + block_no' /\ 0 \in 0..1 BY <1>2, <1>4, <2>e
    <2>3. NumberedAs(B, 0, num_blocks', family_id) BY <1>2, <2>e DEF NumberedAs
    <2>4. \A k \in (0 + 1)..(0 + block_no') : PageWritten(B[k], (k - 0) - 1) BY <1>4
    <2> QED BY <1>1, <1>4, <1>t, <2>1, <2>2, <2>3, <2>4, PageStep
<1>6. CASE disk' = [disk EXCEPT ![t].blocks = Append(@, b)]
    <2>e. PICK B : B = Append(disk[t].blocks, b) OBVIOUS
    <2>1. disk' = [disk EXCEPT ![t].blocks = B] BY <1>6, <2>e
    <2>2. B = <<b>> BY <1>2, <2>e
    <2>3. B \in Seq(Blocks) /\ Len(B) = 1 /\ B[1] = b BY <1>3, <2>2
    <2>4. Len(B) = 1 + block_no' /\ 1 \in 0..1 BY <1>4, <2>3
    <2>5. NumberedAs(B, 1, num_blocks', family_id)
        <3>1. b.num_blocks = 2 BY <1>a, AbsoluteTyped
        <3> QED BY <1>3, <2>3, <3>1 DEF NumberedAs
    <2>6. \A k \in (1 + 1)..(1 + block_no') : PageWritten(B[k], (k - 1) - 1) BY <1>4
    <2> QED BY <1>1, <1>4, <1>t, <2>1, <2>3, <2>4, <2>5, <2>6, PageStep
<1> QED BY <1>1, <1>5, <1>6

\* The blocks of full sectors fall into sectors by their numbers.
LEMMA WrittenByNumber ==
    ASSUME PagesTyped, Full(DOMAIN pages), NEW B \in Seq(Blocks), NEW s \in 0..1, NEW total, NEW family,
           total = Cardinality(DOMAIN pages), Len(B) = s + total, NumberedAs(B, s, total, family),
           \A k \in (s + 1)..(s + total) : PageWritten(B[k], (k - s) - 1)
    PROVE  \A b, c \in {b \in ToSet(B) : ~b.abs} :
             (SectorOf(b.target_addr) = SectorOf(c.target_addr))
                 <=> (b.block_no \div SectorPages = c.block_no \div SectorPages)
<1>d. PICK D : D = DOMAIN pages OBVIOUS
<1>1. D \in SUBSET Nat /\ IsFiniteSet(D) /\ Full(D) /\ total = Cardinality(D) /\ total \in Nat
    BY <1>d, FS_CardinalityType DEF PagesTyped
<1>2. ASSUME NEW b \in {b \in ToSet(B) : ~b.abs}
      PROVE  \E m \in 0..(total - 1) : b.block_no = m /\ b.target_addr = Nth(D, m)
    <2>1. PICK k \in 1..Len(B) : b = B[k] BY DEF ToSet
    <2>2. ~(k <= s) /\ b.block_no = (k - s) - 1 BY <2>1 DEF NumberedAs
    <2>3. k \in (s + 1)..(s + total) /\ (k - s) - 1 \in 0..(total - 1) BY <1>1, <2>2
    <2>4. b.target_addr = Nth(D, (k - s) - 1) BY <1>d, <2>1, <2>3 DEF PageWritten
    <2> QED BY <2>2, <2>3, <2>4
<1> SUFFICES ASSUME NEW b \in {b \in ToSet(B) : ~b.abs}, NEW c \in {c \in ToSet(B) : ~c.abs}
             PROVE  (SectorOf(b.target_addr) = SectorOf(c.target_addr))
                        <=> (b.block_no \div SectorPages = c.block_no \div SectorPages)
    OBVIOUS
<1>3. PICK m \in 0..(total - 1) : b.block_no = m /\ b.target_addr = Nth(D, m) BY <1>2
<1>4. PICK n \in 0..(total - 1) : c.block_no = n /\ c.target_addr = Nth(D, n) BY <1>2
<1>5. SectorOf(Nth(D, m)) = SectorOf(Nth(D, n)) <=> m \div SectorPages = n \div SectorPages
    <2>1. m \in 0..(Cardinality(D) - 1) /\ n \in 0..(Cardinality(D) - 1) BY <1>1
    <2> QED BY <1>1, <2>1, AllGrouped, Zenon
<1> QED BY <1>3, <1>4, <1>5

\* A page is written behind those that have been.
Appended(B, s) ==
    /\ disk' = [disk EXCEPT ![job.to].blocks = B] /\ B \in Seq(Blocks)
    /\ Len(B) = s + (block_no + 1) /\ NumberedAs(B, s, num_blocks, family_id)
    /\ \A k \in (s + 1)..(s + (block_no + 1)) : PageWritten(B[k], (k - s) - 1)
LEMMA WritesPage ==
    ASSUME CountInv, WritePage
    PROVE  \E s \in 0..1 : \E B : Appended(B, s)
<1>t. PICK t : t = job.to OBVIOUS
<1>p. PICK p : p = NthPage(block_no) OBVIOUS
<1>b. PICK b : b = Block(p, block_no, num_blocks, family_id, realize_page(pages[p])) OBVIOUS
<1>1. /\ pc = "page" /\ block_no' = block_no + 1
      /\ disk' = [disk EXCEPT ![t].blocks = Append(@, b)]
      /\ UNCHANGED <<meant, job, segments, pages, num_blocks, pos, family_id>>
    BY <1>t, <1>p, <1>b DEF WritePage, Write, Reading
<1>2. /\ t \in Names /\ block_no \in Nat /\ num_blocks = Cardinality(DOMAIN pages)
      /\ block_no < num_blocks /\ num_blocks \in Nat /\ family_id \in Nat \ {0}
      /\ PagesTyped
    BY <1>1, <1>t, WhileConverting DEF CountInv, Converting, Typed
<1>3. PICK s \in 0..1 :
        /\ Len(Output) = s + block_no
        /\ NumberedAs(Output, s, num_blocks, family_id)
        /\ \A k \in (s + 1)..(s + block_no) : PageWritten(Output[k], (k - s) - 1)
    BY <1>1 DEF CountInv, Converting
<1>o. PICK O : O = disk[t].blocks OBVIOUS
<1>4. O = Output /\ O \in Seq(Blocks) BY <1>t, <1>o, <1>2, SameBlocks DEF Output
<1>5. p = Nth(DOMAIN pages, block_no) /\ p \in DOMAIN pages
    <2>1. DOMAIN pages \in SUBSET Nat /\ IsFiniteSet(DOMAIN pages) BY <1>2 DEF PagesTyped
    <2>2. block_no \in 0..(Cardinality(DOMAIN pages) - 1) BY <1>2
    <2>3. Nth(DOMAIN pages, block_no) \in DOMAIN pages BY <2>1, <2>2, NthTaken
    <2>4. p = Nth(DOMAIN pages, block_no) BY <1>p DEF NthPage, Nth
    <2> QED BY <2>3, <2>4
<1>r. PICK data : data = realize_page(pages[p]) OBVIOUS
<1>6. p \in Nat /\ data \in [0..(PageSize - 1) -> Nat]
    <2>1. pages[p] \in Seq(Fragments) /\ p \in Nat BY <1>2, <1>5 DEF PagesTyped
    <2> QED BY <1>r, <2>1, RealizedTyped
<1>7. /\ b \in Blocks /\ ~b.abs /\ b.usable /\ b.target_addr = p /\ b.block_no = block_no
      /\ b.num_blocks = num_blocks /\ b.file_size = family_id /\ b.data = data
    <2>1. b = Block(p, block_no, num_blocks, family_id, data) BY <1>b, <1>r
    <2> QED BY <1>2, <1>6, <2>1 DEF Block, Blocks
<1>c. PICK B : B = Append(O, b) OBVIOUS
<1>8. /\ B \in Seq(Blocks) /\ Len(B) = s + (block_no + 1)
      /\ \A k \in 1..Len(O) : B[k] = O[k]
      /\ B[(s + block_no) + 1] = b
      /\ NumberedAs(B, s, num_blocks, family_id)
    <2>1. Len(O) = s + block_no /\ NumberedAs(O, s, num_blocks, family_id) BY <1>3, <1>4
    <2>2. /\ ~b.abs /\ b.usable /\ b.block_no = block_no
          /\ b.num_blocks = num_blocks /\ b.file_size = family_id BY <1>7
    <2>3. b \in Blocks /\ O \in Seq(Blocks) /\ block_no \in Nat BY <1>2, <1>4, <1>7
    <2> QED BY <1>c, <2>1, <2>2, <2>3, OneMore
<1>9. \A k \in (s + 1)..(s + (block_no + 1)) : PageWritten(B[k], (k - s) - 1)
    <2> SUFFICES ASSUME NEW k \in (s + 1)..(s + (block_no + 1)) PROVE PageWritten(B[k], (k - s) - 1)
        OBVIOUS
    <2>1. CASE k = (s + block_no) + 1
        <3>1. (k - s) - 1 = block_no BY <1>2, <2>1
        <3>2. B[k] = b BY <1>8, <2>1
        <3> QED BY <1>5, <1>7, <1>r, <3>1, <3>2 DEF PageWritten
    <2>2. CASE k # (s + block_no) + 1
        <3>1. k \in (s + 1)..(s + block_no) /\ k \in 1..Len(O) BY <1>2, <1>3, <1>4, <2>2
        <3>2. B[k] = O[k] BY <1>8, <3>1
        <3> QED BY <1>3, <1>4, <3>1, <3>2
    <2> QED BY <2>1, <2>2
<1>10. disk' = [disk EXCEPT ![t].blocks = B]
    <2>1. disk \in [Names -> FileSet] BY DEF CountInv, Typed, FilesTyped
    <2> QED BY <1>1, <1>2, <1>c, <1>o, <2>1
<1> QED BY <1>8, <1>9, <1>10, <1>t DEF Appended

LEMMA PageCounts ==
    ASSUME CountInv, WritePage
    PROVE  CountInv'
<1>t. PICK t : t = job.to OBVIOUS
<1>1. /\ pc = "page" /\ block_no' = block_no + 1
      /\ pc' = IF block_no' = num_blocks THEN "close" ELSE pc
      /\ UNCHANGED <<meant, job, segments, pages, num_blocks, pos, family_id>>
    BY <1>t DEF WritePage, Write, Reading
<1>2. /\ t \in Names /\ block_no \in Nat /\ num_blocks = Cardinality(DOMAIN pages)
      /\ block_no < num_blocks /\ num_blocks \in Nat /\ family_id \in Nat \ {0}
      /\ PagesTyped
    BY <1>1, <1>t, WhileConverting DEF CountInv, Converting, Typed
<1>3. PICK s \in 0..1 : \E B : Appended(B, s) BY WritesPage
<1>4. PICK B : Appended(B, s) BY <1>3
<1>8. B \in Seq(Blocks) /\ Len(B) = s + (block_no + 1) /\ NumberedAs(B, s, num_blocks, family_id)
    BY <1>4 DEF Appended
<1>9. \A k \in (s + 1)..(s + (block_no + 1)) : PageWritten(B[k], (k - s) - 1)
    BY <1>4 DEF Appended
<1>10. disk' = [disk EXCEPT ![t].blocks = B] BY <1>4, <1>t DEF Appended
<1>11. /\ block_no' \in Nat /\ pc' \in {"page", "close"}
       /\ IF pc' = "page" THEN block_no' < num_blocks' ELSE block_no' = num_blocks'
    BY <1>1, <1>2
<1>12. UNCHANGED <<meant, job, segments, pages, pos, family_id>> /\ num_blocks' = num_blocks
    BY <1>1
<1>13. pc \in {"absolute", "page"} /\ disk' = [disk EXCEPT ![job.to].blocks = B]
    BY <1>1, <1>10, <1>t
<1>14. num_blocks' = Cardinality(DOMAIN pages) BY <1>2, <1>12
<1>15. Len(B) = s + block_no' /\ NumberedAs(B, s, num_blocks', family_id) BY <1>1, <1>8, <1>12
<1>16. \A k \in (s + 1)..(s + block_no') : PageWritten(B[k], (k - s) - 1) BY <1>1, <1>9
<1> QED BY <1>8, <1>11, <1>12, <1>13, <1>14, <1>15, <1>16, PageStep

(***************************************************************************)
(* uf2 combine                                                             *)
(***************************************************************************)
LEMMA FirstBlockTyped ==
    ASSUME NEW B \in Seq(Blocks), B # <<>>
    PROVE  /\ B[1] \in Blocks /\ FirstBlock(B) \in Blocks
           /\ FirstBlock(B).num_blocks \in Nat /\ FirstBlock(B).file_size \in Nat \ {0}
<1>1. B[1] \in Blocks /\ (Len(B) > 1 => B[2] \in Blocks) OBVIOUS
<1>2. FirstBlock(B) \in Blocks BY <1>1 DEF FirstBlock
<1> QED BY <1>1, <1>2 DEF Blocks

LEMMA BelowCounted ==
    ASSUME NEW B \in Seq(Blocks)
    PROVE  /\ Cardinality(Below(B, 1)) = 0
           /\ Below(B, Len(B) + 1) = Counted(B)
           /\ IsFiniteSet(Counted(B)) /\ Cardinality(Counted(B)) \in Nat
           /\ \A p \in Nat : IsFiniteSet(Below(B, p)) /\ Cardinality(Below(B, p)) \in Nat
<1>1. Counted(B) \subseteq 1..Len(B) /\ Len(B) \in Nat BY DEF Counted
<1>2. IsFiniteSet(Counted(B))
    <2>1. IsFiniteSet(1..Len(B)) BY <1>1, FS_Interval
    <2> QED BY <1>1, <2>1, FS_Subset
<1>3. \A p : Below(B, p) \subseteq Counted(B) BY DEF Below
<1>4. \A p : IsFiniteSet(Below(B, p)) /\ Cardinality(Below(B, p)) \in Nat
    <2> SUFFICES ASSUME NEW p PROVE IsFiniteSet(Below(B, p)) /\ Cardinality(Below(B, p)) \in Nat
        OBVIOUS
    <2>1. IsFiniteSet(Below(B, p)) BY <1>2, <1>3, FS_Subset
    <2> QED BY <2>1, FS_CardinalityType
<1>5. Below(B, 1) = {}
    <2>1. \A k \in Counted(B) : ~(k < 1) BY <1>1
    <2> QED BY <2>1 DEF Below
<1>6. Below(B, Len(B) + 1) = Counted(B)
    <2>1. \A k \in Counted(B) : k < Len(B) + 1 BY <1>1
    <2> QED BY <2>1 DEF Below
<1>7. Cardinality(Counted(B)) \in Nat BY <1>2, FS_CardinalityType
<1> QED BY <1>2, <1>4, <1>5, <1>6, <1>7, FS_EmptySet

LEMMA BelowNext ==
    ASSUME NEW B \in Seq(Blocks), NEW p \in 1..Len(B)
    PROVE  Cardinality(Below(B, p + 1))
               = Cardinality(Below(B, p)) + (IF Passes(B[p]) THEN 1 ELSE 0)
<1>1. IsFiniteSet(Below(B, p)) /\ Cardinality(Below(B, p)) \in Nat
    <2>1. p \in Nat OBVIOUS
    <2> QED BY <2>1, BelowCounted
<1>2. p \notin Below(B, p) BY DEF Below
<1>3. \A k \in DOMAIN B : k < p + 1 <=> (k < p \/ k = p) OBVIOUS
<1>4. CASE Passes(B[p])
    <2>1. Below(B, p + 1) = Below(B, p) \union {p} BY <1>3, <1>4 DEF Below, Counted
    <2>2. Cardinality(Below(B, p) \union {p}) = Cardinality(Below(B, p)) + 1
        BY <1>1, <1>2, FS_AddElement
    <2> QED BY <1>4, <2>1, <2>2
<1>5. CASE ~Passes(B[p])
    <2>1. Below(B, p + 1) = Below(B, p) BY <1>3, <1>5 DEF Below, Counted
    <2> QED BY <1>1, <1>5, <2>1
<1> QED BY <1>4, <1>5

\* What is given while two files are being combined.
LEMMA WhileCombining ==
    ASSUME CountInv,
           pc \in {"count", "combined_absolute", "copy"} \/ (pc = "close" /\ job.op # "convert")
    PROVE  /\ job.op = "combine" /\ job.part \in 1..2 /\ job.from \in [1..2 -> Names]
           /\ job.from[1] \in Names /\ job.from[2] \in Names
           /\ job.to \in Names /\ (pc # "count" => job.to # job.from[1] /\ job.to # job.from[2])
           /\ Blocks1 \in Seq(Blocks) /\ Blocks2 \in Seq(Blocks)
           /\ Input.blocks = (IF job.part = 1 THEN Blocks1 ELSE Blocks2)
           /\ job.o \in CombineSet /\ family_id \in Nat /\ Begun(meant[job.to])
<1>1. /\ job.op = "combine" /\ job.part \in 1..2 /\ job.from \in [1..2 -> Names]
      /\ job.to \in Names /\ (pc # "count" => job.to # job.from[1] /\ job.to # job.from[2])
      /\ job.o \in CombineSet /\ family_id \in Nat /\ Begun(meant[job.to])
    BY DEF CountInv, Combining
<1>2. 1 \in 1..2 /\ 2 \in 1..2 OBVIOUS
<1>3. job.from[1] \in Names /\ job.from[2] \in Names BY <1>1, <1>2
<1>4. Blocks1 \in Seq(Blocks) /\ Blocks2 \in Seq(Blocks) BY <1>3, SameBlocks DEF Blocks1, Blocks2
<1>5. job.part = 1 \/ job.part = 2 BY <1>1
<1>6. Input.blocks = IF job.part = 1 THEN Blocks1 ELSE Blocks2
    BY <1>5 DEF Input, Blocks1, Blocks2
<1> QED BY <1>1, <1>3, <1>4, <1>6

LEMMA CountCounts ==
    ASSUME CountInv, CountBlocks
    PROVE  CountInv'
<1>b. PICK B : B = Input.blocks OBVIOUS
<1>p. PICK part : part = job.part OBVIOUS
<1>1. /\ pc = "count" /\ B # <<>>
      /\ num_blocks' = num_blocks + FirstBlock(B).num_blocks
      /\ family_id' = IF family_id = 0 THEN FirstBlock(B).file_size ELSE family_id
      /\ job' = [job EXCEPT !.o.abs = @ \/ check_abs_block(B[1]),
                            !.part = IF @ = 1 THEN 2 ELSE 1]
      /\ pc' = IF part = 1 THEN "count" ELSE "combined_absolute"
      /\ UNCHANGED <<Files, segments, pages, block_no, pos>>
    BY <1>b, <1>p DEF CountBlocks
<1>2. /\ job.op = "combine" /\ part \in 1..2 /\ job.from \in [1..2 -> Names]
      /\ job.to \in Names
      /\ Blocks1 \in Seq(Blocks) /\ Blocks2 \in Seq(Blocks)
      /\ B = (IF part = 1 THEN Blocks1 ELSE Blocks2)
      /\ job.o \in CombineSet /\ family_id \in Nat /\ Begun(meant[job.to])
    BY <1>1, <1>b, <1>p, WhileCombining
<1>3. /\ Output = <<>> /\ block_no = 0 /\ pos = 1
      /\ num_blocks = IF part = 1 THEN 0 ELSE FirstBlock(Blocks1).num_blocks
      /\ part = 2 => Blocks1 # <<>>
      /\ job.to # job.from[1] /\ job.to # job.from[2] =>
             (meant[job.to].numbered => meant[job.from[1]].numbered /\ meant[job.from[2]].numbered)
    BY <1>1, <1>p DEF CountInv, Combining
<1>4. /\ B[1].abs \in BOOLEAN /\ FirstBlock(B).num_blocks \in Nat
      /\ FirstBlock(B).file_size \in Nat \ {0} /\ B \in Seq(Blocks)
    <2>1. B \in Seq(Blocks) BY <1>2
    <2>2. B[1] \in Blocks BY <1>1, <2>1, FirstBlockTyped
    <2> QED BY <1>1, <2>1, <2>2, FirstBlockTyped DEF Blocks
<1>5. DOMAIN job = JobFields /\ job.n \in [DOMAIN MaxCommands -> Nat] BY DEF CountInv, Typed
<1>o. PICK o : o = [job.o EXCEPT !.abs = @ \/ check_abs_block(B[1])] OBVIOUS
<1>6. o \in CombineSet BY <1>2, <1>4, <1>o DEF CombineSet, check_abs_block
<1>7. /\ DOMAIN job' = JobFields /\ job'.op = "combine" /\ job'.n = job.n
      /\ job'.from = job.from /\ job'.to = job.to /\ job'.o = o
      /\ job'.part = IF part = 1 THEN 2 ELSE 1
    BY <1>1, <1>2, <1>5, <1>o, <1>p DEF JobFields, CombineSet
<1>8. Results' /\ FilesTyped' BY <1>1, FilesStay
<1>9. num_blocks' \in Nat
    <2>1. num_blocks \in Nat BY DEF CountInv, Typed
    <2> QED BY <1>1, <1>4, <2>1
<1>10. Typed'
    <2>1. PagesTyped' BY <1>1 DEF CountInv, Typed, PagesTyped
    <2>2. job'.part \in 0..2 /\ job'.op \in {"", "convert", "combine", "info", "read"}
        BY <1>7
    <2>3. block_no' \in Nat /\ pos' \in Nat \ {0} /\ segments' \in Seq(Segments)
        BY <1>1 DEF CountInv, Typed
    <2>4. pc' \in {"idle", "bin", "type", "segments", "absolute", "page", "close", "count",
                   "combined_absolute", "copy", "map", "mapped", "read"} BY <1>1
    <2> QED BY <1>5, <1>7, <1>8, <1>9, <2>1, <2>2, <2>3, <2>4 DEF Typed
<1>11. UNCHANGED <<disk, meant, block_no, pos>> BY <1>1 DEF Files
<1>12. Blocks1' = Blocks1 /\ Blocks2' = Blocks2 /\ Output' = Output
    BY <1>7, <1>11 DEF Blocks1, Blocks2, Output
<1>13. family_id' \in Nat /\ family_id' # 0 BY <1>1, <1>2, <1>4
<1>14. CASE part = 1
    <2>1. /\ pc' = "count" /\ job'.part = 2 /\ B = Blocks1
          /\ num_blocks' = FirstBlock(Blocks1).num_blocks
        BY <1>1, <1>2, <1>3, <1>4, <1>7, <1>14
    <2>2. FirstBlock(Blocks1)' = FirstBlock(Blocks1) BY <1>12
    <2>3. Combining' BY <1>1, <1>2, <1>3, <1>6, <1>7, <1>11, <1>12, <1>13, <2>1, <2>2 DEF Combining
    <2>4. Converting' BY <2>1 DEF Converting
    <2> QED BY <1>8, <1>10, <2>3, <2>4 DEF CountInv, Results
<1>15. CASE part = 2
    <2>1. /\ pc' = "combined_absolute" /\ job'.part = 1 /\ B = Blocks2
          /\ num_blocks' = FirstBlock(Blocks1).num_blocks + FirstBlock(Blocks2).num_blocks
        BY <1>1, <1>2, <1>3, <1>4, <1>7, <1>15
    <2>2. FirstBlock(Blocks1)' = FirstBlock(Blocks1) /\ FirstBlock(Blocks2)' = FirstBlock(Blocks2)
        BY <1>12
    <2>o. job.to # job.from[1] /\ job.to # job.from[2]
        <3>1. Output # Blocks1 /\ Output # Blocks2 BY <1>1, <1>2, <1>3, <1>15
        <3> QED BY <3>1 DEF Output, Blocks1, Blocks2
    <2>3. Combining'
        BY <1>1, <1>2, <1>3, <1>6, <1>7, <1>11, <1>12, <1>13, <1>15, <2>o, <2>1, <2>2 DEF Combining
    <2>4. Converting' BY <2>1 DEF Converting
    <2> QED BY <1>8, <1>10, <2>3, <2>4 DEF CountInv, Results
<1>16. part = 1 \/ part = 2 BY <1>2
<1> QED BY <1>14, <1>15, <1>16

LEMMA CopiedWithin ==
    ASSUME CountInv, job.from[1] \in Names, job.from[2] \in Names,
           Blocks1 \in Seq(Blocks), Blocks2 \in Seq(Blocks), Blocks1 # <<>>, Blocks2 # <<>>,
           meant[job.from[1]].numbered, meant[job.from[2]].numbered, NEW part, NEW p \in Nat, NEW n,
           n = IF part = 1 THEN Cardinality(Below(Blocks1, p))
               ELSE Cardinality(Counted(Blocks1)) + Cardinality(Below(Blocks2, p))
    PROVE  /\ n <= FirstBlock(Blocks1).num_blocks + FirstBlock(Blocks2).num_blocks
           /\ FirstBlock(Blocks1).num_blocks + FirstBlock(Blocks2).num_blocks \in Nat
<1>1. /\ NumberedFrom0(Blocks1) /\ CountedFirst(Blocks1)
      /\ NumberedFrom0(Blocks2) /\ CountedFirst(Blocks2)
    BY DEF CountInv, Numbering, Blocks1, Blocks2
<1>2. /\ Cardinality(Counted(Blocks1)) <= FirstBlock(Blocks1).num_blocks
      /\ Cardinality(Counted(Blocks2)) <= FirstBlock(Blocks2).num_blocks
    BY <1>1, WithinCount
<1>3. FirstBlock(Blocks1).num_blocks \in Nat /\ FirstBlock(Blocks2).num_blocks \in Nat
    BY FirstBlockTyped
<1>4. /\ Cardinality(Below(Blocks1, p)) \in Nat /\ Cardinality(Counted(Blocks1)) \in Nat
      /\ Cardinality(Below(Blocks2, p)) \in Nat /\ Cardinality(Counted(Blocks2)) \in Nat
      /\ IsFiniteSet(Counted(Blocks1)) /\ IsFiniteSet(Counted(Blocks2))
    BY BelowCounted
<1>5. /\ Cardinality(Below(Blocks1, p)) <= Cardinality(Counted(Blocks1))
      /\ Cardinality(Below(Blocks2, p)) <= Cardinality(Counted(Blocks2))
    <2>1. Below(Blocks1, p) \subseteq Counted(Blocks1) /\ Below(Blocks2, p) \subseteq Counted(Blocks2)
        BY DEF Below
    <2>2. Cardinality(Below(Blocks1, p)) <= Cardinality(Counted(Blocks1))
        <3>1. PICK L, M : L = Below(Blocks1, p) /\ M = Counted(Blocks1) OBVIOUS
        <3>2. L \in SUBSET M /\ IsFiniteSet(M) BY ONLY <1>4, <2>1, <3>1
        <3>3. Cardinality(L) <= Cardinality(M) BY ONLY <3>2, FS_Subset
        <3> QED BY ONLY <3>1, <3>3
    <2>3. Cardinality(Below(Blocks2, p)) <= Cardinality(Counted(Blocks2))
        <3>1. PICK L, M : L = Below(Blocks2, p) /\ M = Counted(Blocks2) OBVIOUS
        <3>2. L \in SUBSET M /\ IsFiniteSet(M) BY ONLY <1>4, <2>1, <3>1
        <3>3. Cardinality(L) <= Cardinality(M) BY ONLY <3>2, FS_Subset
        <3> QED BY ONLY <3>1, <3>3
    <2> QED BY <2>2, <2>3
<1>6. PICK l1, c1, m1, l2, c2, m2 :
        /\ l1 = Cardinality(Below(Blocks1, p)) /\ l2 = Cardinality(Below(Blocks2, p))
        /\ c1 = Cardinality(Counted(Blocks1)) /\ c2 = Cardinality(Counted(Blocks2))
        /\ m1 = FirstBlock(Blocks1).num_blocks /\ m2 = FirstBlock(Blocks2).num_blocks
    OBVIOUS
<1>7. l1 \in Nat /\ c1 \in Nat /\ m1 \in Nat /\ l2 \in Nat /\ c2 \in Nat /\ m2 \in Nat
    BY ONLY <1>3, <1>4, <1>6, Zenon
<1>8. l1 <= c1 /\ c1 <= m1 /\ l2 <= c2 /\ c2 <= m2 BY ONLY <1>2, <1>5, <1>6, Zenon
<1>9. n = l1 \/ n = c1 + l2
    <2>1. \/ n = Cardinality(Below(Blocks1, p))
          \/ n = Cardinality(Counted(Blocks1)) + Cardinality(Below(Blocks2, p))
        OBVIOUS
    <2> QED BY ONLY <1>6, <2>1, Zenon
<1>10. n <= m1 + m2 /\ m1 + m2 \in Nat BY ONLY <1>7, <1>8, <1>9
<1> QED BY ONLY <1>6, <1>10, Zenon

\* Both files are counted, so no more is copied than was counted.
LEMMA CopyStep ==
    ASSUME CountInv, pc \in {"combined_absolute", "copy"}, pc' \in {"copy", "close"},
           UNCHANGED <<meant, segments, pages, num_blocks, family_id>>,
           NEW B \in Seq(Blocks), disk' = [disk EXCEPT ![job.to].blocks = B],
           NEW part \in 1..2, job' = job \/ job' = [job EXCEPT !.part = 2], job'.part = part,
           pos' \in Nat \ {0}, pos' <= Len(IF part = 1 THEN Blocks1 ELSE Blocks2) + 1,
           block_no' = IF part = 1 THEN Cardinality(Below(Blocks1, pos'))
                       ELSE Cardinality(Counted(Blocks1)) + Cardinality(Below(Blocks2, pos')),
           part = 2 => ~Stranded(Blocks1),
           pc' = "close" => part = 2 /\ pos' = Len(Blocks2) + 1 /\ ~Stranded(Blocks2),
           NEW s \in 0..1, Len(B) = s + block_no', NumberedAs(B, s, num_blocks, family_id)
    PROVE  CountInv'
<1>t. PICK t : t = job.to OBVIOUS
<1>1. /\ job.op = "combine" /\ job.from \in [1..2 -> Names]
      /\ job.from[1] \in Names /\ job.from[2] \in Names
      /\ t \in Names /\ t # job.from[1] /\ t # job.from[2]
      /\ Blocks1 \in Seq(Blocks) /\ Blocks2 \in Seq(Blocks)
      /\ job.o \in CombineSet /\ family_id \in Nat /\ Begun(meant[t])
    BY <1>t, WhileCombining
<1>2. /\ family_id # 0 /\ Blocks1 # <<>> /\ Blocks2 # <<>>
      /\ num_blocks = FirstBlock(Blocks1).num_blocks + FirstBlock(Blocks2).num_blocks
      /\ meant[t].numbered => meant[job.from[1]].numbered /\ meant[job.from[2]].numbered
    BY <1>1, <1>t DEF CountInv, Combining
<1>3. /\ DOMAIN job' = JobFields /\ job'.op = job.op /\ job'.from = job.from /\ job'.to = t
      /\ job'.o = job.o /\ job'.n = job.n
    <2>1. DOMAIN job = JobFields BY DEF CountInv, Typed
    <2>2. CASE job' = job BY <1>t, <2>1, <2>2
    <2>3. CASE job' = [job EXCEPT !.part = 2] BY <1>t, <2>1, <2>3 DEF JobFields
    <2> QED BY <2>2, <2>3
<1>4. /\ \A k \in 1..Len(B) : B[k].abs => k = 1
      /\ Begun(meant'[t]) /\ DOMAIN meant' = Names
      /\ disk' = [disk EXCEPT ![t].blocks = B]
    BY <1>1, <1>t, OnlyFirstAbsolute DEF CountInv, Typed, FilesTyped
<1>8. block_no' \in Nat
    <2>1. pos' \in Nat OBVIOUS
    <2>2. /\ Cardinality(Below(Blocks1, pos')) \in Nat /\ Cardinality(Counted(Blocks1)) \in Nat
          /\ Cardinality(Below(Blocks2, pos')) \in Nat
        BY <1>1, <2>1, BelowCounted
    <2> QED BY <2>2
<1>n. Numbering(t)'
    <2> SUFFICES ASSUME meant'[t].numbered PROVE Numbering(t)' BY DEF Numbering
    <2>1. Open(t)' BY <1>3 DEF Open
    <2>2. block_no' <= num_blocks /\ num_blocks \in Nat
        <3>1. meant[job.from[1]].numbered /\ meant[job.from[2]].numbered BY <1>2
        <3> QED BY <1>1, <1>2, <3>1, CopiedWithin
    <2>3. NumberedFrom0(B) /\ CountedFirst(B) BY <1>8, <2>2, NumberedIsCounted
    <2>4. disk'[t].blocks = B
        <3>1. disk[t] \in FileSet BY <1>1 DEF CountInv, Typed, FilesTyped
        <3>2. disk'[t] = [disk[t] EXCEPT !.blocks = B]
            <4>1. t \in DOMAIN disk BY <1>1 DEF CountInv, Typed, FilesTyped
            <4> QED BY ONLY <4>1, <1>4
        <3>3. "blocks" \in DOMAIN disk[t] BY ONLY <3>1 DEF FileSet
        <3> QED BY ONLY <3>2, <3>3
    <2> QED BY <2>1, <2>3, <2>4 DEF Numbering
<1>5. meant'[t].ours /\ ~meant'[t].grouped
    BY <1>4 DEF NoMeaning, Begun
<1>6. /\ Results' /\ FilesTyped' /\ disk'[t].blocks = B
      /\ \A f \in Names : f # t => disk'[f] = disk[f]
    <2>1. \A f \in Names : f # t => meant'[f] = meant[f] OBVIOUS
    <2>2. CountInv /\ t \in Names /\ B \in Seq(Blocks) BY <1>1
    <2>3. meant'[t].grouped => BySector(B) BY <1>5
    <2> QED BY ONLY <1>n, <1>t, <1>4, <1>5, <2>1, <2>2, <2>3, OutputWritten
<1>7. Blocks1' = Blocks1 /\ Blocks2' = Blocks2 /\ Output' = B
    <2>1. disk'[job.from[1]] = disk[job.from[1]] /\ disk'[job.from[2]] = disk[job.from[2]]
        BY <1>1, <1>6
    <2> QED BY <1>3, <1>6, <2>1 DEF Blocks1, Blocks2, Output
<1>9. Typed'
    <2>1. PagesTyped' BY DEF CountInv, Typed, PagesTyped
    <2>2. job'.part \in 0..2 /\ job'.op \in {"", "convert", "combine", "info", "read"}
        BY <1>1, <1>3
    <2>3. num_blocks' \in Nat /\ segments' \in Seq(Segments) /\ job'.n \in [DOMAIN MaxCommands -> Nat]
        BY <1>3 DEF CountInv, Typed
    <2>4. pc' \in {"idle", "bin", "type", "segments", "absolute", "page", "close", "count",
                   "combined_absolute", "copy", "map", "mapped", "read"} OBVIOUS
    <2> QED BY <1>3, <1>6, <1>8, <2>1, <2>2, <2>3, <2>4 DEF Typed
<1>10. Input'.blocks = IF part = 1 THEN Blocks1 ELSE Blocks2
    <2>1. Input' = disk'[job'.from[job'.part]] BY DEF Input
    <2>2. disk'[job.from[1]] = disk[job.from[1]] /\ disk'[job.from[2]] = disk[job.from[2]]
        BY <1>1, <1>6
    <2>3. Input' = disk[job.from[1]] \/ part # 1
        <3>1. part = 1 => job'.from[job'.part] = job.from[1] BY <1>3
        <3> QED BY <2>1, <2>2, <3>1
    <2>4. Input' = disk[job.from[2]] \/ part # 2
        <3>1. part = 2 => job'.from[job'.part] = job.from[2] BY <1>3
        <3> QED BY <2>1, <2>2, <3>1
    <2>5. part = 1 \/ part = 2 OBVIOUS
    <2>6. CASE part = 1 BY <2>3, <2>6 DEF Blocks1
    <2>7. CASE part = 2 BY <2>4, <2>7 DEF Blocks2
    <2> QED BY <2>5, <2>6, <2>7
<1>11. FirstBlock(Blocks1)' = FirstBlock(Blocks1) /\ FirstBlock(Blocks2)' = FirstBlock(Blocks2)
    BY <1>7
<1>12. /\ Cardinality(Below(Blocks1, pos))' = Cardinality(Below(Blocks1, pos'))
       /\ Cardinality(Below(Blocks2, pos))' = Cardinality(Below(Blocks2, pos'))
       /\ Cardinality(Counted(Blocks1))' = Cardinality(Counted(Blocks1))
    BY <1>7
<1>13. Combining'
    <2>1. /\ job'.op = "combine" /\ job'.part \in 1..2 /\ job'.from \in [1..2 -> Names]
          /\ job'.to \in Names /\ job'.to # job'.from[1] /\ job'.to # job'.from[2]
          /\ job'.o \in CombineSet /\ family_id' \in Nat /\ Begun(meant'[job'.to])
          /\ meant'[job'.to].numbered =>
                 meant'[job'.from[1]].numbered /\ meant'[job'.from[2]].numbered
        BY <1>1, <1>2, <1>3, <1>4
    <2>2. family_id' # 0 /\ Blocks1' # <<>> /\ Blocks2' # <<>> BY <1>2, <1>7
    <2>3. num_blocks' = FirstBlock(Blocks1)'.num_blocks + FirstBlock(Blocks2)'.num_blocks
        BY <1>2, <1>11
    <2>4. pos' <= Len(Input'.blocks) + 1 BY <1>10
    <2>5. block_no' = IF job'.part = 1 THEN Cardinality(Below(Blocks1, pos))'
                      ELSE Cardinality(Counted(Blocks1))' + Cardinality(Below(Blocks2, pos))'
        BY <1>12
    <2>6. \E r \in 0..1 :
            /\ Len(Output') = r + block_no'
            /\ NumberedAs(Output', r, num_blocks', family_id')
        BY <1>7
    <2>7. job'.part = 2 => ~Stranded(Blocks1') BY <1>7
    <2>8. pc' = "close" => job'.part = 2 /\ pos' = Len(Blocks2') + 1 /\ ~Stranded(Blocks2') BY <1>7
    <2> QED BY <2>1, <2>2, <2>3, <2>4, <2>5, <2>6, <2>7, <2>8 DEF Combining
<1>14. Converting' BY <1>1, <1>3 DEF Converting
<1> QED BY <1>6, <1>9, <1>13, <1>14 DEF CountInv, Results

LEMMA CombinedAbsoluteCounts ==
    ASSUME CountInv, WriteCombinedAbsolute
    PROVE  CountInv'
<1>a. PICK b : b = gen_abs_block(abs_block_loc) OBVIOUS
<1>t. PICK t : t = job.to OBVIOUS
<1>1. /\ pc = "combined_absolute" /\ pc' = "copy"
      /\ disk' = [disk EXCEPT ![t].blocks = Append(@, b)] \/ disk' = disk
      /\ UNCHANGED <<meant, job, segments, pages, num_blocks, block_no, pos, family_id>>
    BY <1>a, <1>t DEF WriteCombinedAbsolute, Write, Writing, Reading
<1>2. /\ t \in Names /\ Output = <<>> /\ block_no = 0 /\ pos = 1 /\ job.part = 1
      /\ disk[t].blocks = <<>> /\ Blocks1 \in Seq(Blocks)
    BY <1>1, <1>t, WhileCombining DEF CountInv, Combining, Output
<1>3. b \in Blocks /\ b.abs BY <1>a, AbsoluteTyped
<1>4. block_no' = 0 /\ pos' = 1 /\ job' = job BY <1>1, <1>2
<1>5. /\ Cardinality(Below(Blocks1, pos')) = 0 /\ pos' \in Nat \ {0}
      /\ pos' <= Len(Blocks1) + 1
    BY <1>2, <1>4, BelowCounted
<1>6. /\ job'.part = 1 /\ 1 \in 1..2
      /\ block_no' = IF 1 = 1 THEN Cardinality(Below(Blocks1, pos'))
                     ELSE Cardinality(Counted(Blocks1)) + Cardinality(Below(Blocks2, pos'))
      /\ pos' <= Len(IF 1 = 1 THEN Blocks1 ELSE Blocks2) + 1
    BY <1>2, <1>4, <1>5
<1>s. /\ 1 = 2 => ~Stranded(Blocks1)
      /\ pc' = "close" => 1 = 2 /\ pos' = Len(Blocks2) + 1 /\ ~Stranded(Blocks2)
      /\ pc \in {"combined_absolute", "copy"} /\ pc' \in {"copy", "close"}
    BY <1>1
<1>7. CASE disk' = disk
    <2>e. PICK B : B = disk[t].blocks OBVIOUS
    <2>1. disk' = [disk EXCEPT ![job.to].blocks = B] /\ B \in Seq(Blocks)
        BY <1>2, <1>7, <1>t, <2>e, SameBlocks
    <2>2. Len(B) = 0 + block_no' /\ 0 \in 0..1 BY <1>2, <1>4, <2>e
    <2>3. NumberedAs(B, 0, num_blocks, family_id) BY <1>2, <2>e DEF NumberedAs
    <2> QED BY <1>1, <1>4, <1>5, <1>6, <1>s, <2>1, <2>2, <2>3, CopyStep
<1>8. CASE disk' = [disk EXCEPT ![t].blocks = Append(@, b)]
    <2>e. PICK B : B = Append(disk[t].blocks, b) OBVIOUS
    <2>1. disk' = [disk EXCEPT ![job.to].blocks = B] BY <1>8, <1>t, <2>e
    <2>2. B = <<b>> BY <1>2, <2>e
    <2>3. B \in Seq(Blocks) /\ Len(B) = 1 /\ B[1] = b BY <1>3, <2>2
    <2>4. Len(B) = 1 + block_no' /\ 1 \in 0..1 BY <1>4, <2>3
    <2>5. NumberedAs(B, 1, num_blocks, family_id)
        <3>1. b.num_blocks = 2 BY <1>a, AbsoluteTyped
        <3> QED BY <1>3, <2>3, <3>1 DEF NumberedAs
    <2> QED BY <1>1, <1>4, <1>5, <1>6, <1>s, <2>1, <2>3, <2>4, <2>5, CopyStep
<1> QED BY <1>1, <1>7, <1>8

LEMMA CopyCounts ==
    ASSUME CountInv, CopyBlock
    PROVE  CountInv'
<1>t. PICK t : t = job.to OBVIOUS
<1>b. PICK block : block = Input.blocks[pos] OBVIOUS
<1>c. PICK copied : copied = Copied(block) OBVIOUS
<1>p. PICK part : part = job.part OBVIOUS
<1>i. PICK I : I = IF part = 1 THEN Blocks1 ELSE Blocks2 OBVIOUS
<1>1. /\ pc = "copy" /\ pc' = "copy" /\ pos <= Len(Input.blocks) /\ pos' = pos + 1
      /\ IF Passes(block)
         THEN disk' = [disk EXCEPT ![t].blocks = Append(@, copied)] /\ block_no' = block_no + 1
         ELSE UNCHANGED <<disk, block_no>>
      /\ UNCHANGED <<meant, job, segments, pages, num_blocks, family_id>>
    BY <1>t, <1>b, <1>c DEF CopyBlock, Write
<1>2. /\ t \in Names /\ part \in 1..2 /\ Blocks1 \in Seq(Blocks) /\ Blocks2 \in Seq(Blocks)
      /\ Input.blocks = I /\ I \in Seq(Blocks) /\ job.o \in CombineSet
      /\ family_id \in Nat
    BY <1>1, <1>t, <1>p, <1>i, WhileCombining
<1>3. /\ family_id # 0 /\ pos \in Nat \ {0} /\ block_no \in Nat /\ num_blocks \in Nat
      /\ block_no = IF part = 1 THEN Cardinality(Below(Blocks1, pos))
                    ELSE Cardinality(Counted(Blocks1)) + Cardinality(Below(Blocks2, pos))
      /\ part = 2 => ~Stranded(Blocks1)
    BY <1>1, <1>p DEF CountInv, Combining, Typed
<1>4. PICK s \in 0..1 :
        /\ Len(Output) = s + block_no
        /\ NumberedAs(Output, s, num_blocks, family_id)
    BY <1>1 DEF CountInv, Combining
<1>o. PICK O : O = disk[t].blocks OBVIOUS
<1>5. O = Output /\ O \in Seq(Blocks) BY <1>t, <1>o, <1>2, SameBlocks DEF Output
<1>6. pos \in 1..Len(I) /\ block = I[pos] /\ block \in Blocks BY <1>1, <1>2, <1>3, <1>b
<1>7. Cardinality(Below(I, pos + 1)) = Cardinality(Below(I, pos)) + (IF Passes(block) THEN 1 ELSE 0)
    BY <1>2, <1>6, BelowNext
<1>8. block_no + (IF Passes(block) THEN 1 ELSE 0)
          = IF part = 1 THEN Cardinality(Below(Blocks1, pos + 1))
            ELSE Cardinality(Counted(Blocks1)) + Cardinality(Below(Blocks2, pos + 1))
    <2>1. /\ Cardinality(Below(I, pos)) \in Nat /\ Cardinality(Counted(Blocks1)) \in Nat
        BY <1>2, <1>3, BelowCounted
    <2>x. PICK x \in Nat : x = Cardinality(Below(I, pos)) BY <2>1
    <2>y. PICK y \in Nat : y = Cardinality(Counted(Blocks1)) BY <2>1
    <2>z. PICK z : z = Cardinality(Below(I, pos + 1)) OBVIOUS
    <2>u. PICK u \in {0, 1} : u = IF Passes(block) THEN 1 ELSE 0 OBVIOUS
    <2>2. z = x + u BY <1>7, <2>x, <2>z, <2>u
    <2>3. CASE part = 1
        <3>1. I = Blocks1 BY <1>i, <2>3
        <3>2. block_no = x BY <1>3, <2>3, <2>x, <3>1
        <3> QED BY <2>2, <2>3, <2>u, <2>z, <3>1, <3>2
    <2>4. CASE part # 1
        <3>1. I = Blocks2 BY <1>i, <2>4
        <3>2. block_no = y + x BY <1>3, <2>4, <2>x, <2>y, <3>1
        <3>3. (y + x) + u = y + (x + u) OBVIOUS
        <3> QED BY <2>2, <2>4, <2>u, <2>y, <2>z, <3>1, <3>2, <3>3
    <2> QED BY <2>3, <2>4
<1>9. /\ pos' \in Nat \ {0} /\ pos' <= Len(IF part = 1 THEN Blocks1 ELSE Blocks2) + 1
      /\ pc \in {"combined_absolute", "copy"} /\ job'.part = part
    <2>1. Len(I) \in Nat /\ pos + 1 <= Len(I) + 1 /\ pos + 1 \in Nat \ {0} BY <1>2, <1>3, <1>6
    <2> QED BY <1>1, <1>i, <1>p, <2>1
<1>10. CASE Passes(block)
    <2>B. PICK B : B = Append(O, copied) OBVIOUS
    <2>1. disk' = [disk EXCEPT ![t].blocks = B] /\ block_no' = block_no + 1
        <3>1. disk \in [Names -> FileSet] BY DEF CountInv, Typed, FilesTyped
        <3> QED BY <1>1, <1>2, <1>10, <1>o, <2>B, <3>1
    <2>2. /\ copied \in Blocks /\ ~copied.abs /\ copied.usable /\ copied.block_no = block_no
          /\ copied.num_blocks = num_blocks /\ copied.file_size = family_id
        <3>1. ~block.abs /\ block.usable BY <1>10 DEF Passes, check_abs_block
        <3>2. job.o.offset \in Nat BY <1>2 DEF CombineSet
        <3>m. PICK moved : moved = block.target_addr + (IF part = 2 THEN job.o.offset ELSE 0) OBVIOUS
        <3>3. block.target_addr \in Nat BY <1>6 DEF Blocks
        <3>4. moved \in Nat BY <3>2, <3>3, <3>m
        <3>5. copied = [block EXCEPT !.block_no = block_no, !.num_blocks = num_blocks,
                                     !.file_size = family_id, !.target_addr = moved]
            BY <1>c, <1>p, <1>6, <3>m DEF Copied, Blocks
        <3> QED BY <1>2, <1>3, <1>6, <3>1, <3>4, <3>5 DEF Blocks
    <2>3. Len(O) = s + block_no /\ NumberedAs(O, s, num_blocks, family_id) BY <1>4, <1>5
    <2>4. /\ B \in Seq(Blocks) /\ Len(B) = s + (block_no + 1)
          /\ NumberedAs(B, s, num_blocks, family_id)
        <3>1. O \in Seq(Blocks) /\ s \in 0..1 /\ block_no \in Nat BY <1>3, <1>5
        <3> QED BY <2>2, <2>3, <2>B, <3>1, OneMore
    <2>5. /\ block_no' = IF part = 1 THEN Cardinality(Below(Blocks1, pos'))
                         ELSE Cardinality(Counted(Blocks1)) + Cardinality(Below(Blocks2, pos'))
          /\ Len(B) = s + block_no' /\ disk' = [disk EXCEPT ![job.to].blocks = B]
        BY <1>1, <1>8, <1>10, <1>t, <2>1, <2>4
    <2> QED BY <1>1, <1>2, <1>3, <1>9, <2>4, <2>5, CopyStep
<1>11. CASE ~Passes(block)
    <2>1. disk' = [disk EXCEPT ![job.to].blocks = O] BY <1>1, <1>2, <1>11, <1>o, <1>t, SameBlocks
    <2>2. block_no' = block_no BY <1>1, <1>11
    <2>3. block_no + 0 = block_no BY <1>3
    <2>4. /\ block_no' = IF part = 1 THEN Cardinality(Below(Blocks1, pos'))
                         ELSE Cardinality(Counted(Blocks1)) + Cardinality(Below(Blocks2, pos'))
          /\ Len(O) = s + block_no' /\ NumberedAs(O, s, num_blocks, family_id)
        BY <1>1, <1>4, <1>5, <1>8, <1>11, <2>2, <2>3
    <2> QED BY <1>1, <1>2, <1>3, <1>5, <1>9, <2>1, <2>4, CopyStep
<1> QED BY <1>10, <1>11

LEMMA NextFileCounts ==
    ASSUME CountInv, NextFile
    PROVE  CountInv'
<1>t. PICK t : t = job.to OBVIOUS
<1>p. PICK part : part = job.part OBVIOUS
<1>1. /\ pc = "copy" /\ ~Stranded(Input.blocks) /\ pos > Len(Input.blocks)
      /\ IF part = 1
         THEN job' = [job EXCEPT !.part = 2] /\ pos' = 1 /\ UNCHANGED pc
         ELSE pc' = "close" /\ UNCHANGED <<job, pos>>
      /\ UNCHANGED <<disk, meant, segments, pages, num_blocks, block_no, family_id>>
    BY <1>t, <1>p DEF NextFile, Writing, Files
<1>2. /\ t \in Names /\ part \in 1..2 /\ Blocks1 \in Seq(Blocks) /\ Blocks2 \in Seq(Blocks)
      /\ Input.blocks = IF part = 1 THEN Blocks1 ELSE Blocks2
      /\ job.from[1] \in Names /\ job.from[2] \in Names /\ t # job.from[1] /\ t # job.from[2]
    BY <1>1, <1>t, <1>p, WhileCombining
<1>3. /\ family_id # 0 /\ pos \in Nat \ {0} /\ block_no \in Nat /\ num_blocks \in Nat
      /\ pos <= Len(Input.blocks) + 1
      /\ block_no = IF part = 1 THEN Cardinality(Below(Blocks1, pos))
                    ELSE Cardinality(Counted(Blocks1)) + Cardinality(Below(Blocks2, pos))
      /\ part = 2 => ~Stranded(Blocks1)
    BY <1>1, <1>p DEF CountInv, Combining, Typed
<1>4. PICK s \in 0..1 :
        /\ Len(Output) = s + block_no
        /\ NumberedAs(Output, s, num_blocks, family_id)
    BY <1>1 DEF CountInv, Combining
<1>o. PICK O : O = disk[t].blocks OBVIOUS
<1>5. O = Output /\ O \in Seq(Blocks) /\ disk' = [disk EXCEPT ![t].blocks = O]
    BY <1>1, <1>t, <1>o, <1>2, SameBlocks DEF Output
<1>6. CASE part = 1
    <2>1. job' = [job EXCEPT !.part = 2] /\ pos' = 1 /\ pc' = "copy" BY <1>1, <1>6
    <2>2. job'.part = 2
        <3>1. DOMAIN job = JobFields BY DEF CountInv, Typed
        <3> QED BY <2>1, <3>1 DEF JobFields
    <2>3. pos = Len(Blocks1) + 1
        <3>1. Input.blocks = Blocks1 /\ Len(Blocks1) \in Nat BY <1>2, <1>6
        <3> QED BY <1>1, <1>3, <3>1
    <2>4. block_no = Cardinality(Counted(Blocks1)) BY <1>2, <1>3, <1>6, <2>3, BelowCounted
    <2>5. Cardinality(Below(Blocks2, pos')) = 0 /\ Len(Blocks2) \in Nat
        BY <1>2, <2>1, BelowCounted
    <2>6. block_no' = Cardinality(Counted(Blocks1)) + Cardinality(Below(Blocks2, pos'))
        BY <1>1, <1>3, <2>4, <2>5
    <2>7. /\ block_no' = IF 2 = 1 THEN Cardinality(Below(Blocks1, pos'))
                         ELSE Cardinality(Counted(Blocks1)) + Cardinality(Below(Blocks2, pos'))
          /\ pos' \in Nat \ {0} /\ pos' <= Len(IF 2 = 1 THEN Blocks1 ELSE Blocks2) + 1
          /\ 2 \in 1..2 /\ pc \in {"combined_absolute", "copy"}
        BY <1>1, <2>1, <2>5, <2>6
    <2>8. Len(O) = s + block_no' /\ NumberedAs(O, s, num_blocks, family_id)
        BY <1>1, <1>4, <1>5
    <2>9. ~Stranded(Blocks1) BY <1>1, <1>2, <1>6
    <2> QED BY <1>1, <1>5, <1>t, <2>1, <2>2, <2>7, <2>8, <2>9, CopyStep
<1>7. CASE part # 1
    <2>1. part = 2 /\ pc' = "close" /\ job' = job /\ pos' = pos BY <1>1, <1>2, <1>7
    <2>2. pos = Len(Blocks2) + 1
        <3>1. Input.blocks = Blocks2 /\ Len(Blocks2) \in Nat BY <1>2, <1>7
        <3> QED BY <1>1, <1>3, <3>1
    <2>3. /\ block_no' = IF 2 = 1 THEN Cardinality(Below(Blocks1, pos'))
                         ELSE Cardinality(Counted(Blocks1)) + Cardinality(Below(Blocks2, pos'))
          /\ pos' \in Nat \ {0} /\ pos' <= Len(IF 2 = 1 THEN Blocks1 ELSE Blocks2) + 1
          /\ 2 \in 1..2 /\ pc \in {"combined_absolute", "copy"} /\ job'.part = 2
        BY <1>1, <1>2, <1>3, <1>p, <2>1, <2>2
    <2>4. Len(O) = s + block_no' /\ NumberedAs(O, s, num_blocks, family_id)
        BY <1>1, <1>4, <1>5
    <2>5. ~Stranded(Blocks1) /\ ~Stranded(Blocks2) BY <1>1, <1>2, <1>3, <2>1
    <2>6. pos' = Len(Blocks2) + 1 BY <2>1, <2>2
    <2> QED BY <1>1, <1>5, <1>t, <2>1, <2>3, <2>4, <2>5, <2>6, CopyStep
<1> QED BY <1>6, <1>7

(***************************************************************************)
(* The end of a command                                                    *)
(***************************************************************************)
LEMMA EndCounts ==
    ASSUME CountInv, pc' = "idle", UNCHANGED <<segments, pages, num_blocks, block_no, pos>>,
           job' = job \/ job' = [job EXCEPT !.ok = FALSE],
           NEW t \in Names, t = job.to, NEW B \in Seq(Blocks),
           disk' = [disk EXCEPT ![t].blocks = B],
           NEW s \in 0..1, NEW w \in Nat, NEW total \in Nat, NEW family,
           Len(B) = s + w, NumberedAs(B, s, total, family),
           \A f \in Names : f # t => meant'[f] = meant[f], DOMAIN meant' = Names,
           meant'[t].ours, meant'[t].grouped => BySector(B),
           meant'[t].numbered => w <= total /\ (meant'[t].complete <=> (w # 0 /\ w = total))
    PROVE  CountInv'
<1>1. disk'[t].blocks = B
    <2>1. disk \in [Names -> FileSet] BY DEF CountInv, Typed, FilesTyped
    <2>2. "blocks" \in DOMAIN disk[t] BY <2>1 DEF FileSet
    <2>3. disk'[t] = [disk[t] EXCEPT !.blocks = B] BY <2>1
    <2> QED BY <2>2, <2>3
<1>2. Numbering(t)'
    <2> SUFFICES ASSUME meant'[t].numbered PROVE Numbering(t)' BY DEF Numbering
    <2>1. w <= total /\ (meant'[t].complete <=> (w # 0 /\ w = total)) OBVIOUS
    <2>2. /\ NumberedFrom0(B) /\ CountedFirst(B)
          /\ AllThere(B) <=> (w # 0 /\ w = total)
        BY <2>1, NumberedIsCounted
    <2> QED BY <1>1, <2>1, <2>2 DEF Numbering
<1>3. \A k \in 1..Len(B) : B[k].abs => k = 1 BY OnlyFirstAbsolute
<1>4. Results' /\ FilesTyped' BY <1>2, <1>3, OutputWritten
<1>5. /\ DOMAIN job' = JobFields /\ job'.op = job.op /\ job'.part = job.part /\ job'.n = job.n
    <2>1. DOMAIN job = JobFields BY DEF CountInv, Typed
    <2>2. CASE job' = job BY <2>1, <2>2
    <2>3. CASE job' = [job EXCEPT !.ok = FALSE] BY <2>1, <2>3 DEF JobFields
    <2> QED BY <2>2, <2>3
<1>6. Typed'
    <2>1. PagesTyped' BY DEF CountInv, Typed, PagesTyped
    <2> QED BY <1>4, <1>5, <2>1 DEF CountInv, Typed
<1>7. Converting' /\ Combining' BY DEF Converting, Combining
<1> QED BY <1>4, <1>6, <1>7 DEF CountInv, Results

\* A file that is cut off, or may be, does not have as many blocks as it says.
LEMMA CutOffCounts ==
    ASSUME CountInv, pc' = "idle", UNCHANGED <<meant, segments, pages, num_blocks, block_no, pos>>,
           job' = job \/ job' = [job EXCEPT !.ok = FALSE],
           job.to \in Names, Begun(meant[job.to]),
           NEW s \in 0..1, NEW w \in Nat, NEW total \in Nat, NEW family,
           Len(Output) = s + w, NumberedAs(Output, s, total, family),
           NEW left \in CutOff(Output), disk' = [disk EXCEPT ![job.to].blocks = left],
           meant[job.to].numbered => w <= total /\ (left = Output => w = 0 \/ w < total)
    PROVE  CountInv'
<1>t. PICK t : t = job.to OBVIOUS
<1>1. Output \in Seq(Blocks) BY SameBlocks DEF Output
<1>2. left \in Seq(Blocks) BY <1>1, PrefixNumbered
<1>3. PICK r \in 0..1, v \in Nat :
        /\ NumberedAs(left, r, total, family) /\ Len(left) = r + v /\ v <= w
        /\ left # Output => v = 0 \/ v < w
    BY <1>1, PrefixNumbered
<1>4. left = Output => v = w \/ v = 0
    <2> SUFFICES ASSUME left = Output, v # w, v # 0 PROVE FALSE OBVIOUS
    <2>1. s + w = r + v BY <1>3
    <2>2. s = 0 /\ r = 1 /\ w = v + 1 BY <1>3, <2>1
    <2>3. 1 \in 1..Len(Output) BY <2>2
    <2>4. Output[1].abs BY <1>3, <2>2, <2>3 DEF NumberedAs
    <2>5. ~Output[1].abs BY <2>2, <2>3 DEF NumberedAs
    <2> QED BY <2>4, <2>5
<1>5. DOMAIN meant' = Names /\ meant'[t].ours /\ ~meant'[t].grouped /\ ~meant'[t].complete
    BY <1>t DEF Begun, NoMeaning, CountInv, Typed, FilesTyped
<1>6. ASSUME meant'[t].numbered PROVE v <= total /\ ~(v # 0 /\ v = total)
    <2>1. w <= total /\ (left = Output => w = 0 \/ w < total) BY <1>6, <1>t
    <2> QED BY <1>3, <1>4, <2>1
<1>7. \A f \in Names : f # t => meant'[f] = meant[f] OBVIOUS
<1>8. /\ CountInv /\ pc' = "idle" /\ UNCHANGED <<segments, pages, num_blocks, block_no, pos>>
      /\ job' = job \/ job' = [job EXCEPT !.ok = FALSE]
      /\ t \in Names /\ disk' = [disk EXCEPT ![t].blocks = left]
    BY <1>t
<1>9. /\ meant'[t].grouped => BySector(left)
      /\ meant'[t].numbered => v <= total /\ (meant'[t].complete <=> (v # 0 /\ v = total))
    BY <1>5, <1>6
<1>10. r \in 0..1 /\ v \in Nat /\ total \in Nat /\ Len(left) = r + v /\ NumberedAs(left, r, total, family)
    BY <1>3
<1>11. meant'[t].ours BY <1>5
<1>12. DOMAIN meant' = Names BY <1>5
<1>13. t = job.to BY <1>t
<1> QED BY ONLY <1>2, <1>7, <1>8, <1>9, <1>10, <1>11, <1>12, <1>13, EndCounts, Zenon

LEMMA WriteFailsCounts ==
    ASSUME CountInv, WriteFails
    PROVE  CountInv'
<1>1. /\ pc \in {"page", "absolute"} /\ pc' = "idle" /\ job' = [job EXCEPT !.ok = FALSE]
      /\ UNCHANGED <<meant, segments, pages, num_blocks, block_no, pos>>
    BY DEF WriteFails, FailWriting, Writing, Reading
<1>2. PICK left \in CutOff(Output) : disk' = [disk EXCEPT ![job.to].blocks = left]
    BY DEF WriteFails, FailWriting, Output
<1>3. job.to \in Names /\ Begun(meant[job.to]) BY <1>1, WhileConverting
<1>4. CASE pc = "page"
    <2>1. /\ block_no < num_blocks
          /\ \E s \in 0..1 : Len(Output) = s + block_no /\ NumberedAs(Output, s, num_blocks, family_id)
        BY <1>4 DEF CountInv, Converting
    <2>2. PICK s \in 0..1 : Len(Output) = s + block_no /\ NumberedAs(Output, s, num_blocks, family_id)
        BY <2>1
    <2>3. block_no \in Nat /\ num_blocks \in Nat BY DEF CountInv, Typed
    <2>4. block_no <= num_blocks /\ block_no < num_blocks BY <2>1, <2>3
    <2> QED BY <1>1, <1>2, <1>3, <2>2, <2>3, <2>4, CutOffCounts
<1>5. CASE pc = "absolute"
    <2>1. Output = <<>> BY <1>5 DEF CountInv, Converting
    <2>2. 0 \in 0..1 /\ 0 \in Nat /\ Len(Output) = 0 + 0 /\ 0 <= 0 BY <2>1
    <2>3. NumberedAs(Output, 0, 0, family_id) BY <2>1 DEF NumberedAs
    <2> QED BY <1>1, <1>2, <1>3, <2>2, <2>3, CutOffCounts
<1> QED BY <1>1, <1>4, <1>5

\* What is given while the blocks are copied.
LEMMA WhileCopying ==
    ASSUME CountInv, pc = "copy" \/ (pc = "close" /\ job.op # "convert")
    PROVE  /\ \E s \in 0..1 : Len(Output) = s + block_no /\ NumberedAs(Output, s, num_blocks, family_id)
           /\ block_no \in Nat /\ num_blocks \in Nat /\ pos \in Nat
           /\ num_blocks = FirstBlock(Blocks1).num_blocks + FirstBlock(Blocks2).num_blocks
           /\ block_no = IF job.part = 1 THEN Cardinality(Below(Blocks1, pos))
                         ELSE Cardinality(Counted(Blocks1)) + Cardinality(Below(Blocks2, pos))
           /\ Blocks1 # <<>> /\ Blocks2 # <<>>
           /\ job.part = 2 => ~Stranded(Blocks1)
           /\ meant[job.to].numbered =>
                /\ meant[job.from[1]].numbered /\ meant[job.from[2]].numbered
                /\ NumberedFrom0(Blocks1) /\ CountedFirst(Blocks1)
                /\ NumberedFrom0(Blocks2) /\ CountedFirst(Blocks2)
                /\ block_no <= num_blocks
<1>1. /\ \E s \in 0..1 : Len(Output) = s + block_no /\ NumberedAs(Output, s, num_blocks, family_id)
      /\ num_blocks = FirstBlock(Blocks1).num_blocks + FirstBlock(Blocks2).num_blocks
      /\ block_no = IF job.part = 1 THEN Cardinality(Below(Blocks1, pos))
                    ELSE Cardinality(Counted(Blocks1)) + Cardinality(Below(Blocks2, pos))
      /\ Blocks1 # <<>> /\ Blocks2 # <<>>
      /\ job.part = 2 => ~Stranded(Blocks1)
      /\ job.to # job.from[1] /\ job.to # job.from[2]
      /\ meant[job.to].numbered => meant[job.from[1]].numbered /\ meant[job.from[2]].numbered
    BY DEF CountInv, Combining
<1>2. block_no \in Nat /\ num_blocks \in Nat /\ pos \in Nat BY DEF CountInv, Typed
<1>3. /\ job.from[1] \in Names /\ job.from[2] \in Names
      /\ Blocks1 \in Seq(Blocks) /\ Blocks2 \in Seq(Blocks)
    BY WhileCombining
<1>4. ASSUME meant[job.to].numbered
      PROVE  /\ meant[job.from[1]].numbered /\ meant[job.from[2]].numbered
             /\ NumberedFrom0(Blocks1) /\ CountedFirst(Blocks1)
             /\ NumberedFrom0(Blocks2) /\ CountedFirst(Blocks2)
             /\ block_no <= num_blocks
    <2>1. meant[job.from[1]].numbered /\ meant[job.from[2]].numbered BY <1>1, <1>4
    <2>2. /\ NumberedFrom0(Blocks1) /\ CountedFirst(Blocks1)
          /\ NumberedFrom0(Blocks2) /\ CountedFirst(Blocks2)
        BY <1>3, <2>1 DEF CountInv, Numbering, Blocks1, Blocks2
    <2>3. block_no <= num_blocks BY <1>1, <1>2, <1>3, <2>1, CopiedWithin
    <2> QED BY <2>1, <2>2, <2>3
<1> QED BY <1>1, <1>2, <1>4

LEMMA CopyFailsCounts ==
    ASSUME CountInv, CopyFails
    PROVE  CountInv'
<1>1. /\ pc = "copy" /\ Stranded(Input.blocks) /\ pc' = "idle" /\ job' = [job EXCEPT !.ok = FALSE]
      /\ UNCHANGED <<meant, segments, pages, num_blocks, block_no, pos>>
    BY DEF CopyFails, FailWriting, Writing, Reading
<1>2. PICK left \in CutOff(Output) : disk' = [disk EXCEPT ![job.to].blocks = left]
    BY DEF CopyFails, FailWriting, Output
<1>3. /\ job.to \in Names /\ Begun(meant[job.to]) /\ job.part \in 1..2
      /\ Blocks1 \in Seq(Blocks) /\ Blocks2 \in Seq(Blocks)
      /\ Input.blocks = IF job.part = 1 THEN Blocks1 ELSE Blocks2
    BY <1>1, WhileCombining
<1>4. PICK s \in 0..1 : Len(Output) = s + block_no /\ NumberedAs(Output, s, num_blocks, family_id)
    BY <1>1, WhileCopying
<1>5. /\ block_no \in Nat /\ num_blocks \in Nat /\ pos \in Nat
      /\ num_blocks = FirstBlock(Blocks1).num_blocks + FirstBlock(Blocks2).num_blocks
      /\ block_no = IF job.part = 1 THEN Cardinality(Below(Blocks1, pos))
                    ELSE Cardinality(Counted(Blocks1)) + Cardinality(Below(Blocks2, pos))
      /\ Blocks1 # <<>> /\ Blocks2 # <<>>
      /\ meant[job.to].numbered =>
           /\ NumberedFrom0(Blocks1) /\ CountedFirst(Blocks1)
           /\ NumberedFrom0(Blocks2) /\ CountedFirst(Blocks2)
           /\ block_no <= num_blocks
    BY <1>1, WhileCopying
<1>6. ASSUME meant[job.to].numbered PROVE block_no = 0 \/ block_no < num_blocks
    <2>1. /\ NumberedFrom0(Blocks1) /\ CountedFirst(Blocks1)
          /\ NumberedFrom0(Blocks2) /\ CountedFirst(Blocks2)
        BY <1>5, <1>6
    <2>2. CASE job.part = 1
        <3>1. Counted(Blocks1) = {} BY <1>1, <1>3, <1>5, <2>1, <2>2, WithinCount
        <3>2. Below(Blocks1, pos) = {} BY <3>1 DEF Below
        <3> QED BY <1>5, <2>2, <3>2, FS_EmptySet
    <2>3. CASE job.part = 2
        <3>1. Counted(Blocks2) = {} /\ FirstBlock(Blocks2).num_blocks = 2
            BY <1>1, <1>3, <1>5, <2>1, <2>3, WithinCount
        <3>2. Below(Blocks2, pos) = {} BY <3>1 DEF Below
        <3>3. Cardinality(Below(Blocks2, pos)) = 0 BY <3>2, FS_EmptySet
        <3>4. Cardinality(Counted(Blocks1)) <= FirstBlock(Blocks1).num_blocks
            BY <1>3, <1>5, <2>1, WithinCount
        <3>5. Cardinality(Counted(Blocks1)) \in Nat /\ FirstBlock(Blocks1).num_blocks \in Nat
            BY <1>3, <1>5, BelowCounted, FirstBlockTyped
        <3> QED BY <1>5, <2>3, <3>1, <3>3, <3>4, <3>5
    <2> QED BY <1>3, <2>2, <2>3
<1>7. meant[job.to].numbered => block_no <= num_blocks /\ (left = Output => block_no = 0 \/ block_no < num_blocks)
    BY <1>5, <1>6
<1> QED BY <1>1, <1>2, <1>3, <1>4, <1>5, <1>7, CutOffCounts

\* A file that is all there when it is closed has as many blocks as it says.
LEMMA ConvertCloses ==
    ASSUME CountInv, Close, job.op = "convert", UNCHANGED disk,
           meant' = [meant EXCEPT ![job.to] = MeaningOf(Input, job.o)]
    PROVE  CountInv'
<1>t. PICK t : t = job.to OBVIOUS
<1>1. /\ pc = "close" /\ pc' = "idle" /\ job' = job
      /\ UNCHANGED <<segments, pages, num_blocks, block_no, pos>>
    BY DEF Close, Writing, Reading
<1>2. t \in Names BY <1>1, <1>t, WhileConverting
<1>3. /\ num_blocks = Cardinality(DOMAIN pages) /\ block_no = num_blocks /\ DOMAIN pages # {}
      /\ WillBeGrouped => Full(DOMAIN pages)
      /\ \E s \in 0..1 : /\ Len(Output) = s + block_no
                          /\ NumberedAs(Output, s, num_blocks, family_id)
                          /\ \A k \in (s + 1)..(s + block_no) : PageWritten(Output[k], (k - s) - 1)
    BY <1>1 DEF CountInv, Converting
<1>4. PICK s \in 0..1 : /\ Len(Output) = s + block_no
                        /\ NumberedAs(Output, s, num_blocks, family_id)
                        /\ \A k \in (s + 1)..(s + block_no) : PageWritten(Output[k], (k - s) - 1)
    BY <1>3
<1>O. PICK O : O = Output OBVIOUS
<1>5. O \in Seq(Blocks) /\ disk' = [disk EXCEPT ![t].blocks = O]
    BY <1>2, <1>t, <1>O, SameBlocks DEF Output
<1>6. PagesTyped /\ block_no \in Nat /\ num_blocks \in Nat BY DEF CountInv, Typed
<1>7. block_no # 0
    <2>1. IsFiniteSet(DOMAIN pages) BY <1>6 DEF PagesTyped
    <2> QED BY <1>3, <2>1, FS_EmptySet
<1>m. PICK m : m = MeaningOf(Input, job.o) OBVIOUS
<1>8. m.numbered /\ m.complete /\ m.ours /\ (m.grouped <=> WillBeGrouped)
    BY <1>m DEF MeaningOf, WillBeGrouped
<1>9. DOMAIN meant = Names BY DEF CountInv, Typed, FilesTyped
<1>10. meant'[t] = m /\ DOMAIN meant' = Names /\ \A f \in Names : f # t => meant'[f] = meant[f]
    BY <1>2, <1>9, <1>m, <1>t
<1>11. ASSUME meant'[t].grouped PROVE BySector(O)
    <2>1. Full(DOMAIN pages) BY <1>3, <1>8, <1>10, <1>11
    <2>2. Len(O) = s + num_blocks /\ NumberedAs(O, s, num_blocks, family_id) BY <1>3, <1>4, <1>O
    <2>3. \A k \in (s + 1)..(s + num_blocks) : PageWritten(O[k], (k - s) - 1) BY <1>3, <1>4, <1>O
    <2> QED BY <1>3, <1>5, <1>6, <2>1, <2>2, <2>3, WrittenByNumber DEF BySector
<1>12. /\ meant'[t].ours
       /\ meant'[t].numbered => block_no <= num_blocks /\ (meant'[t].complete <=> (block_no # 0 /\ block_no = num_blocks))
    BY <1>3, <1>6, <1>7, <1>8, <1>10
<1>13. /\ CountInv /\ s \in 0..1 /\ Len(O) = s + block_no /\ NumberedAs(O, s, num_blocks, family_id)
       /\ block_no \in Nat /\ num_blocks \in Nat
       /\ (job' = job \/ job' = [job EXCEPT !.ok = FALSE])
       /\ pc' = "idle" /\ UNCHANGED <<segments, pages, num_blocks, block_no, pos>> /\ t = job.to
    BY <1>1, <1>4, <1>6, <1>O, <1>t
<1> QED BY ONLY <1>2, <1>5, <1>10, <1>11, <1>12, <1>13, EndCounts

LEMMA CombineCloses ==
    ASSUME CountInv, Close, job.op = "combine", UNCHANGED disk,
           meant' = [meant EXCEPT ![job.to] = CombinedMeaning]
    PROVE  CountInv'
<1>t. PICK t : t = job.to OBVIOUS
<1>1. /\ pc = "close" /\ pc' = "idle" /\ job' = job
      /\ UNCHANGED <<segments, pages, num_blocks, block_no, pos>>
    BY DEF Close, Writing, Reading
<1>2. /\ t \in Names /\ t # job.from[1] /\ t # job.from[2]
      /\ job.from[1] \in Names /\ job.from[2] \in Names
      /\ Blocks1 \in Seq(Blocks) /\ Blocks2 \in Seq(Blocks) /\ Begun(meant[t])
    BY <1>1, <1>t, WhileCombining
<1>3. job.part = 2 /\ pos = Len(Blocks2) + 1 /\ ~Stranded(Blocks2) BY <1>1 DEF CountInv, Combining
<1>4. PICK s \in 0..1 : Len(Output) = s + block_no /\ NumberedAs(Output, s, num_blocks, family_id)
    BY <1>1, WhileCopying
<1>5. /\ block_no \in Nat /\ num_blocks \in Nat
      /\ num_blocks = FirstBlock(Blocks1).num_blocks + FirstBlock(Blocks2).num_blocks
      /\ block_no = IF job.part = 1 THEN Cardinality(Below(Blocks1, pos))
                    ELSE Cardinality(Counted(Blocks1)) + Cardinality(Below(Blocks2, pos))
      /\ Blocks1 # <<>> /\ Blocks2 # <<>>
      /\ job.part = 2 => ~Stranded(Blocks1)
    BY <1>1, WhileCopying
<1>6. block_no = Cardinality(Counted(Blocks1)) + Cardinality(Counted(Blocks2))
    <2>1. Below(Blocks2, pos) = Counted(Blocks2) BY <1>2, <1>3, BelowCounted
    <2> QED BY <1>3, <1>5, <2>1
<1>O. PICK O : O = Output OBVIOUS
<1>7. O \in Seq(Blocks) /\ disk' = [disk EXCEPT ![t].blocks = O]
    BY <1>2, <1>t, <1>O, SameBlocks DEF Output
<1>m. PICK m : m = CombinedMeaning OBVIOUS
<1>8. /\ ~m.grouped /\ m.ours
      /\ m.numbered = (meant[job.from[1]].numbered /\ meant[job.from[2]].numbered)
      /\ m.complete = (meant[job.from[1]].complete /\ meant[job.from[2]].complete)
    BY <1>m DEF CombinedMeaning
<1>9. DOMAIN meant = Names BY DEF CountInv, Typed, FilesTyped
<1>10. meant'[t] = m /\ DOMAIN meant' = Names /\ \A f \in Names : f # t => meant'[f] = meant[f]
    BY <1>2, <1>9, <1>m, <1>t
<1>11. ASSUME m.numbered PROVE block_no <= num_blocks /\ (m.complete <=> (block_no # 0 /\ block_no = num_blocks))
    <2>1. meant[job.from[1]].numbered /\ meant[job.from[2]].numbered BY <1>8, <1>11
    <2>2. /\ NumberedFrom0(Blocks1) /\ CountedFirst(Blocks1)
          /\ NumberedFrom0(Blocks2) /\ CountedFirst(Blocks2)
          /\ meant[job.from[1]].complete <=> AllThere(Blocks1)
          /\ meant[job.from[2]].complete <=> AllThere(Blocks2)
        <3>1. Numbering(job.from[1]) /\ Numbering(job.from[2]) BY <1>2 DEF CountInv
        <3>2. ~Open(job.from[1]) /\ ~Open(job.from[2]) BY <1>2, <1>t DEF Open
        <3> QED BY <2>1, <3>1, <3>2 DEF Numbering, Blocks1, Blocks2
    <2>a. PICK a \in Nat : a = Cardinality(Counted(Blocks1)) BY <1>2, BelowCounted
    <2>b. PICK b \in Nat : b = Cardinality(Counted(Blocks2)) BY <1>2, BelowCounted
    <2>c. PICK c \in Nat : c = FirstBlock(Blocks1).num_blocks BY <1>2, <1>5, FirstBlockTyped
    <2>d. PICK d \in Nat : d = FirstBlock(Blocks2).num_blocks BY <1>2, <1>5, FirstBlockTyped
    <2>3. a <= c /\ Counted(Blocks1) # {} /\ (AllThere(Blocks1) <=> a = c)
        BY <1>2, <1>3, <1>5, <2>2, <2>a, <2>c, WithinCount
    <2>4. b <= d /\ (AllThere(Blocks2) <=> b = d)
        BY <1>2, <1>3, <1>5, <2>2, <2>b, <2>d, WithinCount
    <2>5. a # 0
        <3>1. IsFiniteSet(Counted(Blocks1)) BY <1>2, BelowCounted
        <3> QED BY <2>3, <2>a, <3>1, FS_EmptySet
    <2>6. block_no = a + b /\ num_blocks = c + d BY <1>5, <1>6, <2>a, <2>b, <2>c, <2>d
    <2>7. m.complete <=> (a = c /\ b = d) BY <1>8, <2>2, <2>3, <2>4
    <2> QED BY <2>3, <2>4, <2>5, <2>6, <2>7
<1>12. /\ meant'[t].ours /\ (meant'[t].grouped => BySector(O))
       /\ meant'[t].numbered => block_no <= num_blocks /\ (meant'[t].complete <=> (block_no # 0 /\ block_no = num_blocks))
    BY <1>8, <1>10, <1>11
<1>13. /\ CountInv /\ s \in 0..1 /\ Len(O) = s + block_no /\ NumberedAs(O, s, num_blocks, family_id)
       /\ block_no \in Nat /\ num_blocks \in Nat
       /\ (job' = job \/ job' = [job EXCEPT !.ok = FALSE])
       /\ pc' = "idle" /\ UNCHANGED <<segments, pages, num_blocks, block_no, pos>> /\ t = job.to
    BY <1>1, <1>4, <1>5, <1>O, <1>t
<1> QED BY ONLY <1>2, <1>7, <1>10, <1>12, <1>13, EndCounts

LEMMA CloseCounts ==
    ASSUME CountInv, Close
    PROVE  CountInv'
<1>1. /\ pc = "close" /\ pc' = "idle" /\ job' = job
      /\ UNCHANGED <<segments, pages, num_blocks, block_no, pos>>
    BY DEF Close, Writing, Reading
<1>2. PICK left \in CutOff(Output) :
        /\ disk' = [disk EXCEPT ![job.to].blocks = left]
        /\ meant' = IF left # Output THEN meant
                    ELSE [meant EXCEPT ![job.to] = IF job.op = "convert" THEN MeaningOf(Input, job.o) ELSE CombinedMeaning]
    BY DEF Close, Output
<1>3. CASE left = Output
    <2>1. job.to \in Names BY <1>1, WhileConverting, WhileCombining
    <2>2. UNCHANGED disk BY <1>2, <1>3, <2>1, SameBlocks DEF Output
    <2>3. CASE job.op = "convert" BY <1>2, <1>3, <2>2, <2>3, ConvertCloses
    <2>4. CASE job.op # "convert"
        <3>1. job.op = "combine" BY <1>1, <2>4, WhileCombining
        <3> QED BY <1>2, <1>3, <2>2, <3>1, CombineCloses
    <2> QED BY <2>3, <2>4
<1>4. CASE left # Output
    <2>n. block_no \in Nat /\ num_blocks \in Nat BY DEF CountInv, Typed
    <2>1. /\ job.to \in Names /\ Begun(meant[job.to])
          /\ \E s \in 0..1 : Len(Output) = s + block_no /\ NumberedAs(Output, s, num_blocks, family_id)
          /\ meant[job.to].numbered => block_no <= num_blocks
        <3>1. CASE job.op = "convert"
            <4>1. /\ block_no = num_blocks
                  /\ \E s \in 0..1 : Len(Output) = s + block_no /\ NumberedAs(Output, s, num_blocks, family_id)
                BY <1>1, <3>1 DEF CountInv, Converting
            <4>2. job.to \in Names /\ Begun(meant[job.to]) BY <1>1, <3>1, WhileConverting
            <4>3. block_no <= num_blocks BY <2>n, <4>1
            <4> QED BY <4>1, <4>2, <4>3
        <3>2. CASE job.op # "convert" BY <1>1, <3>2, WhileCombining, WhileCopying
        <3> QED BY <3>1, <3>2
    <2>2. PICK s \in 0..1 : Len(Output) = s + block_no /\ NumberedAs(Output, s, num_blocks, family_id)
        BY <2>1
    <2>3. meant[job.to].numbered => block_no <= num_blocks /\ (left = Output => block_no = 0 \/ block_no < num_blocks)
        BY <1>4, <2>1
    <2>4. UNCHANGED meant BY <1>2, <1>4
    <2> QED BY <1>1, <1>2, <2>n, <2>1, <2>2, <2>3, <2>4, CutOffCounts
<1> QED BY <1>3, <1>4

LEMMA CountStep == CountInv /\ [Next]_vars => CountInv'
<1> SUFFICES ASSUME CountInv, [Next]_vars PROVE CountInv' OBVIOUS
<1>1. CASE UNCHANGED vars
    <2>1. UNCHANGED <<disk, meant, pc, job, segments, pages, num_blocks, block_no, family_id, pos>>
        BY <1>1 DEF vars
    <2>2. UNCHANGED <<Files, Input, Output, Blocks1, Blocks2>>
        BY <2>1 DEF Files, Input, Output, Blocks1, Blocks2
    <2>3. Results' /\ FilesTyped' BY <2>1, <2>2, FilesStay
    <2>4. Typed' BY <2>1, <2>3 DEF CountInv, Typed, PagesTyped
    <2>5. Converting'
        <3>1. WillBeGrouped' = WillBeGrouped BY <2>1, <2>2 DEF WillBeGrouped
        <3>2. \A b, n : PageWritten(b, n)' = PageWritten(b, n) BY <2>1 DEF PageWritten
        <3> QED BY <2>1, <2>2, <3>1, <3>2 DEF CountInv, Converting
    <2>6. Combining' BY <2>1, <2>2 DEF CountInv, Combining
    <2> QED BY <2>3, <2>4, <2>5, <2>6 DEF CountInv, Results
<1>2. CASE bin2uf2 BY <1>2, BinCounts
<1>3. CASE rp_determine_binary_type BY <1>3, TypeCounts
<1>4. CASE check_elf32_ph_entries BY <1>4, SegmentCounts
<1>5. CASE PlacePages BY <1>5, PlaceCounts
<1>6. CASE WriteAbsolute BY <1>6, AbsoluteCounts
<1>7. CASE WritePage BY <1>7, PageCounts
<1>8. CASE CountBlocks BY <1>8, CountCounts
<1>9. CASE WriteCombinedAbsolute BY <1>9, CombinedAbsoluteCounts
<1>10. CASE CopyBlock BY <1>10, CopyCounts
<1>11. CASE NextFile BY <1>11, NextFileCounts
<1>12. CASE MapFile \/ build_rmap_uf2 \/ ReadFirst \/ ReadFamilies \/ ShowFamily
    BY <1>12, ReadsCount
<1>13. CASE BinEmpty \/ TypeRefused \/ SegmentFails \/ PlaceFails \/ CountFails \/ MapFails
            \/ BlockFails
    <2>1. Fail /\ pc \notin {"copy", "close"}
        BY <1>13 DEF BinEmpty, TypeRefused, SegmentFails, PlaceFails, CountFails, MapFails, BlockFails
    <2> QED BY <2>1, FailCounts
<1>15. CASE Close BY <1>15, CloseCounts
<1>16. CASE CopyFails BY <1>16, CopyFailsCounts
<1>17. CASE WriteFails BY <1>17, WriteFailsCounts
<1>14. CASE Command
    <2>1. CASE \E f, to \in Names, o \in ConvertOptions : StartConvert(f, to, o)
        BY <2>1, StartConvertCounts
    <2>2. CASE \E f, g, to \in Names, o \in CombineOptions : StartCombine(f, g, to, o)
        BY <2>2, StartCombineCounts
    <2>3. CASE \E f \in Names : StartRead("info", f, NotSet)
        BY <2>3, StartReadCounts
    <2>4. CASE \E f \in Names, offset \in Offsets : StartRead("read", f, offset)
        BY <2>4, StartReadCounts
    <2> QED BY <1>14, <2>1, <2>2, <2>3, <2>4 DEF Command
<1> QED
    BY <1>1, <1>2, <1>3, <1>4, <1>5, <1>6, <1>7, <1>8, <1>9, <1>10, <1>11, <1>12, <1>13, <1>14,
       <1>15, <1>16, <1>17
    DEF Next, Step

LEMMA CountIsWellFormed == CountInv => WellFormed
<1> SUFFICES ASSUME CountInv PROVE WellFormed OBVIOUS
<1>1. ASSUME NEW f \in Names, NEW b \in ToSet(disk[f].blocks)
      PROVE  b.target_addr \in Nat /\ DOMAIN b.data = 0..(PageSize - 1)
    <2>1. disk[f].blocks \in Seq(Blocks) BY SameBlocks
    <2>2. b \in Blocks BY <2>1 DEF ToSet
    <2> QED BY <2>2 DEF Blocks
<1>2. ASSUME NEW p \in DOMAIN pages, NEW f \in ToSet(pages[p])
      PROVE  f.bytes > 0 /\ f.page_offset + f.bytes <= PageSize
    <2>1. pages[p] \in Seq(Fragments) BY DEF CountInv, Typed, PagesTyped
    <2>2. f \in Fragments BY <2>1 DEF ToSet
    <2> QED BY <2>2 DEF Fragments
<1>3. DOMAIN disk = Names /\ DOMAIN meant = Names BY DEF CountInv, Typed, FilesTyped
<1>4. StateOK BY <1>1, <1>2, <1>3 DEF CountInv, Typed, StateOK
<1>5. Numbered /\ AbsoluteFirst BY DEF CountInv, Numbering, Numbered
<1> QED BY <1>4, <1>5 DEF WellFormed

\* What uf2 convert and uf2 combine leave on disk, at any moment and whatever writing
\* to it failed, is the beginning of what a boot ROM can count through: the blocks are
\* numbered from 0, all say the same count, none is beyond it, all are for one family,
\* and an absolute block is the first of its file.  Numbered leaves out what is combined
\* from files of several families.
THEOREM WellFormedTheorem == Spec => []WellFormed
<1>1. CountInv /\ [Next]_vars => CountInv' BY CountStep
<1> QED BY CountInitially, <1>1, CountIsWellFormed, PTL DEF Spec

\* uf2 combine does not look whether it could write, nor either command whether it could
\* close: the file of a command that ended well may lack its end.  It then always has
\* fewer blocks than they say, also when it is combined again, and a file that lacks
\* nothing has exactly as many.
THEOREM CutOffTheorem == Spec => []CutOffShows
<1>1. CountInv /\ [Next]_vars => CountInv' BY CountStep
<1>2. CountInv => CutOffShows BY DEF CountInv, Numbering, CutOffShows
<1> QED BY CountInitially, <1>1, <1>2, PTL DEF Spec

\* The blocks of a flash binary fall into sectors the way their numbers do: the
\* padding of uf2 convert completes every sector before the last page, so that
\* block number n is in the sector that a ROM which erases every SectorPages
\* blocks has erased.
THEOREM SectorsTheorem == Spec => []SectorsByNumber
<1>1. CountInv /\ [Next]_vars => CountInv' BY CountStep
<1>2. CountInv => SectorsByNumber BY DEF CountInv
<1> QED BY CountInitially, <1>1, <1>2, PTL DEF Spec

(***************************************************************************)
(* What is in a file, byte by byte                                         *)
(***************************************************************************)
LEMMA AtIs ==
    ASSUME NEW a, NEW x, NEW b, NEW y
    PROVE  At(a, x).at = a /\ At(a, x).byte = x /\ (At(a, x) = At(b, y) <=> a = b /\ x = y)
BY DEF At

\* A piece of `size' bytes of the input, at addr.
Piece(offset, addr, size) == {At(addr + k, offset + k) : k \in 0..(size - 1)}
LEMMA InPiece ==
    ASSUME NEW offset \in Nat, NEW addr \in Nat, NEW size \in Nat
    PROVE  /\ \A a, x \in Int :
                At(a, x) \in Piece(offset, addr, size)
                    <=> a \in addr..(addr + size - 1) /\ x = (offset + a) - addr
           /\ \A m \in Piece(offset, addr, size) : \E a, x \in Int : m = At(a, x)
<1>1. ASSUME NEW a \in Int, NEW x \in Int
      PROVE  At(a, x) \in Piece(offset, addr, size)
                 <=> a \in addr..(addr + size - 1) /\ x = (offset + a) - addr
    <2>1. ASSUME At(a, x) \in Piece(offset, addr, size)
          PROVE  a \in addr..(addr + size - 1) /\ x = (offset + a) - addr
        <3>1. PICK k \in 0..(size - 1) : At(a, x) = At(addr + k, offset + k) BY <2>1 DEF Piece
        <3>2. a = addr + k /\ x = offset + k BY <3>1, AtIs
        <3> QED BY <3>2
    <2>2. ASSUME a \in addr..(addr + size - 1), x = (offset + a) - addr
          PROVE  At(a, x) \in Piece(offset, addr, size)
        <3>1. a - addr \in 0..(size - 1) /\ addr + (a - addr) = a /\ offset + (a - addr) = x
            BY <2>2
        <3> QED BY <3>1 DEF Piece
    <2> QED BY <2>1, <2>2
<1>2. ASSUME NEW m \in Piece(offset, addr, size) PROVE \E a, x \in Int : m = At(a, x)
    <2>1. PICK k \in 0..(size - 1) : m = At(addr + k, offset + k) BY DEF Piece
    <2>2. addr + k \in Int /\ offset + k \in Int OBVIOUS
    <2> QED BY <2>1, <2>2
<1> QED BY <1>1, <1>2

\* Byte i of a page is x by one of its fragments.
InPage(fragments, i, x) ==
    \E g \in ToSet(fragments) :
        /\ g.page_offset <= i /\ i < g.page_offset + g.bytes
        /\ x = (g.file_offset + i) - g.page_offset
LEMMA RealizedByte ==
    ASSUME NEW fragments \in Seq(Fragments), NEW i \in 0..(PageSize - 1)
    PROVE  \/ InPage(fragments, i, realize_page(fragments)[i])
           \/ realize_page(fragments)[i] = 0 /\ \A x \in Int : ~InPage(fragments, i, x)
<1>a. PICK at : at = {f \in ToSet(fragments) : i >= f.page_offset /\ i < f.page_offset + f.bytes}
    OBVIOUS
<1>1. realize_page(fragments)[i] =
        IF at = {} THEN 0 ELSE LET g == CHOOSE f \in at : TRUE IN g.file_offset + i - g.page_offset
    BY <1>a DEF realize_page
<1>2. \A f \in ToSet(fragments) :
        /\ f.page_offset \in Nat /\ f.file_offset \in Nat /\ f.bytes \in Nat
        /\ i >= f.page_offset <=> f.page_offset <= i
    <2>1. ToSet(fragments) \subseteq Fragments BY DEF ToSet
    <2>2. \A f \in Fragments : f.page_offset \in Nat /\ f.file_offset \in Nat /\ f.bytes \in Nat
        BY DEF Fragments
    <2>3. PageSize \in Nat BY SizesTyped
    <2> QED BY <2>1, <2>2, <2>3
<1>3. CASE at = {}
    <2>1. \A x \in Int : ~InPage(fragments, i, x) BY <1>a, <1>2, <1>3 DEF InPage
    <2> QED BY <1>1, <1>3, <2>1
<1>4. CASE at # {}
    <2>g. PICK g : g = CHOOSE f \in at : TRUE OBVIOUS
    <2>1. g \in at BY <1>4, <2>g
    <2>4. realize_page(fragments)[i] = g.file_offset + i - g.page_offset BY <1>1, <1>4, <2>g
    <2>3. g \in ToSet(fragments) /\ g.page_offset <= i /\ i < g.page_offset + g.bytes
        BY <1>a, <1>2, <2>1
    <2>2. realize_page(fragments)[i] = (g.file_offset + i) - g.page_offset
        <3>1. g.file_offset \in Int /\ g.page_offset \in Int /\ i \in Int BY <1>2, <2>3
        <3> QED BY <2>4, <3>1
    <2> QED BY <2>2, <2>3 DEF InPage
<1> QED BY <1>3, <1>4

\* The pages of a map are those bytes, each at one place.
PagesHold(map, D) ==
    /\ \A p \in DOMAIN map : \A i \in 0..(PageSize - 1) : \A x \in Int :
          InPage(map[p], i, x) <=> At(p + i, x) \in D
    /\ \A m \in D : \E p \in DOMAIN map : \E i \in 0..(PageSize - 1) : \E x \in Int : m = At(p + i, x)
    /\ \A a, x, y \in Int : At(a, x) \in D /\ At(a, y) \in D => x = y
PagesApart(S) == \A p, q \in S : p < q => p + PageSize <= q
\* No page is there for nothing.
PagesUsed(map, D) ==
    \A p \in DOMAIN map : \E i \in 0..(PageSize - 1) : \E x \in Int : At(p + i, x) \in D
Aligned(S) == S \subseteq Nat /\ \A p \in S : p % PageSize = 0

LEMMA AlignedApart ==
    ASSUME NEW S, Aligned(S)
    PROVE  PagesApart(S)
<1> SUFFICES ASSUME NEW p \in S, NEW q \in S, p < q PROVE p + PageSize <= q BY DEF PagesApart
<1>1. p \in Nat /\ p % PageSize = 0 /\ q \in Nat /\ q % PageSize = 0 BY DEF Aligned
<1>0. PageSize \in Nat \ {0} BY SizesTyped
<1> SUFFICES ASSUME q < p + PageSize PROVE FALSE BY <1>0, <1>1
<1>2. PageOf(q) = p BY <1>1, OnlyPage
<1>3. PageOf(q) = q
    <2>1. q <= q /\ q < q + PageSize BY <1>0, <1>1
    <2> QED BY <1>1, <2>1, OnlyPage
<1> QED BY <1>1, <1>2, <1>3

LEMMA PieceHeld ==
    ASSUME NEW offset \in Nat, NEW addr \in Nat, NEW size \in Nat
    PROVE  /\ Aligned(PagesOf(addr, size))
           /\ \A p \in PagesOf(addr, size) : \A i \in 0..(PageSize - 1) : \A x \in Int :
                InPage(<<FragmentIn(p, offset, addr, size)>>, i, x)
                    <=> At(p + i, x) \in Piece(offset, addr, size)
           /\ PagesHold(PagesFor(offset, addr, size), Piece(offset, addr, size))
           /\ PagesUsed(PagesFor(offset, addr, size), Piece(offset, addr, size))
<1>d. PICK D : D = Piece(offset, addr, size) OBVIOUS
<1>p. PICK P : P = PagesOf(addr, size) OBVIOUS
<1>0. PageSize \in Nat \ {0} BY SizesTyped
<1>1. \A a, x \in Int : At(a, x) \in D <=> a \in addr..(addr + size - 1) /\ x = (offset + a) - addr
    BY <1>d, InPiece
<1>2. ASSUME NEW a \in addr..(addr + size - 1)
      PROVE  /\ PageOf(a) \in P /\ PageOf(a) \in Nat /\ PageOf(a) % PageSize = 0
             /\ a - PageOf(a) \in 0..(PageSize - 1) /\ PageOf(a) + (a - PageOf(a)) = a
    <2>1. a \in Nat OBVIOUS
    <2>2. /\ PageOf(a) \in Nat /\ PageOf(a) % PageSize = 0
          /\ PageOf(a) <= a /\ a < PageOf(a) + PageSize BY <2>1, PageOfTyped
    <2>3. PageOf(a) \in P BY <1>p DEF PagesOf
    <2> QED BY <1>0, <2>1, <2>2, <2>3
<1>3. Aligned(P) BY <1>2, <1>p DEF PagesOf, Aligned
<1>4. ASSUME NEW p \in P, NEW i \in 0..(PageSize - 1), NEW x \in Int
      PROVE  InPage(<<FragmentIn(p, offset, addr, size)>>, i, x) <=> At(p + i, x) \in D
    <2>1. PICK a \in addr..(addr + size - 1) : p = PageOf(a) BY <1>p DEF PagesOf
    <2>2. p \in Nat BY <1>3 DEF Aligned
    <2>f. PICK f : f = FragmentIn(p, offset, addr, size) OBVIOUS
    <2>3. /\ f \in Fragments
          /\ (i >= f.page_offset /\ i < f.page_offset + f.bytes)
                  <=> p + i \in addr..(addr + size - 1)
          /\ f.file_offset - f.page_offset = (offset + p) - addr
        <3>1. HoldsOf(f, p, offset, addr, size) BY <2>1, <2>2, <2>f, FragmentHolds
        <3> QED BY <3>1 DEF HoldsOf
    <2>4. ToSet(<<f>>) = {f} BY DEF ToSet
    <2>5. InPage(<<f>>, i, x) <=> /\ f.page_offset <= i /\ i < f.page_offset + f.bytes
                                  /\ x = (f.file_offset + i) - f.page_offset
        BY <2>4 DEF InPage
    <2>6. f.page_offset \in Nat /\ f.file_offset \in Nat /\ f.bytes \in Nat BY <2>3 DEF Fragments
    <2>7. (f.file_offset + i) - f.page_offset = (offset + (p + i)) - addr BY <2>2, <2>3, <2>6, <1>0
    <2>8. p + i \in Int BY <2>2, <1>0
    <2>9. i >= f.page_offset <=> f.page_offset <= i BY <2>6, <1>0
    <2> QED BY <1>1, <2>3, <2>5, <2>7, <2>8, <2>9, <2>f
<1>m. PICK map : map = PagesFor(offset, addr, size) OBVIOUS
<1>5. DOMAIN map = P /\ \A p \in P : map[p] = <<FragmentIn(p, offset, addr, size)>>
    BY <1>m, <1>p DEF PagesFor, PagesOf
<1>6. ASSUME NEW m \in D
      PROVE  \E p \in P : \E i \in 0..(PageSize - 1) : \E x \in Int : m = At(p + i, x)
    <2>1. PICK a \in Int : \E x \in Int : m = At(a, x) BY <1>d, InPiece
    <2>2. PICK x \in Int : m = At(a, x) BY <2>1
    <2>3. a \in addr..(addr + size - 1) BY <1>1, <2>2
    <2>4. PageOf(a) \in P /\ a - PageOf(a) \in 0..(PageSize - 1) /\ PageOf(a) + (a - PageOf(a)) = a
        BY <1>2, <2>3
    <2> QED BY <2>2, <2>4
<1>7. \A a, x, y \in Int : At(a, x) \in D /\ At(a, y) \in D => x = y BY <1>1
<1>8. PagesHold(map, D) BY <1>4, <1>5, <1>6, <1>7 DEF PagesHold
<1>9. ASSUME NEW p \in P PROVE \E i \in 0..(PageSize - 1) : \E x \in Int : At(p + i, x) \in D
    <2>1. PICK a \in addr..(addr + size - 1) : p = PageOf(a) BY <1>p DEF PagesOf
    <2>2. a - p \in 0..(PageSize - 1) /\ p + (a - p) = a BY <1>2, <2>1
    <2>3. a \in Int /\ (offset + a) - addr \in Int OBVIOUS
    <2>4. At(a, (offset + a) - addr) \in D BY <1>1, <2>1, <2>3
    <2>5. At(p + (a - p), (offset + a) - addr) \in D BY <2>2, <2>4
    <2> QED BY <2>2, <2>3, <2>5
<1>10. PagesUsed(map, D) BY <1>5, <1>9 DEF PagesUsed
<1> QED BY <1>3, <1>4, <1>8, <1>10, <1>d, <1>p, <1>m

\* A page and a place in it, of an address.
LEMMA PlaceOf ==
    ASSUME NEW p \in Nat, p % PageSize = 0, NEW q \in Nat, q % PageSize = 0,
           NEW i \in 0..(PageSize - 1), NEW j \in 0..(PageSize - 1), p + i = q + j
    PROVE  p = q /\ i = j /\ PageOf(p + i) = p
<1>0. PageSize \in Nat \ {0} BY SizesTyped
<1>1. p + i \in Nat /\ p <= p + i /\ p + i < p + PageSize BY <1>0
<1>2. q <= p + i /\ p + i < q + PageSize BY <1>0
<1>3. PageOf(p + i) = p BY <1>1, OnlyPage
<1>4. PageOf(p + i) = q BY <1>1, <1>2, OnlyPage
<1> QED BY <1>0, <1>3, <1>4

\* A page that holds a byte of aligned pages is one of them.
LEMMA HeldInPage ==
    ASSUME NEW map, NEW D, PagesHold(map, D), Aligned(DOMAIN map),
           NEW p \in Nat, p % PageSize = 0, NEW i \in 0..(PageSize - 1), NEW x \in Int,
           At(p + i, x) \in D
    PROVE  p \in DOMAIN map /\ InPage(map[p], i, x)
<1>1. PICK q \in DOMAIN map : \E j \in 0..(PageSize - 1) : \E y \in Int : At(p + i, x) = At(q + j, y)
    BY DEF PagesHold
<1>2. PICK j \in 0..(PageSize - 1) : \E y \in Int : At(p + i, x) = At(q + j, y) BY <1>1
<1>3. p + i = q + j BY <1>2, AtIs
<1>4. q \in Nat /\ q % PageSize = 0 BY DEF Aligned
<1>5. p = q BY <1>3, <1>4, PlaceOf
<1> QED BY <1>5 DEF PagesHold

LEMMA InBoth ==
    ASSUME NEW F, NEW s \in Seq(F), NEW t \in Seq(F), NEW i, NEW x
    PROVE  InPage(s \o t, i, x) <=> InPage(s, i, x) \/ InPage(t, i, x)
<1>1. ToSet(s \o t) = ToSet(s) \union ToSet(t)
    <2>1. /\ Len(s \o t) = Len(s) + Len(t) /\ Len(s) \in Nat /\ Len(t) \in Nat
          /\ DOMAIN (s \o t) = 1..(Len(s) + Len(t)) /\ DOMAIN s = 1..Len(s) /\ DOMAIN t = 1..Len(t)
        OBVIOUS
    <2>2. \A k \in 1..Len(s) : (s \o t)[k] = s[k] /\ k \in DOMAIN (s \o t) BY <2>1
    <2>3. \A k \in 1..Len(t) : (s \o t)[Len(s) + k] = t[k] /\ Len(s) + k \in DOMAIN (s \o t) BY <2>1
    <2>4. ASSUME NEW k \in DOMAIN (s \o t) PROVE (s \o t)[k] \in ToSet(s) \union ToSet(t)
        <3>1. CASE k \in 1..Len(s) BY <2>1, <2>2, <3>1 DEF ToSet
        <3>2. CASE k \notin 1..Len(s)
            <4>1. k - Len(s) \in 1..Len(t) /\ Len(s) + (k - Len(s)) = k BY <2>1, <3>2
            <4>2. (s \o t)[k] = t[k - Len(s)] BY <2>3, <4>1
            <4> QED BY <2>1, <4>1, <4>2 DEF ToSet
        <3> QED BY <3>1, <3>2
    <2>5. ToSet(s \o t) \subseteq ToSet(s) \union ToSet(t) BY <2>4 DEF ToSet
    <2>6. ToSet(s) \subseteq ToSet(s \o t) BY <2>1, <2>2 DEF ToSet
    <2>7. ToSet(t) \subseteq ToSet(s \o t) BY <2>1, <2>3 DEF ToSet
    <2> QED BY <2>5, <2>6, <2>7
<1> QED BY <1>1 DEF InPage

LEMMA NothingInPage == \A i, x : ~InPage(<<>>, i, x)
BY DEF InPage, ToSet

LEMMA JoinedIs ==
    ASSUME NEW A, NEW B, NEW old \in [A -> Seq(Fragments)], NEW new \in [B -> Seq(Fragments)]
    PROVE  /\ DOMAIN Joined(old, new) = A \union B
           /\ \A p \in A \union B : \A i, x :
                InPage(Joined(old, new)[p], i, x)
                    <=> (p \in A /\ InPage(old[p], i, x)) \/ (p \in B /\ InPage(new[p], i, x))
<1>1. Joined(old, new) =
        [page \in A \union B |->
            (IF page \in A THEN old[page] ELSE <<>>) \o (IF page \in B THEN new[page] ELSE <<>>)]
    BY DEF Joined
<1>2. ASSUME NEW p \in A \union B, NEW i, NEW x
      PROVE  InPage(Joined(old, new)[p], i, x)
                 <=> (p \in A /\ InPage(old[p], i, x)) \/ (p \in B /\ InPage(new[p], i, x))
    <2>s. PICK s : s = IF p \in A THEN old[p] ELSE <<>> OBVIOUS
    <2>t. PICK t : t = IF p \in B THEN new[p] ELSE <<>> OBVIOUS
    <2>1. Joined(old, new)[p] = s \o t BY <1>1, <2>s, <2>t
    <2>2. s \in Seq(Fragments) /\ t \in Seq(Fragments) BY <2>s, <2>t
    <2>3. InPage(s \o t, i, x) <=> InPage(s, i, x) \/ InPage(t, i, x) BY <2>2, InBoth
    <2>4. InPage(s, i, x) <=> p \in A /\ InPage(old[p], i, x)
        <3>1. CASE p \in A BY <2>s, <3>1
        <3>2. CASE p \notin A BY <2>s, <3>2, NothingInPage
        <3> QED BY <3>1, <3>2
    <2>5. InPage(t, i, x) <=> p \in B /\ InPage(new[p], i, x)
        <3>1. CASE p \in B BY <2>t, <3>1
        <3>2. CASE p \notin B BY <2>t, <3>2, NothingInPage
        <3> QED BY <3>1, <3>2
    <2> QED BY <2>1, <2>3, <2>4, <2>5
<1> QED BY <1>1, <1>2

LEMMA CoveredTwice ==
    ASSUME NEW f \in Fragments, NEW g \in Fragments, NEW i \in Nat,
           f.page_offset <= i, i < f.page_offset + f.bytes,
           g.page_offset <= i, i < g.page_offset + g.bytes
    PROVE  Overlaps(f, g)
<1>1. /\ f.page_offset \in Nat /\ f.bytes \in Nat /\ g.page_offset \in Nat /\ g.bytes \in Nat
    BY DEF Fragments
<1>2. f.page_offset < g.page_offset + g.bytes BY <1>1
<1>3. ~(f.page_offset + f.bytes <= g.page_offset) BY <1>1
<1> QED BY <1>2, <1>3 DEF Overlaps

\* No byte of one more piece is there already.
LEMMA PieceIsNew ==
    ASSUME NEW A, NEW old \in [A -> Seq(Fragments)], Aligned(A), NEW D, PagesHold(old, D),
           NEW offset \in Nat, NEW addr \in Nat, NEW size \in Nat,
           ~Collide(old, PagesFor(offset, addr, size)),
           NEW a \in Int, NEW x \in Int, NEW y \in Int,
           At(a, x) \in D, At(a, y) \in Piece(offset, addr, size)
    PROVE  FALSE
<1>n. PICK new : new = PagesFor(offset, addr, size) OBVIOUS
<1>0. PageSize \in Nat \ {0} BY SizesTyped
<1>1. a \in addr..(addr + size - 1) BY InPiece
<1>p. PICK p : p = PageOf(a) OBVIOUS
<1>i. PICK i : i = a - p OBVIOUS
<1>2. /\ p \in Nat /\ p % PageSize = 0 /\ i \in 0..(PageSize - 1) /\ p + i = a
      /\ p \in PagesOf(addr, size)
    <2>1. a \in Nat BY <1>1
    <2>2. p \in Nat /\ p % PageSize = 0 /\ p <= a /\ a < p + PageSize
        BY <2>1, <1>p, PageOfTyped
    <2>3. p \in PagesOf(addr, size) BY <1>1, <1>p DEF PagesOf
    <2> QED BY <1>0, <1>i, <2>1, <2>2, <2>3
<1>3. p \in A /\ InPage(old[p], i, x)
    <2>1. At(p + i, x) \in D BY <1>2
    <2>2. DOMAIN old = A OBVIOUS
    <2> QED BY <1>2, <2>1, <2>2, HeldInPage
<1>4. p \in DOMAIN new /\ new \in [PagesOf(addr, size) -> Seq(Fragments)]
      /\ new[p] = <<FragmentIn(p, offset, addr, size)>>
    BY <1>2, <1>n, PagesForTyped DEF PagesFor, PagesOf
<1>5. InPage(new[p], i, y) BY <1>2, <1>4, PieceHeld
<1>6. PICK g \in ToSet(old[p]) : g.page_offset <= i /\ i < g.page_offset + g.bytes
    BY <1>3 DEF InPage
<1>7. PICK f \in ToSet(new[p]) : f.page_offset <= i /\ i < f.page_offset + f.bytes
    BY <1>5 DEF InPage
<1>8. f = new[p][1] BY <1>4 DEF ToSet
<1>9. f \in Fragments /\ g \in Fragments
    <2>1. new[p] \in Seq(Fragments) /\ old[p] \in Seq(Fragments) BY <1>2, <1>3, <1>4
    <2> QED BY <1>6, <1>7, <2>1 DEF ToSet
<1>10. i \in Nat BY <1>0, <1>2
<1>11. Overlaps(new[p][1], g) BY <1>6, <1>7, <1>8, <1>9, <1>10, CoveredTwice
<1>12. p \in DOMAIN old \intersect DOMAIN new BY <1>3, <1>4
<1> QED BY <1>6, <1>11, <1>12, <1>n DEF Collide

OfFragments(map) == map \in [DOMAIN map -> Seq(Fragments)]
LEMMA JoinHolds ==
    ASSUME NEW old, OfFragments(old), Aligned(DOMAIN old), NEW D,
           PagesHold(old, D), PagesUsed(old, D),
           NEW offset \in Nat, NEW addr \in Nat, NEW size \in Nat,
           ~Collide(old, PagesFor(offset, addr, size))
    PROVE  /\ PagesHold(Joined(old, PagesFor(offset, addr, size)), D \union Piece(offset, addr, size))
           /\ PagesUsed(Joined(old, PagesFor(offset, addr, size)), D \union Piece(offset, addr, size))
           /\ Aligned(DOMAIN Joined(old, PagesFor(offset, addr, size)))
<1>A. PICK A : A = DOMAIN old OBVIOUS
<1>a. old \in [A -> Seq(Fragments)] /\ Aligned(A) BY <1>A DEF OfFragments
<1>n. PICK new : new = PagesFor(offset, addr, size) OBVIOUS
<1>b. PICK B : B = PagesOf(addr, size) OBVIOUS
<1>e. PICK E : E = Piece(offset, addr, size) OBVIOUS
<1>j. PICK both : both = Joined(old, new) OBVIOUS
<1>1. /\ new \in [B -> Seq(Fragments)] /\ PagesHold(new, E) /\ PagesUsed(new, E) /\ Aligned(B)
      /\ DOMAIN new = B /\ DOMAIN old = A
    BY <1>A, <1>n, <1>b, <1>e, PagesForTyped, PieceHeld
<1>2. /\ DOMAIN both = A \union B
      /\ \A p \in A \union B : \A i, x :
            InPage(both[p], i, x)
                <=> (p \in A /\ InPage(old[p], i, x)) \/ (p \in B /\ InPage(new[p], i, x))
    <2>2. new \in [B -> Seq(Fragments)] BY <1>1
    <2>1. /\ DOMAIN Joined(old, new) = A \union B
          /\ \A p \in A \union B : \A i, x :
                InPage(Joined(old, new)[p], i, x)
                    <=> (p \in A /\ InPage(old[p], i, x)) \/ (p \in B /\ InPage(new[p], i, x))
        BY ONLY <2>2, JoinedIs, <1>a, Zenon
    <2> QED BY ONLY <2>1, <1>j, Zenon
<1>3. Aligned(A \union B) BY <1>1, <1>a DEF Aligned
<1>4. ASSUME NEW p \in A \union B, NEW i \in 0..(PageSize - 1), NEW x \in Int
      PROVE  InPage(both[p], i, x) <=> At(p + i, x) \in D \union E
    <2>1. p \in Nat /\ p % PageSize = 0 BY <1>3 DEF Aligned
    <2>2. At(p + i, x) \in D <=> p \in A /\ InPage(old[p], i, x)
        BY <1>1, <1>a, <2>1, HeldInPage DEF PagesHold
    <2>3. At(p + i, x) \in E <=> p \in B /\ InPage(new[p], i, x)
        BY <1>1, <1>a, <2>1, HeldInPage DEF PagesHold
    <2>4. InPage(both[p], i, x) <=> (p \in A /\ InPage(old[p], i, x)) \/ (p \in B /\ InPage(new[p], i, x))
        BY <1>2
    <2>5. At(p + i, x) \in D \union E <=> At(p + i, x) \in D \/ At(p + i, x) \in E OBVIOUS
    <2> QED BY ONLY <2>2, <2>3, <2>4, <2>5
<1>5. ASSUME NEW m \in D \union E
      PROVE  \E p \in A \union B : \E i \in 0..(PageSize - 1) : \E x \in Int : m = At(p + i, x)
    <2>1. CASE m \in D BY <1>1, <2>1 DEF PagesHold
    <2>2. CASE m \in E BY <1>1, <2>2 DEF PagesHold
    <2> QED BY <2>1, <2>2
<1>6. ASSUME NEW a \in Int, NEW x \in Int, NEW y \in Int, At(a, x) \in D \union E, At(a, y) \in D \union E
      PROVE  x = y
    <2>1. CASE At(a, x) \in D /\ At(a, y) \in D BY <2>1 DEF PagesHold
    <2>2. CASE At(a, x) \in E /\ At(a, y) \in E BY <1>1, <2>2 DEF PagesHold
    <2>3. CASE At(a, x) \in D /\ At(a, y) \in E BY <1>a, <1>n, <1>e, <2>3, PieceIsNew
    <2>4. CASE At(a, x) \in E /\ At(a, y) \in D BY <1>a, <1>n, <1>e, <2>4, PieceIsNew
    <2> QED BY <1>6, <2>1, <2>2, <2>3, <2>4
<1>7. PagesHold(both, D \union E) BY <1>2, <1>4, <1>5, <1>6 DEF PagesHold
<1>8. ASSUME NEW p \in A \union B
      PROVE  \E i \in 0..(PageSize - 1) : \E x \in Int : At(p + i, x) \in D \union E
    <2>1. CASE p \in A BY <1>1, <2>1 DEF PagesUsed
    <2>2. CASE p \in B BY <1>1, <2>2 DEF PagesUsed
    <2> QED BY <2>1, <2>2
<1>9. PagesUsed(both, D \union E) BY <1>2, <1>8 DEF PagesUsed
<1> QED BY <1>2, <1>3, <1>7, <1>9, <1>n, <1>b, <1>e, <1>j

LEMMA NoPagesHold == PagesHold(EmptyMap, {}) /\ PagesUsed(EmptyMap, {}) /\ Aligned(DOMAIN EmptyMap)
BY DEF PagesHold, PagesUsed, EmptyMap, Aligned

NoFragments(P) == [page \in P |-> <<>>]
\* Empty pages may be added.
LEMMA PaddingHolds ==
    ASSUME NEW old, OfFragments(old), Aligned(DOMAIN old), NEW D, PagesHold(old, D),
           NEW P, Aligned(P)
    PROVE  /\ PagesHold(Joined(old, NoFragments(P)), D)
           /\ DOMAIN Joined(old, NoFragments(P)) = DOMAIN old \union P
           /\ Aligned(DOMAIN old \union P)
<1>A. PICK A : A = DOMAIN old OBVIOUS
<1>a. old \in [A -> Seq(Fragments)] /\ Aligned(A) BY <1>A DEF OfFragments
<1>n. PICK new : new = NoFragments(P) OBVIOUS
<1>1. new \in [P -> Seq(Fragments)]
    <2>1. <<>> \in Seq(Fragments) OBVIOUS
    <2> QED BY <2>1, <1>n DEF NoFragments
<1>j. PICK both : both = Joined(old, new) OBVIOUS
<1>2. /\ DOMAIN both = A \union P
      /\ \A p \in A \union P : \A i, x :
            InPage(both[p], i, x)
                <=> (p \in A /\ InPage(old[p], i, x)) \/ (p \in P /\ InPage(new[p], i, x))
    <2>1. /\ DOMAIN Joined(old, new) = A \union P
          /\ \A p \in A \union P : \A i, x :
                InPage(Joined(old, new)[p], i, x)
                    <=> (p \in A /\ InPage(old[p], i, x)) \/ (p \in P /\ InPage(new[p], i, x))
        BY ONLY <1>1, JoinedIs, <1>a, <1>1, Zenon
    <2> QED BY ONLY <2>1, <1>j, Zenon
<1>3. \A p \in P : \A i, x : ~InPage(new[p], i, x) BY <1>n, NothingInPage DEF NoFragments
<1>4. Aligned(A \union P) BY <1>a DEF Aligned
<1>5. DOMAIN old = A BY <1>A
<1>6. ASSUME NEW p \in A \union P, NEW i \in 0..(PageSize - 1), NEW x \in Int
      PROVE  InPage(both[p], i, x) <=> At(p + i, x) \in D
    <2>1. p \in Nat /\ p % PageSize = 0 BY <1>4 DEF Aligned
    <2>2. At(p + i, x) \in D <=> p \in A /\ InPage(old[p], i, x)
        BY <1>5, <1>a, <2>1, HeldInPage DEF PagesHold
    <2>3. InPage(both[p], i, x) <=> (p \in A /\ InPage(old[p], i, x)) \/ (p \in P /\ InPage(new[p], i, x))
        BY <1>2
    <2>4. p \in P => ~InPage(new[p], i, x) BY <1>3
    <2> QED BY ONLY <2>2, <2>3, <2>4
<1>7. \A m \in D : \E p \in A \union P : \E i \in 0..(PageSize - 1) : \E x \in Int : m = At(p + i, x)
    BY <1>5 DEF PagesHold
<1>8. PagesHold(both, D)
    <2>1. \A a, x, y \in Int : At(a, x) \in D /\ At(a, y) \in D => x = y BY DEF PagesHold
    <2> QED BY <1>2, <1>6, <1>7, <2>1 DEF PagesHold
<1> QED BY <1>2, <1>4, <1>8, <1>j, <1>A, <1>n

\* All pages moved.
LEMMA MovedHold ==
    ASSUME NEW A, Aligned(A), NEW old, DOMAIN old = A, NEW D, PagesHold(old, D), NEW by \in Int,
           NEW new, new = [page \in {p + by : p \in A} |-> old[page - by]]
    PROVE  PagesHold(new, ShiftedBy(D, by)) /\ PagesApart(DOMAIN new)
<1>p. PICK P : P = {p + by : p \in A} OBVIOUS
<1>n. new = [page \in P |-> old[page - by]] BY <1>p
<1>e. PICK E : E = ShiftedBy(D, by) OBVIOUS
<1>0. PageSize \in Nat \ {0} BY SizesTyped
<1>a. \A p \in A : p \in Int BY DEF Aligned
<1>1. \A q \in P : q \in Int /\ q - by \in A /\ new[q] = old[q - by]
    <2> SUFFICES ASSUME NEW q \in P PROVE q \in Int /\ q - by \in A /\ new[q] = old[q - by] OBVIOUS
    <2>1. PICK p \in A : q = p + by BY <1>p
    <2>2. p \in Int /\ q \in Int /\ q - by = p BY <1>a, <2>1
    <2> QED BY <1>n, <2>2
<1>2. \A a, x \in Int : At(a, x) \in E <=> At(a - by, x) \in D
    <2> SUFFICES ASSUME NEW a \in Int, NEW x \in Int PROVE At(a, x) \in E <=> At(a - by, x) \in D
        OBVIOUS
    <2>1. ASSUME At(a, x) \in E PROVE At(a - by, x) \in D
        <3>1. PICK b \in D : At(a, x) = At(b.at + by, b.byte) BY <2>1, <1>e DEF ShiftedBy
        <3>2. PICK p \in A : \E i \in 0..(PageSize - 1) : \E y \in Int : b = At(p + i, y)
            BY DEF PagesHold
        <3>3. PICK i \in 0..(PageSize - 1) : \E y \in Int : b = At(p + i, y) BY <3>2
        <3>4. PICK y \in Int : b = At(p + i, y) BY <3>3
        <3>5. b.at = p + i /\ b.byte = y BY <3>4, AtIs
        <3>6. a = (p + i) + by /\ x = y BY <3>1, <3>5, AtIs
        <3>7. a - by = p + i BY <1>a, <3>6
        <3> QED BY <3>4, <3>6, <3>7
    <2>2. ASSUME At(a - by, x) \in D PROVE At(a, x) \in E
        <3>1. At((a - by) + by, x) \in E
            <4>b. PICK b : b = At(a - by, x) OBVIOUS
            <4>1. b.at = a - by /\ b.byte = x /\ b \in D BY <4>b, AtIs, <2>2
            <4> QED BY <4>1, <1>e DEF ShiftedBy
        <3>2. (a - by) + by = a OBVIOUS
        <3> QED BY <3>1, <3>2
    <2> QED BY <2>1, <2>2
<1>3. ASSUME NEW q \in P, NEW i \in 0..(PageSize - 1), NEW x \in Int
      PROVE  InPage(new[q], i, x) <=> At(q + i, x) \in E
    <2>1. q \in Int /\ q - by \in A /\ new[q] = old[q - by] BY <1>1
    <2>2. InPage(old[q - by], i, x) <=> At((q - by) + i, x) \in D BY <2>1 DEF PagesHold
    <2>3. (q - by) + i = (q + i) - by /\ q + i \in Int BY <2>1, <1>0
    <2> QED BY <1>2, <2>1, <2>2, <2>3
<1>4. ASSUME NEW m \in E
      PROVE  \E q \in P : \E i \in 0..(PageSize - 1) : \E x \in Int : m = At(q + i, x)
    <2>1. PICK b \in D : m = At(b.at + by, b.byte) BY <1>e DEF ShiftedBy
    <2>2. PICK p \in A : \E i \in 0..(PageSize - 1) : \E y \in Int : b = At(p + i, y)
        BY DEF PagesHold
    <2>3. PICK i \in 0..(PageSize - 1) : \E y \in Int : b = At(p + i, y) BY <2>2
    <2>4. PICK y \in Int : b = At(p + i, y) BY <2>3
    <2>5. b.at = p + i /\ b.byte = y BY <2>4, AtIs
    <2>6. (p + i) + by = (p + by) + i /\ p + by \in P BY <1>a, <1>p, <1>0
    <2> QED BY <2>1, <2>5, <2>6
<1>5. ASSUME NEW a \in Int, NEW x \in Int, NEW y \in Int, At(a, x) \in E, At(a, y) \in E PROVE x = y
    <2>1. At(a - by, x) \in D /\ At(a - by, y) \in D BY <1>2, <1>5
    <2>2. a - by \in Int OBVIOUS
    <2> QED BY <2>1, <2>2 DEF PagesHold
<1>6. DOMAIN new = P BY <1>n
<1>7. PagesHold(new, E) BY <1>3, <1>4, <1>5, <1>6 DEF PagesHold
<1>8. PagesApart(P)
    <2> SUFFICES ASSUME NEW p \in P, NEW q \in P, p < q PROVE p + PageSize <= q BY DEF PagesApart
    <2>1. p - by \in A /\ q - by \in A /\ p \in Int /\ q \in Int BY <1>1
    <2>2. p - by < q - by BY <2>1
    <2>3. (p - by) + PageSize <= q - by BY <2>1, <2>2, AlignedApart DEF PagesApart
    <2> QED BY <1>0, <2>1, <2>3
<1> QED BY <1>6, <1>7, <1>8, <1>p, <1>n, <1>e

(***************************************************************************)
(* The bytes of blocks                                                     *)
(***************************************************************************)
BytesOf(b) == {At(b.target_addr + i, b.data[i]) : i \in 0..(PageSize - 1)}
HeldAt(B, S) == UNION {BytesOf(B[k]) : k \in S}
HeldTo(B, p) == HeldAt(B, Below(B, p))
Held(B) == HeldAt(B, Counted(B))
RangeOf(b) == [from |-> b.target_addr, bytes |-> b.data]
Ranges(B, S) == {RangeOf(B[k]) : k \in S}
Everything(m) == UNION {m.of[family] : family \in DOMAIN m.of}

LEMMA InContents ==
    ASSUME NEW map, NEW m
    PROVE  m \in Contents(map)
             <=> \E r \in map : \E k \in DOMAIN r.bytes : m = At(r.from + k, r.bytes[k])
BY DEF Contents

LEMMA InHeldAt ==
    ASSUME NEW B, NEW S, NEW m
    PROVE  m \in HeldAt(B, S) <=> \E k \in S : m \in BytesOf(B[k])
BY DEF HeldAt

LEMMA HeldWithOneMore ==
    ASSUME NEW B, NEW S, NEW p
    PROVE  HeldAt(B, S \union {p}) = HeldAt(B, S) \union BytesOf(B[p])
<1> SUFFICES ASSUME NEW m
             PROVE  m \in HeldAt(B, S \union {p}) <=> m \in HeldAt(B, S) \/ m \in BytesOf(B[p])
    OBVIOUS
<1>1. m \in HeldAt(B, S \union {p}) <=> \E k \in S \union {p} : m \in BytesOf(B[k]) BY InHeldAt
<1>2. m \in HeldAt(B, S) <=> \E k \in S : m \in BytesOf(B[k]) BY InHeldAt
<1> QED BY <1>1, <1>2

LEMMA InHeld ==
    ASSUME NEW B, NEW m
    PROVE  m \in Held(B) <=>
             \E k \in Counted(B) : \E i \in 0..(PageSize - 1) : m = At(B[k].target_addr + i, B[k].data[i])
BY InHeldAt DEF Held, BytesOf

\* What is read of blocks is what they hold.
LEMMA RangesHold ==
    ASSUME NEW B \in Seq(Blocks)
    PROVE  Contents(Ranges(B, Counted(B))) = Held(B)
<1>1. \A k \in Counted(B) : B[k] \in Blocks BY DEF Counted
<1>2. \A k \in Counted(B) : /\ RangeOf(B[k]).from = B[k].target_addr /\ RangeOf(B[k]).bytes = B[k].data
                            /\ DOMAIN RangeOf(B[k]).bytes = 0..(PageSize - 1)
    BY <1>1 DEF RangeOf, Blocks
<1>3. ASSUME NEW m PROVE m \in Contents(Ranges(B, Counted(B))) <=> m \in Held(B)
    <2>1. ASSUME m \in Contents(Ranges(B, Counted(B))) PROVE m \in Held(B)
        <3>1. PICK r \in Ranges(B, Counted(B)) : \E i \in DOMAIN r.bytes : m = At(r.from + i, r.bytes[i])
            BY <2>1, InContents
        <3>2. PICK k \in Counted(B) : r = RangeOf(B[k]) BY DEF Ranges
        <3>3. \E i \in 0..(PageSize - 1) : m = At(B[k].target_addr + i, B[k].data[i])
            <4>1. PICK i \in DOMAIN r.bytes : m = At(r.from + i, r.bytes[i]) BY <3>1
            <4>2. /\ r.from = B[k].target_addr /\ r.bytes = B[k].data
                  /\ DOMAIN r.bytes = 0..(PageSize - 1)
                BY <1>2, <3>2
            <4>3. i \in 0..(PageSize - 1) BY <4>1, <4>2
            <4>4. m = At(B[k].target_addr + i, B[k].data[i]) BY <4>1, <4>2
            <4> QED BY ONLY <4>3, <4>4, Zenon
        <3> QED BY <3>3, InHeld
    <2>2. ASSUME m \in Held(B) PROVE m \in Contents(Ranges(B, Counted(B)))
        <3>1. PICK k \in Counted(B) : \E i \in 0..(PageSize - 1) : m = At(B[k].target_addr + i, B[k].data[i])
            BY <2>2, InHeld
        <3>r. PICK r : r = RangeOf(B[k]) OBVIOUS
        <3>2. r \in Ranges(B, Counted(B)) BY <3>r DEF Ranges
        <3>3. \E i \in DOMAIN r.bytes : m = At(r.from + i, r.bytes[i]) BY <1>2, <3>1, <3>r
        <3> QED BY <3>2, <3>3, InContents
    <2> QED BY <2>1, <2>2
<1> QED BY <1>3

LEMMA BelowGrows ==
    ASSUME NEW B \in Seq(Blocks), NEW p \in 1..Len(B)
    PROVE  Below(B, p + 1) = IF Passes(B[p]) THEN Below(B, p) \union {p} ELSE Below(B, p)
<1>1. Counted(B) \subseteq Nat /\ p \in DOMAIN B BY DEF Counted
<1>2. p \in Counted(B) <=> Passes(B[p]) BY <1>1 DEF Counted
<1>3. \A k \in Counted(B) : k < p + 1 <=> k < p \/ k = p BY <1>1
<1>4. ~(p < p) /\ p < p + 1 OBVIOUS
<1>5. CASE Passes(B[p]) BY <1>2, <1>3, <1>4, <1>5 DEF Below
<1>6. CASE ~Passes(B[p]) BY <1>2, <1>3, <1>6 DEF Below
<1> QED BY <1>5, <1>6

LEMMA HeldGrows ==
    ASSUME NEW B \in Seq(Blocks)
    PROVE  /\ HeldTo(B, 1) = {} /\ HeldTo(B, Len(B) + 1) = Held(B)
           /\ \A p \in 1..Len(B) :
                HeldTo(B, p + 1) = IF Passes(B[p]) THEN HeldTo(B, p) \union BytesOf(B[p]) ELSE HeldTo(B, p)
<1>1. Below(B, 1) = {}
    <2>1. \A k \in DOMAIN B : ~(k < 1) OBVIOUS
    <2> QED BY <2>1 DEF Below, Counted
<1>2. HeldTo(B, 1) = {} BY <1>1 DEF HeldTo, HeldAt
<1>3. HeldTo(B, Len(B) + 1) = Held(B) BY BelowCounted DEF HeldTo, Held
<1>4. ASSUME NEW p \in 1..Len(B)
      PROVE  HeldTo(B, p + 1) = IF Passes(B[p]) THEN HeldTo(B, p) \union BytesOf(B[p]) ELSE HeldTo(B, p)
    <2>1. CASE Passes(B[p])
        <3>1. Below(B, p + 1) = Below(B, p) \union {p} BY <2>1, BelowGrows
        <3> QED BY <2>1, <3>1, HeldWithOneMore DEF HeldTo
    <2>2. CASE ~Passes(B[p])
        <3>1. Below(B, p + 1) = Below(B, p) BY <2>2, BelowGrows
        <3> QED BY <2>2, <3>1 DEF HeldTo
    <2> QED BY <2>1, <2>2
<1> QED BY <1>2, <1>3, <1>4

LEMMA HeldAppended ==
    ASSUME NEW B \in Seq(Blocks), NEW b \in Blocks
    PROVE  Held(Append(B, b)) = IF Passes(b) THEN Held(B) \union BytesOf(b) ELSE Held(B)
<1>c. PICK C : C = Append(B, b) OBVIOUS
<1>n. PICK n \in Nat : n = Len(B) OBVIOUS
<1>1. C \in Seq(Blocks) /\ Len(C) = n + 1 /\ C[n + 1] = b /\ \A k \in 1..n : C[k] = B[k]
    BY <1>c, <1>n
<1>2. Held(C) = HeldTo(C, (n + 1) + 1) BY <1>1, HeldGrows
<1>3. n + 1 \in 1..Len(C) BY <1>1
<1>4. HeldTo(C, (n + 1) + 1) = IF Passes(b) THEN HeldTo(C, n + 1) \union BytesOf(b) ELSE HeldTo(C, n + 1)
    BY <1>1, <1>3, HeldGrows
<1>5. HeldTo(C, n + 1) = Held(B)
    <2>1. Below(C, n + 1) = Counted(B)
        <3>1. DOMAIN C = 1..(n + 1) /\ DOMAIN B = 1..n BY <1>1, <1>n
        <3>2. \A k \in 1..(n + 1) : k < n + 1 <=> k \in 1..n OBVIOUS
        <3>3. \A k \in 1..n : k \in 1..(n + 1) OBVIOUS
        <3> QED BY <1>1, <3>1, <3>2, <3>3 DEF Below, Counted
    <2>2. \A k \in Counted(B) : C[k] = B[k] BY <1>1, <1>n DEF Counted
    <2> QED BY <2>1, <2>2 DEF HeldTo, Held, HeldAt
<1> QED BY <1>2, <1>4, <1>5, <1>c

\* The bytes of a block that is moved are moved.
LEMMA BytesMoved ==
    ASSUME NEW b \in Blocks, NEW c, NEW by \in Nat, c.target_addr = b.target_addr + by, c.data = b.data
    PROVE  BytesOf(c) = ShiftedBy(BytesOf(b), by)
<1>0. PageSize \in Nat \ {0} /\ b.target_addr \in Nat BY SizesTyped DEF Blocks
<1>1. \A i \in 0..(PageSize - 1) :
        /\ At(b.target_addr + i, b.data[i]).at + by = c.target_addr + i
        /\ At(b.target_addr + i, b.data[i]).byte = c.data[i]
    <2> SUFFICES ASSUME NEW i \in 0..(PageSize - 1)
                 PROVE  /\ At(b.target_addr + i, b.data[i]).at + by = c.target_addr + i
                        /\ At(b.target_addr + i, b.data[i]).byte = c.data[i]
        OBVIOUS
    <2>1. (b.target_addr + i) + by = (b.target_addr + by) + i BY <1>0
    <2> QED BY <2>1, AtIs
<1>2. BytesOf(c) \subseteq ShiftedBy(BytesOf(b), by)
    <2> SUFFICES ASSUME NEW i \in 0..(PageSize - 1)
                 PROVE  At(c.target_addr + i, c.data[i]) \in ShiftedBy(BytesOf(b), by)
        BY DEF BytesOf
    <2>m. PICK m : m = At(b.target_addr + i, b.data[i]) OBVIOUS
    <2>1. m \in BytesOf(b) BY <2>m DEF BytesOf
    <2>2. At(m.at + by, m.byte) \in ShiftedBy(BytesOf(b), by) BY <2>1 DEF ShiftedBy
    <2>3. At(m.at + by, m.byte) = At(c.target_addr + i, c.data[i]) BY <1>1, <2>m
    <2> QED BY <2>2, <2>3
<1>3. ShiftedBy(BytesOf(b), by) \subseteq BytesOf(c)
    <2> SUFFICES ASSUME NEW m \in BytesOf(b) PROVE At(m.at + by, m.byte) \in BytesOf(c)
        BY DEF ShiftedBy
    <2>1. PICK i \in 0..(PageSize - 1) : m = At(b.target_addr + i, b.data[i]) BY DEF BytesOf
    <2>2. At(m.at + by, m.byte) = At(c.target_addr + i, c.data[i]) BY <1>1, <2>1
    <2> QED BY <2>2 DEF BytesOf
<1> QED BY <1>2, <1>3

LEMMA ShiftedTogether ==
    ASSUME NEW X, NEW Y, NEW by
    PROVE  ShiftedBy(X \union Y, by) = ShiftedBy(X, by) \union ShiftedBy(Y, by)
           /\ ShiftedBy({}, by) = {}
BY DEF ShiftedBy

LEMMA NotShifted ==
    ASSUME NEW D, \A m \in D : \E a \in Int : \E x : m = At(a, x)
    PROVE  ShiftedBy(D, 0) = D
<1>1. \A m \in D : At(m.at + 0, m.byte) = m
    <2> SUFFICES ASSUME NEW m \in D PROVE At(m.at + 0, m.byte) = m OBVIOUS
    <2>1. PICK a \in Int : \E x : m = At(a, x) OBVIOUS
    <2>2. PICK x : m = At(a, x) BY <2>1
    <2>3. m.at = a /\ m.byte = x BY <2>2, AtIs
    <2>4. a + 0 = a OBVIOUS
    <2> QED BY <2>2, <2>3, <2>4
<1> QED BY <1>1 DEF ShiftedBy

(***************************************************************************)
(* What is meant by a file                                                 *)
(***************************************************************************)
PieceOf(seg) == Piece(seg.offset, seg.paddr, MappedSize(seg))
ElfBytes(S) == Contents(build_rmap_elf(S))

LEMMA InRange ==
    ASSUME NEW seg, NEW from, NEW m
    PROVE  m \in Contents({[from |-> from, bytes |-> Bytes(seg)]}) <=> m \in Piece(seg.offset, from, MappedSize(seg))
<1>r. PICK r : r = [from |-> from, bytes |-> Bytes(seg)] OBVIOUS
<1>1. m \in Contents({r}) <=> \E k \in DOMAIN r.bytes : m = At(r.from + k, r.bytes[k])
    BY InContents
<1>2. r.from = from /\ r.bytes = Bytes(seg) BY <1>r
<1>3. DOMAIN Bytes(seg) = 0..(MappedSize(seg) - 1)
      /\ \A k \in 0..(MappedSize(seg) - 1) : Bytes(seg)[k] = seg.offset + k
    BY DEF Bytes
<1>4. m \in Piece(seg.offset, from, MappedSize(seg))
        <=> \E k \in 0..(MappedSize(seg) - 1) : m = At(from + k, seg.offset + k)
    BY DEF Piece
<1>5. (\E k \in DOMAIN r.bytes : m = At(r.from + k, r.bytes[k]))
        <=> \E k \in 0..(MappedSize(seg) - 1) : m = At(from + k, seg.offset + k)
    BY <1>2, <1>3
<1> QED BY <1>1, <1>4, <1>5, <1>r

LEMMA RangeIs ==
    ASSUME NEW seg, NEW from
    PROVE  Contents({[from |-> from, bytes |-> Bytes(seg)]}) = Piece(seg.offset, from, MappedSize(seg))
<1>c. PICK C : C = Contents({[from |-> from, bytes |-> Bytes(seg)]}) OBVIOUS
<1>p. PICK P : P = Piece(seg.offset, from, MappedSize(seg)) OBVIOUS
<1>1. ASSUME NEW m PROVE m \in C <=> m \in P BY <1>c, <1>p, InRange
<1>2. C = P BY <1>1
<1> QED BY <1>2, <1>c, <1>p

LEMMA ContentsTogether ==
    ASSUME NEW X, NEW Y
    PROVE  Contents(X \union Y) = Contents(X) \union Contents(Y) /\ Contents({}) = {}
<1>1. ASSUME NEW m PROVE m \in Contents(X \union Y) <=> m \in Contents(X) \/ m \in Contents(Y)
    <2>1. m \in Contents(X \union Y)
            <=> \E r \in X \union Y : \E k \in DOMAIN r.bytes : m = At(r.from + k, r.bytes[k])
        BY InContents
    <2>2. m \in Contents(X) <=> \E r \in X : \E k \in DOMAIN r.bytes : m = At(r.from + k, r.bytes[k])
        BY InContents
    <2>3. m \in Contents(Y) <=> \E r \in Y : \E k \in DOMAIN r.bytes : m = At(r.from + k, r.bytes[k])
        BY InContents
    <2> QED BY <2>1, <2>2, <2>3
<1>2. Contents({}) = {} BY DEF Contents
<1> QED BY <1>1, <1>2

LEMMA ElfGrows ==
    ASSUME NEW S, NEW seg
    PROVE  ElfBytes(S \union {seg}) = ElfBytes(S) \union PieceOf(seg) /\ ElfBytes({}) = {}
<1>1. build_rmap_elf(S \union {seg}) = build_rmap_elf(S) \union {[from |-> seg.paddr, bytes |-> Bytes(seg)]}
    BY DEF build_rmap_elf
<1>2. Contents({[from |-> seg.paddr, bytes |-> Bytes(seg)]}) = PieceOf(seg) BY RangeIs DEF PieceOf
<1>3. build_rmap_elf({}) = {} BY DEF build_rmap_elf
<1>4. Contents(build_rmap_elf(S) \union {[from |-> seg.paddr, bytes |-> Bytes(seg)]})
        = Contents(build_rmap_elf(S)) \union Contents({[from |-> seg.paddr, bytes |-> Bytes(seg)]})
    BY ContentsTogether
<1>5. Contents({}) = {} BY ContentsTogether
<1>6. ElfBytes(S \union {seg}) = ElfBytes(S) \union PieceOf(seg) BY ONLY <1>1, <1>2, <1>4 DEF ElfBytes
<1> QED BY <1>3, <1>5, <1>6 DEF ElfBytes

BaseOf(file, chip) ==
    LET first == Min({b.at : b \in ElfBytes(Contained(file, chip))})
    IN  IF RamStyle(file, chip) THEN PageOf(first) ELSE first - (first % SectorSize)
DueOf(file, o) == MeaningOf(file, o).of[o.family]
LEMMA MeaningIs ==
    ASSUME NEW file, NEW o
    PROVE  /\ MeaningOf(file, o).whole /\ MeaningOf(file, o).ours
           /\ DOMAIN MeaningOf(file, o).of = {o.family}
           /\ Everything(MeaningOf(file, o)) = DueOf(file, o)
           /\ file.type = "bin" =>
                DueOf(file, o) = Piece(file.segs[1].offset, IF o.offset = NotSet THEN flash_start ELSE o.offset,
                                       MappedSize(file.segs[1]))
           /\ file.type # "bin" =>
                DueOf(file, o) = IF o.offset = NotSet THEN ElfBytes(Contained(file, o.chip))
                                 ELSE ShiftedBy(ElfBytes(Contained(file, o.chip)), o.offset - BaseOf(file, o.chip))
<1>m. PICK m : m = MeaningOf(file, o) OBVIOUS
<1>1. m.whole /\ m.ours /\ DOMAIN m.of = {o.family} BY <1>m DEF MeaningOf
<1>2. Everything(m) = m.of[o.family] BY <1>1 DEF Everything
<1>a. PICK addr : addr = IF o.offset = NotSet THEN flash_start ELSE o.offset OBVIOUS
<1>3. ASSUME file.type = "bin"
      PROVE  m.of[o.family] = Piece(file.segs[1].offset, addr, MappedSize(file.segs[1]))
    <2>1. m.of[o.family] = Contents(Inserted({}, addr, Bytes(file.segs[1]))) BY <1>m, <1>a, <1>3 DEF MeaningOf
    <2>2. Inserted({}, addr, Bytes(file.segs[1])) = {[from |-> addr, bytes |-> Bytes(file.segs[1])]}
        BY DEF Inserted
    <2> QED BY <2>1, <2>2, RangeIs
<1>4. ASSUME file.type # "bin"
      PROVE  m.of[o.family] = IF o.offset = NotSet THEN ElfBytes(Contained(file, o.chip))
                              ELSE ShiftedBy(ElfBytes(Contained(file, o.chip)), o.offset - BaseOf(file, o.chip))
    BY <1>m, <1>4 DEF MeaningOf, ElfBytes, BaseOf
<1> QED BY <1>1, <1>2, <1>3, <1>4, <1>a, <1>m DEF DueOf

\* A file of blocks holds what is meant by it, and zeros.
KeptAs(file, m) ==
    m.whole =>
        /\ file.type = "uf2" /\ Counted(file.blocks) # {}
        /\ Everything(m) \subseteq Held(file.blocks)
        /\ \A x \in Held(file.blocks) : x \in Everything(m) \/ x.byte = 0
        /\ \A k \in Counted(file.blocks) : file.blocks[k].file_size \in DOMAIN m.of
        /\ m.ours => /\ Apart(file.blocks)
                     /\ \E family : DOMAIN m.of = {family}
                     /\ \A k \in DOMAIN file.blocks : file.blocks[k].abs \/ file.blocks[k].usable

LEMMA GivenIsKept ==
    ASSUME NEW file, file.blocks \in Seq(Blocks)
    PROVE  KeptAs(file, Given(file))
<1>m. PICK m : m = Given(file) OBVIOUS
<1> SUFFICES ASSUME m.whole PROVE KeptAs(file, m) BY <1>m DEF KeptAs
<1>1. file.type = "uf2" BY <1>m DEF Given, NoMeaning
<1>B. PICK B : B = file.blocks OBVIOUS
<1>u. PICK usable : usable = {block \in ToSet(B) : Passes(block)} OBVIOUS
<1>2. usable # {} /\ m.of = [f \in {block.file_size : block \in usable} |->
            Contents({[from |-> block.target_addr, bytes |-> block.data] : block \in {b \in usable : b.file_size = f}})]
      /\ ~m.ours
    BY <1>1, <1>m, <1>u, <1>B DEF Given
<1>R. DEFINE R(f) == {RangeOf(block) : block \in {b \in usable : b.file_size = f}}
<1>3. DOMAIN m.of = {block.file_size : block \in usable} /\ \A f \in DOMAIN m.of : m.of[f] = Contents(R(f))
    BY <1>2 DEF RangeOf
<1>4. usable = {B[k] : k \in Counted(B)} BY <1>u, <1>B DEF ToSet, Counted
<1>5. ASSUME NEW x PROVE x \in Everything(m) <=> x \in Held(B)
    <2>1. ASSUME x \in Everything(m) PROVE x \in Held(B)
        <3>1. PICK f \in DOMAIN m.of : x \in m.of[f] BY <2>1 DEF Everything
        <3>2. x \in Contents(R(f)) BY <1>3, <3>1
        <3>3. R(f) \subseteq Ranges(B, Counted(B)) BY <1>4 DEF Ranges
        <3>4. x \in Contents(Ranges(B, Counted(B)))
            <4>1. PICK r \in R(f) : \E k \in DOMAIN r.bytes : x = At(r.from + k, r.bytes[k])
                BY <3>2, InContents
            <4> HIDE DEF R
            <4> QED BY <3>3, <4>1, InContents
        <3> QED BY <3>4, <1>B, RangesHold
    <2>2. ASSUME x \in Held(B) PROVE x \in Everything(m)
        <3>1. x \in Contents(Ranges(B, Counted(B))) BY <2>2, <1>B, RangesHold
        <3>2. PICK r \in Ranges(B, Counted(B)) : \E k \in DOMAIN r.bytes : x = At(r.from + k, r.bytes[k])
            BY <3>1, InContents
        <3>3. PICK k \in Counted(B) : r = RangeOf(B[k]) BY DEF Ranges
        <3>f. PICK f : f = B[k].file_size OBVIOUS
        <3>4. r \in R(f) /\ f \in DOMAIN m.of BY <1>3, <1>4, <3>3, <3>f
        <3> HIDE DEF R
        <3>5. x \in Contents(R(f)) BY <3>2, <3>4, InContents
        <3>6. x \in m.of[f] BY <1>3, <3>4, <3>5
        <3> QED BY <3>4, <3>6 DEF Everything
    <2> QED BY <2>1, <2>2
<1>6. Counted(B) # {} BY <1>2, <1>4
<1>7. \A k \in Counted(B) : B[k].file_size \in DOMAIN m.of BY <1>3, <1>4
<1> QED BY <1>1, <1>2, <1>5, <1>6, <1>7, <1>B DEF KeptAs

\* The lowest page is that of the lowest byte.
LEMMA FirstPage ==
    ASSUME NEW map, NEW D, PagesHold(map, D), PagesUsed(map, D), Aligned(DOMAIN map), DOMAIN map # {},
           NEW first, first = Min({b.at : b \in D})
    PROVE  /\ first \in Nat /\ PageOf(first) \in DOMAIN map
           /\ \A q \in DOMAIN map : PageOf(first) <= q
<1>A. PICK A : A = {b.at : b \in D} OBVIOUS
<1>0. PageSize \in Nat \ {0} BY SizesTyped
<1>1. ASSUME NEW m \in D
      PROVE  \E p \in DOMAIN map : \E i \in 0..(PageSize - 1) : m.at = p + i
    <2>1. PICK p \in DOMAIN map : \E i \in 0..(PageSize - 1) : \E x \in Int : m = At(p + i, x)
        BY DEF PagesHold
    <2>2. PICK i \in 0..(PageSize - 1) : \E x \in Int : m = At(p + i, x) BY <2>1
    <2>3. m.at = p + i BY <2>2, AtIs
    <2> QED BY <2>3
<1>2. ASSUME NEW q \in DOMAIN map PROVE \E i \in 0..(PageSize - 1) : q + i \in A
    <2>1. PICK i \in 0..(PageSize - 1) : \E x \in Int : At(q + i, x) \in D BY DEF PagesUsed
    <2>2. PICK x \in Int : At(q + i, x) \in D BY <2>1
    <2>3. At(q + i, x).at = q + i BY AtIs
    <2>4. q + i \in A BY <2>2, <2>3, <1>A
    <2> QED BY <2>4
<1>3. \A p \in DOMAIN map : p \in Nat /\ p % PageSize = 0 BY DEF Aligned
<1>4. A \in SUBSET Nat
    <2> SUFFICES ASSUME NEW a \in A PROVE a \in Nat OBVIOUS
    <2>1. PICK m \in D : a = m.at BY <1>A
    <2>2. PICK p \in DOMAIN map : \E i \in 0..(PageSize - 1) : m.at = p + i BY <1>1
    <2>3. PICK i \in 0..(PageSize - 1) : m.at = p + i BY <2>2
    <2>4. p \in Nat BY <1>3
    <2> QED BY <1>0, <2>1, <2>3, <2>4
<1>5. A # {} BY <1>2
<1>6. first \in A /\ \A y \in A : first <= y BY <1>4, <1>5, <1>A, LowestIsMin
<1>7. first \in Nat BY <1>4, <1>6
<1>8. PICK p \in DOMAIN map : \E i \in 0..(PageSize - 1) : first = p + i
    <2>1. PICK m \in D : first = m.at BY <1>6, <1>A
    <2> QED BY <1>1, <2>1
<1>9. PICK i \in 0..(PageSize - 1) : first = p + i BY <1>8
<1>10. PageOf(first) = p
    <2>1. p \in Nat /\ p % PageSize = 0 BY <1>3
    <2>2. p <= first /\ first < p + PageSize BY <1>0, <1>9, <2>1
    <2> QED BY <1>7, <2>1, <2>2, OnlyPage
<1>11. ASSUME NEW q \in DOMAIN map PROVE p <= q
    <2> SUFFICES ASSUME q < p PROVE FALSE BY <1>3
    <2>1. p \in Nat /\ q \in Nat BY <1>3
    <2>2. q + PageSize <= p BY AlignedApart DEF PagesApart
    <2>3. PICK j \in 0..(PageSize - 1) : q + j \in A BY <1>2
    <2>4. first <= q + j BY <1>6, <2>3
    <2> QED BY <1>0, <1>9, <2>1, <2>2, <2>4
<1> QED BY <1>7, <1>10, <1>11

\* What is in a sector, and what is before it.
LEMMA BeginsWithSector ==
    ASSUME NEW first \in Nat, NEW p \in Nat, p = PageOf(first), NEW S \in SUBSET Nat, p \in S, Full(S),
           \A x \in S : \E q \in S : p <= q /\ (SectorOf(x) = SectorOf(q) \/ x = q)
    PROVE  Min(S) = first - (first % SectorSize)
<1>s. PICK s : s = SectorSize * SectorOf(first) OBVIOUS
<1>d. SectorSize \in Nat \ {0} /\ PageSize \in Nat \ {0} BY SizesTyped
<1>1. /\ s \in Nat /\ s <= first /\ s % PageSize = 0 /\ SectorOf(s) = SectorOf(first)
      /\ SectorOf(first) \in Nat
    BY <1>s, SectorBegins
<1>2. first - (first % SectorSize) = s
    <2>1. first = (SectorSize * (first \div SectorSize)) + (first % SectorSize)
          /\ first % SectorSize \in 0..(SectorSize - 1)
        BY <1>d, DivisionOf
    <2>2. first = s + (first % SectorSize) BY <2>1, <1>s DEF SectorOf
    <2>r. PICK r \in Nat : r = first % SectorSize BY <1>d, <2>1
    <2>3. \A x, y, z \in Nat : x = y + z => x - z = y OBVIOUS
    <2> QED BY <1>1, <2>2, <2>r, <2>3
<1>3. p <= first /\ first < p + PageSize /\ p % PageSize = 0 BY PageOfTyped
<1>4. s <= p
    <2> SUFFICES ASSUME p < s PROVE FALSE BY <1>1
    <2>1. Aligned({p, s}) BY <1>1, <1>3 DEF Aligned
    <2>2. p + PageSize <= s BY <2>1, AlignedApart DEF PagesApart
    <2> QED BY <1>1, <1>3, <1>d, <2>2
<1>5. SectorOf(p) = SectorOf(first)
    <2>1. s \div SectorSize <= p \div SectorSize /\ p \div SectorSize <= first \div SectorSize
        BY <1>1, <1>3, <1>4, <1>d, QuotientGrows
    <2>2. SectorOf(s) <= SectorOf(p) /\ SectorOf(p) <= SectorOf(first) BY <2>1 DEF SectorOf
    <2>3. SectorOf(p) \in Nat BY SectorBegins
    <2> QED BY <1>1, <2>2, <2>3
<1>6. s \in S BY <1>1, <1>4, <1>5 DEF Full
<1>7. ASSUME NEW x \in S PROVE s <= x
    <2>1. PICK q \in S : p <= q /\ (SectorOf(x) = SectorOf(q) \/ x = q) OBVIOUS
    <2>0. x \in Nat /\ q \in Nat OBVIOUS
    <2>2. CASE x = q BY <1>1, <1>4, <2>0, <2>1, <2>2
    <2>3. CASE SectorOf(x) = SectorOf(q)
        <3>1. p \div SectorSize <= q \div SectorSize BY <1>d, <2>0, <2>1, QuotientGrows
        <3>2. SectorOf(first) <= SectorOf(x) BY <1>5, <2>3, <3>1 DEF SectorOf
        <3>3. SectorSize * SectorOf(x) \in Nat /\ SectorSize * SectorOf(x) <= x /\ SectorOf(x) \in Nat
            BY <2>0, SectorBegins
        <3>4. SectorSize * SectorOf(first) <= SectorSize * SectorOf(x)
            <4>1. \A d, a, b \in Nat : a <= b => d * a <= d * b OBVIOUS
            <4> QED BY <1>1, <1>d, <3>2, <3>3, <4>1
        <3> QED BY <1>s, <1>1, <2>0, <3>3, <3>4
    <2> QED BY <2>1, <2>2, <2>3
<1>8. Min(S) \in S /\ \A y \in S : Min(S) <= y BY <1>6, LowestIsMin
<1>9. Min(S) = s
    <2>1. s <= Min(S) /\ Min(S) <= s /\ Min(S) \in Nat BY <1>6, <1>7, <1>8
    <2> QED BY <1>1, <2>1
<1> QED BY <1>2, <1>9

(***************************************************************************)
(* The invariant: what files hold and what has been read of them           *)
(***************************************************************************)
KeptAll == \A f \in Names : KeptAs(disk[f], meant[f])

\* While a binary is converted, its pages hold what is meant: of the segments taken
\* so far, and, placed, all of it.
Taking(taken) ==
    /\ taken \union ToSet(segments) = ToSet(Input.segs)
    /\ PagesHold(pages, ElfBytes(taken \intersect Contained(Input, job.o.chip)))
    /\ PagesUsed(pages, ElfBytes(taken \intersect Contained(Input, job.o.chip)))
Holding ==
    /\ pc \in {"bin", "type", "segments", "absolute", "page", "close", "count", "combined_absolute", "copy"} =>
         disk[job.to].type = "uf2"
    /\ pc = "segments" => Aligned(DOMAIN pages) /\ \E taken : Taking(taken)
    /\ pc \in {"absolute", "page"} \/ (pc = "close" /\ job.op = "convert") =>
         PagesHold(pages, DueOf(Input, job.o)) /\ PagesApart(DOMAIN pages)

\* While files are combined, the output holds what was copied.
Copying ==
    pc = "copy" \/ (pc = "close" /\ job.op # "convert") =>
        Held(Output) = IF job.part = 1 THEN HeldTo(Blocks1, pos)
                       ELSE Held(Blocks1) \union ShiftedBy(HeldTo(Blocks2, pos), job.o.offset)

\* While a file is read, the blocks up to pos are mapped, when it is of one program.
MappedTo(B, m, p, map, family) ==
    m.whole /\ (\E only : DOMAIN m.of = {only}) =>
        /\ map = Ranges(B, Below(B, p))
        /\ IF Below(B, p) = {} THEN family = 0 ELSE DOMAIN m.of = {family}
ReadFrom == job.from[1]
Mapping ==
    pc \in {"read", "map", "mapped"} =>
        /\ job.op \in {"info", "read"} /\ ReadFrom \in Names /\ Input = disk[ReadFrom] /\ job.ok
        /\ job.part \in 1..2 /\ (job.part = 1 => job.from = <<ReadFrom>>)
        /\ job.op = "info" => job.o.offset = NotSet
        /\ job.op = "read" => job.part = 1 /\ job.o.offset \in Nat \union {NotSet}
        /\ pc = "read" <=> Input.type = "uf2"
        /\ pc = "read" /\ job.part = 1 =>
             MappedTo(disk[ReadFrom].blocks, meant[ReadFrom], pos, rmap, family_id)
        /\ pc = "read" /\ meant[ReadFrom].whole /\ meant[ReadFrom].ours => job.part = 1 /\ next_family_id = 0

OursReadBack == meant[job.from[1]].ours => ReadsBack
KeepInv == KeptAll /\ Holding /\ Copying /\ Mapping /\ OursReadBack /\ MovedToOffset

\* Nothing is being read.
LEMMA NotReading ==
    ASSUME pc' \notin {"read", "map", "mapped"}, pc' # "idle" \/ job'.op \in {"convert", "combine"}
    PROVE  Mapping' /\ OursReadBack' /\ MovedToOffset'
<1>1. ~Finished("info")' /\ ~Finished("read")' BY DEF Finished
<1> QED BY <1>1 DEF Mapping, OursReadBack, ReadsBack, MovedToOffset

\* Only the output is changed.
LEMMA OthersKept ==
    ASSUME KeptAll, NEW t \in Names,
           \A f \in Names : f # t => disk'[f] = disk[f] /\ meant'[f] = meant[f],
           KeptAs(disk'[t], meant'[t])
    PROVE  KeptAll'
<1> SUFFICES ASSUME NEW f \in Names PROVE KeptAs(disk'[f], meant'[f]) BY DEF KeptAll
<1>1. CASE f = t BY <1>1
<1>2. CASE f # t
    <2>1. KeptAs(disk[f], meant[f]) BY DEF KeptAll
    <2> QED BY <1>2, <2>1
<1> QED BY <1>1, <1>2

LEMMA NothingMeant == \A file, m : Begun(m) => KeptAs(file, m)
BY DEF KeptAs, Begun, NoMeaning

LEMMA AllKept ==
    ASSUME KeptAll, UNCHANGED Files
    PROVE  KeptAll'
BY DEF KeptAll, Files

LEMMA KeepInitially == Init => KeepInv
<1> SUFFICES ASSUME Init PROVE KeepInv OBVIOUS
<1>1. pc = "idle" /\ job = NoJob /\ disk \in Disks /\ meant = [f \in Names |-> Given(disk[f])] BY DEF Init
<1>2. Holding /\ Copying /\ Mapping BY <1>1 DEF Holding, Copying, Mapping
<1>3. job.op = "" BY <1>1 DEF NoJob
<1>4. OursReadBack /\ MovedToOffset BY <1>3 DEF OursReadBack, ReadsBack, MovedToOffset, Finished
<1>5. KeptAll
    <2> SUFFICES ASSUME NEW f \in Names PROVE KeptAs(disk[f], meant[f]) BY DEF KeptAll
    <2>1. meant[f] = Given(disk[f]) BY <1>1
    <2>2. disk[f].blocks \in Seq(Blocks)
        <3>1. CountInv BY CountInitially
        <3> QED BY <3>1, SameBlocks
    <2> QED BY <2>1, <2>2, GivenIsKept
<1> QED BY <1>2, <1>4, <1>5 DEF KeepInv

(***************************************************************************)
(* uf2 convert, and what its pages hold                                    *)
(***************************************************************************)
\* What a command begins with.
LEMMA WritingBegins ==
    ASSUME CountInv, KeepInv, NEW op \in {"convert", "combine"}, NEW from, NEW t \in Names, NEW o, NEW numbered,
           StartWriting(op, from, t, o, numbered), pc' \in {"bin", "type", "count"}
    PROVE  KeepInv'
<1>m. PICK m : m = [NoMeaning EXCEPT !.numbered = numbered] OBVIOUS
<1>b. Begun(m) BY <1>m DEF Begun, NoMeaning
<1>1. /\ disk' = [disk EXCEPT ![t] = Uf2File(<<>>)] /\ meant' = [meant EXCEPT ![t] = m]
      /\ job'.to = t /\ job'.op = op
    <2>1. Start(op, from, t, o) BY DEF StartWriting
    <2>2. job'.to = t /\ job'.op = op BY <2>1, Starts
    <2> QED BY <2>2, <1>m DEF StartWriting
<1>2. DOMAIN disk = Names /\ DOMAIN meant = Names BY DEF CountInv, Typed, FilesTyped
<1>3. disk'[t] = Uf2File(<<>>) /\ meant'[t] = m
      /\ \A f \in Names : f # t => disk'[f] = disk[f] /\ meant'[f] = meant[f]
    BY <1>1, <1>2
<1>4. KeptAll'
    <2>1. KeptAs(disk'[t], meant'[t]) BY <1>3, <1>b, NothingMeant
    <2> QED BY <1>3, <2>1, OthersKept DEF KeepInv
<1>5. Holding'
    <2>1. disk'[job'.to].type = "uf2" BY <1>1, <1>3 DEF Uf2File
    <2> QED BY <2>1 DEF Holding
<1>6. Copying' BY DEF Copying
<1>7. Mapping' /\ OursReadBack' /\ MovedToOffset' BY NotReading
<1> QED BY <1>4, <1>5, <1>6, <1>7 DEF KeepInv

LEMMA StartConvertKeeps ==
    ASSUME CountInv, KeepInv, NEW f, NEW t \in Names, NEW o, StartConvert(f, t, o)
    PROVE  KeepInv'
<1>1. StartWriting("convert", <<f>>, t, o, TRUE) /\ pc' \in {"bin", "type"} BY DEF StartConvert
<1> QED BY <1>1, WritingBegins

LEMMA StartCombineKeeps ==
    ASSUME CountInv, KeepInv, NEW f, NEW g, NEW t \in Names, NEW o, StartCombine(f, g, t, o)
    PROVE  KeepInv'
<1>n. PICK numbered : numbered = (meant[f].numbered /\ meant[g].numbered) OBVIOUS
<1>1. StartWriting("combine", <<f, g>>, t, o, numbered) /\ pc' = "count" BY <1>n DEF StartCombine
<1> QED BY <1>1, WritingBegins

LEMMA FailKeeps ==
    ASSUME CountInv, KeepInv, Fail, job.op \in {"convert", "combine"}
    PROVE  KeepInv'
<1>1. pc' = "idle" /\ job' = [job EXCEPT !.ok = FALSE] /\ UNCHANGED Files BY DEF Fail
<1>2. DOMAIN job = JobFields BY DEF CountInv, Typed
<1>3. job'.op = job.op BY <1>1, <1>2 DEF JobFields
<1>4. KeptAll' BY <1>1, AllKept DEF KeepInv
<1>5. Holding' /\ Copying' BY <1>1 DEF Holding, Copying
<1>6. Mapping' /\ OursReadBack' /\ MovedToOffset' BY <1>1, <1>3, NotReading
<1> QED BY <1>4, <1>5, <1>6 DEF KeepInv

LEMMA BinKeeps ==
    ASSUME CountInv, KeepInv, bin2uf2
    PROVE  KeepInv'
<1>1. /\ pc = "bin" /\ pc' = "absolute" /\ UNCHANGED <<disk, meant, job, segments>> /\ segments # <<>>
      /\ pages' = PagesFor(Head(segments).offset, IF job.o.offset = NotSet THEN flash_start ELSE job.o.offset,
                           MappedSize(Head(segments)))
    BY DEF bin2uf2, Files
<1>2. /\ Input \in FileSet /\ Input.type = "bin" /\ Input = disk[job.from[1]] /\ job.from[1] \in Names
      /\ job.o.offset \in Nat \union {NotSet} /\ segments = Input.segs
    <2>1. segments = Input.segs BY <1>1 DEF CountInv, Converting
    <2>2. job.to # job.from[1] BY <1>1, <2>1, WhileConverting
    <2>3. Input.type = "bin" BY <1>1, <2>2 DEF CountInv, Converting
    <2> QED BY <1>1, <2>1, <2>3, WhileConverting
<1>s. PICK seg : seg = Input.segs[1] OBVIOUS
<1>3. Head(segments) = seg /\ seg \in Segments
    <2>1. Len(Input.segs) = 1 /\ Input.segs \in Seq(Segments)
        BY <1>2 DEF CountInv, Typed, FilesTyped, FileSet
    <2> QED BY <1>2, <1>s, <2>1
<1>a. PICK addr : addr = IF job.o.offset = NotSet THEN flash_start ELSE job.o.offset OBVIOUS
<1>4. seg.offset \in Nat /\ addr \in Nat /\ MappedSize(seg) \in Nat
    BY <1>2, <1>3, <1>a, MappedSizeTyped, FlashBegins DEF Segments, NotSet
<1>5. pages' = PagesFor(seg.offset, addr, MappedSize(seg)) BY <1>1, <1>3, <1>a
<1>6. DueOf(Input, job.o) = Piece(seg.offset, addr, MappedSize(seg)) BY <1>2, <1>a, <1>s, MeaningIs
<1>7. PagesHold(pages', DueOf(Input, job.o)) /\ PagesApart(DOMAIN pages')
    <2>n. PICK n \in Nat : n = MappedSize(seg) BY <1>4
    <2>o. PICK offset \in Nat : offset = seg.offset BY <1>4
    <2>1. DOMAIN PagesFor(offset, addr, n) = PagesOf(addr, n) BY <1>4, PagesForTyped
    <2>2. Aligned(PagesOf(addr, n)) /\ PagesHold(PagesFor(offset, addr, n), Piece(offset, addr, n))
        BY <1>4, PieceHeld
    <2>3. PagesApart(PagesOf(addr, n)) BY <2>2, AlignedApart
    <2> QED BY <1>5, <1>6, <2>n, <2>o, <2>1, <2>2, <2>3
<1>8. Input' = Input /\ job' = job BY <1>1 DEF Input
<1>9. disk'[job'.to].type = "uf2" BY <1>1 DEF KeepInv, Holding
<1>10. Holding' BY <1>1, <1>7, <1>8, <1>9 DEF Holding
<1>11. KeptAll' BY <1>1, AllKept DEF KeepInv, Files
<1>12. Copying' BY <1>1 DEF Copying
<1>13. Mapping' /\ OursReadBack' /\ MovedToOffset' BY <1>1, NotReading
<1> QED BY <1>10, <1>11, <1>12, <1>13 DEF KeepInv

LEMMA TypeKeeps ==
    ASSUME CountInv, KeepInv, rp_determine_binary_type
    PROVE  KeepInv'
<1>1. pc = "type" /\ pc' = "segments" /\ UNCHANGED <<disk, meant, job, segments, pages>>
    BY DEF rp_determine_binary_type, Files, Writing
<1>2. pages = EmptyMap /\ segments = Input.segs BY <1>1 DEF CountInv, Converting
<1>3. Aligned(DOMAIN pages) /\ PagesHold(pages, {}) /\ PagesUsed(pages, {}) BY <1>2, NoPagesHold
<1>4. Input' = Input /\ Contained(Input, job.o.chip)' = Contained(Input, job.o.chip) BY <1>1 DEF Input
<1>5. Taking({})'
    <2>1. {} \intersect Contained(Input, job.o.chip) = {} /\ ElfBytes({}) = {} BY ElfGrows
    <2>2. {} \union ToSet(segments') = ToSet(Input.segs) BY <1>1, <1>2
    <2> QED BY <1>1, <1>3, <1>4, <2>1, <2>2 DEF Taking
<1>6. disk'[job'.to].type = "uf2" BY <1>1 DEF KeepInv, Holding
<1>7. Holding' BY <1>1, <1>3, <1>5, <1>6 DEF Holding
<1>8. KeptAll' BY <1>1, AllKept DEF KeepInv, Files
<1>9. Copying' BY <1>1 DEF Copying
<1>10. Mapping' /\ OursReadBack' /\ MovedToOffset' BY <1>1, NotReading
<1> QED BY <1>7, <1>8, <1>9, <1>10 DEF KeepInv

LEMMA HeadAndTail ==
    ASSUME NEW X, NEW s \in Seq(X), s # <<>>
    PROVE  ToSet(s) = {Head(s)} \union ToSet(Tail(s))
<1>n. PICK n \in Nat : n = Len(s) OBVIOUS
<1>t. PICK t : t = Tail(s) OBVIOUS
<1>1. n > 0 /\ DOMAIN s = 1..n /\ DOMAIN t = 1..(n - 1) /\ Head(s) = s[1]
      /\ \A k \in 1..(n - 1) : t[k] = s[k + 1]
    BY <1>n, <1>t
<1>2. \A k \in 1..n : s[k] \in {Head(s)} \union ToSet(t)
    <2> SUFFICES ASSUME NEW k \in 1..n, k # 1 PROVE s[k] \in ToSet(t) BY <1>1
    <2>1. k - 1 \in 1..(n - 1) /\ (k - 1) + 1 = k OBVIOUS
    <2>2. s[k] = t[k - 1] BY <1>1, <2>1
    <2> QED BY <1>1, <2>1, <2>2 DEF ToSet
<1>3. \A k \in 1..(n - 1) : t[k] \in ToSet(s)
    <2> SUFFICES ASSUME NEW k \in 1..(n - 1) PROVE t[k] \in ToSet(s) OBVIOUS
    <2>1. k + 1 \in 1..n /\ t[k] = s[k + 1] BY <1>1
    <2> QED BY <1>1, <2>1 DEF ToSet
<1>4. Head(s) \in ToSet(s)
    <2>1. 1 \in 1..n BY <1>1
    <2> QED BY <1>1, <2>1 DEF ToSet
<1>5. ToSet(s) \subseteq {Head(s)} \union ToSet(t) BY <1>1, <1>2 DEF ToSet
<1>6. ToSet(t) \subseteq ToSet(s) BY <1>1, <1>3 DEF ToSet
<1> QED BY <1>4, <1>5, <1>6, <1>t

LEMMA SegmentKeeps ==
    ASSUME CountInv, KeepInv, check_elf32_ph_entries
    PROVE  KeepInv'
<1>s. PICK seg : seg = Head(segments) OBVIOUS
<1>1. /\ pc = "segments" /\ segments # <<>> /\ segments' = Tail(segments) /\ ~SegmentRefused(seg)
      /\ pages' = IF SegmentType(seg) = "contents" THEN Joined(pages, SegmentPages(seg)) ELSE pages
      /\ UNCHANGED <<disk, meant, job, pc>>
    BY <1>s DEF check_elf32_ph_entries, Files
<1>2. segments \in Seq(Segments) /\ PagesTyped BY DEF CountInv, Typed
<1>3. seg \in Segments /\ ToSet(segments) = {seg} \union ToSet(segments')
    BY <1>1, <1>2, <1>s, HeadAndTail
<1>n. PICK size \in Nat : size = MappedSize(seg) BY <1>3, MappedSizeTyped
<1>o. PICK offset \in Nat : offset = seg.offset BY <1>3 DEF Segments
<1>a. PICK addr \in Nat : addr = seg.paddr BY <1>3 DEF Segments
<1>4. PICK taken : Taking(taken) BY <1>1 DEF KeepInv, Holding
<1>C. PICK C : C = Contained(Input, job.o.chip) OBVIOUS
<1>D. PICK D : D = ElfBytes(taken \intersect C) OBVIOUS
<1>A. PICK A : A = DOMAIN pages OBVIOUS
<1>5. /\ taken \union ToSet(segments) = ToSet(Input.segs) /\ PagesHold(pages, D) /\ PagesUsed(pages, D)
      /\ Aligned(A) /\ pages \in [A -> Seq(Fragments)]
    BY <1>1, <1>2, <1>4, <1>C, <1>D, <1>A DEF Taking, KeepInv, Holding, PagesTyped
<1>6. Input' = Input /\ Contained(Input, job.o.chip)' = C BY <1>1, <1>C DEF Input
<1>t. PICK taken1 : taken1 = taken \union {seg} OBVIOUS
<1>7. taken1 \union ToSet(segments') = ToSet(Input.segs) /\ seg \in ToSet(Input.segs)
    BY <1>3, <1>5, <1>t
<1>8. ASSUME SegmentType(seg) = "contents"
      PROVE  Aligned(DOMAIN pages') /\ PagesHold(pages', ElfBytes(taken1 \intersect C))
             /\ PagesUsed(pages', ElfBytes(taken1 \intersect C))
    <2>1. size # 0 /\ TypeOf(valid_ranges(Input, job.o.chip), seg.paddr, MappedSize(seg)) = "contents"
        BY <1>8, <1>n DEF SegmentType
    <2>2. SegmentPages(seg) = PagesFor(offset, addr, size)
        BY <2>1, <1>n, <1>o, <1>a DEF SegmentPages
    <2>3. seg \in C
        <3>1. MappedSize(seg) > 0 BY <2>1, <1>n
        <3>2. seg \in Mapped(Input) BY <1>7, <3>1 DEF Mapped
        <3> QED BY <2>1, <3>2, <1>C DEF Contained
    <2>4. taken1 \intersect C = (taken \intersect C) \union {seg} BY <2>3, <1>t
    <2>5. ElfBytes(taken1 \intersect C) = D \union Piece(offset, addr, size)
        BY <2>4, <1>D, <1>n, <1>o, <1>a, ElfGrows DEF PieceOf
    <2>6. ~Collide(pages, PagesFor(offset, addr, size)) BY <1>1, <1>8, <2>2 DEF SegmentRefused
    <2>7. pages' = Joined(pages, PagesFor(offset, addr, size)) BY <1>1, <1>8, <2>2
    <2>8. /\ PagesHold(pages', D \union Piece(offset, addr, size))
          /\ PagesUsed(pages', D \union Piece(offset, addr, size))
          /\ Aligned(DOMAIN pages')
        <3>1. OfFragments(pages) /\ Aligned(DOMAIN pages) BY <1>5, <1>A DEF OfFragments
        <3> QED BY <1>5, <2>6, <2>7, <3>1, JoinHolds
    <2> QED BY <2>5, <2>8
<1>9. ASSUME SegmentType(seg) # "contents"
      PROVE  Aligned(DOMAIN pages') /\ PagesHold(pages', ElfBytes(taken1 \intersect C))
             /\ PagesUsed(pages', ElfBytes(taken1 \intersect C))
    <2>1. seg \notin C
        <3> SUFFICES ASSUME seg \in C PROVE FALSE OBVIOUS
        <3>1. MappedSize(seg) > 0 /\ TypeOf(valid_ranges(Input, job.o.chip), seg.paddr, MappedSize(seg)) = "contents"
            BY <1>C DEF Contained, Mapped
        <3>2. MappedSize(seg) # 0 BY <3>1, <1>n
        <3> QED BY <1>9, <3>1, <3>2 DEF SegmentType
    <2>2. taken1 \intersect C = taken \intersect C BY <2>1, <1>t
    <2> QED BY <1>1, <1>5, <1>9, <1>A, <1>D, <2>2
<1>10. Aligned(DOMAIN pages') /\ PagesHold(pages', ElfBytes(taken1 \intersect C))
       /\ PagesUsed(pages', ElfBytes(taken1 \intersect C))
    BY <1>8, <1>9
<1>11. Taking(taken1)' BY <1>6, <1>7, <1>10 DEF Taking
<1>12. disk'[job'.to].type = "uf2" BY <1>1 DEF KeepInv, Holding
<1>13. Holding' BY <1>1, <1>10, <1>11, <1>12 DEF Holding
<1>14. KeptAll' BY <1>1, AllKept DEF KeepInv, Files
<1>15. Copying' BY <1>1 DEF Copying
<1>16. Mapping' /\ OursReadBack' /\ MovedToOffset' BY <1>1, NotReading
<1> QED BY <1>13, <1>14, <1>15, <1>16 DEF KeepInv

\* Placed, the pages are where they are meant to be.
LEMMA BeginsAtBase ==
    ASSUME CountInv, pc = "segments", DOMAIN pages # {}, NEW D, D = ElfBytes(Contained(Input, job.o.chip)),
           PagesHold(pages, D), PagesUsed(pages, D), Aligned(DOMAIN pages),
           NEW final, final = (IF RamStyle(Input, job.o.chip) THEN pages ELSE Padded)
    PROVE  /\ Aligned(DOMAIN final) /\ PagesHold(final, D)
           /\ Min(DOMAIN final) = BaseOf(Input, job.o.chip)
<1>f. PICK first : first = Min({b.at : b \in D}) OBVIOUS
<1>A. PICK A : A = DOMAIN pages OBVIOUS
<1>1. first \in Nat /\ PageOf(first) \in A /\ \A q \in A : PageOf(first) <= q
    BY <1>f, <1>A, FirstPage
<1>b. BaseOf(Input, job.o.chip) = IF RamStyle(Input, job.o.chip) THEN PageOf(first) ELSE first - (first % SectorSize)
    BY <1>f DEF BaseOf
<1>2. A \in SUBSET Nat /\ A # {} BY <1>A DEF Aligned
<1>3. CASE RamStyle(Input, job.o.chip)
    <2>1. Min(A) \in A /\ \A y \in A : Min(A) <= y BY <1>2, LowestIsMin
    <2>2. Min(A) <= PageOf(first) /\ PageOf(first) <= Min(A) BY <1>1, <2>1
    <2>3. Min(A) \in Nat /\ PageOf(first) \in Nat BY <1>1, <1>2, <2>1
    <2>4. Min(A) = PageOf(first) BY <2>2, <2>3
    <2> QED BY <1>3, <1>A, <1>b, <2>4
<1>4. CASE ~RamStyle(Input, job.o.chip)
    <2>1. PagesTyped /\ A \subseteq FlashPages
        BY <1>4, <1>A DEF CountInv, Typed, Converting, FlashPages
    <2>2. OfFragments(pages) BY <2>1 DEF PagesTyped, OfFragments
    <2>P. PICK P : P = PaddingPages OBVIOUS
    <2>3. Padded = Joined(pages, NoFragments(P)) BY <2>P DEF Padded, NoFragments
    <2>4. P \subseteq FlashPages /\ \A x \in P : \E q \in A : SectorOf(q) = SectorOf(x)
        BY <2>P, <1>A DEF PaddingPages, FlashPages
    <2>5. Aligned(P) /\ Aligned(A) BY <1>A, <2>4, FlashPagesTyped DEF Aligned
    <2>6. /\ PagesHold(Joined(pages, NoFragments(P)), D)
          /\ DOMAIN Joined(pages, NoFragments(P)) = A \union P /\ Aligned(A \union P)
        BY <2>2, <2>5, <1>A, PaddingHolds
    <2>7. Full(A \union P) /\ A \union P \in SUBSET Nat
        <3>1. Full(DOMAIN Padded) BY <2>1, <1>A, PaddedIsFull
        <3> QED BY <2>3, <2>6, <3>1 DEF Aligned
    <2>8. \A x \in A \union P : \E q \in A \union P : PageOf(first) <= q /\ (SectorOf(x) = SectorOf(q) \/ x = q)
        BY <1>1, <2>4
    <2>9. Min(A \union P) = first - (first % SectorSize)
        <3>1. PageOf(first) \in A \union P /\ PageOf(first) \in Nat BY <1>1, <1>2
        <3> QED BY <1>1, <2>7, <2>8, <3>1, BeginsWithSector
    <2> QED BY <1>4, <1>b, <2>3, <2>6, <2>9
<1> QED BY <1>3, <1>4

LEMMA PlaceKeeps ==
    ASSUME CountInv, KeepInv, PlacePages
    PROVE  KeepInv'
<1>f. PICK final : final = IF RamStyle(Input, job.o.chip) THEN pages ELSE Padded OBVIOUS
<1>b. PICK by : by = IF job.o.offset = NotSet THEN 0 ELSE job.o.offset - Min(DOMAIN final) OBVIOUS
<1>1. /\ pc = "segments" /\ segments = <<>> /\ pages # EmptyMap /\ pc' = "absolute"
      /\ pages' = [page \in {p + by : p \in DOMAIN final} |-> final[page - by]]
      /\ UNCHANGED <<disk, meant, job>>
    BY <1>f, <1>b DEF PlacePages, Files
<1>2. job.o.offset \in Nat \union {NotSet} /\ Input.type = "elf"
    BY <1>1, WhileConverting DEF CountInv, Converting
<1>3. DOMAIN pages # {}
    <2> SUFFICES ASSUME DOMAIN pages = {} PROVE FALSE OBVIOUS
    <2>1. pages = [a \in {} |-> pages[a]] BY DEF CountInv, Typed, PagesTyped
    <2>2. pages = [a \in {} |-> 0] BY <2>1
    <2> QED BY <1>1, <2>2 DEF EmptyMap
<1>D. PICK D : D = ElfBytes(Contained(Input, job.o.chip)) OBVIOUS
<1>4. PagesHold(pages, D) /\ PagesUsed(pages, D) /\ Aligned(DOMAIN pages)
    <2>1. PICK taken : Taking(taken) BY <1>1 DEF KeepInv, Holding
    <2>2. taken = ToSet(Input.segs)
        <3>1. ToSet(segments) = {} BY <1>1 DEF ToSet
        <3> QED BY <2>1, <3>1 DEF Taking
    <2>3. taken \intersect Contained(Input, job.o.chip) = Contained(Input, job.o.chip) BY <2>2 DEF Contained, Mapped
    <2> QED BY <1>1, <1>D, <2>1, <2>3 DEF Taking, KeepInv, Holding
<1>F. PICK F : F = DOMAIN final OBVIOUS
<1>5. Aligned(F) /\ PagesHold(final, D) /\ Min(F) = BaseOf(Input, job.o.chip)
    BY <1>1, <1>3, <1>4, <1>D, <1>f, <1>F, BeginsAtBase
<1>6. by \in Int
    <2>1. F # {}
        <3> SUFFICES ASSUME F = {} PROVE FALSE OBVIOUS
        <3>1. D = {}
            <4>1. \A m \in D : \E p \in F : TRUE BY <1>5, <1>F DEF PagesHold
            <4> QED BY <4>1
        <3>2. PICK p \in DOMAIN pages : TRUE BY <1>3
        <3> QED BY <1>4, <3>1, <3>2 DEF PagesUsed
    <2>2. Min(F) \in Nat
        <3>1. F \in SUBSET Nat BY <1>5 DEF Aligned
        <3>2. Min(F) \in F BY <2>1, <3>1, LowestIsMin
        <3> QED BY <3>1, <3>2
    <2> QED BY <1>2, <1>b, <1>F, <2>2 DEF NotSet
<1>7. PagesHold(pages', ShiftedBy(D, by)) /\ PagesApart(DOMAIN pages')
    <2>1. PICK new : new = [page \in {p + by : p \in F} |-> final[page - by]] OBVIOUS
    <2>2. Aligned(F) /\ PagesHold(final, D) /\ by \in Int /\ DOMAIN final = F
        BY <1>5, <1>6, <1>F
    <2>3. PagesHold(new, ShiftedBy(D, by)) /\ PagesApart(DOMAIN new)
        BY ONLY <2>1, <2>2, MovedHold
    <2> QED BY <1>1, <1>F, <2>1, <2>3
<1>8. ShiftedBy(D, by) = DueOf(Input, job.o)
    <2>1. DueOf(Input, job.o) = IF job.o.offset = NotSet THEN D
                                ELSE ShiftedBy(D, job.o.offset - BaseOf(Input, job.o.chip))
        BY <1>2, <1>D, MeaningIs
    <2>2. CASE job.o.offset = NotSet
        <3>1. by = 0 BY <1>b, <2>2
        <3>2. \A m \in D : \E a \in Int : \E x : m = At(a, x)
            <4> SUFFICES ASSUME NEW m \in D PROVE \E a \in Int : \E x : m = At(a, x) OBVIOUS
            <4>1. PICK p \in F : \E i \in 0..(PageSize - 1) : \E x \in Int : m = At(p + i, x)
                BY <1>5, <1>F DEF PagesHold
            <4>2. PICK i \in 0..(PageSize - 1) : \E x \in Int : m = At(p + i, x) BY <4>1
            <4>3. p + i \in Int BY <1>5, SizesTyped DEF Aligned
            <4> QED BY <4>2, <4>3
        <3>3. ShiftedBy(D, 0) = D BY <3>2, NotShifted
        <3> QED BY <2>1, <2>2, <3>1, <3>3
    <2>3. CASE job.o.offset # NotSet BY <1>5, <1>b, <1>F, <2>1, <2>3
    <2> QED BY <2>2, <2>3
<1>9. DueOf(Input, job.o)' = DueOf(Input, job.o) BY <1>1 DEF Input
<1>10. disk'[job'.to].type = "uf2" BY <1>1 DEF KeepInv, Holding
<1>11. Holding' BY <1>1, <1>7, <1>8, <1>9, <1>10 DEF Holding
<1>12. KeptAll' BY <1>1, AllKept DEF KeepInv, Files
<1>13. Copying' BY <1>1 DEF Copying
<1>14. Mapping' /\ OursReadBack' /\ MovedToOffset' BY <1>1, NotReading
<1> QED BY <1>11, <1>12, <1>13, <1>14 DEF KeepInv

\* While a command writes, and when what it wrote was cut off, the file has no meaning yet.
LEMMA UnfinishedKept ==
    ASSUME CountInv, KeepInv, pc \in {"bin", "type", "segments", "absolute", "page", "count", "combined_absolute", "copy", "close"},
           NEW t \in Names, t = job.to, meant' = meant, Begun(meant[t]),
           NEW B, disk' = [disk EXCEPT ![t].blocks = B]
    PROVE  KeptAll' /\ disk'[t].type = "uf2" /\ disk'[t].blocks = B
           /\ \A f \in Names : f # t => disk'[f] = disk[f]
<1>1. DOMAIN disk = Names /\ disk[t] \in FileSet BY DEF CountInv, Typed, FilesTyped
<1>2. \A f \in Names : f # t => disk'[f] = disk[f] BY <1>1
<1>3. disk'[t] = [disk[t] EXCEPT !.blocks = B] BY <1>1
<1>4. disk'[t].type = disk[t].type /\ disk'[t].blocks = B BY <1>1, <1>3 DEF FileSet
<1>5. disk[t].type = "uf2" BY DEF KeepInv, Holding
<1>6. KeptAs(disk'[t], meant'[t]) BY NothingMeant
<1>7. KeptAll' BY <1>2, <1>6, OthersKept DEF KeepInv
<1> QED BY <1>2, <1>4, <1>5, <1>7

LEMMA AbsoluteKeeps ==
    ASSUME CountInv, KeepInv, WriteAbsolute
    PROVE  KeepInv'
<1>t. PICK t : t = job.to OBVIOUS
<1>1. /\ pc = "absolute" /\ pc' = "page" /\ UNCHANGED <<meant, job, pages>>
      /\ \/ Write(gen_abs_block(abs_block_loc))
         \/ UNCHANGED disk
    BY DEF WriteAbsolute
<1>2. t \in Names /\ job.from[1] \in Names /\ t # job.from[1] /\ Begun(meant[t])
    BY <1>1, <1>t, WhileConverting
<1>3. PICK B : disk' = [disk EXCEPT ![t].blocks = B]
    <2>1. CASE UNCHANGED disk BY <1>2, <2>1, SameBlocks
    <2>2. CASE Write(gen_abs_block(abs_block_loc))
        <3>1. disk' = [disk EXCEPT ![t].blocks = Append(@, gen_abs_block(abs_block_loc))]
            BY <2>2, <1>t DEF Write
        <3>2. DOMAIN disk = Names /\ disk[t] \in FileSet BY <1>2 DEF CountInv, Typed, FilesTyped
        <3>3. disk' = [disk EXCEPT ![t].blocks = Append(disk[t].blocks, gen_abs_block(abs_block_loc))]
            BY <3>1, <3>2
        <3> QED BY <3>3
    <2> QED BY <1>1, <2>1, <2>2
<1>4. KeptAll' /\ disk'[t].type = "uf2" /\ disk'[job.from[1]] = disk[job.from[1]]
    <2>1. t \in Names /\ t = job.to /\ job.from[1] \in Names /\ job.from[1] # t BY <1>2, <1>t
    <2>2. meant' = meant /\ Begun(meant[t]) BY <1>1, <1>2
    <2>3. KeptAll' /\ disk'[t].type = "uf2" /\ \A f \in Names : f # t => disk'[f] = disk[f]
        BY <1>1, <1>3, <2>1, <2>2, UnfinishedKept
    <2> QED BY <2>1, <2>3
<1>5. Input = disk[job.from[1]] /\ Input' = Input
    <2>1. Input = disk[job.from[1]] /\ job.part = 1 BY <1>1, WhileConverting DEF CountInv, Converting
    <2>2. Input' = disk'[job.from[1]] BY <1>1, <2>1 DEF Input
    <2> QED BY <1>4, <2>1, <2>2
<1>6. DueOf(Input, job.o)' = DueOf(Input, job.o) BY <1>1, <1>5
<1>7. PagesHold(pages, DueOf(Input, job.o)) /\ PagesApart(DOMAIN pages) BY <1>1 DEF KeepInv, Holding
<1>8. disk'[job'.to].type = "uf2" BY <1>1, <1>4, <1>t
<1>9. Holding' BY <1>1, <1>6, <1>7, <1>8 DEF Holding
<1>10. Copying' BY <1>1 DEF Copying
<1>11. Mapping' /\ OursReadBack' /\ MovedToOffset' BY <1>1, NotReading
<1> QED BY <1>4, <1>9, <1>10, <1>11 DEF KeepInv

\* Everyone is the one with the rank it has.
LEMMA RankIsNth ==
    ASSUME NEW S \in SUBSET Nat, IsFiniteSet(S), NEW p \in S
    PROVE  Rank(S, p) \in 0..(Cardinality(S) - 1) /\ Nth(S, Rank(S, p)) = p
<1>r. PICK r : r = Rank(S, p) OBVIOUS
<1>1. r \in 0..(Cardinality(S) - 1)
    <2> DEFINE L == {q \in S : q < p}
    <2>1. IsFiniteSet(L) /\ L \subseteq S /\ p \notin L
        <3>1. ~(p < p) OBVIOUS
        <3> QED BY <3>1, FS_Subset
    <2>2. Cardinality(L \union {p}) = Cardinality(L) + 1 BY <2>1, FS_AddElement
    <2>3. Cardinality(L \union {p}) <= Cardinality(S) BY <2>1, FS_Subset
    <2>4. Cardinality(L) \in Nat /\ Cardinality(S) \in Nat BY <2>1, FS_CardinalityType
    <2>5. r = Cardinality(L) BY <1>r DEF Rank
    <2> HIDE DEF L
    <2> QED BY <2>2, <2>3, <2>4, <2>5
<1>2. Nth(S, r) \in S /\ Rank(S, Nth(S, r)) = r BY <1>1, NthTaken
<1>q. PICK q : q = Nth(S, r) OBVIOUS
<1>3. q \in S /\ Rank(S, q) = Rank(S, p) BY <1>2, <1>q, <1>r
<1>4. ~(q < p)
    <2> SUFFICES ASSUME q < p PROVE FALSE OBVIOUS
    <2>1. Rank(S, q) \in Nat /\ Rank(S, q) < Rank(S, p) BY <1>3, RankGrows
    <2> QED BY <1>3, <2>1
<1>5. ~(p < q)
    <2> SUFFICES ASSUME p < q PROVE FALSE OBVIOUS
    <2>1. Rank(S, p) \in Nat /\ Rank(S, p) < Rank(S, q) BY <1>3, RankGrows
    <2> QED BY <1>3, <2>1
<1>6. q = p BY <1>3, <1>4, <1>5
<1> QED BY <1>1, <1>6, <1>q, <1>r

\* Written to the end, the file is its pages.
LEMMA WrittenIsKept ==
    ASSUME PagesTyped, NEW D, PagesHold(pages, D), PagesApart(DOMAIN pages), DOMAIN pages # {},
           NEW B \in Seq(Blocks), NEW s \in 0..1, NEW total, NEW family,
           total = Cardinality(DOMAIN pages), Len(B) = s + total, NumberedAs(B, s, total, family),
           \A k \in (s + 1)..(s + total) : PageWritten(B[k], (k - s) - 1)
    PROVE  /\ D \subseteq Held(B) /\ \A x \in Held(B) : x \in D \/ x.byte = 0
           /\ Counted(B) # {} /\ Apart(B)
           /\ \A k \in DOMAIN B : B[k].abs \/ B[k].usable
           /\ \A k \in Counted(B) : B[k].file_size = family
<1>S. PICK S : S = DOMAIN pages OBVIOUS
<1>0. PageSize \in Nat \ {0} BY SizesTyped
<1>1. S \in SUBSET Nat /\ IsFiniteSet(S) /\ \A p \in S : pages[p] \in Seq(Fragments)
    BY <1>S DEF PagesTyped
<1>2. total \in Nat /\ total # 0 BY <1>1, <1>S, FS_CardinalityType, FS_EmptySet
<1>3. Counted(B) = (s + 1)..(s + total) /\ DOMAIN B = 1..(s + total)
    <2>1. DOMAIN B = 1..(s + total) /\ Len(B) = s + total OBVIOUS
    <2>2. \A k \in 1..(s + total) : Passes(B[k]) <=> k \in (s + 1)..(s + total)
        <3> SUFFICES ASSUME NEW k \in 1..(s + total) PROVE Passes(B[k]) <=> k \in (s + 1)..(s + total)
            OBVIOUS
        <3>1. CASE k <= s BY <2>1, <3>1, <1>2 DEF NumberedAs, Passes, check_abs_block
        <3>2. CASE ~(k <= s)
            <4>1. ~B[k].abs /\ B[k].usable BY <2>1, <3>2 DEF NumberedAs
            <4>2. k \in (s + 1)..(s + total) BY <1>2, <3>2
            <4> QED BY <4>1, <4>2 DEF Passes, check_abs_block
        <3> QED BY <3>1, <3>2
    <2>3. (s + 1)..(s + total) \subseteq 1..(s + total) BY <1>2
    <2> QED BY <2>1, <2>2, <2>3 DEF Counted
<1>4. ASSUME NEW k \in (s + 1)..(s + total)
      PROVE  /\ (k - s) - 1 \in 0..(total - 1)
             /\ Nth(S, (k - s) - 1) \in S /\ B[k].target_addr = Nth(S, (k - s) - 1)
             /\ B[k].data = realize_page(pages[Nth(S, (k - s) - 1)])
    <2>1. (k - s) - 1 \in 0..(total - 1) BY <1>2
    <2>2. Nth(S, (k - s) - 1) \in S BY <1>1, <1>S, <2>1, NthTaken
    <2> QED BY <1>S, <2>1, <2>2 DEF PageWritten
<1>5. ASSUME NEW p \in S
      PROVE  \E k \in Counted(B) : B[k].target_addr = p /\ B[k].data = realize_page(pages[p])
    <2>r. PICK r : r = Rank(S, p) OBVIOUS
    <2>1. r \in 0..(total - 1) /\ Nth(S, r) = p BY <1>1, <1>S, <2>r, RankIsNth
    <2>k. PICK k : k = (s + 1) + r OBVIOUS
    <2>2. k \in (s + 1)..(s + total) /\ (k - s) - 1 = r BY <1>2, <2>1, <2>k
    <2>3. B[k].target_addr = Nth(S, r) /\ B[k].data = realize_page(pages[Nth(S, r)])
        BY <1>4, <2>2
    <2> QED BY <1>3, <2>1, <2>2, <2>3
<1>6. ASSUME NEW m \in D PROVE m \in Held(B)
    <2>1. PICK p \in S : \E i \in 0..(PageSize - 1) : \E x \in Int : m = At(p + i, x)
        BY <1>S DEF PagesHold
    <2>2. PICK i \in 0..(PageSize - 1) : \E x \in Int : m = At(p + i, x) BY <2>1
    <2>3. PICK x \in Int : m = At(p + i, x) BY <2>2
    <2>4. InPage(pages[p], i, x) BY <1>S, <2>3 DEF PagesHold
    <2>y. PICK y : y = realize_page(pages[p])[i] OBVIOUS
    <2>5. InPage(pages[p], i, y) BY <1>1, <2>4, <2>y, RealizedByte
    <2>6. y \in Int
        <3>1. realize_page(pages[p]) \in [0..(PageSize - 1) -> Nat] BY <1>1, RealizedTyped
        <3>g. PICK g : g = realize_page(pages[p]) OBVIOUS
        <3>2. g[i] \in Nat BY <3>1, <3>g
        <3> QED BY <2>y, <3>2, <3>g
    <2>7. At(p + i, y) \in D BY <1>S, <2>5, <2>6 DEF PagesHold
    <2>8. x = y
        <3>1. p + i \in Int BY <1>0, <1>1
        <3>2. At(p + i, x) \in D BY <2>3
        <3> QED BY <2>6, <2>7, <3>1, <3>2 DEF PagesHold
    <2>9. PICK k \in Counted(B) : B[k].target_addr = p /\ B[k].data = realize_page(pages[p])
        BY <1>5
    <2>10. m = At(B[k].target_addr + i, B[k].data[i]) BY <2>3, <2>8, <2>9, <2>y
    <2> QED BY <2>10, InHeld
<1>7. ASSUME NEW m \in Held(B) PROVE m \in D \/ m.byte = 0
    <2>1. PICK k \in Counted(B) : \E i \in 0..(PageSize - 1) : m = At(B[k].target_addr + i, B[k].data[i])
        BY InHeld
    <2>2. PICK i \in 0..(PageSize - 1) : m = At(B[k].target_addr + i, B[k].data[i]) BY <2>1
    <2>p. PICK p : p = Nth(S, (k - s) - 1) OBVIOUS
    <2>3. p \in S /\ m = At(p + i, realize_page(pages[p])[i]) BY <1>3, <1>4, <2>2, <2>p
    <2>y. PICK y : y = realize_page(pages[p])[i] OBVIOUS
    <2>4. y \in Int
        <3>1. realize_page(pages[p]) \in [0..(PageSize - 1) -> Nat] BY <1>1, <2>3, RealizedTyped
        <3>g. PICK g : g = realize_page(pages[p]) OBVIOUS
        <3>2. g[i] \in Nat BY <3>1, <3>g
        <3> QED BY <2>y, <3>2, <3>g
    <2>5. CASE InPage(pages[p], i, y) BY <1>S, <2>3, <2>4, <2>5, <2>y DEF PagesHold
    <2>6. CASE y = 0 BY <2>3, <2>6, <2>y, AtIs
    <2>7. InPage(pages[p], i, y) \/ y = 0 BY <1>1, <2>3, <2>y, RealizedByte
    <2> QED BY <2>5, <2>6, <2>7
<1>8. Apart(B)
    <2> SUFFICES ASSUME NEW k \in DOMAIN B, NEW l \in DOMAIN B, k < l, ~B[k].abs, ~B[l].abs
                 PROVE  B[k].target_addr + PageSize <= B[l].target_addr
        BY DEF Apart
    <2>1. k \in Int /\ l \in Int /\ s < k /\ s < l
        <3>1. k \in 1..(s + total) /\ l \in 1..(s + total) BY <1>3
        <3>2. k <= s => B[k].abs BY <1>3 DEF NumberedAs
        <3>3. l <= s => B[l].abs BY <1>3 DEF NumberedAs
        <3> QED BY <1>2, <3>1, <3>2, <3>3
    <2>2. k \in (s + 1)..(s + total) /\ l \in (s + 1)..(s + total) BY <1>2, <1>3, <2>1
    <2>m. PICK i : i = (k - s) - 1 OBVIOUS
    <2>n. PICK j : j = (l - s) - 1 OBVIOUS
    <2>3. i \in 0..(total - 1) /\ j \in 0..(total - 1) /\ i < j
        <3>1. \A a, b, c \in Int : \A d \in Nat :
                /\ a \in (c + 1)..(c + d) => (a - c) - 1 \in 0..(d - 1)
                /\ a < b => (a - c) - 1 < (b - c) - 1
            OBVIOUS
        <3>2. s \in Int /\ k < l OBVIOUS
        <3> QED BY <1>2, <2>1, <2>2, <2>m, <2>n, <3>1, <3>2
    <2>4. Nth(S, i) < Nth(S, j) BY <1>1, <1>S, <2>3, NthGrows
    <2>5. Nth(S, i) \in S /\ Nth(S, j) \in S BY <1>4, <2>2, <2>m, <2>n
    <2>6. Nth(S, i) + PageSize <= Nth(S, j) BY <1>S, <2>4, <2>5 DEF PagesApart
    <2> QED BY <1>4, <2>2, <2>6, <2>m, <2>n
<1>9. \A k \in DOMAIN B : B[k].abs \/ B[k].usable
    <2> SUFFICES ASSUME NEW k \in 1..(s + total) PROVE B[k].abs \/ B[k].usable BY <1>3
    <2> QED BY DEF NumberedAs
<1>10. \A k \in Counted(B) : B[k].file_size = family
    <2> SUFFICES ASSUME NEW k \in (s + 1)..(s + total) PROVE B[k].file_size = family BY <1>3
    <2>1. k \in 1..Len(B) /\ ~(k <= s) BY <1>2
    <2> QED BY <2>1 DEF NumberedAs
<1>11. Counted(B) # {}
    <2>1. s + 1 \in (s + 1)..(s + total) BY <1>2
    <2> QED BY <1>3, <2>1
<1> QED BY <1>6, <1>7, <1>8, <1>9, <1>10, <1>11

LEMMA PageKeeps ==
    ASSUME CountInv, KeepInv, WritePage
    PROVE  KeepInv'
<1>t. PICK t : t = job.to OBVIOUS
<1>1. /\ pc = "page" /\ pc' \in {"page", "close"} /\ UNCHANGED <<job, pages, meant>>
    BY DEF WritePage
<1>2. /\ t \in Names /\ job.from[1] \in Names /\ t # job.from[1] /\ Begun(meant[t])
      /\ Input = disk[job.from[1]] /\ job.part = 1 /\ job.op = "convert"
    BY <1>1, <1>t, WhileConverting DEF CountInv, Converting
<1>3. PICK s \in 0..1 : \E B : Appended(B, s) BY <1>1, WritesPage
<1>4. PICK B : Appended(B, s) BY <1>3
<1>5. disk' = [disk EXCEPT ![t].blocks = B] BY <1>4, <1>t DEF Appended
<1>6. KeptAll' /\ disk'[t].type = "uf2" /\ \A f \in Names : f # t => disk'[f] = disk[f]
    BY <1>1, <1>2, <1>5, <1>t, UnfinishedKept
<1>D. PICK D : D = DueOf(Input, job.o) OBVIOUS
<1>7. PagesHold(pages, D) /\ PagesApart(DOMAIN pages) BY <1>1, <1>D DEF KeepInv, Holding
<1>8. DueOf(Input, job.o)' = D
    <2>1. Input' = disk'[job.from[1]] BY <1>1, <1>2 DEF Input
    <2>2. Input' = Input BY <1>2, <1>6, <2>1
    <2> QED BY <1>1, <1>D, <2>2
<1>9. disk'[job'.to].type = "uf2" BY <1>1, <1>6, <1>t
<1>10. Holding' BY <1>1, <1>7, <1>8, <1>9 DEF Holding
<1>11. Copying' BY <1>1, <1>2 DEF Copying
<1>12. Mapping' /\ OursReadBack' /\ MovedToOffset' BY <1>1, NotReading
<1> QED BY <1>6, <1>10, <1>11, <1>12 DEF KeepInv

\* What is cut off has no meaning, and never will.
LEMMA CutOffKeeps ==
    ASSUME CountInv, KeepInv, pc \in {"absolute", "page", "copy", "close"}, pc' = "idle",
           meant' = meant, job' = job \/ job' = [job EXCEPT !.ok = FALSE],
           job.op \in {"convert", "combine"}, job.to \in Names, Begun(meant[job.to]),
           NEW left, disk' = [disk EXCEPT ![job.to].blocks = left]
    PROVE  KeepInv'
<1>1. DOMAIN job = JobFields BY DEF CountInv, Typed
<1>2. job'.op = job.op BY <1>1 DEF JobFields
<1>3. KeptAll' BY UnfinishedKept
<1>4. Holding' /\ Copying' BY DEF Holding, Copying
<1>5. Mapping' /\ OursReadBack' /\ MovedToOffset' BY <1>2, NotReading
<1> QED BY <1>3, <1>4, <1>5 DEF KeepInv

LEMMA WriteFailsKeeps ==
    ASSUME CountInv, KeepInv, WriteFails
    PROVE  KeepInv'
<1>1. /\ pc \in {"page", "absolute"} /\ pc' = "idle" /\ job' = [job EXCEPT !.ok = FALSE] /\ meant' = meant
      /\ \E left : disk' = [disk EXCEPT ![job.to].blocks = left]
    BY DEF WriteFails, FailWriting
<1>2. PICK left : disk' = [disk EXCEPT ![job.to].blocks = left] BY <1>1
<1>3. job.to \in Names /\ Begun(meant[job.to]) /\ job.op = "convert"
    BY <1>1, WhileConverting DEF CountInv, Converting
<1> QED BY <1>1, <1>2, <1>3, CutOffKeeps

\* Closed as it was written, a file that was converted is what was meant.
LEMMA ConvertCloseKeeps ==
    ASSUME CountInv, KeepInv, pc = "close", job.op = "convert", pc' = "idle", UNCHANGED <<disk, job>>,
           meant' = [meant EXCEPT ![job.to] = MeaningOf(Input, job.o)]
    PROVE  KeepInv'
<1>t. PICK t : t = job.to OBVIOUS
<1>1. /\ t \in Names /\ family_id = job.o.family /\ DOMAIN pages # {}
      /\ num_blocks = Cardinality(DOMAIN pages) /\ block_no = num_blocks
      /\ \E s \in 0..1 : /\ Len(Output) = s + block_no
                          /\ NumberedAs(Output, s, num_blocks, family_id)
                          /\ \A k \in (s + 1)..(s + block_no) : PageWritten(Output[k], (k - s) - 1)
    BY <1>t, WhileConverting DEF CountInv, Converting
<1>B. PICK B : B = Output OBVIOUS
<1>2. PICK s \in 0..1 : /\ Len(B) = s + num_blocks
                        /\ NumberedAs(B, s, num_blocks, family_id)
                        /\ \A k \in (s + 1)..(s + num_blocks) : PageWritten(B[k], (k - s) - 1)
    BY <1>1, <1>B
<1>D. PICK D : D = DueOf(Input, job.o) OBVIOUS
<1>3. /\ disk[t].type = "uf2" /\ disk[t].blocks = B /\ B \in Seq(Blocks)
      /\ PagesHold(pages, D) /\ PagesApart(DOMAIN pages)
    BY <1>1, <1>t, <1>B, <1>D, SameBlocks DEF KeepInv, Holding, Output
<1>m. PICK m : m = MeaningOf(Input, job.o) OBVIOUS
<1>4. DOMAIN meant = Names BY DEF CountInv, Typed, FilesTyped
<1>5. meant'[t] = m /\ \A f \in Names : f # t => meant'[f] = meant[f] BY <1>1, <1>4, <1>m, <1>t
<1>6. DOMAIN m.of = {family_id} /\ Everything(m) = D BY <1>1, <1>D, <1>m, MeaningIs
<1>7. /\ D \subseteq Held(B) /\ \A x \in Held(B) : x \in D \/ x.byte = 0
      /\ Counted(B) # {} /\ Apart(B)
      /\ \A k \in DOMAIN B : B[k].abs \/ B[k].usable
      /\ \A k \in Counted(B) : B[k].file_size = family_id
    <2>1. PagesTyped /\ PagesHold(pages, D) /\ PagesApart(DOMAIN pages) /\ DOMAIN pages # {}
        BY <1>1, <1>3 DEF CountInv, Typed
    <2>2. B \in Seq(Blocks) /\ num_blocks = Cardinality(DOMAIN pages) BY <1>1, <1>3
    <2> QED BY ONLY <1>2, <2>1, <2>2, WrittenIsKept
<1>8. KeptAs(disk'[t], meant'[t]) BY <1>3, <1>5, <1>6, <1>7 DEF KeptAs
<1>9. KeptAll' BY <1>1, <1>5, <1>8, OthersKept DEF KeepInv
<1>10. Holding' /\ Copying' BY DEF Holding, Copying
<1>11. Mapping' /\ OursReadBack' /\ MovedToOffset' BY NotReading
<1> QED BY <1>9, <1>10, <1>11 DEF KeepInv

(***************************************************************************)
(* uf2 combine, and what it copies                                         *)
(***************************************************************************)
LEMMA CountKeeps ==
    ASSUME CountInv, KeepInv, CountBlocks
    PROVE  KeepInv'
<1>1. /\ pc = "count" /\ pc' \in {"count", "combined_absolute"} /\ UNCHANGED <<disk, meant>>
      /\ job' = [job EXCEPT !.o.abs = @ \/ check_abs_block(Input.blocks[1]),
                            !.part = IF @ = 1 THEN 2 ELSE 1]
    BY DEF CountBlocks, Files
<1>2. DOMAIN job = JobFields BY DEF CountInv, Typed
<1>3. job'.to = job.to BY <1>1, <1>2 DEF JobFields
<1>4. disk'[job'.to].type = "uf2" BY <1>1, <1>3 DEF KeepInv, Holding
<1>5. Holding' BY <1>1, <1>4 DEF Holding
<1>6. KeptAll' BY <1>1, AllKept DEF KeepInv, Files
<1>7. Copying' BY <1>1 DEF Copying
<1>8. Mapping' /\ OursReadBack' /\ MovedToOffset' BY <1>1, NotReading
<1> QED BY <1>5, <1>6, <1>7, <1>8 DEF KeepInv

LEMMA NoBlocksHeld == Held(<<>>) = {}
<1>1. Counted(<<>>) = {} BY DEF Counted
<1> QED BY <1>1 DEF Held, HeldAt

\* As long as blocks are copied.
LEMMA StillCopying ==
    ASSUME CountInv, KeepInv, pc \in {"combined_absolute", "copy"}, pc' = "copy", UNCHANGED <<meant, job>>,
           NEW B, disk' = [disk EXCEPT ![job.to].blocks = B],
           Held(B) = IF job.part = 1 THEN HeldTo(Blocks1, pos')
                     ELSE Held(Blocks1) \union ShiftedBy(HeldTo(Blocks2, pos'), job.o.offset)
    PROVE  KeepInv'
<1>t. PICK t : t = job.to OBVIOUS
<1>1. /\ t \in Names /\ job.from[1] \in Names /\ job.from[2] \in Names
      /\ t # job.from[1] /\ t # job.from[2] /\ Begun(meant[t])
    BY <1>t, WhileCombining
<1>2. /\ KeptAll' /\ disk'[t].type = "uf2" /\ disk'[t].blocks = B
      /\ \A f \in Names : f # t => disk'[f] = disk[f]
    BY <1>1, <1>t, UnfinishedKept
<1>3. Blocks1' = Blocks1 /\ Blocks2' = Blocks2 /\ Output' = B
    BY <1>1, <1>2, <1>t DEF Blocks1, Blocks2, Output
<1>4. Copying' BY <1>3 DEF Copying
<1>5. disk'[job'.to].type = "uf2" BY <1>2, <1>t
<1>6. Holding' BY <1>5 DEF Holding
<1>7. Mapping' /\ OursReadBack' /\ MovedToOffset' BY NotReading
<1> QED BY <1>2, <1>4, <1>6, <1>7 DEF KeepInv

LEMMA CombinedAbsoluteKeeps ==
    ASSUME CountInv, KeepInv, WriteCombinedAbsolute
    PROVE  KeepInv'
<1>g. PICK g : g = gen_abs_block(abs_block_loc) OBVIOUS
<1>1. /\ pc = "combined_absolute" /\ pc' = "copy" /\ UNCHANGED <<meant, job, pos>>
      /\ Write(g) \/ UNCHANGED disk
    BY <1>g DEF WriteCombinedAbsolute, Reading
<1>2. job.to \in Names /\ Blocks1 \in Seq(Blocks) BY <1>1, WhileCombining
<1>3. Output = <<>> /\ pos = 1 /\ job.part = 1 BY <1>1 DEF CountInv, Combining
<1>4. HeldTo(Blocks1, pos') = {} BY <1>1, <1>2, <1>3, HeldGrows
<1>5. CASE UNCHANGED disk
    <2>1. disk' = [disk EXCEPT ![job.to].blocks = disk[job.to].blocks] BY <1>2, <1>5, SameBlocks
    <2>2. Held(disk[job.to].blocks) = {} BY <1>3, NoBlocksHeld DEF Output
    <2> QED BY <1>1, <1>3, <1>4, <2>1, <2>2, StillCopying
<1>6. CASE Write(g)
    <2>1. g \in Blocks /\ g.abs BY <1>g, AbsoluteTyped
    <2>2. DOMAIN disk = Names /\ disk[job.to] \in FileSet BY <1>2 DEF CountInv, Typed, FilesTyped
    <2>3. disk' = [disk EXCEPT ![job.to].blocks = Append(disk[job.to].blocks, g)]
        BY <1>6, <1>2, <2>2 DEF Write
    <2>4. disk[job.to].blocks = <<>> BY <1>3 DEF Output
    <2>5. <<>> \in Seq(Blocks) OBVIOUS
    <2>6. Held(Append(<<>>, g)) = {}
        <3>1. ~Passes(g) BY <2>1 DEF Passes, check_abs_block
        <3> QED BY <2>1, <2>5, <3>1, HeldAppended, NoBlocksHeld
    <2> QED BY <1>1, <1>3, <1>4, <2>3, <2>4, <2>6, StillCopying
<1> QED BY <1>1, <1>5, <1>6

LEMMA CopyKeeps ==
    ASSUME CountInv, KeepInv, CopyBlock
    PROVE  KeepInv'
<1>I. PICK I : I = Input.blocks OBVIOUS
<1>b. PICK block : block = I[pos] OBVIOUS
<1>c. PICK copied : copied = Copied(block) OBVIOUS
<1>O. PICK O : O = disk[job.to].blocks OBVIOUS
<1>1. /\ pc = "copy" /\ pos <= Len(I) /\ pos' = pos + 1 /\ UNCHANGED <<meant, pc, job>>
      /\ IF Passes(block) THEN Write(copied) ELSE UNCHANGED disk
    BY <1>I, <1>b, <1>c DEF CopyBlock
<1>2. /\ job.to \in Names /\ job.part \in 1..2 /\ Blocks1 \in Seq(Blocks) /\ Blocks2 \in Seq(Blocks)
      /\ I = (IF job.part = 1 THEN Blocks1 ELSE Blocks2) /\ job.o.offset \in Nat
    BY <1>1, <1>I, WhileCombining DEF CombineSet
<1>3. pos \in 1..Len(I) /\ I \in Seq(Blocks)
    <2>1. I \in Seq(Blocks) BY <1>2
    <2>2. Len(I) \in Nat BY <2>1
    <2>3. pos \in Nat \ {0} BY DEF CountInv, Typed
    <2> QED BY <1>1, <2>1, <2>2, <2>3
<1>4. block \in Blocks BY <1>3, <1>b
<1>5. HeldTo(I, pos + 1) = IF Passes(block) THEN HeldTo(I, pos) \union BytesOf(block) ELSE HeldTo(I, pos)
    BY <1>3, <1>b, HeldGrows
<1>6. O \in Seq(Blocks) /\ Output = O BY <1>2, <1>O, SameBlocks DEF Output
<1>y. PICK by : by = (IF job.part = 2 THEN job.o.offset ELSE 0) OBVIOUS
<1>n. by \in Nat BY <1>2, <1>y
<1>7. Held(O) = IF job.part = 1 THEN HeldTo(Blocks1, pos)
                ELSE Held(Blocks1) \union ShiftedBy(HeldTo(Blocks2, pos), job.o.offset)
    BY <1>1, <1>6 DEF KeepInv, Copying
<1>8. CASE ~Passes(block)
    <2>1. disk' = [disk EXCEPT ![job.to].blocks = O] BY <1>1, <1>2, <1>8, <1>O, SameBlocks
    <2>2. HeldTo(I, pos') = HeldTo(I, pos) BY <1>1, <1>5, <1>8
    <2>3. CASE job.part = 1
        <3>1. Held(O) = HeldTo(Blocks1, pos') BY <1>2, <1>7, <2>2, <2>3
        <3> QED BY <1>1, <2>1, <2>3, <3>1, StillCopying
    <2>4. CASE job.part # 1
        <3>1. Held(O) = Held(Blocks1) \union ShiftedBy(HeldTo(Blocks2, pos'), job.o.offset)
            BY <1>2, <1>7, <2>2, <2>4
        <3> QED BY <1>1, <2>1, <2>4, <3>1, StillCopying
    <2> QED BY <2>3, <2>4
<1>9. CASE Passes(block)
    <2>B. PICK B : B = Append(O, copied) OBVIOUS
    <2>1. disk' = [disk EXCEPT ![job.to].blocks = B]
        <3>1. DOMAIN disk = Names /\ disk[job.to] \in FileSet BY <1>2 DEF CountInv, Typed, FilesTyped
        <3> QED BY <1>1, <1>2, <1>9, <1>O, <2>B, <3>1 DEF Write
    <2>2. /\ copied \in Blocks /\ Passes(copied)
          /\ copied.target_addr = block.target_addr + by /\ copied.data = block.data
        <3>0. family_id \in Nat \ {0} /\ block_no \in Nat /\ num_blocks \in Nat
            BY <1>1, <1>2, WhileCombining DEF CountInv, Typed, Combining
        <3>m. PICK moved : moved = block.target_addr + by OBVIOUS
        <3>1. moved \in Nat
            <4>1. block.target_addr \in Nat BY <1>4 DEF Blocks
            <4> QED BY <1>n, <3>m, <4>1
        <3>2. copied = [block EXCEPT !.block_no = block_no, !.num_blocks = num_blocks,
                                     !.file_size = family_id, !.target_addr = moved]
            BY <1>c, <1>y, <1>4, <3>m DEF Copied, Blocks
        <3>3. copied \in Blocks /\ copied.target_addr = moved /\ copied.data = block.data
              /\ copied.abs = block.abs /\ copied.usable = block.usable
            BY <1>4, <3>0, <3>1, <3>2 DEF Blocks
        <3> QED BY <1>9, <3>3, <3>m DEF Passes, check_abs_block
    <2>3. Held(B) = Held(O) \union BytesOf(copied) BY <1>6, <2>2, <2>B, HeldAppended
    <2>4. BytesOf(copied) = ShiftedBy(BytesOf(block), by) BY <1>n, <1>4, <2>2, BytesMoved
    <2>5. HeldTo(I, pos') = HeldTo(I, pos) \union BytesOf(block) BY <1>1, <1>5, <1>9
    <2>6. CASE job.part = 1
        <3>1. by = 0 BY <1>y, <2>6
        <3>2. BytesOf(copied) = BytesOf(block)
            <4>1. copied.target_addr = block.target_addr
                <5>1. block.target_addr \in Nat BY <1>4 DEF Blocks
                <5> QED BY <2>2, <3>1, <5>1
            <4> QED BY <2>2, <4>1 DEF BytesOf
        <3>3. Held(B) = HeldTo(Blocks1, pos') BY <1>2, <1>7, <2>3, <2>5, <2>6, <3>2
        <3> QED BY <1>1, <2>1, <2>6, <3>3, StillCopying
    <2>7. CASE job.part # 1
        <3>1. by = job.o.offset /\ I = Blocks2 BY <1>2, <1>y, <2>7
        <3>2. ShiftedBy(HeldTo(I, pos'), by) = ShiftedBy(HeldTo(I, pos), by) \union ShiftedBy(BytesOf(block), by)
            BY <2>5, ShiftedTogether
        <3>3. Held(B) = Held(Blocks1) \union ShiftedBy(HeldTo(Blocks2, pos'), job.o.offset)
            <4>1. Held(O) = Held(Blocks1) \union ShiftedBy(HeldTo(I, pos), by) BY <1>7, <2>7, <3>1
            <4>2. Held(B) = Held(Blocks1) \union ShiftedBy(HeldTo(I, pos'), by)
                BY <2>3, <2>4, <3>2, <4>1
            <4> QED BY <3>1, <4>2
        <3> QED BY <1>1, <2>1, <2>7, <3>3, StillCopying
    <2> QED BY <2>6, <2>7
<1> QED BY <1>8, <1>9

\* What is moved: zeros stay zeros.
LEMMA InShifted ==
    ASSUME NEW D, NEW by, NEW x
    PROVE  x \in ShiftedBy(D, by) <=> \E y \in D : x = At(y.at + by, y.byte)
BY DEF ShiftedBy

LEMMA CombinedIs ==
    /\ CombinedMeaning.ours
    /\ DOMAIN CombinedMeaning.of = {family_id}
    /\ Everything(CombinedMeaning)
         = Everything(meant[job.from[1]]) \union ShiftedBy(Everything(meant[job.from[2]]), job.o.offset)
    /\ CombinedMeaning.whole =>
         meant[job.from[1]].whole /\ meant[job.from[2]].whole /\ Apart(disk[job.to].blocks)
<1>M. PICK M : M = CombinedMeaning OBVIOUS
<1>E. PICK E : E = Everything(meant[job.from[1]]) \union ShiftedBy(Everything(meant[job.from[2]]), job.o.offset)
    OBVIOUS
<1>1. AllOf(job.from[1]) = Everything(meant[job.from[1]]) /\ AllOf(job.from[2]) = Everything(meant[job.from[2]])
    BY DEF AllOf, Everything
<1>2. /\ M.ours /\ M.of = [i \in {family_id} |-> E]
      /\ M.whole => meant[job.from[1]].whole /\ meant[job.from[2]].whole /\ Apart(disk[job.to].blocks)
    BY <1>M, <1>E, <1>1 DEF CombinedMeaning
<1>3. DOMAIN M.of = {family_id} /\ M.of[family_id] = E BY <1>2
<1>4. Everything(M) = E BY <1>3 DEF Everything
<1> QED BY <1>M, <1>E, <1>2, <1>3, <1>4

LEMMA NextFileKeeps ==
    ASSUME CountInv, KeepInv, NextFile
    PROVE  KeepInv'
<1>t. PICK t : t = job.to OBVIOUS
<1>p. PICK part : part = job.part OBVIOUS
<1>1. /\ pc = "copy" /\ pos > Len(Input.blocks) /\ disk' = disk /\ meant' = meant
      /\ IF part = 1
         THEN job' = [job EXCEPT !.part = 2] /\ pos' = 1 /\ UNCHANGED pc
         ELSE pc' = "close" /\ UNCHANGED <<job, pos>>
    BY <1>p DEF NextFile, Files
<1>2. /\ t \in Names /\ part \in 1..2 /\ Blocks1 \in Seq(Blocks) /\ Blocks2 \in Seq(Blocks)
      /\ Input.blocks = (IF part = 1 THEN Blocks1 ELSE Blocks2)
      /\ job.from[1] \in Names /\ job.from[2] \in Names /\ t # job.from[1] /\ t # job.from[2]
      /\ Begun(meant[t]) /\ job.op = "combine"
    BY <1>1, <1>t, <1>p, WhileCombining
<1>3. pos \in Nat \ {0} /\ pos <= Len(Input.blocks) + 1 BY <1>1 DEF CountInv, Combining, Typed
<1>4. disk[t].type = "uf2" BY <1>1, <1>t DEF KeepInv, Holding
<1>O. PICK O : O = disk[t].blocks OBVIOUS
<1>5. Held(O) = IF part = 1 THEN HeldTo(Blocks1, pos)
                ELSE Held(Blocks1) \union ShiftedBy(HeldTo(Blocks2, pos), job.o.offset)
    BY <1>1, <1>O, <1>t, <1>p DEF KeepInv, Copying, Output
<1>6. CASE part = 1
    <2>1. pos = Len(Blocks1) + 1
        <3>1. Input.blocks = Blocks1 /\ Len(Blocks1) \in Nat BY <1>2, <1>6
        <3> QED BY <1>1, <1>3, <3>1
    <2>2. Held(O) = Held(Blocks1) BY <1>2, <1>5, <1>6, <2>1, HeldGrows
    <2>3. HeldTo(Blocks2, 1) = {} BY <1>2, HeldGrows
    <2>4. ShiftedBy(HeldTo(Blocks2, 1), job.o.offset) = {} BY <2>3 DEF ShiftedBy
    <2>5. /\ DOMAIN job = JobFields /\ job' = [job EXCEPT !.part = 2] /\ pos' = 1
          /\ pc' = pc /\ meant' = meant
        BY <1>1, <1>6 DEF CountInv, Typed
    <2>6. /\ job'.from = job.from /\ job'.to = job.to /\ job'.o = job.o /\ job'.part = 2
          /\ job'.op = job.op
        BY <2>5 DEF JobFields
    <2>7. Blocks1' = Blocks1 /\ Blocks2' = Blocks2 /\ Output' = O
        BY <1>1, <1>O, <1>t, <2>6 DEF Blocks1, Blocks2, Output
    <2>8. Copying'
        <3>1. Held(Output') = Held(Blocks1') \union ShiftedBy(HeldTo(Blocks2', pos'), job'.o.offset)
            BY <2>2, <2>4, <2>5, <2>6, <2>7
        <3> QED BY <2>6, <3>1 DEF Copying
    <2>9. Holding' BY <1>1, <1>4, <1>t, <2>5, <2>6 DEF Holding
    <2>10. KeptAll' BY <1>1, <2>5, AllKept DEF KeepInv, Files
    <2>11. Mapping' /\ OursReadBack' /\ MovedToOffset' BY <1>1, <2>5, NotReading
    <2> QED BY <2>8, <2>9, <2>10, <2>11 DEF KeepInv
<1>7. CASE part # 1
    <2>1. pc' = "close" /\ UNCHANGED <<job, pos, disk, meant>> BY <1>1, <1>7
    <2>2. Output' = Output /\ Blocks1' = Blocks1 /\ Blocks2' = Blocks2
        BY <2>1 DEF Output, Blocks1, Blocks2
    <2>3. Copying' BY <1>1, <2>1, <2>2 DEF KeepInv, Copying
    <2>4. Holding' BY <1>2, <1>4, <1>t, <2>1 DEF Holding
    <2>5. KeptAll' BY <2>1, AllKept DEF KeepInv, Files
    <2>6. Mapping' /\ OursReadBack' /\ MovedToOffset' BY <2>1, NotReading
    <2> QED BY <2>3, <2>4, <2>5, <2>6 DEF KeepInv
<1> QED BY <1>6, <1>7

\* Closed as it was written, a file that was combined is what was meant.
LEMMA CombineCloseKeeps ==
    ASSUME CountInv, KeepInv, pc = "close", job.op = "combine", pc' = "idle", UNCHANGED <<disk, job>>,
           meant' = [meant EXCEPT ![job.to] = CombinedMeaning]
    PROVE  KeepInv'
<1>t. PICK t : t = job.to OBVIOUS
<1>1. /\ t \in Names /\ Blocks1 \in Seq(Blocks) /\ Blocks2 \in Seq(Blocks)
      /\ job.from[1] \in Names /\ job.from[2] \in Names /\ t # job.from[1] /\ t # job.from[2]
    BY <1>t, WhileCombining
<1>3. job.part = 2 /\ pos = Len(Blocks2) + 1 BY DEF CountInv, Combining
<1>4. disk[t].type = "uf2" BY <1>t DEF KeepInv, Holding
<1>O. PICK O : O = disk[t].blocks OBVIOUS
<1>5. Held(O) = Held(Blocks1) \union ShiftedBy(HeldTo(Blocks2, pos), job.o.offset)
    BY <1>3, <1>O, <1>t DEF KeepInv, Copying, Output
<1>n. \E s \in 0..1 : NumberedAs(O, s, num_blocks, family_id)
    BY <1>t, <1>O, WhileCopying DEF Output
<1>m. PICK m : m = CombinedMeaning OBVIOUS
<1>6. meant' = [meant EXCEPT ![t] = m] BY <1>t, <1>m
<1>7. DOMAIN meant = Names BY DEF CountInv, Typed, FilesTyped
<1>8. meant'[t] = m /\ \A f \in Names : f # t => meant'[f] = meant[f] /\ disk'[f] = disk[f]
    BY <1>1, <1>6, <1>7
<1>9. Held(O) = Held(Blocks1) \union ShiftedBy(Held(Blocks2), job.o.offset)
    <2>1. HeldTo(Blocks2, pos) = Held(Blocks2) BY <1>1, <1>3, HeldGrows
    <2> QED BY <1>5, <2>1
<1>10. ASSUME m.whole PROVE KeptAs(disk[t], m)
    <2>f. PICK m1 : m1 = meant[job.from[1]] OBVIOUS
    <2>g. PICK m2 : m2 = meant[job.from[2]] OBVIOUS
    <2>1. /\ m1.whole /\ m2.whole /\ Apart(O) /\ m.ours /\ DOMAIN m.of = {family_id}
          /\ Everything(m) = Everything(m1) \union ShiftedBy(Everything(m2), job.o.offset)
        BY <1>m, <1>10, <2>f, <2>g, <1>t, <1>O, CombinedIs
    <2>2. KeptAs(disk[job.from[1]], m1) /\ KeptAs(disk[job.from[2]], m2)
        BY <1>1, <2>f, <2>g DEF KeepInv, KeptAll
    <2>3. /\ Counted(Blocks1) # {} /\ Everything(m1) \subseteq Held(Blocks1)
          /\ \A x \in Held(Blocks1) : x \in Everything(m1) \/ x.byte = 0
          /\ Everything(m2) \subseteq Held(Blocks2)
          /\ \A x \in Held(Blocks2) : x \in Everything(m2) \/ x.byte = 0
        BY <2>1, <2>2 DEF KeptAs, Blocks1, Blocks2
    <2>4. Everything(m) \subseteq Held(O)
        <3>1. ShiftedBy(Everything(m2), job.o.offset) \subseteq ShiftedBy(Held(Blocks2), job.o.offset)
            BY <2>3, InShifted
        <3> QED BY <1>9, <2>1, <2>3, <3>1
    <2>5. ASSUME NEW x \in Held(O) PROVE x \in Everything(m) \/ x.byte = 0
        <3>1. CASE x \in Held(Blocks1) BY <2>1, <2>3, <3>1
        <3>2. CASE x \in ShiftedBy(Held(Blocks2), job.o.offset)
            <4>1. PICK y \in Held(Blocks2) : x = At(y.at + job.o.offset, y.byte) BY <3>2, InShifted
            <4>2. CASE y \in Everything(m2)
                <5>1. x \in ShiftedBy(Everything(m2), job.o.offset) BY <4>1, <4>2, InShifted
                <5> QED BY <2>1, <5>1
            <4>3. CASE y.byte = 0
                <5>1. x.byte = 0 BY <4>1, <4>3, AtIs
                <5> QED BY <5>1
            <4> QED BY <2>3, <4>1, <4>2, <4>3
        <3> QED BY <1>9, <2>5, <3>1, <3>2
    <2>6. Counted(O) # {}
        <3>1. PICK k \in Counted(Blocks1) : TRUE BY <2>3
        <3>2. BytesOf(Blocks1[k]) # {}
            <4>1. 0 \in 0..(PageSize - 1) BY SizesTyped
            <4> QED BY <4>1 DEF BytesOf
        <3>3. PICK x : x \in Held(Blocks1) BY <3>1, <3>2, InHeldAt DEF Held
        <3>4. x \in Held(O) BY <1>9, <3>3
        <3> QED BY <3>4, InHeld
    <2>7. PICK s \in 0..1 : NumberedAs(O, s, num_blocks, family_id) BY <1>n
    <2>8. /\ \A k \in Counted(O) : O[k].file_size \in DOMAIN m.of
          /\ \A k \in DOMAIN O : O[k].abs \/ O[k].usable
        <3>1. O \in Seq(Blocks) BY <1>1, <1>O, SameBlocks
        <3>2. DOMAIN O = 1..Len(O) BY <3>1
        <3>3. \A k \in Counted(O) : k \in 1..Len(O) /\ ~O[k].abs
            BY <3>2 DEF Counted, Passes, check_abs_block
        <3> QED BY <2>1, <2>7, <3>2, <3>3 DEF NumberedAs
    <2>9. \E family : DOMAIN m.of = {family} BY <2>1
    <2> QED BY <1>4, <1>O, <2>1, <2>4, <2>5, <2>6, <2>8, <2>9 DEF KeptAs
<1>11. KeptAs(disk[t], m) BY <1>10 DEF KeptAs
<1>12. KeptAll'
    <2>1. KeptAs(disk'[t], meant'[t]) BY <1>8, <1>11
    <2> QED BY <1>1, <1>8, <2>1, OthersKept DEF KeepInv
<1>13. Holding' /\ Copying' BY DEF Holding, Copying
<1>14. Mapping' /\ OursReadBack' /\ MovedToOffset' BY NotReading
<1> QED BY <1>12, <1>13, <1>14 DEF KeepInv

LEMMA CloseKeeps ==
    ASSUME CountInv, KeepInv, Close
    PROVE  KeepInv'
<1>1. pc = "close" /\ pc' = "idle" /\ job' = job BY DEF Close
<1>2. PICK left \in CutOff(Output) :
        /\ disk' = [disk EXCEPT ![job.to].blocks = left]
        /\ meant' = IF left # Output THEN meant
                    ELSE [meant EXCEPT ![job.to] = IF job.op = "convert" THEN MeaningOf(Input, job.o) ELSE CombinedMeaning]
    BY DEF Close, Output
<1>3. job.to \in Names /\ Begun(meant[job.to]) /\ job.op \in {"convert", "combine"}
    <2>1. CASE job.op = "convert" BY <1>1, <2>1, WhileConverting
    <2>2. CASE job.op # "convert" BY <1>1, <2>2, WhileCombining
    <2> QED BY <2>1, <2>2
<1>4. CASE left # Output
    <2>1. meant' = meant BY <1>2, <1>4
    <2> QED BY <1>1, <1>2, <1>3, <2>1, CutOffKeeps
<1>5. CASE left = Output
    <2>1. UNCHANGED disk BY <1>2, <1>3, <1>5, SameBlocks DEF Output
    <2>2. CASE job.op = "convert" BY <1>1, <1>2, <1>5, <2>1, <2>2, ConvertCloseKeeps
    <2>3. CASE job.op = "combine" BY <1>1, <1>2, <1>5, <2>1, <2>3, CombineCloseKeeps
    <2> QED BY <1>3, <2>2, <2>3
<1> QED BY <1>4, <1>5

LEMMA CopyFailsKeeps ==
    ASSUME CountInv, KeepInv, CopyFails
    PROVE  KeepInv'
<1>1. /\ pc = "copy" /\ pc' = "idle" /\ job' = [job EXCEPT !.ok = FALSE] /\ meant' = meant
      /\ \E left : disk' = [disk EXCEPT ![job.to].blocks = left]
    BY DEF CopyFails, FailWriting
<1>2. PICK left : disk' = [disk EXCEPT ![job.to].blocks = left] BY <1>1
<1>3. job.to \in Names /\ Begun(meant[job.to]) /\ job.op = "combine" BY <1>1, WhileCombining
<1> QED BY <1>1, <1>2, <1>3, CutOffKeeps

(***************************************************************************)
(* Reading a file                                                          *)
(***************************************************************************)
\* As long as a file is read nothing is shown of it.
LEMMA StillReading ==
    ASSUME KeepInv, UNCHANGED Files, pc' \in {"read", "map", "mapped"}, Mapping'
    PROVE  KeepInv'
<1>1. KeptAll' BY AllKept DEF KeepInv
<1>2. Holding' /\ Copying' BY DEF Holding, Copying
<1>3. ~Finished("info")' /\ ~Finished("read")' BY DEF Finished
<1>4. OursReadBack' /\ MovedToOffset' BY <1>3 DEF OursReadBack, ReadsBack, MovedToOffset
<1> QED BY <1>1, <1>2, <1>4 DEF KeepInv

\* It is read to the end.
LEMMA DoneReading ==
    ASSUME KeepInv, UNCHANGED Files, pc' = "idle", OursReadBack', MovedToOffset'
    PROVE  KeepInv'
<1>1. KeptAll' BY AllKept DEF KeepInv
<1>2. Holding' /\ Copying' /\ Mapping' BY DEF Holding, Copying, Mapping
<1> QED BY <1>1, <1>2 DEF KeepInv

LEMMA NoneBelow ==
    ASSUME NEW B \in Seq(Blocks)
    PROVE  Below(B, 1) = {} /\ Ranges(B, Below(B, 1)) = {}
           /\ \A p \in Nat : p > Len(B) => Below(B, p) = Counted(B)
<1>1. DOMAIN B = 1..Len(B) /\ Len(B) \in Nat OBVIOUS
<1>2. \A k \in Counted(B) : k \in 1..Len(B) BY <1>1 DEF Counted
<1>3. Below(B, 1) = {}
    <2>1. \A k \in 1..Len(B) : ~(k < 1) BY <1>1
    <2> QED BY <1>2, <2>1 DEF Below
<1>4. ASSUME NEW p \in Nat, p > Len(B) PROVE Below(B, p) = Counted(B)
    <2>1. \A k \in 1..Len(B) : k < p BY <1>1, <1>4
    <2> QED BY <1>2, <2>1 DEF Below
<1> QED BY <1>3, <1>4 DEF Ranges

LEMMA StartReadKeeps ==
    ASSUME CountInv, KeepInv, NEW op \in {"info", "read"}, NEW f \in Names, NEW offset,
           op = "info" => offset = NotSet, op = "read" => offset \in Nat \union {NotSet},
           StartRead(op, f, offset)
    PROVE  KeepInv'
<1>o. PICK o : o = [offset |-> offset] OBVIOUS
<1>1. /\ Start(op, <<f>>, "", o) /\ UNCHANGED Files /\ family_id' = 0
      /\ pc' = IF disk[f].type = "uf2" THEN "read" ELSE "map"
    BY <1>o DEF StartRead
<1>2. rmap' = {} /\ next_family_id' = 0 BY <1>1 DEF Start
<1>3. /\ job'.op = op /\ job'.from = <<f>> /\ job'.o = o /\ job'.part = 1 /\ job'.ok /\ pos' = 1
    <2>1. op \in {"convert", "combine", "info", "read"} OBVIOUS
    <2>f. PICK from : from = <<f>> OBVIOUS
    <2>2. Start(op, from, "", o) BY <1>1, <2>f
    <2>3. /\ job'.op = op /\ job'.from = from /\ job'.o = o /\ job'.part = 1 /\ job'.ok
          /\ pos' = 1
        BY <2>1, <2>2, Starts
    <2> QED BY <2>3, <2>f
<1>4. disk' = disk /\ meant' = meant BY <1>1 DEF Files
<1>5. Input' = disk[f] /\ ReadFrom' = f BY <1>3, <1>4 DEF Input, ReadFrom
<1>6. disk[f].blocks \in Seq(Blocks) BY SameBlocks
<1>7. MappedTo(disk[f].blocks, meant[f], 1, {}, 0) BY <1>6, NoneBelow DEF MappedTo
<1>8. job'.o.offset = offset BY <1>3, <1>o
<1>9. MappedTo(disk[ReadFrom].blocks, meant[ReadFrom], pos, rmap, family_id)'
    BY <1>1, <1>2, <1>3, <1>4, <1>5, <1>7
<1>10. Mapping'
    <2>1. job'.op \in {"info", "read"} /\ ReadFrom' \in Names /\ Input' = disk'[ReadFrom'] /\ job'.ok
        BY <1>3, <1>4, <1>5
    <2>2. job'.part \in 1..2 /\ job'.part = 1 /\ job'.from = <<ReadFrom'>> BY <1>3, <1>5
    <2>3. (job'.op = "info" => job'.o.offset = NotSet)
          /\ (job'.op = "read" => job'.o.offset \in Nat \union {NotSet})
        BY <1>3, <1>8
    <2>4. pc' = "read" <=> Input'.type = "uf2" BY <1>1, <1>5
    <2> QED BY <1>2, <1>9, <2>1, <2>2, <2>3, <2>4 DEF Mapping
<1>11. pc' \in {"read", "map", "mapped"} BY <1>1
<1> QED BY <1>1, <1>10, <1>11, StillReading

LEMMA MapKeeps ==
    ASSUME CountInv, KeepInv, MapFile
    PROVE  KeepInv'
<1>1. pc = "map" /\ pc' = "mapped" /\ UNCHANGED <<Files, job>> BY DEF MapFile
<1>2. disk' = disk /\ meant' = meant /\ Input' = Input /\ ReadFrom' = ReadFrom
    BY <1>1 DEF Files, Input, ReadFrom
<1>3. Mapping BY DEF KeepInv
<1>4. Mapping' BY <1>1, <1>2, <1>3 DEF Mapping
<1> QED BY <1>1, <1>4, StillReading

\* One more block is mapped.
LEMMA MappedFurther ==
    ASSUME NEW B \in Seq(Blocks), NEW m, NEW p \in 1..Len(B), NEW map, NEW family,
           MappedTo(B, m, p, map, family),
           m.whole => \A k \in Counted(B) : B[k].file_size \in DOMAIN m.of
    PROVE  /\ ~Passes(B[p]) => MappedTo(B, m, p + 1, map, family)
           /\ Passes(B[p]) => MappedTo(B, m, p + 1, map \union {RangeOf(B[p])}, B[p].file_size)
           /\ Passes(B[p]) /\ m.whole /\ (\E only : DOMAIN m.of = {only})
                => family = 0 \/ B[p].file_size = family
<1>1. p \in DOMAIN B OBVIOUS
<1>2. ~Passes(B[p]) => MappedTo(B, m, p + 1, map, family)
    <2>1. ~Passes(B[p]) => Below(B, p + 1) = Below(B, p) BY BelowGrows
    <2> QED BY <2>1 DEF MappedTo
<1>3. ASSUME Passes(B[p]), m.whole, NEW only, DOMAIN m.of = {only}
      PROVE  /\ map \union {RangeOf(B[p])} = Ranges(B, Below(B, p + 1)) /\ Below(B, p + 1) # {}
             /\ DOMAIN m.of = {B[p].file_size} /\ (family = 0 \/ B[p].file_size = family)
    <2>1. Below(B, p + 1) = Below(B, p) \union {p} BY <1>3, BelowGrows
    <2>2. map = Ranges(B, Below(B, p)) /\ (Below(B, p) = {} => family = 0)
          /\ (Below(B, p) # {} => DOMAIN m.of = {family})
        BY <1>3 DEF MappedTo
    <2>3. Ranges(B, Below(B, p + 1)) = map \union {RangeOf(B[p])} BY <2>1, <2>2 DEF Ranges
    <2>4. p \in Counted(B) BY <1>1, <1>3 DEF Counted
    <2>5. B[p].file_size = only BY <1>3, <2>4
    <2> QED BY <1>3, <2>1, <2>2, <2>3, <2>5
<1>4. Passes(B[p]) => MappedTo(B, m, p + 1, map \union {RangeOf(B[p])}, B[p].file_size)
    BY <1>3 DEF MappedTo
<1> QED BY <1>2, <1>3, <1>4

\* What is known while a UF2 file is read.
LEMMA WhileReading ==
    ASSUME CountInv, KeepInv, pc = "read"
    PROVE  /\ ReadFrom \in Names /\ Input = disk[ReadFrom] /\ Input.blocks \in Seq(Blocks)
           /\ KeptAs(Input, meant[ReadFrom]) /\ job.ok /\ pos \in Nat \ {0}
           /\ job.part \in 1..2 /\ (job.part = 2 => job.op = "info")
           /\ job.op \in {"info", "read"}
           /\ job.part = 1 => MappedTo(Input.blocks, meant[ReadFrom], pos, rmap, family_id)
           /\ meant[ReadFrom].whole /\ meant[ReadFrom].ours =>
                job.part = 1 /\ next_family_id = 0 /\ \E only : DOMAIN meant[ReadFrom].of = {only}
<1>1. Mapping /\ KeptAll BY DEF KeepInv
<1>2. ReadFrom \in Names /\ Input = disk[ReadFrom] /\ job.ok BY <1>1 DEF Mapping
<1>3. Input.blocks \in Seq(Blocks) BY <1>2, SameBlocks
<1>4. KeptAs(Input, meant[ReadFrom]) BY <1>1, <1>2 DEF KeptAll
<1>5. /\ job.op \in {"info", "read"} /\ job.part \in 1..2 /\ (job.op = "read" => job.part = 1)
      /\ job.part = 1 => MappedTo(Input.blocks, meant[ReadFrom], pos, rmap, family_id)
      /\ meant[ReadFrom].whole /\ meant[ReadFrom].ours => job.part = 1 /\ next_family_id = 0
    BY <1>1, <1>2 DEF Mapping
<1>6. meant[ReadFrom].whole /\ meant[ReadFrom].ours => \E only : DOMAIN meant[ReadFrom].of = {only}
    BY <1>4 DEF KeptAs
<1>7. pos \in Nat \ {0} BY DEF CountInv, Typed
<1>8. job.part \in 1..2 /\ (job.part = 2 => job.op = "info") /\ job.op \in {"info", "read"} BY <1>5
<1>9. job.part = 1 => MappedTo(Input.blocks, meant[ReadFrom], pos, rmap, family_id) BY <1>5
<1>10. meant[ReadFrom].whole /\ meant[ReadFrom].ours =>
         job.part = 1 /\ next_family_id = 0 /\ \E only : DOMAIN meant[ReadFrom].of = {only}
    BY <1>5, <1>6
<1> QED BY <1>2, <1>3, <1>4, <1>7, <1>8, <1>9, <1>10

LEMMA BlockKeeps ==
    ASSUME CountInv, KeepInv, build_rmap_uf2
    PROVE  KeepInv'
<1>B. PICK B : B = Input.blocks OBVIOUS
<1>b. PICK block : block = B[pos] OBVIOUS
<1>m. PICK m : m = meant[ReadFrom] OBVIOUS
<1>1. /\ pc = "read" /\ pos <= Len(B) /\ pos' = pos + 1 /\ UNCHANGED <<Files, pc, job>>
      /\ IF check_abs_block(block) THEN UNCHANGED <<rmap, family_id, next_family_id>>
         ELSE IF Wanted(block)
         THEN /\ rmap' = Inserted(rmap, block.target_addr, block.data)
              /\ family_id' = block.file_size /\ next_family_id' = NextFamily(block)
         ELSE next_family_id' = NextFamily(block) /\ UNCHANGED <<rmap, family_id>>
    BY <1>B, <1>b DEF build_rmap_uf2
<1>2. /\ B \in Seq(Blocks) /\ KeptAs(Input, m) /\ pos \in Nat \ {0}
      /\ job.part = 1 => MappedTo(B, m, pos, rmap, family_id)
      /\ m.whole /\ m.ours => job.part = 1 /\ next_family_id = 0 /\ \E only : DOMAIN m.of = {only}
    BY <1>1, <1>B, <1>m, WhileReading
<1>3. pos \in 1..Len(B)
    <2>1. Len(B) \in Nat BY <1>2
    <2> QED BY <1>1, <1>2, <2>1
<1>4. pos \in DOMAIN B BY <1>2, <1>3
<1>5. /\ m.whole => \A k \in Counted(B) : B[k].file_size \in DOMAIN m.of
      /\ m.whole /\ m.ours => \A k \in DOMAIN B : B[k].abs \/ B[k].usable
    BY <1>2, <1>B DEF KeptAs
<1>6. Passes(block) <=> block.usable /\ ~check_abs_block(block) BY DEF Passes
<1>7. Inserted(rmap, block.target_addr, block.data) = rmap \union {RangeOf(block)} BY DEF Inserted, RangeOf
<1>8. ASSUME job.part = 1 PROVE MappedTo(B, m, pos + 1, rmap', family_id')
    <2>1. /\ ~Passes(block) => MappedTo(B, m, pos + 1, rmap, family_id)
          /\ Passes(block) => MappedTo(B, m, pos + 1, rmap \union {RangeOf(block)}, block.file_size)
          /\ Passes(block) /\ m.whole /\ (\E only : DOMAIN m.of = {only})
               => family_id = 0 \/ block.file_size = family_id
        BY <1>2, <1>3, <1>5, <1>8, <1>b, MappedFurther
    <2>2. CASE ~Passes(block)
        <3>1. rmap' = rmap /\ family_id' = family_id BY <1>1, <1>6, <2>2 DEF Wanted
        <3> QED BY <2>1, <2>2, <3>1
    <2>3. CASE Passes(block) /\ Wanted(block)
        <3>1. rmap' = rmap \union {RangeOf(block)} /\ family_id' = block.file_size
            BY <1>1, <1>6, <1>7, <2>3
        <3> QED BY <2>1, <2>3, <3>1
    <2>4. CASE Passes(block) /\ ~Wanted(block)
        <3>1. ~(family_id = 0 \/ block.file_size = family_id) BY <1>6, <2>4 DEF Wanted
        <3>2. ~(m.whole /\ \E only : DOMAIN m.of = {only}) BY <2>1, <2>4, <3>1
        <3> QED BY <3>2 DEF MappedTo
    <2> QED BY <2>2, <2>3, <2>4
<1>9. ASSUME m.whole, m.ours PROVE next_family_id' = 0
    <2>1. CASE check_abs_block(block) BY <1>1, <1>2, <1>9, <2>1
    <2>2. CASE ~check_abs_block(block) /\ Wanted(block) BY <1>1, <2>2 DEF NextFamily
    <2>3. CASE ~check_abs_block(block) /\ ~Wanted(block)
        <3>1. block.usable BY <1>4, <1>5, <1>9, <1>b, <2>3 DEF check_abs_block
        <3>2. /\ job.part = 1 /\ Passes(block)
            BY <1>2, <1>6, <1>9, <2>3, <3>1
        <3>3. family_id = 0 \/ block.file_size = family_id
            BY <1>2, <1>3, <1>5, <1>9, <1>b, <3>2, MappedFurther
        <3> QED BY <2>3, <3>1, <3>3 DEF Wanted
    <2> QED BY <2>1, <2>2, <2>3
<1>10. disk' = disk /\ meant' = meant /\ job' = job /\ pc' = pc /\ Input' = Input /\ ReadFrom' = ReadFrom
    BY <1>1 DEF Files, Input, ReadFrom
<1>11. Mapping'
    <2>1. Mapping BY DEF KeepInv
    <2>2. /\ job'.op \in {"info", "read"} /\ ReadFrom' \in Names /\ Input' = disk'[ReadFrom'] /\ job'.ok
          /\ job'.part \in 1..2 /\ (job'.part = 1 => job'.from = <<ReadFrom'>>)
          /\ (job'.op = "info" => job'.o.offset = NotSet)
          /\ (job'.op = "read" => job'.part = 1 /\ job'.o.offset \in Nat \union {NotSet})
          /\ (pc' = "read" <=> Input'.type = "uf2")
        BY <1>1, <1>10, <2>1 DEF Mapping
    <2>3. disk'[ReadFrom'].blocks = B /\ meant'[ReadFrom'] = m
        BY <1>10, <2>2, <1>B, <1>m
    <2>4. job'.part = 1 => MappedTo(disk'[ReadFrom'].blocks, meant'[ReadFrom'], pos', rmap', family_id')
        BY <1>1, <1>8, <1>10, <2>3
    <2>5. meant'[ReadFrom'].whole /\ meant'[ReadFrom'].ours => job'.part = 1 /\ next_family_id' = 0
        BY <1>2, <1>9, <1>10, <2>3
    <2> QED BY <2>2, <2>4, <2>5 DEF Mapping
<1>12. pc' \in {"read", "map", "mapped"} /\ UNCHANGED Files BY <1>1
<1> QED BY <1>11, <1>12, StillReading

\* What fails ends the command, and what it was about is not judged.
LEMMA FailedReading ==
    ASSUME CountInv, KeepInv, Fail, meant[ReadFrom].ours => ~meant[ReadFrom].whole
    PROVE  KeepInv'
<1>1. pc' = "idle" /\ job' = [job EXCEPT !.ok = FALSE] /\ UNCHANGED Files BY DEF Fail
<1>2. DOMAIN job = JobFields BY DEF CountInv, Typed
<1>3. job'.from = job.from /\ ~job'.ok BY <1>1, <1>2 DEF JobFields
<1>4. meant' = meant BY <1>1 DEF Files
<1>5. OursReadBack'
    <2>1. meant'[job'.from[1]].ours => ~meant'[job'.from[1]].whole BY <1>3, <1>4 DEF ReadFrom
    <2> QED BY <2>1 DEF OursReadBack, ReadsBack
<1>6. MovedToOffset' BY <1>3 DEF MovedToOffset
<1> QED BY <1>1, <1>5, <1>6, DoneReading

\* Blocks that are apart are never in the way of each other.
LEMMA NotInTheWay ==
    ASSUME NEW B \in Seq(Blocks), Apart(B), NEW p \in 1..Len(B), ~check_abs_block(B[p])
    PROVE  ~InTheWay(Ranges(B, Below(B, p)), B[p].target_addr, PageSize)
<1> SUFFICES ASSUME NEW k \in Below(B, p),
                    RangeOf(B[k]).from < B[p].target_addr + PageSize,
                    B[p].target_addr < RangeOf(B[k]).from + Cardinality(DOMAIN RangeOf(B[k]).bytes)
             PROVE  FALSE
    BY DEF InTheWay, Ranges
<1>1. DOMAIN B = 1..Len(B) /\ p \in DOMAIN B OBVIOUS
<1>2. k \in DOMAIN B /\ k < p /\ ~B[k].abs BY DEF Below, Counted, Passes, check_abs_block
<1>3. B[k] \in Blocks /\ B[p] \in Blocks BY <1>1, <1>2
<1>4. /\ RangeOf(B[k]).from = B[k].target_addr /\ DOMAIN RangeOf(B[k]).bytes = 0..(PageSize - 1)
      /\ B[k].target_addr \in Nat /\ B[p].target_addr \in Nat
    BY <1>3 DEF RangeOf, Blocks
<1>5. Cardinality(0..(PageSize - 1)) = PageSize
    <2>1. PageSize \in Nat \ {0} BY SizesTyped
    <2>2. Cardinality(0..(PageSize - 1)) = (PageSize - 1) - 0 + 1
        <3>1. 0 \in Int /\ PageSize - 1 \in Int /\ 0 <= PageSize - 1 BY <2>1
        <3> QED BY <3>1, FS_Interval
    <2> QED BY <2>1, <2>2
<1>6. \/ B[k].target_addr + PageSize <= B[p].target_addr
      \/ B[p].target_addr + PageSize <= B[k].target_addr
    BY <1>1, <1>2 DEF Apart, check_abs_block
<1>7. B[k].target_addr < B[p].target_addr + PageSize /\ B[p].target_addr < B[k].target_addr + PageSize
    BY <1>4, <1>5
<1>8. PageSize \in Nat BY SizesTyped
<1>9. \A x, y, d \in Nat : ~(x < y + d /\ y < x + d /\ (x + d <= y \/ y + d <= x)) OBVIOUS
<1> QED BY <1>4, <1>6, <1>7, <1>8, <1>9

LEMMA BlockFailsKeeps ==
    ASSUME CountInv, KeepInv, BlockFails
    PROVE  KeepInv'
<1>B. PICK B : B = Input.blocks OBVIOUS
<1>m. PICK m : m = meant[ReadFrom] OBVIOUS
<1>1. pc = "read" /\ pos <= Len(B) /\ BlockRefused(B[pos]) /\ Fail BY <1>B DEF BlockFails
<1>2. /\ B \in Seq(Blocks) /\ KeptAs(Input, m) /\ pos \in Nat \ {0}
      /\ job.part = 1 => MappedTo(B, m, pos, rmap, family_id)
      /\ m.whole /\ m.ours => job.part = 1 /\ next_family_id = 0 /\ \E only : DOMAIN m.of = {only}
    BY <1>1, <1>B, <1>m, WhileReading
<1>3. ASSUME m.ours, m.whole PROVE FALSE
    <2>1. pos \in 1..Len(B)
        <3>1. Len(B) \in Nat BY <1>2
        <3> QED BY <1>1, <1>2, <3>1
    <2>2. Apart(B) BY <1>2, <1>3, <1>B DEF KeptAs
    <2>3. rmap = Ranges(B, Below(B, pos)) BY <1>2, <1>3 DEF MappedTo
    <2>4. ~check_abs_block(B[pos]) /\ InTheWay(rmap, B[pos].target_addr, PageSize) BY <1>1 DEF BlockRefused
    <2> QED BY <1>2, <2>1, <2>2, <2>3, <2>4, NotInTheWay
<1>4. meant[ReadFrom].ours => ~meant[ReadFrom].whole BY <1>3, <1>m
<1> QED BY <1>1, <1>4, FailedReading

LEMMA MapFailsKeeps ==
    ASSUME CountInv, KeepInv, MapFails
    PROVE  KeepInv'
<1>1. pc = "map" /\ Input.type = "elf" /\ Fail BY DEF MapFails
<1>2. ReadFrom \in Names /\ Input = disk[ReadFrom] BY <1>1 DEF KeepInv, Mapping
<1>3. KeptAs(Input, meant[ReadFrom]) BY <1>2 DEF KeepInv, KeptAll
<1>4. ~meant[ReadFrom].whole
    <2>1. "elf" # "uf2" OBVIOUS
    <2> QED BY <1>1, <1>3, <2>1 DEF KeptAs
<1> QED BY <1>1, <1>4, FailedReading

LEMMA HeldOnce ==
    ASSUME NEW B \in Seq(Blocks), Apart(B), NEW x \in Held(B), NEW y \in Held(B), x.at = y.at
    PROVE  x = y
<1>1. PICK k \in Counted(B), i \in 0..(PageSize - 1) : x = At(B[k].target_addr + i, B[k].data[i]) BY InHeld
<1>2. PICK j \in Counted(B), l \in 0..(PageSize - 1) : y = At(B[j].target_addr + l, B[j].data[l]) BY InHeld
<1>3. x.at = B[k].target_addr + i /\ y.at = B[j].target_addr + l BY <1>1, <1>2, AtIs
<1>4. DOMAIN B = 1..Len(B) OBVIOUS
<1>5. /\ k \in DOMAIN B /\ ~B[k].abs /\ j \in DOMAIN B /\ ~B[j].abs
      /\ k \in Nat /\ j \in Nat
    BY <1>4 DEF Counted, Passes, check_abs_block
<1>6. B[k].target_addr \in Nat /\ B[j].target_addr \in Nat
    <2>1. B[k] \in Blocks /\ B[j] \in Blocks BY <1>5
    <2> QED BY <2>1 DEF Blocks
<1>s. PICK s : s = B[k].target_addr OBVIOUS
<1>t. PICK t : t = B[j].target_addr OBVIOUS
<1>7. s \in Nat /\ t \in Nat /\ s + i = t + l BY <1>3, <1>6, <1>s, <1>t
<1>8. PageSize \in Nat BY SizesTyped
<1>9. ~(s + PageSize <= t) /\ ~(t + PageSize <= s) BY <1>7, <1>8
<1>10. ~(k < j) /\ ~(j < k) BY <1>5, <1>9, <1>s, <1>t DEF Apart
<1>11. k = j BY <1>5, <1>10
<1>12. i = l BY <1>7, <1>11, <1>s, <1>t
<1> QED BY <1>1, <1>2, <1>11, <1>12

\* At the end of a file of one program all its blocks are mapped.
LEMMA AllMapped ==
    ASSUME CountInv, KeepInv, pc = "read", pos > Len(Input.blocks), job.part = 1,
           NEW m, m = meant[ReadFrom], m.whole, NEW only, DOMAIN m.of = {only}
    PROVE  rmap = Ranges(Input.blocks, Counted(Input.blocks)) /\ family_id = only
<1>B. PICK B : B = Input.blocks OBVIOUS
<1>1. /\ B \in Seq(Blocks) /\ KeptAs(Input, m) /\ pos \in Nat \ {0}
      /\ MappedTo(B, m, pos, rmap, family_id)
    BY <1>B, WhileReading
<1>2. Below(B, pos) = Counted(B) BY <1>1, <1>B, NoneBelow
<1>3. Counted(B) # {} BY <1>1, <1>B DEF KeptAs
<1>4. rmap = Ranges(B, Below(B, pos)) /\ (Below(B, pos) # {} => DOMAIN m.of = {family_id})
    BY <1>1 DEF MappedTo
<1>5. {family_id} = {only} BY <1>2, <1>3, <1>4
<1>6. family_id = only BY <1>5
<1> QED BY <1>2, <1>4, <1>6, <1>B

LEMMA FirstReadsBack ==
    ASSUME CountInv, KeepInv, ReadFirst
    PROVE  OursReadBack'
<1>1. /\ pc \in {"read", "mapped"} /\ pos > Len(Input.blocks) /\ job.part = 1
      /\ shown' = [f \in {family_id} |-> Contents(Access)] /\ pc' = "idle"
      /\ disk' = disk /\ meant' = meant /\ job' = job
    BY DEF ReadFirst, Files
<1>m. PICK m : m = meant[ReadFrom] OBVIOUS
<1>2. meant'[job'.from[1]] = m BY <1>1, <1>m DEF ReadFrom
<1> SUFFICES ASSUME m.ours, m.whole, job.op = "info"
             PROVE  /\ job.ok /\ DOMAIN shown' = DOMAIN m.of
                    /\ \A f \in DOMAIN m.of :
                         /\ m.of[f] \subseteq shown'[f]
                         /\ \A b \in shown'[f] \ m.of[f] : b.byte = 0 /\ \A x \in m.of[f] : x.at # b.at
    BY <1>1, <1>2 DEF OursReadBack, ReadsBack, Finished
<1>3. ReadFrom \in Names /\ Input = disk[ReadFrom] /\ job.o.offset = NotSet /\ job.ok
    BY <1>1 DEF KeepInv, Mapping
<1>4. KeptAs(Input, m) BY <1>3, <1>m DEF KeepInv, KeptAll
<1>5. pc = "read"
    <2>1. Input.type = "uf2" BY <1>4 DEF KeptAs
    <2> QED BY <1>1, <2>1 DEF KeepInv, Mapping
<1>B. PICK B : B = Input.blocks OBVIOUS
<1>6. PICK only : DOMAIN m.of = {only} BY <1>4 DEF KeptAs
<1>7. B \in Seq(Blocks) BY <1>5, <1>B, WhileReading
<1>8. rmap = Ranges(B, Counted(B)) /\ family_id = only BY <1>1, <1>5, <1>6, <1>m, <1>B, AllMapped
<1>9. Contents(Access) = Held(B)
    <2>1. Access = rmap BY <1>3 DEF Access
    <2> QED BY <1>7, <1>8, <2>1, RangesHold
<1>10. shown' = [f \in {only} |-> Held(B)] BY <1>1, <1>8, <1>9
<1>11. DOMAIN shown' = {only} /\ shown'[only] = Held(B) BY <1>10
<1>12. Everything(m) = m.of[only] BY <1>6 DEF Everything
<1>13. /\ m.of[only] \subseteq Held(B) /\ Apart(B)
       /\ \A x \in Held(B) : x \in m.of[only] \/ x.byte = 0
    BY <1>4, <1>12, <1>B DEF KeptAs
<1>14. ASSUME NEW b \in Held(B) \ m.of[only]
       PROVE  b.byte = 0 /\ \A x \in m.of[only] : x.at # b.at
    <2>1. b.byte = 0 BY <1>13, <1>14
    <2>2. ASSUME NEW x \in m.of[only], x.at = b.at PROVE FALSE
        <3>1. x \in Held(B) BY <1>13, <2>2
        <3>2. x = b BY <1>7, <1>13, <1>14, <2>2, <3>1, HeldOnce
        <3> QED BY <1>14, <2>2, <3>2
    <2> QED BY <2>1, <2>2
<1> QED BY <1>3, <1>6, <1>11, <1>13, <1>14

LEMMA AppendedLast ==
    ASSUME NEW S, NEW e \in S
    PROVE  \A s \in Seq(S) : Append(s, e)[Len(s) + 1] = e
OBVIOUS
LEMMA AppendedOnce ==
    ASSUME NEW S, NEW s \in Seq(S), Len(s) = 1, NEW e \in S, s[1] = e
    PROVE  Append(s, e)[1] = e /\ Append(s, e)[2] = e
<1>1. Append(s, e)[Len(s) + 1] = e BY AppendedLast, Zenon
<1>2. \A i \in 1..Len(s) : Append(s, e)[i] = s[i] OBVIOUS
<1>3. 1 \in 1..Len(s) /\ Len(s) + 1 = 2 OBVIOUS
<1> QED BY <1>1, <1>2, <1>3

LEMMA FamiliesKeep ==
    ASSUME CountInv, KeepInv, ReadFamilies
    PROVE  KeepInv'
<1>1. /\ pc = "read" /\ job.op = "info" /\ job.part = 1 /\ next_family_id # 0 /\ pc' = "read"
      /\ UNCHANGED Files /\ job' = [job EXCEPT !.part = 2, !.from = Append(@, Head(@))]
    BY DEF ReadFamilies
<1>f. PICK f : f = ReadFrom OBVIOUS
<1>2. DOMAIN job = JobFields BY DEF CountInv, Typed
<1>3. /\ f \in Names /\ Input = disk[f] /\ job.ok /\ job.from = <<f>> /\ job.o.offset = NotSet
      /\ Input.type = "uf2"
    BY <1>1, <1>f DEF KeepInv, Mapping
<1>4. /\ job'.op = "info" /\ job'.part = 2 /\ job'.from = Append(job.from, Head(job.from)) /\ job'.ok
      /\ job'.o = job.o
    BY <1>1, <1>2, <1>3 DEF JobFields
<1>5. job'.from[1] = f /\ job'.from[2] = f
    <2>1. PICK s : s = <<f>> OBVIOUS
    <2>2. s \in Seq(Names) /\ Len(s) = 1 /\ s[1] = f /\ Head(s) = f BY <1>3, <2>1
    <2>3. job'.from = Append(s, f) BY <1>3, <1>4, <2>1, <2>2
    <2>4. Append(s, f)[1] = f /\ Append(s, f)[2] = f BY <1>3, <2>2, AppendedOnce, Zenon
    <2> QED BY <2>3, <2>4
<1>6. disk' = disk /\ meant' = meant BY <1>1 DEF Files
<1>7. ReadFrom' = f /\ Input' = disk[f]
    <2>1. ReadFrom' = job'.from[1] /\ Input' = disk'[job'.from[job'.part]] BY DEF ReadFrom, Input
    <2> QED BY <1>4, <1>5, <1>6, <2>1
<1>8. ~(meant[f].whole /\ meant[f].ours) BY <1>1, <1>f, WhileReading
<1>9. Mapping'
    <2>1. job'.op = "info" /\ ReadFrom' \in Names /\ Input' = disk'[ReadFrom'] /\ job'.ok
        BY <1>3, <1>4, <1>6, <1>7
    <2>2. job'.part = 2 /\ job'.o.offset = NotSet BY <1>3, <1>4
    <2>3. pc' = "read" /\ Input'.type = "uf2" BY <1>1, <1>3, <1>7
    <2>4. ~(meant'[ReadFrom'].whole /\ meant'[ReadFrom'].ours) BY <1>6, <1>7, <1>8
    <2>5. "info" # "read" /\ 2 \in 1..2 /\ 2 # 1 OBVIOUS
    <2> QED BY <2>1, <2>2, <2>3, <2>4, <2>5 DEF Mapping
<1>10. pc' \in {"read", "map", "mapped"} BY <1>1
<1> QED BY <1>1, <1>9, <1>10, StillReading

LEMMA ShowKeeps ==
    ASSUME CountInv, KeepInv, ShowFamily
    PROVE  KeepInv'
<1>1. /\ pc = "read" /\ job.part = 2 /\ UNCHANGED <<Files, job>>
      /\ pc' = "idle" \/ pc' = "read"
    BY DEF ShowFamily
<1>2. disk' = disk /\ meant' = meant /\ job' = job /\ Input' = Input /\ ReadFrom' = ReadFrom
    BY <1>1 DEF Files, Input, ReadFrom
<1>3. ~(meant[ReadFrom].whole /\ meant[ReadFrom].ours) /\ job.op = "info"
    BY <1>1, WhileReading
<1>4. CASE pc' = "read"
    <2>1. Mapping BY DEF KeepInv
    <2>2. Mapping' BY <1>1, <1>2, <1>3, <1>4, <2>1 DEF Mapping
    <2>3. pc' \in {"read", "map", "mapped"} BY <1>4
    <2> QED BY <1>1, <2>2, <2>3, StillReading
<1>5. CASE pc' = "idle"
    <2>1. OursReadBack' BY <1>2, <1>3 DEF OursReadBack, ReadsBack, ReadFrom
    <2>2. ~Finished("read")' BY <1>2, <1>3 DEF Finished
    <2>3. MovedToOffset' BY <2>2 DEF MovedToOffset
    <2> QED BY <1>1, <1>5, <2>1, <2>3, DoneReading
<1> QED BY <1>1, <1>4, <1>5

(***************************************************************************)
(* Moving a file                                                           *)
(***************************************************************************)
\* The loop of find_binary_start over ranges that start at from[1], from[2], ...
Better(from, k, before) == IF StartsBetter(from[k], before) THEN from[k] ELSE before
GoesThrough(best, from) ==
    best = [k \in 0..Len(from) |->
              IF k = 0 THEN Limit - 1
              ELSE CHOOSE start \in {IF StartsBetter(from[k], before) THEN from[k] ELSE before :
                                       before \in {best[k - 1]}} : TRUE]
BestOf(from) == CHOOSE best : GoesThrough(best, from)
LEMMA FindIs ==
    ASSUME NEW map, NEW from, from = InOrder({r.from : r \in map})
    PROVE  find_binary_start(map) =
             IF \E b \in Contents(map) : b.at = flash_start THEN flash_start
             ELSE IF BestOf(from)[Len(from)] = Limit - 1 THEN 0 ELSE BestOf(from)[Len(from)]
<1>1. find_binary_start(map) =
        IF \E b \in Contents(map) : b.at = flash_start THEN flash_start
        ELSE IF BestOf(InOrder({r.from : r \in map}))[Len(InOrder({r.from : r \in map}))] = Limit - 1
             THEN 0 ELSE BestOf(InOrder({r.from : r \in map}))[Len(InOrder({r.from : r \in map}))]
    BY Zenon DEF find_binary_start, BestOf, GoesThrough
<1> QED BY <1>1, Zenon

\* One of one.
LEMMA ChosenIs == \A x : (CHOOSE y \in {x} : TRUE) = x
OBVIOUS

LEMMA StartIs ==
    ASSUME NEW from, NEW k, NEW b
    PROVE  (CHOOSE start \in {IF StartsBetter(from[k], before) THEN from[k] ELSE before :
                                before \in {b}} : TRUE) = Better(from, k, b)
<1>1. {IF StartsBetter(from[k], before) THEN from[k] ELSE before : before \in {b}} = {Better(from, k, b)}
    BY Zenon DEF Better
<1> QED BY <1>1, ChosenIs, Zenon

\* It goes through all of them.
LEMMA BestExists ==
    ASSUME NEW n \in Nat, NEW from, Len(from) = n
    PROVE  /\ BestOf(from)[0] = Limit - 1
           /\ \A k \in 1..n : BestOf(from)[k] = Better(from, k, BestOf(from)[k - 1])
<1> DEFINE V == {Limit - 1} \union {from[k] : k \in 1..n}
           op == [x \in (1..n) \X V |-> Better(from, x[1], x[2])]
<1>1. Limit - 1 \in V OBVIOUS
<1>2. \A k \in 1..n : \A v \in V : op[<<k, v>>] = Better(from, k, v) /\ Better(from, k, v) \in V
    BY DEF Better
<1>3. op \in [(1..n) \X V -> V] BY <1>2
<1> HIDE DEF op, V
<1>4. PICK iter \in [SUBSET (1..n) -> V] : IteratesOver(iter, n, Limit - 1, op)
    BY <1>1, <1>3, FoldExists
<1>b. PICK b : b = [k \in 0..n |-> iter[1..k]] OBVIOUS
<1>5. b[0] = Limit - 1
    <2>1. b[0] = iter[1..0] BY <1>b
    <2>2. 1..0 = {} /\ {} \in SUBSET (1..n) OBVIOUS
    <2>3. iter[{}] = Limit - 1 BY <1>4, <2>2 DEF IteratesOver
    <2> QED BY <2>1, <2>2, <2>3
<1>6. ASSUME NEW k \in 1..n PROVE b[k] = Better(from, k, b[k - 1])
    <2>1. k - 1 \in 0..(n - 1) /\ (k - 1) + 1 = k /\ k - 1 \in 0..n /\ k \in 0..n OBVIOUS
    <2>2. 1..k \in SUBSET (1..n) /\ 1..k # {} /\ Max(1..k) = k /\ (1..k) \ {k} = 1..(k - 1)
        BY <2>1, Prefix
    <2>3. iter[1..k] = op[<<k, iter[1..(k - 1)]>>] BY <1>4, <2>2 DEF IteratesOver
    <2>4. 1..(k - 1) \in SUBSET (1..n) BY <2>1
    <2>5. iter[1..(k - 1)] \in V BY <1>4, <2>4
    <2>6. b[k] = iter[1..k] /\ b[k - 1] = iter[1..(k - 1)] BY <1>b, <2>1
    <2> QED BY <1>2, <2>3, <2>5, <2>6
<1>7. GoesThrough(b, from)
    <2>g. PICK g : g = [k \in 0..Len(from) |->
              IF k = 0 THEN Limit - 1
              ELSE CHOOSE start \in {IF StartsBetter(from[k], before) THEN from[k] ELSE before :
                                       before \in {b[k - 1]}} : TRUE] OBVIOUS
    <2>1. DOMAIN g = 0..n /\ DOMAIN b = 0..n BY <1>b, <2>g
    <2>2. ASSUME NEW k \in 0..n PROVE g[k] = b[k]
        <3>1. g[k] = IF k = 0 THEN Limit - 1
                     ELSE CHOOSE start \in {IF StartsBetter(from[k], before) THEN from[k] ELSE before :
                                              before \in {b[k - 1]}} : TRUE
            BY <2>g, Zenon
        <3>2. CASE k = 0 BY <1>5, <3>1, <3>2
        <3>3. CASE k # 0
            <4>1. g[k] = Better(from, k, b[k - 1]) BY <3>1, <3>3, StartIs, Zenon
            <4>2. k \in 1..n BY <3>3
            <4> QED BY <1>6, <4>1, <4>2
        <3> QED BY <3>2, <3>3
    <2>3. b = g
        <3>1. b = [k \in 0..n |-> b[k]] BY <1>b
        <3>2. g = [k \in 0..n |-> g[k]] BY <2>g, <2>1
        <3> QED BY <2>2, <3>1, <3>2, Zenon
    <2> QED BY <2>3, <2>g, Zenon DEF GoesThrough
<1>c. PICK c : c = BestOf(from) OBVIOUS
<1>8. GoesThrough(c, from) BY <1>7, <1>c, Zenon DEF BestOf
<1>9. \A k \in 0..n : c[k] = IF k = 0 THEN Limit - 1
                     ELSE CHOOSE start \in {IF StartsBetter(from[k], before) THEN from[k] ELSE before :
                                              before \in {c[k - 1]}} : TRUE
    BY <1>8, Zenon DEF GoesThrough
<1>10. c[0] = Limit - 1
    <2>1. 0 \in 0..n OBVIOUS
    <2> QED BY <1>9, <2>1, Zenon
<1>11. ASSUME NEW k \in 1..n PROVE c[k] = Better(from, k, c[k - 1])
    <2>1. k \in 0..n /\ k # 0 OBVIOUS
    <2> QED BY <1>9, <2>1, StartIs, Zenon
<1> QED BY <1>10, <1>11, <1>c

LEMMA InOrderIs ==
    ASSUME NEW S \in SUBSET Nat, IsFiniteSet(S), NEW from, from = InOrder(S)
    PROVE  /\ Len(from) \in Nat /\ \A k \in 1..Len(from) : from[k] \in S
           /\ \A j, k \in 1..Len(from) : j < k => from[j] < from[k]
           /\ \A a \in S : \E k \in 1..Len(from) : from[k] = a
<1>n. PICK n : n = Cardinality(S) OBVIOUS
<1>1. n \in Nat BY <1>n, FS_CardinalityType
<1>2. from = [k \in 1..n |-> Nth(S, k - 1)] BY <1>n DEF InOrder, Nth
<1>3. \A k \in 1..n : k - 1 \in 0..(n - 1) BY <1>1
<1>4. \A k \in 1..n : from[k] \in S BY <1>2, <1>3, <1>n, NthTaken
<1>5. Len(from) = n
    <2>1. from \in [1..n -> S] BY <1>2, <1>4
    <2> QED BY <1>1, <2>1
<1>6. ASSUME NEW j \in 1..n, NEW k \in 1..n, j < k PROVE from[j] < from[k]
    <2>1. j - 1 \in 0..(n - 1) /\ k - 1 \in 0..(n - 1) /\ j - 1 < k - 1 BY <1>1, <1>6
    <2>2. Nth(S, j - 1) < Nth(S, k - 1) BY <1>n, <2>1, NthGrows
    <2> QED BY <1>2, <2>2
<1>7. ASSUME NEW a \in S PROVE \E k \in 1..n : from[k] = a
    <2>r. PICK r : r = Rank(S, a) OBVIOUS
    <2>1. r \in 0..(n - 1) /\ Nth(S, r) = a BY <1>n, <2>r, RankIsNth
    <2>2. r + 1 \in 1..n /\ (r + 1) - 1 = r BY <1>1, <2>1
    <2>3. from[r + 1] = a BY <1>2, <2>1, <2>2
    <2> QED BY <2>2, <2>3
<1> QED BY <1>1, <1>4, <1>5, <1>6, <1>7

\* SRAM, XIP SRAM and what no range starts at.
LEMMA MemoryApart ==
    /\ \A a \in Nat : ~(sram(a) /\ xip_sram(a)) /\ (sram(a) \/ xip_sram(a) => a < Limit - 1)
    /\ ~sram(Limit - 1) /\ ~xip_sram(Limit - 1) /\ Limit - 1 \in Nat
<1>1. /\ xip_sram_start \in Nat /\ xip_sram_end \in Nat /\ sram_start \in Nat /\ sram_end \in Nat
      /\ xip_sram_start < xip_sram_end /\ xip_sram_end < sram_start
      /\ sram_start < sram_end /\ sram_end < Limit /\ Limit \in Nat
    BY MemoryAssumption, SizesAssumption
<1> QED BY <1>1 DEF sram, xip_sram

\* The best of the first k: the lowest in SRAM, or else in XIP SRAM.
BestSoFar(from, k, b) ==
    IF \E j \in 1..k : sram(from[j])
    THEN sram(b) /\ (\E j \in 1..k : from[j] = b) /\ \A j \in 1..k : sram(from[j]) => b <= from[j]
    ELSE IF \E j \in 1..k : xip_sram(from[j])
    THEN xip_sram(b) /\ (\E j \in 1..k : from[j] = b) /\ \A j \in 1..k : xip_sram(from[j]) => b <= from[j]
    ELSE b = Limit - 1

LEMMA BestIsLowest ==
    ASSUME NEW n \in Nat, NEW from, Len(from) = n, \A k \in 1..n : from[k] \in Nat,
           \A j, k \in 1..n : j < k => from[j] < from[k]
    PROVE  BestSoFar(from, n, BestOf(from)[n])
<1>b. PICK best : best = BestOf(from) OBVIOUS
<1>1. best[0] = Limit - 1 /\ \A k \in 1..n : best[k] = Better(from, k, best[k - 1]) BY <1>b, BestExists
<1>2. BestSoFar(from, 0, best[0])
    <2>1. 1..0 = {} OBVIOUS
    <2> QED BY <1>1, <2>1 DEF BestSoFar
<1>3. ASSUME NEW k \in 0..(n - 1), BestSoFar(from, k, best[k]) PROVE BestSoFar(from, k + 1, best[k + 1])
    <2>x. PICK x : x = from[k + 1] OBVIOUS
    <2>y. PICK b : b = best[k] OBVIOUS
    <2>z. PICK c : c = best[k + 1] OBVIOUS
    <2>1. k + 1 \in 1..n /\ (k + 1) - 1 = k /\ k \in Nat BY <1>3
    <2>2. c = IF StartsBetter(x, b) THEN x ELSE b BY <1>1, <2>1, <2>x, <2>y, <2>z DEF Better
    <2>3. x \in Nat /\ \A j \in 1..k : from[j] \in Nat /\ from[j] < x
        <3>1. \A j \in 1..k : j \in 1..n /\ j < k + 1 BY <2>1
        <3> QED BY <2>1, <2>x, <3>1
    <2>4. 1..(k + 1) = (1..k) \union {k + 1} BY <2>1
    <2>5. \A j \in 1..(k + 1) : j \in 1..k \/ from[j] = x BY <2>4, <2>x
    <2>6. k + 1 \in 1..(k + 1) /\ from[k + 1] = x /\ \A j \in 1..k : j \in 1..(k + 1) BY <2>4, <2>x
    <2>7. BestSoFar(from, k, b) BY <1>3, <2>y
    <2>8. CASE \E j \in 1..k : sram(from[j])
        <3>1. sram(b) /\ (\E j \in 1..k : from[j] = b) /\ \A j \in 1..k : sram(from[j]) => b <= from[j]
            BY <2>7, <2>8 DEF BestSoFar
        <3>2. b \in Nat /\ b < x BY <2>3, <3>1
        <3>3. ~xip_sram(b) /\ ~(x < b) BY <2>3, <3>1, <3>2, MemoryApart
        <3>4. c = b BY <2>2, <3>3 DEF StartsBetter
        <3>5. \E j \in 1..(k + 1) : sram(from[j]) BY <2>6, <2>8
        <3>6. \A j \in 1..(k + 1) : sram(from[j]) => b <= from[j]
            <4>1. b <= x BY <2>3, <3>2
            <4> QED BY <2>5, <3>1, <4>1
        <3>7. \E j \in 1..(k + 1) : from[j] = b BY <2>6, <3>1
        <3> QED BY <2>z, <3>1, <3>4, <3>5, <3>6, <3>7 DEF BestSoFar
    <2>9. CASE ~\E j \in 1..k : sram(from[j])
        <3>1. CASE \E j \in 1..k : xip_sram(from[j])
            <4>1. xip_sram(b) /\ (\E j \in 1..k : from[j] = b) /\ \A j \in 1..k : xip_sram(from[j]) => b <= from[j]
                BY <2>7, <2>9, <3>1 DEF BestSoFar
            <4>2. b \in Nat /\ b < x /\ ~(x < b) BY <2>3, <4>1
            <4>3. ~sram(b) BY <4>1, <4>2, MemoryApart
            <4>4. CASE sram(x)
                <5>1. c = x BY <2>2, <4>1, <4>4 DEF StartsBetter
                <5>2. \A j \in 1..(k + 1) : sram(from[j]) => x <= from[j]
                    <6>1. x <= x BY <2>3
                    <6> QED BY <2>5, <2>9, <6>1
                <5>3. (\E j \in 1..(k + 1) : sram(from[j])) /\ \E j \in 1..(k + 1) : from[j] = x
                    BY <2>6, <4>4
                <5> QED BY <2>z, <4>4, <5>1, <5>2, <5>3 DEF BestSoFar
            <4>5. CASE ~sram(x)
                <5>1. c = b BY <2>2, <4>2, <4>5 DEF StartsBetter
                <5>2. ~\E j \in 1..(k + 1) : sram(from[j]) BY <2>5, <2>9, <4>5
                <5>3. (\E j \in 1..(k + 1) : xip_sram(from[j])) /\ \E j \in 1..(k + 1) : from[j] = b
                    BY <2>6, <3>1, <4>1
                <5>4. \A j \in 1..(k + 1) : xip_sram(from[j]) => b <= from[j]
                    <6>1. b <= x BY <2>3, <4>2
                    <6> QED BY <2>5, <4>1, <6>1
                <5> QED BY <2>z, <4>1, <5>1, <5>2, <5>3, <5>4 DEF BestSoFar
            <4> QED BY <4>4, <4>5
        <3>2. CASE ~\E j \in 1..k : xip_sram(from[j])
            <4>1. b = Limit - 1 BY <2>7, <2>9, <3>2 DEF BestSoFar
            <4>2. ~sram(b) /\ ~xip_sram(b) BY <4>1, MemoryApart
            <4>3. x <= x BY <2>3
            <4>4. sram(x) \/ xip_sram(x) => x < b BY <2>3, <4>1, MemoryApart
            <4>5. c = IF sram(x) \/ xip_sram(x) THEN x ELSE b
                <5>1. StartsBetter(x, b) <=> sram(x) \/ xip_sram(x) BY <4>2, <4>4 DEF StartsBetter
                <5> QED BY <2>2, <5>1
            <4>6. CASE sram(x)
                <5>1. c = x BY <4>5, <4>6
                <5>2. \A j \in 1..(k + 1) : sram(from[j]) => x <= from[j] BY <2>5, <2>9, <4>3
                <5>3. (\E j \in 1..(k + 1) : sram(from[j])) /\ \E j \in 1..(k + 1) : from[j] = x
                    BY <2>6, <4>6
                <5> QED BY <2>z, <4>6, <5>1, <5>2, <5>3 DEF BestSoFar
            <4>7. CASE ~sram(x) /\ xip_sram(x)
                <5>1. c = x BY <4>5, <4>7
                <5>2. \A j \in 1..(k + 1) : xip_sram(from[j]) => x <= from[j] BY <2>5, <3>2, <4>3
                <5>3. (\E j \in 1..(k + 1) : xip_sram(from[j])) /\ \E j \in 1..(k + 1) : from[j] = x
                    BY <2>6, <4>7
                <5>4. ~\E j \in 1..(k + 1) : sram(from[j]) BY <2>5, <2>9, <4>7
                <5> QED BY <2>z, <4>7, <5>1, <5>2, <5>3, <5>4 DEF BestSoFar
            <4>8. CASE ~sram(x) /\ ~xip_sram(x)
                <5>1. c = b BY <4>5, <4>8
                <5>2. ~\E j \in 1..(k + 1) : sram(from[j]) BY <2>5, <2>9, <4>8
                <5>3. ~\E j \in 1..(k + 1) : xip_sram(from[j]) BY <2>5, <3>2, <4>8
                <5> QED BY <2>z, <4>1, <5>1, <5>2, <5>3 DEF BestSoFar
            <4> QED BY <4>6, <4>7, <4>8
        <3> QED BY <3>1, <3>2
    <2> QED BY <2>8, <2>9
<1>4. BestSoFar(from, n, best[n])
    <2>K. PICK K : K = {k \in 0..n : BestSoFar(from, k, best[k])} OBVIOUS
    <2>1. 0 \in K
        <3>1. 0 \in 0..n OBVIOUS
        <3> QED BY <1>2, <2>K, <3>1
    <2>2. \A k \in 0..(n - 1) : k \in K => k + 1 \in K
        <3>1. \A k \in 0..(n - 1) : k + 1 \in 0..n OBVIOUS
        <3> QED BY <1>3, <2>K, <3>1
    <2>3. \A k \in 0..n : k \in K BY <2>1, <2>2, UpTo
    <2>4. n \in 0..n OBVIOUS
    <2> QED BY <2>3, <2>4, <2>K
<1> QED BY <1>4, <1>b

\* What find_binary_start finds among the ranges of a file is where the file begins.
PassingOf(B) == {b \in ToSet(B) : Passes(b)}
StartsOf(B) == {b.target_addr : b \in PassingOf(B)}
LEMMA StartsAre ==
    ASSUME NEW B \in Seq(Blocks)
    PROVE  /\ {r.from : r \in Ranges(B, Counted(B))} = StartsOf(B)
           /\ StartsOf(B) \in SUBSET Nat /\ IsFiniteSet(StartsOf(B))
<1>1. DOMAIN B = 1..Len(B) OBVIOUS
<1>2. \A b : b \in PassingOf(B) <=> \E k \in Counted(B) : b = B[k]
    <2>1. ToSet(B) = {B[k] : k \in DOMAIN B} BY DEF ToSet
    <2> QED BY <2>1 DEF PassingOf, Counted
<1>3. \A k \in Counted(B) : B[k] \in Blocks BY <1>1 DEF Counted
<1>4. StartsOf(B) = {B[k].target_addr : k \in Counted(B)}
    <2>1. \A a : a \in StartsOf(B) <=> \E k \in Counted(B) : a = B[k].target_addr
        BY <1>2, Zenon DEF StartsOf
    <2> QED BY <2>1
<1>5. {r.from : r \in Ranges(B, Counted(B))} = {B[k].target_addr : k \in Counted(B)}
    <2>1. \A k : RangeOf(B[k]).from = B[k].target_addr BY DEF RangeOf
    <2> QED BY <2>1 DEF Ranges
<1>6. StartsOf(B) \subseteq Nat
    <2>1. \A k \in Counted(B) : B[k].target_addr \in Nat BY <1>3 DEF Blocks
    <2> QED BY <1>4, <2>1
<1>7. IsFiniteSet(StartsOf(B))
    <2>1. IsFiniteSet(Counted(B)) BY BelowCounted
    <2> DEFINE f == [k \in Counted(B) |-> B[k].target_addr]
    <2>2. f \in Surjection(Counted(B), StartsOf(B)) BY <1>4 DEF Surjection
    <2> QED BY <2>1, <2>2, FS_Surjection
<1> QED BY <1>4, <1>5, <1>6, <1>7

LEMMA StartFound ==
    ASSUME NEW B \in Seq(Blocks)
    PROVE  find_binary_start(Ranges(B, Counted(B))) = Begins(PassingOf(B))
<1>m. PICK map : map = Ranges(B, Counted(B)) OBVIOUS
<1>S. PICK S : S = StartsOf(B) OBVIOUS
<1>f. PICK from : from = InOrder(S) OBVIOUS
<1>n. PICK n : n = Len(from) OBVIOUS
<1>b. PICK best : best = BestOf(from)[n] OBVIOUS
<1>1. {r.from : r \in map} = S /\ S \in SUBSET Nat /\ IsFiniteSet(S) BY <1>m, <1>S, StartsAre
<1>2. find_binary_start(map) = IF \E b \in Contents(map) : b.at = flash_start THEN flash_start
                               ELSE IF best = Limit - 1 THEN 0 ELSE best
    <2>1. from = InOrder({r.from : r \in map}) BY <1>1, <1>f
    <2> QED BY <1>b, <1>n, <2>1, FindIs
<1>3. (\E b \in Contents(map) : b.at = flash_start)
        <=> \E a \in S : flash_start \in a..(a + PageSize - 1)
    <2>0. flash_start \in Nat /\ PageSize \in Nat BY FlashBegins, SizesTyped
    <2>1. Contents(map) = Held(B) BY <1>m, RangesHold
    <2>2. S = {B[k].target_addr : k \in Counted(B)}
        <3>1. \A k : RangeOf(B[k]).from = B[k].target_addr BY DEF RangeOf
        <3>2. {r.from : r \in map} = {B[k].target_addr : k \in Counted(B)} BY <1>m, <3>1 DEF Ranges
        <3> QED BY <1>1, <3>2
    <2>3. ASSUME NEW b \in Held(B), b.at = flash_start
          PROVE  \E a \in S : flash_start \in a..(a + PageSize - 1)
        <3>1. PICK k \in Counted(B), i \in 0..(PageSize - 1) : b = At(B[k].target_addr + i, B[k].data[i])
            BY <2>3, InHeld
        <3>2. B[k].target_addr \in S BY <2>2, <3>1
        <3>3. PICK a \in Nat : a = B[k].target_addr BY <1>1, <3>2
        <3>4. flash_start = a + i BY <2>3, <3>1, <3>3, AtIs
        <3>5. flash_start \in a..(a + PageSize - 1) BY <2>0, <3>4
        <3> QED BY <3>2, <3>3, <3>5
    <2>4. ASSUME NEW a \in S, flash_start \in a..(a + PageSize - 1)
          PROVE  \E b \in Held(B) : b.at = flash_start
        <3>1. PICK k \in Counted(B) : a = B[k].target_addr BY <2>2, <2>4
        <3>2. a \in Nat BY <1>1, <2>4
        <3>3. PICK i \in 0..(PageSize - 1) : flash_start = a + i
            <4>1. flash_start - a \in 0..(PageSize - 1) /\ flash_start = a + (flash_start - a)
                BY <2>0, <2>4, <3>2
            <4> QED BY <4>1
        <3>4. At(B[k].target_addr + i, B[k].data[i]) \in Held(B) BY <3>1, InHeld
        <3>5. At(B[k].target_addr + i, B[k].data[i]).at = flash_start BY <3>1, <3>3, AtIs
        <3> QED BY <3>4, <3>5
    <2> QED BY <2>1, <2>3, <2>4
<1>4. /\ n \in Nat /\ (\A k \in 1..n : from[k] \in S)
      /\ (\A j, k \in 1..n : j < k => from[j] < from[k])
      /\ \A a \in S : \E k \in 1..n : from[k] = a
    BY <1>1, <1>f, <1>n, InOrderIs
<1>5. BestSoFar(from, n, best)
    <2>1. \A k \in 1..n : from[k] \in Nat BY <1>1, <1>4
    <2> QED BY <1>4, <1>b, <1>n, <2>1, BestIsLowest
<1>T. PICK T : T = {a \in S : sram(a)} OBVIOUS
<1>U. PICK U : U = {a \in S : xip_sram(a)} OBVIOUS
<1>6. Begins(PassingOf(B)) =
        IF \E a \in S : flash_start \in a..(a + PageSize - 1) THEN flash_start
        ELSE IF T # {} THEN Min(T) ELSE IF U # {} THEN Min(U) ELSE 0
    BY <1>S, <1>T, <1>U, Zenon DEF Begins, StartsOf
<1>7. (T # {} <=> \E j \in 1..n : sram(from[j])) /\ (U # {} <=> \E j \in 1..n : xip_sram(from[j]))
    BY <1>4, <1>T, <1>U
<1>8. (IF best = Limit - 1 THEN 0 ELSE best) = IF T # {} THEN Min(T) ELSE IF U # {} THEN Min(U) ELSE 0
    <2>1. CASE T # {}
        <3>1. best \in T /\ \A a \in T : best <= a
            <4>1. sram(best) /\ (\E j \in 1..n : from[j] = best) /\ \A j \in 1..n : sram(from[j]) => best <= from[j]
                BY <1>5, <1>7, <2>1 DEF BestSoFar
            <4>2. best \in T BY <1>4, <1>T, <4>1
            <4>3. ASSUME NEW a \in T PROVE best <= a
                <5>1. a \in S /\ sram(a) BY <1>T, <4>3
                <5>2. PICK j \in 1..n : from[j] = a BY <1>4, <5>1
                <5> QED BY <4>1, <5>1, <5>2
            <4> QED BY <4>2, <4>3
        <3>2. T \in SUBSET Nat BY <1>1, <1>T
        <3>3. Min(T) \in T /\ \A y \in T : Min(T) <= y BY <2>1, <3>2, LowestIsMin
        <3>4. best = Min(T)
            <4>1. best \in Nat /\ Min(T) \in Nat /\ best <= Min(T) /\ Min(T) <= best BY <3>1, <3>2, <3>3
            <4> QED BY <4>1
        <3>5. best # Limit - 1
            <4>1. sram(best) BY <1>T, <3>1
            <4> QED BY <4>1, MemoryApart
        <3> QED BY <2>1, <3>4, <3>5
    <2>2. CASE T = {} /\ U # {}
        <3>1. best \in U /\ \A a \in U : best <= a
            <4>1. xip_sram(best) /\ (\E j \in 1..n : from[j] = best)
                  /\ \A j \in 1..n : xip_sram(from[j]) => best <= from[j]
                BY <1>5, <1>7, <2>2 DEF BestSoFar
            <4>2. best \in U BY <1>4, <1>U, <4>1
            <4>3. ASSUME NEW a \in U PROVE best <= a
                <5>1. a \in S /\ xip_sram(a) BY <1>U, <4>3
                <5>2. PICK j \in 1..n : from[j] = a BY <1>4, <5>1
                <5> QED BY <4>1, <5>1, <5>2
            <4> QED BY <4>2, <4>3
        <3>2. U \in SUBSET Nat BY <1>1, <1>U
        <3>3. Min(U) \in U /\ \A y \in U : Min(U) <= y BY <2>2, <3>2, LowestIsMin
        <3>4. best = Min(U)
            <4>1. best \in Nat /\ Min(U) \in Nat /\ best <= Min(U) /\ Min(U) <= best BY <3>1, <3>2, <3>3
            <4> QED BY <4>1
        <3>5. best # Limit - 1
            <4>1. xip_sram(best) BY <1>U, <3>1
            <4> QED BY <4>1, MemoryApart
        <3> QED BY <2>2, <3>4, <3>5
    <2>3. CASE T = {} /\ U = {}
        <3>1. best = Limit - 1 BY <1>5, <1>7, <2>3 DEF BestSoFar
        <3> QED BY <2>3, <3>1
    <2> QED BY <2>1, <2>2, <2>3
<1> QED BY <1>2, <1>3, <1>6, <1>8, <1>m

\* A block that is moved, and does not come to lie across the end, moves byte by byte.
LEMMA MovesTogether ==
    ASSUME NEW z \in Int, NEW i \in 0..(PageSize - 1), Limit # 0, (z % Limit) + PageSize <= Limit
    PROVE  (z + i) % Limit = (z % Limit) + i
<1>1. Limit \in Nat \ {0} /\ PageSize \in Nat BY SizesAssumption
<1>q. PICK q : q = z \div Limit OBVIOUS
<1>r. PICK r : r = z % Limit OBVIOUS
<1>2. q \in Int /\ r \in 0..(Limit - 1) /\ z = (Limit * q) + r BY <1>1, <1>q, <1>r, DivisionOf
<1>3. r + i \in 0..(Limit - 1) BY <1>1, <1>2, <1>r
<1>p. PICK p \in Int : p = Limit * q BY <1>1, <1>2
<1>4. z + i = (Limit * q) + (r + i) BY <1>2, <1>3, <1>p
<1>5. ((Limit * q) + (r + i)) % Limit = r + i BY <1>1, <1>2, <1>3, RemainderOf
<1> QED BY <1>4, <1>5, <1>r

LEMMA LimitTyped == Limit \in Nat /\ Limit # 0
BY MemoryAssumption, SizesAssumption

\* MovedToOffset of blocks B that hold D and are shown at offset o.
Moves(o, B, D, shows) ==
    LET begins == Begins(PassingOf(B))
        To(a) == (o + (a - begins)) % Limit
    IN  begins # 0 /\ (\A b \in PassingOf(B) : To(b.target_addr) + PageSize <= Limit) =>
          \A b \in D : \A f \in DOMAIN shows : At(To(b.at), b.byte) \in shows[f]
LEMMA FirstMoves ==
    ASSUME CountInv, KeepInv, ReadFirst
    PROVE  MovedToOffset'
<1>1. /\ pc \in {"read", "mapped"} /\ pos > Len(Input.blocks) /\ job.part = 1
      /\ shown' = [f \in {family_id} |-> Contents(Access)] /\ pc' = "idle"
      /\ disk' = disk /\ meant' = meant /\ job' = job
    BY DEF ReadFirst, Files
<1>f. PICK f : f = job.from[1] OBVIOUS
<1>m. PICK m : m = meant[f] OBVIOUS
<1>B. PICK B : B = disk[f].blocks OBVIOUS
<1>o. PICK o : o = job.o.offset OBVIOUS
<1>s. PICK begins : begins = Begins(PassingOf(B)) OBVIOUS
<1> DEFINE To(a) == (o + (a - begins)) % Limit
<1> SUFFICES ASSUME job.op = "read", job.ok, o # NotSet, m.whole, NEW only, DOMAIN m.of = {only},
                    \A b \in PassingOf(B) : To(b.target_addr) + PageSize <= Limit,
                    NEW b \in Everything(m), NEW g \in DOMAIN shown'
             PROVE  At(To(b.at), b.byte) \in shown'[g]
    <2>1. disk'[job'.from[1]].blocks = B /\ meant'[job'.from[1]] = m /\ job'.from[1] = f
          /\ job'.o.offset = o
        BY <1>1, <1>f, <1>m, <1>B, <1>o
    <2>2. AllOf(job.from[1])' = Everything(m) BY <1>1, <2>1 DEF AllOf, Everything
    <2>3. OneProgram(job.from[1])' => \E only : DOMAIN m.of = {only} BY <1>1, <2>1 DEF OneProgram
    <2>4. MovedToOffset' <=>
            (Finished("read")' /\ job'.ok /\ job'.o.offset # NotSet /\ meant'[job'.from[1]].whole
                /\ OneProgram(job.from[1])'
              => Moves(job'.o.offset, disk'[job'.from[1]].blocks, AllOf(job.from[1])', shown'))
        BY Zenon DEF MovedToOffset, Moves, PassingOf
    <2>5. SUFFICES ASSUME job.op = "read", job.ok, o # NotSet, m.whole, OneProgram(job.from[1])'
                   PROVE  Moves(o, B, Everything(m), shown')
        BY <1>1, <2>1, <2>2, <2>4 DEF Finished
    <2> QED BY <1>s, <2>3, <2>5 DEF Moves
<1>2. f \in Names /\ Input = disk[f] /\ o \in Nat \union {NotSet} BY <1>1, <1>f, <1>o DEF KeepInv, Mapping, ReadFrom
<1>3. KeptAs(Input, m) /\ B = Input.blocks BY <1>2, <1>m, <1>B DEF KeepInv, KeptAll
<1>4. Input.type = "uf2" BY <1>3 DEF KeptAs
<1>5. pc = "read" BY <1>1, <1>4 DEF KeepInv, Mapping
<1>6. B \in Seq(Blocks) BY <1>3, <1>5, WhileReading
<1>7. rmap = Ranges(B, Counted(B)) BY <1>1, <1>3, <1>5, <1>f, <1>m, AllMapped DEF ReadFrom
<1>R. PICK rel : rel = o - begins OBVIOUS
<1>8. Access = OffsetBy(rmap, rel)
    <2>1. find_binary_start(rmap) = begins BY <1>6, <1>7, <1>s, StartFound
    <2>2. "uf2" # "bin" OBVIOUS
    <2> QED BY <1>4, <1>o, <1>R, <2>1, <2>2 DEF Access
<1>9. shown'[g] = Contents(OffsetBy(rmap, rel)) BY <1>1, <1>8
<1>10. b \in Held(B) BY <1>3 DEF KeptAs
<1>11. PICK k \in Counted(B), i \in 0..(PageSize - 1) : b = At(B[k].target_addr + i, B[k].data[i])
    BY <1>10, InHeld
<1>12. DOMAIN B = 1..Len(B) BY <1>6
<1>13. k \in DOMAIN B /\ Passes(B[k]) /\ B[k] \in Blocks BY <1>6, <1>11, <1>12 DEF Counted
<1>14. B[k] \in PassingOf(B) BY <1>13 DEF PassingOf, ToSet
<1>t. PICK t \in Nat : t = B[k].target_addr BY <1>13 DEF Blocks
<1>15. DOMAIN B[k].data = 0..(PageSize - 1) BY <1>13 DEF Blocks
<1>16. o \in Nat BY <1>2
<1>17. begins \in Int
    <2>S. PICK S : S = StartsOf(B) OBVIOUS
    <2>T. PICK T : T = {a \in S : sram(a)} OBVIOUS
    <2>U. PICK U : U = {a \in S : xip_sram(a)} OBVIOUS
    <2>1. S \in SUBSET Nat BY <1>6, <2>S, StartsAre
    <2>2. begins = IF \E a \in S : flash_start \in a..(a + PageSize - 1) THEN flash_start
                   ELSE IF T # {} THEN Min(T) ELSE IF U # {} THEN Min(U) ELSE 0
        BY <1>s, <2>S, <2>T, <2>U, Zenon DEF Begins, StartsOf
    <2>3. T \in SUBSET Nat /\ U \in SUBSET Nat BY <2>1, <2>T, <2>U
    <2>4. (T # {} => Min(T) \in Nat) /\ (U # {} => Min(U) \in Nat) BY <2>3, LowestIsMin
    <2> QED BY <2>2, <2>4, FlashBegins
<1>z. PICK z \in Int : z = o + (t - begins) BY <1>16, <1>17
<1>18. t + rel = z /\ o + ((t + i) - begins) = z + i BY <1>16, <1>17, <1>z, <1>R
<1>19. b.at = t + i /\ b.byte = B[k].data[i] BY <1>11, <1>t, AtIs
<1>20. To(b.at) = (z + i) % Limit BY <1>18, <1>19
<1>21. (z % Limit) + PageSize <= Limit
    <2>1. To(B[k].target_addr) = z % Limit BY <1>t, <1>z
    <2> QED BY <1>14, <2>1
<1>22. To(b.at) = (z % Limit) + i BY <1>20, <1>21, LimitTyped, MovesTogether
<1>r. PICK r : r = [RangeOf(B[k]) EXCEPT !.from = (@ + rel) % Limit] OBVIOUS
<1>23. r \in OffsetBy(rmap, rel)
    <2>1. RangeOf(B[k]) \in rmap BY <1>7, <1>11 DEF Ranges
    <2> QED BY <1>r, <2>1 DEF OffsetBy
<1>24. r.from = z % Limit /\ r.bytes = B[k].data BY <1>r, <1>t, <1>18 DEF RangeOf
<1>25. At(r.from + i, r.bytes[i]) \in Contents(OffsetBy(rmap, rel))
    <2>1. i \in DOMAIN r.bytes BY <1>15, <1>24
    <2> QED BY <1>23, <2>1, InContents
<1> QED BY <1>9, <1>19, <1>22, <1>24, <1>25

LEMMA ReadFirstKeeps ==
    ASSUME CountInv, KeepInv, ReadFirst
    PROVE  KeepInv'
<1>1. UNCHANGED Files /\ pc' = "idle" BY DEF ReadFirst
<1> QED BY <1>1, FirstReadsBack, FirstMoves, DoneReading

(***************************************************************************)
(* The theorems                                                            *)
(***************************************************************************)
LEMMA KeepStep == CountInv /\ KeepInv /\ [Next]_vars => KeepInv'
<1> SUFFICES ASSUME CountInv, KeepInv, [Next]_vars PROVE KeepInv' OBVIOUS
<1>1. CASE UNCHANGED vars
    <2>1. UNCHANGED <<disk, meant, pc, job, segments, pages, family_id, next_family_id, pos, rmap, shown>>
        BY <1>1 DEF vars
    <2>2. UNCHANGED <<Files, Input, Output, Blocks1, Blocks2, ReadFrom>>
        BY <2>1 DEF Files, Input, Output, Blocks1, Blocks2, ReadFrom
    <2>3. KeptAll' BY <2>2, AllKept DEF KeepInv
    <2>4. Holding'
        <3>1. \A taken : Taking(taken)' = Taking(taken) BY <2>1, <2>2 DEF Taking
        <3> QED BY <2>1, <2>2, <3>1 DEF KeepInv, Holding
    <2>5. Copying' BY <2>1, <2>2 DEF KeepInv, Copying
    <2>6. Mapping' BY <2>1, <2>2 DEF KeepInv, Mapping
    <2>7. OursReadBack' BY <2>1 DEF KeepInv, OursReadBack, ReadsBack, Finished
    <2>8. MovedToOffset' BY <2>1 DEF KeepInv, MovedToOffset, Finished, OneProgram, AllOf
    <2> QED BY <2>3, <2>4, <2>5, <2>6, <2>7, <2>8 DEF KeepInv
<1>2. CASE bin2uf2 BY <1>2, BinKeeps
<1>3. CASE rp_determine_binary_type BY <1>3, TypeKeeps
<1>4. CASE check_elf32_ph_entries BY <1>4, SegmentKeeps
<1>5. CASE PlacePages BY <1>5, PlaceKeeps
<1>6. CASE WriteAbsolute BY <1>6, AbsoluteKeeps
<1>7. CASE WritePage BY <1>7, PageKeeps
<1>8. CASE CountBlocks BY <1>8, CountKeeps
<1>9. CASE WriteCombinedAbsolute BY <1>9, CombinedAbsoluteKeeps
<1>10. CASE CopyBlock BY <1>10, CopyKeeps
<1>11. CASE NextFile BY <1>11, NextFileKeeps
<1>12. CASE MapFile BY <1>12, MapKeeps
<1>13. CASE MapFails BY <1>13, MapFailsKeeps
<1>14. CASE build_rmap_uf2 BY <1>14, BlockKeeps
<1>15. CASE BlockFails BY <1>15, BlockFailsKeeps
<1>16. CASE ReadFirst BY <1>16, ReadFirstKeeps
<1>17. CASE ReadFamilies BY <1>17, FamiliesKeep
<1>18. CASE ShowFamily BY <1>18, ShowKeeps
<1>19. CASE BinEmpty \/ TypeRefused \/ SegmentFails \/ PlaceFails \/ CountFails
    <2>1. Fail /\ pc \in {"bin", "type", "segments", "count"}
        BY <1>19 DEF BinEmpty, TypeRefused, SegmentFails, PlaceFails, CountFails
    <2>2. job.op \in {"convert", "combine"}
        <3>1. CASE pc \in {"bin", "type", "segments"} BY <3>1 DEF CountInv, Converting
        <3>2. CASE pc = "count" BY <3>2, WhileCombining
        <3> QED BY <2>1, <3>1, <3>2
    <2> QED BY <2>1, <2>2, FailKeeps
<1>21. CASE Close BY <1>21, CloseKeeps
<1>22. CASE CopyFails BY <1>22, CopyFailsKeeps
<1>23. CASE WriteFails BY <1>23, WriteFailsKeeps
<1>20. CASE Command
    <2>1. CASE \E f, to \in Names, o \in ConvertOptions : StartConvert(f, to, o)
        BY <2>1, StartConvertKeeps
    <2>2. CASE \E f, g, to \in Names, o \in CombineOptions : StartCombine(f, g, to, o)
        BY <2>2, StartCombineKeeps
    <2>3. CASE \E f \in Names : StartRead("info", f, NotSet)
        <3>1. "info" # "read" /\ "info" \in {"info", "read"} OBVIOUS
        <3> QED BY <2>3, <3>1, StartReadKeeps
    <2>4. CASE \E f \in Names, offset \in Offsets : StartRead("read", f, offset)
        <3>1. "info" # "read" /\ "read" \in {"info", "read"} OBVIOUS
        <3>2. Offsets \subseteq Nat \union {NotSet} BY OptionsAssumption
        <3> QED BY <2>4, <3>1, <3>2, StartReadKeeps
    <2> QED BY <1>20, <2>1, <2>2, <2>3, <2>4 DEF Command
<1> QED
    BY <1>1, <1>2, <1>3, <1>4, <1>5, <1>6, <1>7, <1>8, <1>9, <1>10, <1>11, <1>12, <1>13, <1>14, <1>15,
       <1>16, <1>17, <1>18, <1>19, <1>20, <1>21, <1>22, <1>23
    DEF Next, Step

\* What uf2 convert and uf2 combine wrote, whichever of them wrote the files that
\* went in, is read back by info: every byte of the programs at the address it was
\* meant for, under the family it was given, and between them nothing but zeros.  Of
\* files that were not cut off, nor made of one that was, and of which no two blocks
\* overlap (whole).
THEOREM ReadsBackTheorem == Spec => [](meant[job.from[1]].ours => ReadsBack)
<1>1. CountInv /\ KeepInv /\ [Next]_vars => CountInv' /\ KeepInv' BY CountStep, KeepStep
<1>2. Init => CountInv /\ KeepInv BY CountInitially, KeepInitially
<1>3. KeepInv => (meant[job.from[1]].ours => ReadsBack) BY DEF KeepInv, OursReadBack
<1> QED BY <1>1, <1>2, <1>3, PTL DEF Spec

\* A UF2 file of one program that a command is told to load elsewhere is moved as a
\* whole: what find_binary_start takes for its beginning comes to be at the offset.
THEOREM MovedTheorem == Spec => []MovedToOffset
<1>1. CountInv /\ KeepInv /\ [Next]_vars => CountInv' /\ KeepInv' BY CountStep, KeepStep
<1>2. Init => CountInv /\ KeepInv BY CountInitially, KeepInitially
<1>3. KeepInv => MovedToOffset BY DEF KeepInv
<1> QED BY <1>1, <1>2, <1>3, PTL DEF Spec
=============================================================================
