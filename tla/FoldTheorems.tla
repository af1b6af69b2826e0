---------------------------- MODULE FoldTheorems ----------------------------
(***************************************************************************)
(* Numbers, and folds over sequences.  A fold of SequencesExt is computed  *)
(* along the prefixes of its sequence, so what its result is can be shown  *)
(* by going from one prefix to the next; the induction is over a set, that *)
(* of the lengths of the prefixes for which something holds.               *)
(***************************************************************************)
EXTENDS Integers, FiniteSets, FiniteSetsExt, FiniteSetTheorems, WellFoundedInduction, TLAPS

\* A number has only one remainder.
LEMMA RemainderOf ==
    ASSUME NEW d \in Nat \ {0}, NEW q \in Int, NEW r \in 0..(d - 1)
    PROVE  ((d * q) + r) % d = r
<1> DEFINE a == (d * q) + r
           u == a \div d
           v == a % d
<1>1. d * q \in Int /\ a \in Int OBVIOUS
<1>2. u \in Int /\ v \in 0..(d - 1) /\ a = (d * u) + v BY <1>1
<1>3. \A x, y \in Int : x < y => (d * x) + d <= d * y
    <2> SUFFICES ASSUME NEW x \in Int, NEW y \in Int, x < y PROVE (d * x) + d <= d * y
        OBVIOUS
    <2>1. d * (x + 1) <= d * y OBVIOUS
    <2>2. d * (x + 1) = (d * x) + d OBVIOUS
    <2> QED BY <2>1, <2>2
<1>4. d * u \in Int BY <1>2
<1> HIDE DEF u, v
<1>5. ~(u < q)
    <2> SUFFICES ASSUME u < q PROVE FALSE OBVIOUS
    <2>1. (d * u) + d <= d * q BY <1>2, <1>3
    <2> QED BY <1>1, <1>2, <1>4, <2>1
<1>6. ~(q < u)
    <2> SUFFICES ASSUME q < u PROVE FALSE OBVIOUS
    <2>1. (d * q) + d <= d * u BY <1>2, <1>3
    <2> QED BY <1>1, <1>2, <1>4, <2>1
<1>7. u = q BY <1>2, <1>5, <1>6
<1>8. v = r BY <1>1, <1>2, <1>7
<1> QED BY <1>8 DEF v

LEMMA SameRemainder ==
    ASSUME NEW d \in Nat \ {0}, NEW s \in Int, s % d = 0, NEW c \in Int
    PROVE  (s + c) % d = c % d
<1> DEFINE p == s \div d
           q == c \div d
           r == c % d
<1>1. p \in Int /\ s = (d * p) + (s % d) OBVIOUS
<1>2. q \in Int /\ r \in 0..(d - 1) /\ c = (d * q) + r OBVIOUS
<1>3. d * p \in Int /\ s = d * p BY <1>1
<1> HIDE DEF p, q, r
<1>4. (d * p) + (d * q) = d * (p + q) BY <1>1, <1>2
<1>5. d * q \in Int /\ p + q \in Int BY <1>1, <1>2
<1>6. s + c = (d * (p + q)) + r BY <1>2, <1>3, <1>4, <1>5
<1>7. ((d * (p + q)) + r) % d = r BY <1>2, <1>5, RemainderOf
<1> QED BY <1>6, <1>7 DEF r

LEMMA SmallRemainder ==
    ASSUME NEW d \in Nat \ {0}, NEW r \in 0..(d - 1)
    PROVE  r % d = r
<1>1. ((d * 0) + r) % d = r BY RemainderOf
<1>2. (d * 0) + r = r OBVIOUS
<1> QED BY <1>1, <1>2

\* A set of numbers has a smallest.
LEMMA Least ==
    ASSUME NEW S \in SUBSET Nat, S # {}
    PROVE  \E x \in S : \A y \in S : x <= y
<1>1. PICK top \in S : TRUE OBVIOUS
<1> DEFINE A == 0..top
           T == {0..s : s \in S \cap A}
<1>2. IsWellFoundedOn(StrictSubsetOrdering(A), SUBSET A)
    <2>1. IsFiniteSet(A) BY FS_Interval
    <2>2. FiniteSubsetsOf(A) = SUBSET A BY <2>1, FS_FiniteSubsetsOfFinite
    <2> QED BY <2>2, FS_StrictSubsetOrderingWellFounded
<1>3. T \subseteq SUBSET A /\ T # {}
    <2>1. \A s \in S \cap A : 0..s \subseteq A OBVIOUS
    <2>2. T \subseteq SUBSET A BY <2>1, Zenon
    <2>3. top \in S \cap A BY <1>1
    <2> QED BY <2>2, <2>3
<1>4. PICK x \in T : \A y \in T : ~(<<y, x>> \in StrictSubsetOrdering(A))
    BY <1>2, <1>3, WFMin
<1>5. PICK s \in S \cap A : x = 0..s OBVIOUS
<1>6. \A t \in S \cap A : s <= t
    <2> SUFFICES ASSUME NEW t \in S \cap A, t < s PROVE FALSE OBVIOUS
    <2>1. 0..t \in T /\ 0..t \subseteq x /\ s \in x /\ s \notin 0..t BY <1>5
    <2>2. <<0..t, x>> \in StrictSubsetOrdering(A)
        BY <1>3, <2>1 DEF StrictSubsetOrdering
    <2> QED BY <1>4, <2>1, <2>2
<1>7. \A t \in S : t \notin A => s <= t BY <1>1, <1>5
<1> QED BY <1>5, <1>6, <1>7

\* Induction up to n; K is the set of the numbers for which the claim holds.
LEMMA UpTo ==
    ASSUME NEW n \in Nat, NEW K, 0 \in K, \A k \in 0..(n - 1) : k \in K => k + 1 \in K
    PROVE  \A k \in 0..n : k \in K
<1> SUFFICES ASSUME NEW bad \in 0..n, bad \notin K PROVE FALSE OBVIOUS
<1> DEFINE B == {k \in 0..n : k \notin K}
<1>1. PICK k \in B : \A j \in B : k <= j
    <2>1. B \in SUBSET Nat /\ B # {} OBVIOUS
    <2> QED BY <2>1, Least
<1>2. k \in 0..n /\ k # 0 /\ k \notin K OBVIOUS
<1>3. k - 1 \in 0..(n - 1) /\ k - 1 \in 0..n /\ (k - 1) + 1 = k BY <1>2
<1>4. k - 1 \in K BY <1>1, <1>3
<1> QED BY <1>2, <1>3, <1>4

\* A set of numbers with an upper bound has a maximum.
LEMMA Largest ==
    ASSUME NEW low \in Int, NEW high \in Int, NEW S \in SUBSET (low..high), S # {}
    PROVE  Max(S) \in S /\ \A s \in S : s <= Max(S)
<1> DEFINE T == {high - s : s \in S}
<1>1. T \in SUBSET Nat /\ T # {}
    <2>1. \A s \in S : s \in Int /\ s <= high OBVIOUS
    <2>2. \A s \in S : high - s \in Nat BY <2>1
    <2> QED BY <2>2
<1>2. PICK x \in T : \A y \in T : x <= y BY <1>1, Least
<1>3. PICK top \in S : x = high - top OBVIOUS
<1>4. \A s \in S : top >= s BY <1>2, <1>3
<1>5. Max(S) \in S /\ \A s \in S : Max(S) >= s BY <1>4, Zenon DEF Max
<1> QED BY <1>5

LEMMA MaxOfPrefix ==
    ASSUME NEW k \in Nat, NEW S, S \subseteq 1..(k + 1), k + 1 \in S
    PROVE  Max(S) = k + 1
<1>1. S \in SUBSET (1..(k + 1)) /\ S # {} /\ 1 \in Int /\ k + 1 \in Int OBVIOUS
<1>2. Max(S) \in S /\ \A s \in S : s <= Max(S) BY <1>1, Largest, Zenon
<1>3. Max(S) \in 1..(k + 1) /\ k + 1 <= Max(S) BY <1>2
<1> QED BY <1>3

-----------------------------------------------------------------------------
\* The function of sets of positions that a fold iterates.  Its operation is here
\* the function op of the number of an element and the value so far.
IteratesOver(iter, n, start, op) ==
    \A s \in SUBSET (1..n) :
        iter[s] = IF s = {} THEN start ELSE op[<<Max(s), iter[s \ {Max(s)}]>>]

\* It exists, when the operation stays within V.
LEMMA FoldExists ==
    ASSUME NEW n \in Nat, NEW V, NEW start \in V, NEW op \in [(1..n) \X V -> V]
    PROVE  \E iter \in [SUBSET (1..n) -> V] : IteratesOver(iter, n, start, op)
<1> DEFINE Iterates(k) ==
             \E iter \in [SUBSET (1..k) -> V] :
                 \A s \in SUBSET (1..k) :
                     iter[s] = IF s = {} THEN start ELSE op[<<Max(s), iter[s \ {Max(s)}]>>]
           K == {k \in 0..n : Iterates(k)}
<1>1. 0 \in K
    <2> DEFINE iter == [s \in SUBSET (1..0) |-> start]
    <2>1. SUBSET (1..0) = {{}} OBVIOUS
    <2>2. iter \in [SUBSET (1..0) -> V] OBVIOUS
    <2>3. \A s \in SUBSET (1..0) :
             iter[s] = IF s = {} THEN start ELSE op[<<Max(s), iter[s \ {Max(s)}]>>]
        BY <2>1
    <2> HIDE DEF iter
    <2>4. Iterates(0) BY <2>2, <2>3
    <2>5. 0 \in 0..n OBVIOUS
    <2> HIDE DEF Iterates
    <2> QED BY <2>4, <2>5
<1>2. ASSUME NEW k \in 0..(n - 1), k \in K PROVE k + 1 \in K
    <2>1. PICK old \in [SUBSET (1..k) -> V] :
            \A s \in SUBSET (1..k) :
                old[s] = IF s = {} THEN start ELSE op[<<Max(s), old[s \ {Max(s)}]>>]
        BY <1>2
    <2> DEFINE iter == [s \in SUBSET (1..(k + 1)) |->
                          IF k + 1 \in s THEN op[<<k + 1, old[s \ {k + 1}]>>] ELSE old[s]]
    <2>2. \A s \in SUBSET (1..(k + 1)) : s \ {k + 1} \in SUBSET (1..k)
        <3>1. \A x \in 1..(k + 1) : x # k + 1 => x \in 1..k OBVIOUS
        <3> QED BY <3>1
    <2>3. \A s \in SUBSET (1..(k + 1)) : k + 1 \notin s => s \in SUBSET (1..k) OBVIOUS
    <2>4. k + 1 \in 1..n /\ k \in Nat OBVIOUS
    <2>5. ASSUME NEW s \in SUBSET (1..(k + 1)) PROVE iter[s] \in V
        BY <2>1, <2>2, <2>3, <2>4
    <2>6. iter \in [SUBSET (1..(k + 1)) -> V] BY <2>5
    <2>7. ASSUME NEW s \in SUBSET (1..(k + 1))
          PROVE  iter[s] = IF s = {} THEN start ELSE op[<<Max(s), iter[s \ {Max(s)}]>>]
        <3>1. CASE k + 1 \in s
            <4>1. Max(s) = k + 1 BY <2>4, <3>1, MaxOfPrefix
            <4>2. s \ {k + 1} \in SUBSET (1..(k + 1)) /\ k + 1 \notin s \ {k + 1} OBVIOUS
            <4>3. iter[s \ {k + 1}] = old[s \ {k + 1}] BY <4>2
            <4>4. iter[s] = op[<<k + 1, old[s \ {k + 1}]>>] BY <3>1
            <4> QED BY <3>1, <4>1, <4>3, <4>4
        <3>2. CASE k + 1 \notin s
            <4>1. s \in SUBSET (1..k) /\ iter[s] = old[s] BY <2>3, <3>2
            <4>2. \A t \in SUBSET (1..k) : iter[t] = old[t]
                <5>1. \A t \in SUBSET (1..k) : t \in SUBSET (1..(k + 1)) /\ k + 1 \notin t
                    BY <2>4
                <5> QED BY <5>1
            <4>3. s \ {Max(s)} \in SUBSET (1..k) BY <4>1
            <4>4. iter[s \ {Max(s)}] = old[s \ {Max(s)}] BY <4>2, <4>3
            <4>5. old[s] = IF s = {} THEN start ELSE op[<<Max(s), old[s \ {Max(s)}]>>]
                BY <2>1, <4>1
            <4> HIDE DEF iter
            <4> QED BY <4>1, <4>4, <4>5
        <3> QED BY <3>1, <3>2
    <2> HIDE DEF iter
    <2>8. Iterates(k + 1) BY <2>6, <2>7
    <2>9. k + 1 \in 0..n OBVIOUS
    <2> HIDE DEF Iterates
    <2> QED BY <2>8, <2>9
<1>3. n \in K
    <2> HIDE DEF K
    <2>1. \A k \in 0..n : k \in K BY <1>1, <1>2, UpTo
    <2> QED BY <2>1
<1> QED BY <1>3 DEF IteratesOver

\* From one prefix to the next.
LEMMA Prefix ==
    ASSUME NEW n \in Nat, NEW k \in 0..(n - 1)
    PROVE  /\ 1..(k + 1) \in SUBSET (1..n) /\ 1..(k + 1) # {}
           /\ Max(1..(k + 1)) = k + 1 /\ (1..(k + 1)) \ {k + 1} = 1..k
<1>1. 1..(k + 1) \in SUBSET (1..n) /\ 1..(k + 1) # {} OBVIOUS
<1>2. k + 1 \in 1..(k + 1) /\ k \in Nat OBVIOUS
<1>3. Max(1..(k + 1)) = k + 1 BY <1>2, MaxOfPrefix
<1>4. (1..(k + 1)) \ {k + 1} = 1..k BY <1>2
<1> QED BY <1>1, <1>3, <1>4
=============================================================================
