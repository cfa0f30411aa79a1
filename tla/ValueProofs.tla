----------------------------- MODULE ValueProofs ----------------------------
(***************************************************************************)
(* Proofs about DataIdx for a table of any size, any devices and any       *)
(* readings, and about Timespec for any units and any times.               *)
(***************************************************************************)
EXTENDS DataIdx, Timespec, TLAPS, WellFoundedInduction, NaturalsInduction

-----------------------------------------------------------------------------
(***************************************************************************)
(* The table of readings.  HoldsTheLatest is said of the first entry       *)
(* with an id, and a first entry is only the right one because there is    *)
(* never a second: that is what Single says of every pair of entries,      *)
(* whatever was emptied between them.                                      *)
(***************************************************************************)
TableTyped == tContainer \in [Slots -> [id : Ids \cup {0}, reading : Readings \cup {0}]]

Single == \A s, r \in Slots : tContainer[s].id = tContainer[r].id /\ tContainer[s].id # 0 => s = r

Known == DOMAIN latest = {tContainer[s].id : s \in Slots} \ {0}

Latest == \A s \in Slots : tContainer[s].id # 0 => tContainer[s].reading = latest[tContainer[s].id]

TableInv == TableTyped /\ Single /\ Known /\ Latest

-----------------------------------------------------------------------------
\* A set of natural numbers that is not empty has a least element.
LEMMA LeastNatural ==
  ASSUME NEW S \in SUBSET Nat, S # {}
  PROVE  \E s \in S : \A r \in S : s <= r
  <1>1. PICK s \in S : \A r \in S : ~(<<r, s>> \in OpToRel(<, Nat))
    BY NatLessThanWellFounded, WFMin
  <1>2. \A r \in S : ~(r < s)
    BY <1>1 DEF OpToRel
  <1>3. QED
    BY <1>2

\* FirstOf finds a slot among those it is given exactly when there is one.
LEMMA FirstIsOne ==
  ASSUME NEW S \in SUBSET Slots
  PROVE  /\ S = {} => FirstOf(S) = -1
         /\ S # {} => FirstOf(S) \in S /\ FirstOf(S) >= 0
  <1>1. S \in SUBSET Nat /\ \A s \in S : s >= 0
    BY DataIdxAssumption DEF Slots
  <1>2. CASE S = {}
    BY <1>2 DEF FirstOf
  <1>3. CASE S # {}
    <2>1. \E s \in S : \A r \in S : s <= r
      BY <1>1, <1>3, LeastNatural
    <2>2. FirstOf(S) \in S
      BY <1>3, <2>1 DEF FirstOf
    <2>3. QED
      BY <1>1, <1>3, <2>2
  <1>4. QED
    BY <1>2, <1>3

\* existId finds an entry with the id exactly when there is one.
LEMMA ExistIdFinds ==
  ASSUME NEW Id
  PROVE  /\ existId(Id) >= 0 <=> \E s \in Slots : tContainer[s].id = Id
         /\ existId(Id) >= 0 => existId(Id) \in Slots /\ tContainer[existId(Id)].id = Id
         /\ ~(existId(Id) >= 0) => existId(Id) = -1
  <1> DEFINE S == {s \in Slots : tContainer[s].id = Id}
  <1>1. S \in SUBSET Slots /\ existId(Id) = FirstOf(S)
    BY DEF existId
  <1>2. S # {} <=> \E s \in Slots : tContainer[s].id = Id
    OBVIOUS
  <1>3. FirstOf(S) \in S => FirstOf(S) \in Slots /\ tContainer[FirstOf(S)].id = Id
    OBVIOUS
  <1> HIDE DEF S
  <1>4. /\ S = {} => FirstOf(S) = -1
        /\ S # {} => FirstOf(S) \in S /\ FirstOf(S) >= 0
    BY <1>1, FirstIsOne
  <1>5. ~(-1 >= 0)
    OBVIOUS
  <1>6. QED
    BY <1>1, <1>2, <1>3, <1>4, <1>5

\* SlotFor gives the id's entry, or an empty one if it has none.
LEMMA SlotForFinds ==
  ASSUME NEW Id, SlotFor(Id) >= 0
  PROVE  /\ SlotFor(Id) \in Slots
         /\ \/ tContainer[SlotFor(Id)].id = Id
            \/ /\ tContainer[SlotFor(Id)].id = 0
               /\ \A s \in Slots : tContainer[s].id # Id
  <1>1. CASE existId(Id) >= 0
    BY <1>1, ExistIdFinds DEF SlotFor
  <1>2. CASE ~(existId(Id) >= 0)
    <2>1. SlotFor(Id) = existId(0)
      BY <1>2 DEF SlotFor
    <2>2. existId(0) \in Slots /\ tContainer[existId(0)].id = 0
      BY <2>1, ExistIdFinds
    <2>3. \A s \in Slots : tContainer[s].id # Id
      BY <1>2, ExistIdFinds
    <2>4. QED
      BY <2>1, <2>2, <2>3
  <1>3. QED
    BY <1>1, <1>2

-----------------------------------------------------------------------------
\* updateData keeps the invariant: the entry it writes is the only one with the id.
LEMMA UpdateInv ==
  ASSUME TableInv, NEW Id \in Ids, NEW r \in Readings, updateData(Id, r)
  PROVE  TableInv'
  <1> DEFINE p == SlotFor(Id)
             e == [id |-> Id, reading |-> r]
  <1>1. CASE p >= 0
    <2>1. /\ p \in Slots
          /\ \/ tContainer[p].id = Id
             \/ /\ tContainer[p].id = 0
                /\ \A s \in Slots : tContainer[s].id # Id
      BY <1>1, SlotForFinds
    <2>2. /\ tContainer' = [tContainer EXCEPT ![p] = e]
          /\ latest' = [d \in {Id} \cup DOMAIN latest |-> IF d = Id THEN r ELSE latest[d]]
      BY <1>1 DEF updateData
    <2>3. Id # 0
      BY DataIdxAssumption
    <2> HIDE DEF p
    <2>4. /\ tContainer'[p] = e
          /\ \A s \in Slots \ {p} : tContainer'[s] = tContainer[s]
      BY <2>1, <2>2 DEF TableInv, TableTyped
    <2>5. TableTyped'
      BY <2>1, <2>2 DEF TableInv, TableTyped
    <2>6. \A s \in Slots \ {p} : tContainer[s].id # Id
      BY <2>1, <2>3 DEF TableInv, Single
    <2>7. e.id = Id /\ e.reading = r
      OBVIOUS
    <2> HIDE DEF e
    <2>8. Single'
      BY <2>1, <2>4, <2>6, <2>7 DEF TableInv, Single
    <2>9. DOMAIN latest' = {Id} \cup DOMAIN latest
      BY <2>2
    <2>10. Known'
      <3>1. {tContainer'[s].id : s \in Slots} \ {0} = {Id} \cup ({tContainer[s].id : s \in Slots} \ {0})
        BY <2>1, <2>3, <2>4, <2>6, <2>7
      <3>2. QED
        BY <2>9, <3>1 DEF TableInv, Known
    <2>11. Latest'
      <3> SUFFICES ASSUME NEW s \in Slots, tContainer'[s].id # 0
                   PROVE  tContainer'[s].reading = latest'[tContainer'[s].id]
        BY DEF Latest
      <3>1. CASE s = p
        BY <2>2, <2>4, <2>7, <3>1
      <3>2. CASE s # p
        <4>1. tContainer'[s] = tContainer[s] /\ tContainer[s].id # Id
          BY <2>4, <2>6, <3>2
        <4>2. tContainer[s].id \in DOMAIN latest
          BY <4>1 DEF TableInv, Known
        <4>3. latest'[tContainer[s].id] = latest[tContainer[s].id]
          BY <2>2, <4>1, <4>2
        <4>4. QED
          BY <4>1, <4>3 DEF TableInv, Latest
      <3>3. QED
        BY <3>1, <3>2
    <2>12. QED
      BY <2>5, <2>8, <2>10, <2>11 DEF TableInv
  <1>2. CASE ~(p >= 0)
    BY <1>2 DEF updateData, TableInv, TableTyped, Single, Known, Latest
  <1>3. QED
    BY <1>1, <1>2

\* So does an entry that is emptied: no other has its id.
LEMMA ClearInv ==
  ASSUME TableInv, NEW p \in Slots, Clear(p)
  PROVE  TableInv'
  <1> DEFINE gone == tContainer[p].id
  <1>1. /\ gone # 0
        /\ latest' = Restrict(latest, DOMAIN latest \ {gone})
        /\ tContainer' = [tContainer EXCEPT ![p] = Empty]
    BY DEF Clear
  <1>2. \A s \in Slots \ {p} : tContainer[s].id # gone
    BY <1>1 DEF TableInv, Single
  <1> HIDE DEF gone
  <1>3. /\ tContainer'[p].id = 0
        /\ \A s \in Slots \ {p} : tContainer'[s] = tContainer[s]
    BY <1>1 DEF TableInv, TableTyped, Empty
  <1>4. TableTyped'
    BY <1>1 DEF TableInv, TableTyped, Empty
  <1>5. Single'
    BY <1>3 DEF TableInv, Single
  <1>6. latest' = [d \in DOMAIN latest \ {gone} |-> latest[d]]
    BY <1>1 DEF Restrict
  <1>7. Known'
    <2>1. {tContainer'[s].id : s \in Slots} \ {0} = ({tContainer[s].id : s \in Slots} \ {0}) \ {gone}
      BY <1>1, <1>2, <1>3 DEF gone
    <2>2. QED
      BY <1>6, <2>1 DEF TableInv, Known
  <1>8. Latest'
    <2> SUFFICES ASSUME NEW s \in Slots, tContainer'[s].id # 0
                 PROVE  tContainer'[s].reading = latest'[tContainer'[s].id]
      BY DEF Latest
    <2>1. tContainer'[s] = tContainer[s] /\ tContainer[s].id # gone
      BY <1>2, <1>3
    <2>2. tContainer[s].id \in DOMAIN latest \ {gone}
      BY <2>1 DEF TableInv, Known
    <2>3. QED
      BY <1>6, <2>1, <2>2 DEF TableInv, Latest
  <1>9. QED
    BY <1>4, <1>5, <1>7, <1>8 DEF TableInv

\* The table keeps its invariant, however its entries are written and emptied.
THEOREM TableInvariant == SpecIdx => []TableInv
  <1>1. InitIdx => TableInv
    BY DEF InitIdx, TableInv, TableTyped, Single, Known, Latest, Empty
  <1>2. TableInv /\ [NextIdx]_idxVars => TableInv'
    <2> SUFFICES ASSUME TableInv, [NextIdx]_idxVars
                 PROVE  TableInv'
      OBVIOUS
    <2>1. ASSUME NEW Id \in Ids, NEW r \in Readings, updateData(Id, r)
          PROVE  TableInv'
      BY <2>1, UpdateInv
    <2>2. ASSUME NEW s \in Slots, Clear(s)
          PROVE  TableInv'
      BY <2>2, ClearInv
    <2>3. CASE UNCHANGED idxVars
      BY <2>3 DEF idxVars, TableInv, TableTyped, Single, Known, Latest
    <2>4. QED
      BY <2>1, <2>2, <2>3 DEF NextIdx
  <1>3. QED
    BY <1>1, <1>2, PTL DEF SpecIdx

\* What updateData and existId promise (dataIdx.c:28-94): each accepted device has one entry, with its
\* latest reading, where existId finds it, and only a full table refuses one.
THEOREM TableHoldsTheLatest == SpecIdx => []HoldsTheLatest
  <1>1. TableInv => HoldsTheLatest
    <2> SUFFICES ASSUME TableInv
                 PROVE  HoldsTheLatest
      OBVIOUS
    <2>1. \A Id \in Ids : existId(Id) >= 0 <=> Id \in DOMAIN latest
      <3> TAKE Id \in Ids
      <3>1. Id # 0
        BY DataIdxAssumption
      <3>2. existId(Id) >= 0 <=> \E s \in Slots : tContainer[s].id = Id
        BY ExistIdFinds
      <3>3. QED
        BY <3>1, <3>2 DEF TableInv, Known
    <2>2. ASSUME NEW s \in Slots, tContainer[s].id # 0
          PROVE  existId(tContainer[s].id) = s
      <3> DEFINE Id == tContainer[s].id
      <3>1. existId(Id) >= 0 /\ existId(Id) \in Slots /\ tContainer[existId(Id)].id = Id
        BY ExistIdFinds
      <3>2. QED
        BY <2>2, <3>1 DEF TableInv, Single
    <2>3. \A Id \in DOMAIN latest : tContainer[existId(Id)].reading = latest[Id]
      <3> TAKE Id \in DOMAIN latest
      <3>1. PICK s \in Slots : tContainer[s].id = Id /\ Id # 0
        BY DEF TableInv, Known
      <3>2. QED
        BY <2>2, <3>1 DEF TableInv, Latest
    <2>4. ASSUME NEW Id \in Ids, SlotFor(Id) < 0, NEW s \in Slots
          PROVE  tContainer[s].id \in DOMAIN latest \ {Id}
      <3>1. ~(existId(Id) >= 0) /\ ~(existId(0) >= 0)
        <4>1. CASE existId(Id) >= 0
          <5>1. existId(Id) \in Slots /\ SlotFor(Id) = existId(Id)
            BY <4>1, ExistIdFinds DEF SlotFor
          <5>2. QED
            BY <2>4, <5>1, DataIdxAssumption DEF Slots
        <4>2. CASE ~(existId(Id) >= 0)
          <5>1. SlotFor(Id) = existId(0)
            BY <4>2 DEF SlotFor
          <5>2. existId(0) >= 0 => existId(0) \in Slots
            BY ExistIdFinds
          <5>3. QED
            BY <2>4, <4>2, <5>1, <5>2, DataIdxAssumption DEF Slots
        <4>3. QED
          BY <4>1, <4>2
      <3>2. tContainer[s].id # Id /\ tContainer[s].id # 0
        BY <3>1, ExistIdFinds
      <3>3. QED
        BY <3>2 DEF TableInv, Known
    <2>5. QED
      BY <2>1, <2>2, <2>3, <2>4 DEF HoldsTheLatest
  <1>2. QED
    BY <1>1, TableInvariant, PTL

-----------------------------------------------------------------------------
(***************************************************************************)
(* timespec.c: its units and times.                                        *)
(***************************************************************************)
\* The units of timespec.c: a second is a number of milliseconds, and of microseconds.
Units ==
    /\ Grids \subseteq Nat \ {0}
    /\ NSEC_PER_SEC \in Nat \ {0} /\ NSEC_PER_MSEC \in Nat \ {0} /\ NSEC_PER_USEC \in Nat \ {0}
    /\ \E n \in Nat \ {0} : NSEC_PER_SEC = n * NSEC_PER_MSEC
    /\ \E n \in Nat \ {0} : NSEC_PER_SEC = n * NSEC_PER_USEC

Times == [tv_sec : Int, tv_nsec : Int]

-----------------------------------------------------------------------------
(***************************************************************************)
(* Division.                                                               *)
(***************************************************************************)
LEMMA ProductBelow ==
    ASSUME NEW b \in Nat \ {0}, NEW x \in Int, -b < b * x, b * x < b
    PROVE  x = 0
  OBVIOUS

LEMMA Products ==
    ASSUME NEW a \in Int, NEW b \in Int, NEW c \in Int
    PROVE  a * b \in Int /\ a * b = b * a /\ a * (b + c) = a * b + a * c /\ (a * b) * c = a * (b * c)
  OBVIOUS

LEMMA Quotient ==
    ASSUME NEW a \in Int, NEW b \in Nat \ {0}
    PROVE  /\ a \div b \in Int /\ a % b \in 0..(b - 1) /\ a = b * (a \div b) + (a % b)
  OBVIOUS

LEMMA OneQuotient ==
    ASSUME NEW b \in Nat \ {0}, NEW q \in Int, NEW r \in 0..(b - 1), NEW p \in Int, NEW s \in 0..(b - 1),
           b * q + r = b * p + s
    PROVE  q = p /\ r = s
  <1>1. b * (q - p) = s - r
    OBVIOUS
  <1>2. q - p = 0
    BY <1>1, ProductBelow
  <1>3. QED
    BY <1>1, <1>2

LEMMA QuotientIs ==
    ASSUME NEW v \in Int, NEW b \in Nat \ {0}, NEW q \in Int, NEW r \in 0..(b - 1), v = b * q + r
    PROVE  v \div b = q
  <1>1. PICK p, s : p = v \div b /\ s = v % b
    OBVIOUS
  <1>2. p \in Int /\ s \in 0..(b - 1) /\ b * p + s = v
    BY <1>1, Quotient
  <1>3. p = q
    BY <1>2, OneQuotient
  <1>4. QED
    BY <1>1, <1>3

LEMMA TowardsZero ==
    ASSUME NEW a \in Int, NEW b \in Nat \ {0}
    PROVE  /\ Div(a, b) \in Int /\ Rem(a, b) \in Int /\ a = b * Div(a, b) + Rem(a, b)
           /\ -b < Rem(a, b) /\ Rem(a, b) < b /\ (a >= 0 => Rem(a, b) >= 0) /\ (a <= 0 => Rem(a, b) <= 0)
  <1>1. CASE a >= 0
    BY <1>1, Quotient DEF Div, Rem
  <1>2. CASE a < 0
    BY <1>2, Quotient DEF Div, Rem
  <1>3. QED
    BY <1>1, <1>2

-----------------------------------------------------------------------------
(***************************************************************************)
(* Normal form.                                                            *)
(***************************************************************************)
LEMMA TimeIs ==
    ASSUME NEW s \in Int, NEW n \in Int
    PROVE  Time(s, n) \in Times /\ Time(s, n).tv_sec = s /\ Time(s, n).tv_nsec = n
  BY DEF Time, Times

LEMMA Normalised ==
    ASSUME Units, NEW ts \in Times
    PROVE  LET n == timespec_normalise(ts)
           IN  n \in Times /\ n.tv_sec \in Int /\ n.tv_nsec \in Int /\ Normal(n) /\ ValueOf(n) = ValueOf(ts)
  <1> DEFINE N == NSEC_PER_SEC
             q == Div(ts.tv_nsec, N)
             r == Rem(ts.tv_nsec, N)
             flat == Time(ts.tv_sec + q, r)
             n == timespec_normalise(ts)
  <1>1. N \in Nat \ {0} /\ ts.tv_sec \in Int /\ ts.tv_nsec \in Int
    BY DEF Units, Times
  <1>2. q \in Int /\ r \in Int /\ ts.tv_nsec = N * q + r /\ -N < r /\ r < N
    BY <1>1, TowardsZero
  <1>3. Flattened(ts) = flat
    BY DEF Flattened
  <1> HIDE DEF N, q, r
  <1>4. flat \in Times /\ flat.tv_sec = ts.tv_sec + q /\ flat.tv_nsec = r
    BY <1>1, <1>2, TimeIs
  <1> HIDE DEF flat
  <1>5. n = IF flat.tv_nsec < 0 THEN Time(flat.tv_sec - 1, N + flat.tv_nsec) ELSE flat
    BY <1>3 DEF timespec_normalise, N
  <1> HIDE DEF n
  <1>6. ValueOf(ts) = (ts.tv_sec + q) * N + r
    BY <1>1, <1>2 DEF ValueOf, N
  <1>7. CASE r < 0
    <2>1. n = Time(flat.tv_sec - 1, N + flat.tv_nsec)
      BY <1>4, <1>5, <1>7
    <2>2. n \in Times /\ n.tv_sec = ts.tv_sec + q - 1 /\ n.tv_nsec = N + r
      <3>1. flat.tv_sec - 1 \in Int /\ N + flat.tv_nsec \in Int
        BY <1>1, <1>2, <1>4
      <3>2. n \in Times /\ n.tv_sec = flat.tv_sec - 1 /\ n.tv_nsec = N + flat.tv_nsec
        BY <2>1, <3>1, TimeIs
      <3>3. QED
        BY <1>1, <1>2, <1>4, <3>2
    <2>3. ValueOf(n) = (ts.tv_sec + q - 1) * N + (N + r)
      BY <2>2 DEF ValueOf, N
    <2>4. (ts.tv_sec + q - 1) * N + (N + r) = (ts.tv_sec + q) * N + r
      BY <1>1, <1>2
    <2>5. n.tv_nsec \in 0..(N - 1)
      BY <1>1, <1>2, <1>7, <2>2
    <2>6. QED
      BY <1>1, <1>2, <1>6, <2>2, <2>3, <2>4, <2>5 DEF n, Normal, N
  <1>8. CASE ~(r < 0)
    <2>1. n = flat
      BY <1>4, <1>5, <1>8
    <2>2. n \in Times /\ n.tv_sec = ts.tv_sec + q /\ n.tv_nsec = r
      BY <1>4, <2>1
    <2>3. ValueOf(n) = (ts.tv_sec + q) * N + r
      BY <2>2 DEF ValueOf, N
    <2>4. n.tv_nsec \in 0..(N - 1)
      BY <1>1, <1>2, <1>8, <2>2
    <2>5. QED
      BY <1>1, <1>2, <1>6, <2>2, <2>3, <2>4 DEF n, Normal, N
  <1>9. QED
    BY <1>7, <1>8

\* In normal form the seconds decide, and the nanoseconds of equal seconds.
LEMMA Lexical ==
    ASSUME NEW N \in Nat \ {0}, NEW s \in Int, NEW m \in 0..(N - 1), NEW t \in Int, NEW n \in 0..(N - 1)
    PROVE  /\ s * N + m > t * N + n <=> s > t \/ (s = t /\ m > n)
           /\ s * N + m = t * N + n <=> s = t /\ m = n
  <1>1. CASE s = t
    BY <1>1
  <1>2. ASSUME NEW u \in Int, NEW v \in Int, NEW i1 \in 0..(N - 1), NEW j1 \in 0..(N - 1), u > v
        PROVE  u * N + i1 > v * N + j1
    <2>1. PICK d \in Nat : u = v + 1 + d
      BY <1>2
    <2>2. u * N = v * N + N + d * N /\ d * N >= 0
      BY <2>1
    <2>3. v * N \in Int /\ u * N \in Int /\ d * N \in Int
      OBVIOUS
    <2>4. QED
      BY <2>2, <2>3
  <1>3. CASE s > t
    BY <1>2, <1>3
  <1>4. CASE t > s
    BY <1>2, <1>4
  <1>5. QED
    BY <1>1, <1>3, <1>4

-----------------------------------------------------------------------------
(***************************************************************************)
(* Sums and comparisons.                                                   *)
(***************************************************************************)
LEMMA Sums ==
    ASSUME Units, NEW a \in Times, NEW b \in Times
    PROVE  /\ Normal(timespec_add(a, b)) /\ ValueOf(timespec_add(a, b)) = ValueOf(a) + ValueOf(b)
           /\ Normal(timespec_sub(a, b)) /\ ValueOf(timespec_sub(a, b)) = ValueOf(a) - ValueOf(b)
           /\ timespec_add(a, b) \in Times /\ timespec_sub(a, b) \in Times
  <1> DEFINE x == timespec_normalise(a)
             y == timespec_normalise(b)
             sum == Time(x.tv_sec + y.tv_sec, x.tv_nsec + y.tv_nsec)
             diff == Time(x.tv_sec - y.tv_sec, x.tv_nsec - y.tv_nsec)
  <1>1. /\ x.tv_sec \in Int /\ x.tv_nsec \in Int /\ ValueOf(x) = ValueOf(a)
        /\ y.tv_sec \in Int /\ y.tv_nsec \in Int /\ ValueOf(y) = ValueOf(b)
    BY Normalised
  <1>2. timespec_add(a, b) = timespec_normalise(sum) /\ timespec_sub(a, b) = timespec_normalise(diff)
    BY DEF timespec_add, timespec_sub
  <1> HIDE DEF x, y
  <1>3. /\ sum \in Times /\ sum.tv_sec = x.tv_sec + y.tv_sec /\ sum.tv_nsec = x.tv_nsec + y.tv_nsec
        /\ diff \in Times /\ diff.tv_sec = x.tv_sec - y.tv_sec /\ diff.tv_nsec = x.tv_nsec - y.tv_nsec
    BY <1>1, TimeIs
  <1> HIDE DEF sum, diff
  <1>4. NSEC_PER_SEC \in Int
    BY DEF Units
  <1>5. ValueOf(sum) = ValueOf(x) + ValueOf(y) /\ ValueOf(diff) = ValueOf(x) - ValueOf(y)
    BY <1>1, <1>3, <1>4 DEF ValueOf
  <1>6. QED
    BY <1>1, <1>2, <1>3, <1>5, Normalised

LEMMA Comparisons ==
    ASSUME Units, NEW a \in Times, NEW b \in Times
    PROVE  /\ timespec_eq(a, b) <=> ValueOf(a) = ValueOf(b)
           /\ timespec_gt(a, b) <=> ValueOf(a) > ValueOf(b)
           /\ timespec_ge(a, b) <=> ValueOf(a) >= ValueOf(b)
           /\ timespec_lt(a, b) <=> ValueOf(a) < ValueOf(b)
           /\ timespec_le(a, b) <=> ValueOf(a) <= ValueOf(b)
  <1> DEFINE N == NSEC_PER_SEC
  <1>1. PICK x, y : x = timespec_normalise(a) /\ y = timespec_normalise(b)
    OBVIOUS
  <1>2. /\ x \in Times /\ x.tv_sec \in Int /\ x.tv_nsec \in 0..(N - 1) /\ ValueOf(a) = x.tv_sec * N + x.tv_nsec
        /\ y \in Times /\ y.tv_sec \in Int /\ y.tv_nsec \in 0..(N - 1) /\ ValueOf(b) = y.tv_sec * N + y.tv_nsec
    BY <1>1, Normalised DEF Normal, ValueOf
  <1>3. N \in Nat \ {0}
    BY DEF Units
  <1> HIDE DEF N
  <1>4. PICK s, m, t, n : s = x.tv_sec /\ m = x.tv_nsec /\ t = y.tv_sec /\ n = y.tv_nsec
    OBVIOUS
  <1>5. /\ s \in Int /\ m \in 0..(N - 1) /\ t \in Int /\ n \in 0..(N - 1)
        /\ ValueOf(a) = s * N + m /\ ValueOf(b) = t * N + n /\ ValueOf(a) \in Int /\ ValueOf(b) \in Int
    BY <1>2, <1>3, <1>4
  <1>6. /\ ValueOf(a) > ValueOf(b) <=> s > t \/ (s = t /\ m > n)
        /\ ValueOf(b) > ValueOf(a) <=> t > s \/ (s = t /\ n > m)
        /\ ValueOf(a) = ValueOf(b) <=> s = t /\ m = n
    BY <1>3, <1>5, Lexical
  <1>7. /\ timespec_gt(a, b) <=> s > t \/ (s = t /\ m > n)
        /\ timespec_ge(a, b) <=> s > t \/ (s = t /\ m >= n)
        /\ timespec_lt(a, b) <=> s < t \/ (s = t /\ m < n)
        /\ timespec_le(a, b) <=> s < t \/ (s = t /\ m <= n)
    BY <1>1, <1>4 DEF timespec_gt, timespec_ge, timespec_lt, timespec_le, Ordered
  <1>8. timespec_eq(a, b) <=> s = t /\ m = n
    <2>1. timespec_eq(a, b) <=> x = y
      BY <1>1 DEF timespec_eq
    <2>2. x = y <=> x.tv_sec = y.tv_sec /\ x.tv_nsec = y.tv_nsec
      BY <1>2 DEF Times
    <2>3. QED
      BY <1>4, <2>1, <2>2
  <1>9. QED
    BY <1>5, <1>6, <1>7, <1>8

-----------------------------------------------------------------------------
(***************************************************************************)
(* Conversions.                                                            *)
(***************************************************************************)
\* A time in normal form is known from its number.
LEMMA SameTime ==
    ASSUME Units, NEW x \in Times, NEW y \in Times, Normal(x), Normal(y), ValueOf(x) = ValueOf(y)
    PROVE  x = y
  <1>1. PICK N : N = NSEC_PER_SEC
    OBVIOUS
  <1>2. N \in Nat \ {0}
    BY <1>1 DEF Units
  <1>3. PICK s, m, t, n : s = x.tv_sec /\ m = x.tv_nsec /\ t = y.tv_sec /\ n = y.tv_nsec
    OBVIOUS
  <1>4. s \in Int /\ m \in 0..(N - 1) /\ t \in Int /\ n \in 0..(N - 1) /\ s * N + m = t * N + n
    BY <1>1, <1>3 DEF Times, Normal, ValueOf
  <1>5. s = t /\ m = n
    BY <1>2, <1>4, Lexical
  <1>6. x = y <=> x.tv_sec = y.tv_sec /\ x.tv_nsec = y.tv_nsec
    BY DEF Times
  <1>7. QED
    BY <1>3, <1>5, <1>6

LEMMA NormaliseNormal ==
    ASSUME Units, NEW x \in Times, Normal(x)
    PROVE  timespec_normalise(x) = x
  BY Normalised, SameTime

\* What is rounded is off by less than one, and not at all when nothing is to be rounded.
LEMMA Rounding ==
    ASSUME NEW a \in Int, NEW b \in Nat \ {0}, NEW m \in Neighbours(a, b)
    PROVE  m \in Int /\ m * b \in Int /\ Closer(m * b, a, b) /\ (a % b = 0 => m * b = a)
  <1>1. PICK q, r : q = a \div b /\ r = a % b
    OBVIOUS
  <1>2. q \in Int /\ r \in 0..(b - 1) /\ a = b * q + r
    BY <1>1, Quotient
  <1>3. PICK c, s : c = (-a) \div b /\ s = (-a) % b
    OBVIOUS
  <1>4. c \in Int /\ s \in 0..(b - 1) /\ -a = b * c + s
    <2>1. -a \in Int
      OBVIOUS
    <2>2. QED
      BY <1>3, <2>1, Quotient
  <1>5. CASE m = q
    <2>1. m * b = a - r
      BY <1>2, <1>5
    <2>2. QED
      BY <1>1, <1>2, <1>5, <2>1 DEF Closer
  <1>6. CASE m = -c
    <2>1. m \in Int /\ m * b = a + s
      BY <1>4, <1>6
    <2>2. ASSUME r = 0
          PROVE  s = 0
      <3>1. -q \in Int /\ 0 \in 0..(b - 1) /\ b * (-q) + 0 = b * c + s
        BY <1>2, <1>4, <2>2
      <3>2. QED
        BY <1>4, <3>1, OneQuotient
    <2>3. QED
      BY <1>1, <1>4, <2>1, <2>2 DEF Closer
  <1>7. QED
    BY <1>1, <1>3, <1>5, <1>6 DEF Neighbours

LEMMA ToDouble ==
    ASSUME Units, NEW a \in Times, NEW g \in Nat \ {0}, NEW d \in timespec_to_double(a, g)
    PROVE  /\ d \in Int
           /\ Closer(d * NSEC_PER_SEC, ValueOf(a) * g, NSEC_PER_SEC)
           /\ (ValueOf(a) * g) % NSEC_PER_SEC = 0 => d * NSEC_PER_SEC = ValueOf(a) * g
  <1>1. PICK N, s, n, x : N = NSEC_PER_SEC /\ s = a.tv_sec /\ n = a.tv_nsec /\ x = ValueOf(a)
    OBVIOUS
  <1>2. N \in Nat \ {0} /\ s \in Int /\ n \in Int /\ x = s * N + n
    BY <1>1 DEF Units, Times, ValueOf
  <1>3. PICK m \in Neighbours(n * g, N) : d = s * g + m
    BY <1>1 DEF timespec_to_double
  <1>4. n * g \in Int
    BY <1>2
  <1>5. m \in Int /\ m * N \in Int /\ Closer(m * N, n * g, N) /\ ((n * g) % N = 0 => m * N = n * g)
    BY <1>2, <1>4, Rounding
  <1>6. PICK w : w = s * g * N
    OBVIOUS
  <1>7. w \in Int /\ d \in Int /\ d * N = w + m * N /\ x * g = w + n * g /\ d * N \in Int /\ x * g \in Int
    BY <1>2, <1>3, <1>5, <1>6
  <1>8. ASSUME (x * g) % N = 0
        PROVE  (n * g) % N = 0
    <2>1. PICK q, r : q = (n * g) \div N /\ r = (n * g) % N
      OBVIOUS
    <2>2. q \in Int /\ r \in 0..(N - 1) /\ n * g = N * q + r
      BY <1>2, <1>4, <2>1, Quotient
    <2>3. PICK p : p = (x * g) \div N
      OBVIOUS
    <2>4. p \in Int /\ x * g = N * p + 0
      BY <1>2, <1>7, <1>8, <2>3, Quotient
    <2>5. s * g + q \in Int /\ x * g = N * (s * g + q) + r
      BY <1>2, <1>6, <1>7, <2>2
    <2>6. r = 0
      <3>1. PICK p1 : p1 = s * g + q
        OBVIOUS
      <3>2. 0 \in 0..(N - 1) /\ p1 \in Int /\ N * p1 + r = N * p + 0
        BY <1>2, <2>4, <2>5, <3>1
      <3>3. QED
        BY <1>2, <2>2, <2>4, <3>2, OneQuotient
    <2>7. QED
      BY <2>1, <2>6
  <1>9. Closer(d * N, x * g, N)
    BY <1>2, <1>4, <1>5, <1>7 DEF Closer
  <1>10. QED
    BY <1>1, <1>5, <1>7, <1>8, <1>9

LEMMA FromDouble ==
    ASSUME Units, NEW g \in Nat \ {0}, NEW d \in Int, NEW t \in timespec_from_double(d, g)
    PROVE  /\ t \in Times /\ Normal(t)
           /\ Closer(ValueOf(t) * g, d * NSEC_PER_SEC, g)
           /\ \A x \in Int : d * NSEC_PER_SEC = x * g => ValueOf(t) = x
  <1>1. PICK N, w, f : N = NSEC_PER_SEC /\ w = Div(d, g) /\ f = Rem(d, g)
    OBVIOUS
  <1>2. N \in Nat \ {0} /\ w \in Int /\ f \in Int /\ d = g * w + f
    BY <1>1, TowardsZero DEF Units
  <1>3. PICK k \in Neighbours(f * N, g) : t = timespec_normalise(Time(w, k))
    BY <1>1 DEF timespec_from_double
  <1>4. f * N \in Int
    BY <1>2
  <1>5. k \in Int /\ k * g \in Int /\ Closer(k * g, f * N, g) /\ ((f * N) % g = 0 => k * g = f * N)
    BY <1>4, Rounding
  <1>6. PICK u : u = Time(w, k)
    OBVIOUS
  <1>7. u \in Times /\ u.tv_sec = w /\ u.tv_nsec = k
    BY <1>2, <1>5, <1>6, TimeIs
  <1>8. t \in Times /\ Normal(t) /\ ValueOf(t) = w * N + k
    BY <1>1, <1>3, <1>6, <1>7, Normalised DEF ValueOf
  <1>9. PICK v, z : v = ValueOf(t) /\ z = w * N * g
    OBVIOUS
  <1>10. v \in Int /\ z \in Int /\ v * g = z + k * g /\ d * N = z + f * N
    BY <1>2, <1>5, <1>8, <1>9
  <1>11. Closer(v * g, d * N, g)
    BY <1>4, <1>5, <1>10 DEF Closer
  <1>12. ASSUME NEW x \in Int, d * N = x * g
         PROVE  v = x
    <2>1. x - w * N \in Int /\ f * N = g * (x - w * N) + 0 /\ 0 \in 0..(g - 1)
      BY <1>2, <1>9, <1>10, <1>12
    <2>2. PICK q, r : q = (f * N) \div g /\ r = (f * N) % g
      OBVIOUS
    <2>3. q \in Int /\ r \in 0..(g - 1) /\ f * N = g * q + r
      BY <1>4, <2>2, Quotient
    <2>4. r = 0
      BY <2>1, <2>3, OneQuotient
    <2>5. v * g = x * g
      BY <1>5, <1>10, <1>12, <2>2, <2>4
    <2>6. g * (v - x) = 0 /\ v - x \in Int
      BY <1>10, <2>5
    <2>7. v - x = 0
      BY <2>6, ProductBelow
    <2>8. QED
      BY <1>10, <2>7
  <1>13. QED
    BY <1>1, <1>8, <1>9, <1>11, <1>12

LEMMA Doubles ==
    ASSUME Units, NEW a \in Times
    PROVE  DoublesAreClose(a)
  <1>1. PICK N, x : N = NSEC_PER_SEC /\ x = ValueOf(a)
    OBVIOUS
  <1>2. N \in Nat \ {0} /\ x \in Int
    <2>1. N \in Nat \ {0}
      BY <1>1 DEF Units
    <2>2. a.tv_sec \in Int /\ a.tv_nsec \in Int /\ x = a.tv_sec * N + a.tv_nsec
      BY <1>1 DEF Times, ValueOf
    <2>3. QED
      BY <2>1, <2>2
  <1>3. ASSUME NEW g \in Grids, NEW d \in timespec_to_double(a, g)
        PROVE  /\ Closer(d * N, x * g, N)
               /\ \A t \in timespec_from_double(d, g) :
                    /\ Normal(t) /\ Closer(ValueOf(t) * g, d * N, g)
                    /\ (x * g) % N = 0 => t = timespec_normalise(a)
                    /\ N <= g => Closer(ValueOf(t), x, 2)
    <2>1. g \in Nat \ {0}
      BY DEF Units
    <2>2. d \in Int /\ Closer(d * N, x * g, N) /\ ((x * g) % N = 0 => d * N = x * g)
      BY <1>1, <2>1, ToDouble
    <2>3. ASSUME NEW t \in timespec_from_double(d, g)
          PROVE  /\ Normal(t) /\ Closer(ValueOf(t) * g, d * N, g)
                 /\ (x * g) % N = 0 => t = timespec_normalise(a)
                 /\ N <= g => Closer(ValueOf(t), x, 2)
      <3>1. /\ t \in Times /\ Normal(t) /\ Closer(ValueOf(t) * g, d * N, g)
            /\ (x * g) % N = 0 => ValueOf(t) = x
        BY <1>1, <1>2, <2>1, <2>2, FromDouble
      <3>2. ASSUME ValueOf(t) = x
            PROVE  t = timespec_normalise(a)
        BY <1>1, <3>1, <3>2, Normalised, SameTime
      <3>3. ASSUME N <= g
            PROVE  Closer(ValueOf(t), x, 2)
        <4>1. PICK v, e : v = ValueOf(t) /\ e = d * N
          OBVIOUS
        <4>2. v \in Int /\ e \in Int
          BY <1>1, <1>2, <2>2, <3>1, <4>1 DEF Times, ValueOf
        <4>3. v * g \in Int /\ x * g \in Int
          BY <1>2, <2>1, <4>2
        <4>4. v * g - x * g < 2 * g /\ x * g - v * g < 2 * g
          BY <1>2, <2>1, <2>2, <3>1, <3>3, <4>1, <4>2, <4>3 DEF Closer
        <4>5. v - x < 2
          BY <1>2, <2>1, <4>2, <4>4
        <4>6. x - v < 2
          BY <1>2, <2>1, <4>2, <4>4
        <4>7. QED
          BY <4>1, <4>5, <4>6 DEF Closer
      <3>4. QED
        BY <3>1, <3>2, <3>3
    <2>4. QED
      BY <2>2, <2>3
  <1>4. QED
    BY <1>1, <1>3 DEF DoublesAreClose

\* In units U, k of which make N, s times N and n are so many, rounded down.
CountedIn(U, k, N, s, n) ==
    /\ Div(n, U) \in 0..(k - 1) /\ Div(n, U) * U \in 0..(N - 1) /\ N \div U = k
    /\ s * k + Div(n, U) = (s * N + n) \div U
    /\ s * N + Div(n, U) * U = U * ((s * N + n) \div U)

LEMMA InUnits ==
    ASSUME NEW U \in Nat \ {0}, NEW k \in Nat \ {0}, NEW N \in Nat \ {0}, N = k * U, NEW s \in Int, NEW n \in 0..(N - 1)
    PROVE  CountedIn(U, k, N, s, n)
  <1>1. N \in Nat \ {0} /\ n \in Nat
    OBVIOUS
  <1>2. PICK q, r : q = Div(n, U) /\ r = n % U
    OBVIOUS
  <1>3. q = n \div U /\ q \in Int /\ r \in 0..(U - 1) /\ n = U * q + r
    BY <1>1, <1>2, Quotient DEF Div
  <1>4. q >= 0
    <2>1. SUFFICES ASSUME q <= -1
                   PROVE  FALSE
      BY <1>3
    <2>2. U * q <= -U
      BY <1>3, <2>1
    <2>3. QED
      BY <1>1, <1>3, <2>2
  <1>5. q < k
    <2>1. SUFFICES ASSUME q >= k
                   PROVE  FALSE
      BY <1>3
    <2>2. U * q >= U * k
      BY <1>3, <2>1
    <2>3. QED
      BY <1>1, <1>3, <2>2
  <1>6. q * U \in 0..(N - 1)
    <2>1. q * U \in Int /\ q * U >= 0
      BY <1>3, <1>4
    <2>2. q * U <= n
      BY <1>3, <2>1
    <2>3. QED
      BY <1>1, <2>1, <2>2
  <1>7. PICK m : m = s * k
    OBVIOUS
  <1>8. /\ m \in Int /\ m + q \in Int /\ s * N = U * m /\ U * (m + q) = U * m + U * q /\ U * m \in Int /\ U * q \in Int
        /\ q * U = U * q
    <2>1. m \in Int /\ s * (k * U) = (s * k) * U /\ m * U = U * m /\ U * m \in Int
      BY <1>7, Products
    <2>2. m + q \in Int /\ U * (m + q) = U * m + U * q /\ U * q \in Int /\ q * U = U * q
      BY <1>3, <2>1, Products
    <2>3. QED
      BY <1>7, <2>1, <2>2
  <1>9. (s * N + n) \div U = m + q
    <2>1. PICK A, B, C : A = s * N /\ B = U * m /\ C = U * q
      OBVIOUS
    <2>2. A \in Int /\ B \in Int /\ C \in Int /\ r \in Int /\ A = B /\ n = C + r /\ U * (m + q) = B + C
      BY <1>3, <1>8, <2>1
    <2>3. A + n \in Int /\ A + n = (B + C) + r
      BY <2>2
    <2>4. A + n = U * (m + q) + r
      BY <2>2, <2>3
    <2>5. (A + n) \div U = m + q
      BY <1>3, <1>8, <2>3, <2>4, QuotientIs
    <2>6. QED
      BY <2>1, <2>5
  <1>10. N \div U = k
    <2>1. N \in Int /\ N = U * k + 0 /\ 0 \in 0..(U - 1)
      BY Products
    <2>2. QED
      BY <2>1, QuotientIs
  <1>11. s * N + q * U = U * (m + q)
    BY <1>8
  <1>12. q \in 0..(k - 1)
    BY <1>3, <1>4, <1>5
  <1>13. s * k + q = (s * N + n) \div U /\ s * N + q * U = U * ((s * N + n) \div U)
    BY <1>7, <1>9, <1>11
  <1>14. QED
    BY <1>2, <1>6, <1>10, <1>12, <1>13 DEF CountedIn

LEMMA DivOfProduct ==
    ASSUME NEW U \in Nat \ {0}, NEW d \in Int
    PROVE  (d * U) \div U = d
  <1>1. d * U \in Int /\ d * U = U * d + 0 /\ 0 \in 0..(U - 1)
    BY Products
  <1>2. QED
    BY <1>1, QuotientIs

LEMMA Timevals ==
    ASSUME Units, NEW a \in Times
    PROVE  LET tv == timespec_to_timeval(a)
           IN  /\ tv.tv_sec * NSEC_PER_SEC + tv.tv_usec * NSEC_PER_USEC
                    = NSEC_PER_USEC * (ValueOf(a) \div NSEC_PER_USEC)
               /\ timespec_from_timeval(tv).tv_sec = tv.tv_sec
               /\ timespec_to_timeval(timespec_from_timeval(tv)) = tv
  <1>1. PICK N, U : N = NSEC_PER_SEC /\ U = NSEC_PER_USEC
    OBVIOUS
  <1>2. PICK k \in Nat \ {0} : N = k * U
    BY <1>1 DEF Units
  <1>3. N \in Nat \ {0} /\ U \in Nat \ {0}
    BY <1>1 DEF Units
  <1>4. PICK t : t = timespec_normalise(a)
    OBVIOUS
  <1>5. PICK s \in Int, n \in 0..(N - 1) : s = t.tv_sec /\ n = t.tv_nsec /\ ValueOf(a) = s * N + n
    BY <1>1, <1>4, Normalised DEF Normal, ValueOf
  <1> DEFINE d == Div(n, U)
  <1>6. /\ d \in 0..(k - 1) /\ d * U \in 0..(N - 1)
        /\ s * N + d * U = U * ((s * N + n) \div U)
    <2>1. CountedIn(U, k, N, s, n)
      BY <1>2, <1>3, InUnits
    <2>2. QED
      BY <2>1 DEF CountedIn
  <1> HIDE DEF d
  <1>7. PICK tv : tv = timespec_to_timeval(a)
    OBVIOUS
  <1>8. tv = [tv_sec |-> s, tv_usec |-> d]
    BY <1>1, <1>4, <1>5, <1>7 DEF timespec_to_timeval, d
  <1>9. PICK m, w : m = d * U /\ w = Time(s, m)
    OBVIOUS
  <1>10. w \in Times /\ w.tv_sec = s /\ w.tv_nsec = m /\ m \in 0..(N - 1)
    <2>1. m \in Int /\ m \in 0..(N - 1)
      BY <1>6, <1>9
    <2>2. QED
      BY <1>5, <1>9, <2>1, TimeIs
  <1>11. timespec_normalise(w) = w
    BY <1>1, <1>10, NormaliseNormal DEF Normal
  <1>12. timespec_from_timeval(tv) = w
    BY <1>1, <1>8, <1>9, <1>11 DEF timespec_from_timeval
  <1>13. Div(m, U) = d
    <2>1. m \div U = d
      BY <1>3, <1>6, <1>9, DivOfProduct
    <2>2. QED
      BY <1>3, <1>10, <2>1 DEF Div
  <1>14. timespec_to_timeval(w) = tv
    BY <1>1, <1>8, <1>10, <1>11, <1>13 DEF timespec_to_timeval
  <1>15. tv.tv_sec = s /\ tv.tv_usec = d
    BY <1>8
  <1>16. s * N + d * U = U * (ValueOf(a) \div U)
    BY <1>5, <1>6
  <1>17. QED
    BY <1>1, <1>7, <1>10, <1>12, <1>14, <1>15, <1>16

LEMMA ToMilliseconds ==
    ASSUME Units, NEW t \in Times, Normal(t)
    PROVE  timespec_to_ms(t) = ValueOf(t) \div NSEC_PER_MSEC
  <1>1. PICK N, M : N = NSEC_PER_SEC /\ M = NSEC_PER_MSEC
    OBVIOUS
  <1>2. PICK k \in Nat \ {0} : N = k * M
    BY <1>1 DEF Units
  <1>3. N \in Nat \ {0} /\ M \in Nat \ {0}
    BY <1>1 DEF Units
  <1>4. PICK s \in Int, n \in 0..(N - 1) : s = t.tv_sec /\ n = t.tv_nsec /\ ValueOf(t) = s * N + n
    BY <1>1 DEF Times, Normal, ValueOf
  <1>5. N \div M = k /\ s * k + Div(n, M) = (s * N + n) \div M
    <2>1. CountedIn(M, k, N, s, n)
      BY <1>2, <1>3, InUnits
    <2>2. QED
      BY <2>1 DEF CountedIn
  <1>6. QED
    BY <1>1, <1>4, <1>5 DEF timespec_to_ms, MSEC_PER_SEC

LEMMA FromMilliseconds ==
    ASSUME Units, NEW x \in Int
    PROVE  /\ timespec_from_ms(x) \in Times /\ Normal(timespec_from_ms(x))
           /\ ValueOf(timespec_from_ms(x)) = x * NSEC_PER_MSEC
           /\ timespec_to_ms(timespec_from_ms(x)) = x
  <1>1. PICK N, M : N = NSEC_PER_SEC /\ M = NSEC_PER_MSEC
    OBVIOUS
  <1>2. PICK k \in Nat \ {0} : N = k * M
    BY <1>1 DEF Units
  <1>3. N \in Nat \ {0} /\ M \in Nat \ {0}
    BY <1>1 DEF Units
  <1>4. MSEC_PER_SEC = k
    <2>1. N \div M = k
      BY <1>2, <1>3, DivOfProduct
    <2>2. QED
      BY <1>1, <2>1 DEF MSEC_PER_SEC
  <1>5. PICK q, r, m, w : q = Div(x, k) /\ r = Rem(x, k) /\ m = r * M /\ w = Time(q, m)
    OBVIOUS
  <1>6. q \in Int /\ r \in Int /\ x = k * q + r
    BY <1>5, TowardsZero
  <1>7. m \in Int
    BY <1>3, <1>5, <1>6
  <1>8. w \in Times /\ w.tv_sec = q /\ w.tv_nsec = m
    BY <1>5, <1>6, <1>7, TimeIs
  <1>9. ValueOf(w) = x * M
    <2>1. ValueOf(w) = q * N + m
      BY <1>1, <1>8 DEF ValueOf
    <2>2. q * (k * M) = (k * q) * M /\ (k * q + r) * M = (k * q) * M + r * M
      BY <1>3, <1>6
    <2>3. QED
      BY <1>2, <1>5, <1>6, <2>1, <2>2
  <1>10. timespec_from_ms(x) = timespec_normalise(w)
    BY <1>1, <1>4, <1>5 DEF timespec_from_ms
  <1>11. PICK y : y = timespec_from_ms(x)
    OBVIOUS
  <1>12. y \in Times /\ Normal(y) /\ ValueOf(y) = x * M
    BY <1>8, <1>9, <1>10, <1>11, Normalised
  <1>13. timespec_to_ms(y) = x
    <2>1. timespec_to_ms(y) = (x * M) \div M
      BY <1>1, <1>12, ToMilliseconds
    <2>2. QED
      BY <1>3, <2>1, DivOfProduct
  <1>14. QED
    BY <1>1, <1>11, <1>12, <1>13

-----------------------------------------------------------------------------
\* Every operator of timespec.c on any two times, normal or not, for any units: the sums, differences and
\* comparisons are those of the numbers the times stand for (timespec_add, timespec_sub, timespec_eq and the
\* orders), the conversions to timevals and milliseconds lose only what the other form cannot hold, and those
\* to doubles, on whatever grids, are as close as DoublesAreClose says.
THEOREM TimesStandForNumbers ==
    ASSUME Units, Pairs \subseteq Times \X Times
    PROVE  Spec => []OperatorsAreRight
  <1>1. ASSUME NEW p \in Times \X Times, given = p
        PROVE  OperatorsAreRight
    <2>1. PICK a \in Times, b \in Times : a = given[1] /\ b = given[2]
      BY <1>1
    <2>2. PICK x, n : x = ValueOf(a) /\ n = timespec_normalise(a)
      OBVIOUS
    <2>3. x \in Int
      BY <2>2 DEF Units, Times, ValueOf
    <2>4. n \in Times /\ Normal(n) /\ ValueOf(n) = x
      BY <2>2, Normalised
    <2>5. timespec_to_ms(n) = x \div NSEC_PER_MSEC
      BY <2>4, ToMilliseconds
    <2>6. DoublesAreClose(a)
      BY Doubles
    <2>7. QED
      BY <2>1, <2>2, <2>3, <2>4, <2>5, <2>6, Sums, Comparisons, Timevals, FromMilliseconds DEF OperatorsAreRight
  <1>2. Init => given \in Times \X Times
    BY DEF Init
  <1>3. given \in Times \X Times /\ [Next]_vars => (given \in Times \X Times)'
    BY DEF Next, vars, ByZero, DropSigns, Shift, Shifted, Subtract, RestoreSign
  <1>4. given \in Times \X Times => OperatorsAreRight
    BY <1>1
  <1>5. QED
    BY <1>2, <1>3, <1>4, PTL DEF Spec
-----------------------------------------------------------------------------
(***************************************************************************)
(* timespec_mod: its divisor is doubled and halved again.                  *)
(***************************************************************************)
LEMMA DoublingIs ==
    ASSUME Units, NEW t \in Times
    PROVE  LET d == Doubled(t)
           IN  /\ d \in Times /\ ValueOf(d) = 2 * ValueOf(t) /\ Halved(d) = t
               /\ d.tv_sec >= 2 * t.tv_sec
               /\ d.tv_nsec = 2 * t.tv_nsec \/ (2 * t.tv_nsec > NSEC_PER_SEC /\ d.tv_nsec = 2 * t.tv_nsec - NSEC_PER_SEC)
               /\ d.tv_nsec > NSEC_PER_SEC => d.tv_nsec = 2 * t.tv_nsec - NSEC_PER_SEC
  <1>1. PICK N, s, n, d : N = NSEC_PER_SEC /\ s = t.tv_sec /\ n = t.tv_nsec /\ d = Doubled(t)
    OBVIOUS
  <1>2. N \in Nat \ {0} /\ s \in Int /\ n \in Int
    BY <1>1 DEF Units, Times
  <1>3. t = Time(s, n) /\ ValueOf(t) = s * N + n
    BY <1>1 DEF Times, Time, ValueOf
  <1>4. CASE 2 * n > N
    <2>1. d = Time(2 * s + 1, 2 * n - N)
      BY <1>1, <1>4 DEF Doubled
    <2>2. d \in Times /\ d.tv_sec = 2 * s + 1 /\ d.tv_nsec = 2 * n - N
      <3>1. 2 * s + 1 \in Int /\ 2 * n - N \in Int
        BY <1>2
      <3>2. QED
        BY <2>1, <3>1, TimeIs
    <2>3. ValueOf(d) = 2 * ValueOf(t)
      <3>1. (2 * s + 1) * N + (2 * n - N) = 2 * (s * N + n)
        BY <1>2
      <3>2. QED
        BY <1>1, <1>3, <2>2, <3>1 DEF ValueOf
    <2>4. d.tv_sec % 2 = 1 /\ d.tv_sec \div 2 = s /\ (d.tv_nsec + N) \div 2 = n
      BY <1>2, <2>2
    <2>5. Halved(d) = t
      BY <1>1, <1>3, <2>4 DEF Halved
    <2>6. QED
      BY <1>1, <1>2, <1>4, <2>2, <2>3, <2>5
  <1>5. CASE ~(2 * n > N)
    <2>1. d = Time(2 * s, 2 * n)
      BY <1>1, <1>5 DEF Doubled
    <2>2. d \in Times /\ d.tv_sec = 2 * s /\ d.tv_nsec = 2 * n
      <3>1. 2 * s \in Int /\ 2 * n \in Int
        BY <1>2
      <3>2. QED
        BY <2>1, <3>1, TimeIs
    <2>3. ValueOf(d) = 2 * ValueOf(t)
      <3>1. (2 * s) * N + 2 * n = 2 * (s * N + n)
        BY <1>2
      <3>2. QED
        BY <1>1, <1>3, <2>2, <3>1 DEF ValueOf
    <2>4. d.tv_sec % 2 # 1 /\ d.tv_sec \div 2 = s /\ d.tv_nsec \div 2 = n
      BY <1>2, <2>2
    <2>5. Halved(d) = t
      BY <1>1, <1>3, <2>4 DEF Halved
    <2>6. QED
      BY <1>1, <1>2, <1>5, <2>2, <2>3, <2>5
  <1>6. QED
    BY <1>4, <1>5

\* Without its sign.
Size(v) == IF v < 0 THEN -v ELSE v

\* The multiple c of the divisor y that t is, doubled until it passes x: its tv_nsec is one of a time in
\* normal form (or a whole second) when y is positive, and grows downwards with c when y was negative.
MultipleIs(t, c, x, y) ==
    /\ ValueOf(t) = c * Size(y)
    /\ c = 1 \/ c * Size(y) <= 2 * x
    /\ t.tv_sec >= 0
    /\ y > 0 => t.tv_nsec \in 0..NSEC_PER_SEC
    /\ y < 0 => -(c * NSEC_PER_SEC) < t.tv_nsec /\ t.tv_nsec <= 0
Multiple(t, x, y) == \E c \in Nat \ {0} : MultipleIs(t, c, x, y)

LEMMA DoubledMultiple ==
    ASSUME Units, NEW t \in Times, NEW x \in Nat, NEW y \in Int \ {0}, Multiple(t, x, y), ValueOf(t) <= x
    PROVE  Multiple(Doubled(t), x, y)
  <1>1. PICK N, d : N = NSEC_PER_SEC /\ d = Doubled(t)
    OBVIOUS
  <1>2. PICK c \in Nat \ {0} : MultipleIs(t, c, x, y)
    BY DEF Multiple
  <1>3. PICK B \in Nat \ {0} : B = Size(y)
    BY DEF Size
  <1>4. PICK s, n : s = t.tv_sec /\ n = t.tv_nsec
    OBVIOUS
  <1>5. N \in Nat \ {0} /\ s \in Int /\ n \in Int
    BY <1>1, <1>4 DEF Units, Times
  <1>6. /\ d.tv_sec \in Int /\ d.tv_nsec \in Int
        /\ ValueOf(d) = 2 * ValueOf(t) /\ d.tv_sec >= 2 * s
        /\ d.tv_nsec = 2 * n \/ (2 * n > N /\ d.tv_nsec = 2 * n - N)
        /\ d.tv_nsec > N => d.tv_nsec = 2 * n - N
    BY <1>1, <1>4, DoublingIs DEF Times
  <1>7. PICK p, m : p = c * B /\ m = c * N
    OBVIOUS
  <1>8. p \in Int /\ m \in Int /\ (2 * c) * B = 2 * p /\ (2 * c) * N = 2 * m
    BY <1>5, <1>7
  <1>9. ValueOf(t) = p /\ s >= 0 /\ (y > 0 => n \in 0..N) /\ (y < 0 => -m < n /\ n <= 0)
    BY <1>1, <1>2, <1>3, <1>4, <1>7 DEF MultipleIs
  <1>10. 2 * c \in Nat \ {0}
    OBVIOUS
  <1>11. ValueOf(d) = (2 * c) * B /\ (2 * c) * B <= 2 * x /\ d.tv_sec >= 0
    BY <1>5, <1>6, <1>8, <1>9
  <1>12. y > 0 => d.tv_nsec \in 0..N
    BY <1>5, <1>6, <1>9
  <1>13. y < 0 => -((2 * c) * N) < d.tv_nsec /\ d.tv_nsec <= 0
    BY <1>5, <1>6, <1>8, <1>9
  <1>14. MultipleIs(d, 2 * c, x, y)
    BY <1>1, <1>3, <1>11, <1>12, <1>13 DEF MultipleIs
  <1>15. QED
    BY <1>1, <1>10, <1>14 DEF Multiple

\* The times timespec_mod is right about: ts1 is not so near the end of a long that ts2 cannot be doubled
\* past it; and for a negative ts2, whose doubled tv_nsec only grows, a quotient of at most
\* LONG_MAX \div (2 * NSEC_PER_SEC), about 2^32.
Within(x, y) ==
    LET half == LONG_MAX \div 2
    IN  /\ y > 0 => x < 2 * (half * NSEC_PER_SEC)
        /\ y < 0 => /\ x < 2 * (half * (NSEC_PER_SEC - 1))
                    /\ (2 * NSEC_PER_SEC) * x <= (-y) * LONG_MAX

\* A long holds a second, and more.
Longs == LONG_MAX \in Nat /\ LONG_MAX >= 2 * NSEC_PER_SEC

\* When the doubling stops, twice ts2 is past ts1.
LEMMA PastIt ==
    ASSUME Units, Longs, NEW t \in Times, NEW x \in Nat, NEW y \in Int \ {0}, Multiple(t, x, y), Within(x, y),
           ValueOf(t) > x \/ t.tv_sec >= LONG_MAX \div 2
    PROVE  x < 2 * ValueOf(t)
  <1>1. PICK N, L, H, s, n, v :
             N = NSEC_PER_SEC /\ L = LONG_MAX /\ H = L \div 2 /\ s = t.tv_sec /\ n = t.tv_nsec /\ v = ValueOf(t)
    OBVIOUS
  <1>2. N \in Nat \ {0} /\ L \in Nat /\ H \in Nat /\ s \in Int /\ n \in Int /\ L < 2 * H + 2 /\ 2 * H <= L
    BY <1>1 DEF Units, Longs, Times
  <1>3. v = s * N + n /\ v \in Int
    BY <1>1, <1>2 DEF ValueOf
  <1>4. CASE v > x
    BY <1>1, <1>3, <1>4
  <1>5. CASE v <= x
    <2>1. s >= H
      BY <1>1, <1>5, <1>3
    <2>2. s * N >= H * N /\ s * N \in Int /\ H * N \in Int
      <3>1. PICK e \in Nat : s = H + e
        BY <1>2, <2>1
      <3>2. s * N = H * N + e * N /\ e * N >= 0
        BY <1>2, <3>1
      <3>3. QED
        BY <1>2, <3>2
    <2>3. PICK c \in Nat \ {0} : MultipleIs(t, c, x, y)
      BY DEF Multiple
    <2>4. CASE y > 0
      <3>1. n >= 0
        BY <1>1, <2>3, <2>4 DEF MultipleIs
      <3>2. x < 2 * (H * N)
        BY <1>1, <2>4 DEF Within
      <3>3. QED
        BY <1>1, <1>2, <1>3, <2>2, <3>1, <3>2
    <2>5. CASE y < 0
      <3>1. PICK B \in Nat \ {0} : B = -y /\ B = Size(y)
        BY <2>5 DEF Size
      <3>2. v = c * B /\ -(c * N) < n
        BY <1>1, <2>3, <2>5, <3>1 DEF MultipleIs
      <3>3. x < 2 * (H * (N - 1)) /\ (2 * N) * x <= B * L
        BY <1>1, <2>5, <3>1 DEF Within
      <3>4. c * N <= H
        <4>1. (2 * N) * (c * B) <= (2 * N) * x
          BY <1>2, <1>5, <3>2
        <4>2. (2 * N) * (c * B) <= B * L
          <5>1. (2 * N) * (c * B) \in Int /\ (2 * N) * x \in Int /\ B * L \in Int
            BY <1>2
          <5>2. QED
            BY <3>3, <4>1, <5>1
        <4>3. PICK m \in Nat : m = c * N
          BY <1>2
        <4>4. (2 * N) * (c * B) = B * (2 * m)
          BY <1>2, <4>3
        <4>5. B * (2 * m) <= B * L
          BY <4>2, <4>4
        <4>6. 2 * m <= L
          BY <1>2, <4>5
        <4>7. QED
          BY <1>2, <4>3, <4>6
      <3>5. H * (N - 1) = H * N - H
        BY <1>2
      <3>6. PICK m \in Nat : m = c * N
        BY <1>2
      <3>7. -H < n
        BY <1>2, <3>2, <3>4, <3>6
      <3>8. QED
        BY <1>1, <1>2, <1>3, <2>2, <3>3, <3>5, <3>7
    <2>6. QED
      BY <2>4, <2>5
  <1>6. QED
    BY <1>1, <1>3, <1>4, <1>5

\* The doubled tv_nsec stays in a long.
LEMMA MultipleFits ==
    ASSUME Units, Longs, NEW t \in Times, NEW x \in Nat, NEW y \in Int \ {0}, Multiple(t, x, y), Within(x, y)
    PROVE  -LONG_MAX <= t.tv_nsec /\ t.tv_nsec <= LONG_MAX
  <1>1. PICK N, L, n : N = NSEC_PER_SEC /\ L = LONG_MAX /\ n = t.tv_nsec
    OBVIOUS
  <1>2. N \in Nat \ {0} /\ L \in Nat /\ n \in Int /\ N < L
    BY <1>1 DEF Units, Longs, Times
  <1>3. PICK c \in Nat \ {0} : MultipleIs(t, c, x, y)
    BY DEF Multiple
  <1>4. CASE y > 0
    BY <1>1, <1>2, <1>3, <1>4 DEF MultipleIs
  <1>5. CASE y < 0
    <2>1. PICK B \in Nat \ {0} : B = -y /\ B = Size(y)
      BY <1>5 DEF Size
    <2>2. (c = 1 \/ c * B <= 2 * x) /\ -(c * N) < n /\ n <= 0
      BY <1>1, <1>3, <1>5, <2>1 DEF MultipleIs
    <2>3. (2 * N) * x <= B * L
      BY <1>1, <1>5, <2>1 DEF Within
    <2>4. CASE c = 1
      BY <1>1, <1>2, <2>2, <2>4
    <2>5. CASE c # 1
      <3>1. N * (c * B) <= N * (2 * x)
        BY <1>2, <2>2, <2>5
      <3>2. N * (2 * x) = (2 * N) * x
        BY <1>2
      <3>3. PICK m \in Nat : m = c * N
        BY <1>2
      <3>4. N * (c * B) = B * m
        BY <1>2, <3>3
      <3>5. B * m \in Int /\ (2 * N) * x \in Int /\ B * L \in Int
        BY <1>2
      <3>6. B * m <= B * L
        BY <2>3, <3>1, <3>2, <3>4, <3>5
      <3>7. m <= L
        BY <1>2, <3>6
      <3>8. QED
        BY <1>1, <1>2, <2>2, <3>3, <3>7
    <2>6. QED
      BY <2>4, <2>5
  <1>6. QED
    BY <1>4, <1>5

-----------------------------------------------------------------------------
(***************************************************************************)
(* timespec_mod: the signs, and the doublings there are to undo.           *)
(***************************************************************************)
LEMMA SignOf ==
    ASSUME Units, NEW t \in Times, Normal(t)
    PROVE  /\ Abs(t) \in Times /\ ValueOf(Abs(t)) = Size(ValueOf(t)) /\ ValueOf(t) \in Int
           /\ Negative(t) <=> ValueOf(t) < 0
           /\ -NSEC_PER_SEC < Abs(t).tv_nsec /\ Abs(t).tv_nsec < NSEC_PER_SEC /\ Abs(t).tv_sec >= 0
           /\ ValueOf(t) < 0 => Abs(t).tv_nsec <= 0
           /\ ValueOf(t) >= 0 => Abs(t).tv_nsec >= 0
  <1>1. PICK N, s, n, v : N = NSEC_PER_SEC /\ s = t.tv_sec /\ n = t.tv_nsec /\ v = ValueOf(t)
    OBVIOUS
  <1>2. N \in Nat \ {0} /\ s \in Int /\ n \in 0..(N - 1)
    BY <1>1 DEF Units, Times, Normal
  <1>3. v = s * N + n /\ v \in Int
    BY <1>1, <1>2 DEF ValueOf
  <1>4. CASE s < 0
    <2>1. Negative(t) /\ Abs(t) = Time(-s, -n)
      BY <1>1, <1>4 DEF Negative, Abs, Negated
    <2>2. v < 0
      <3>1. PICK e \in Nat : s = -1 - e
        BY <1>2, <1>4
      <3>2. s * N = -N - e * N /\ e * N >= 0 /\ e * N \in Int
        BY <1>2, <3>1
      <3>3. QED
        BY <1>2, <1>3, <3>2
    <2>3. Abs(t) \in Times /\ Abs(t).tv_sec = -s /\ Abs(t).tv_nsec = -n
      BY <1>2, <2>1, TimeIs
    <2>4. ValueOf(Abs(t)) = -v
      <3>1. (-s) * N + (-n) = -(s * N + n)
        BY <1>2
      <3>2. QED
        BY <1>1, <1>3, <2>3, <3>1 DEF ValueOf
    <2>5. QED
      BY <1>1, <1>2, <1>3, <1>4, <2>1, <2>2, <2>3, <2>4 DEF Size
  <1>5. CASE s >= 0
    <2>1. ~Negative(t) /\ Abs(t) = t
      BY <1>1, <1>2, <1>5 DEF Negative, Abs
    <2>2. v >= 0
      <3>1. s * N >= 0 /\ s * N \in Int
        BY <1>2, <1>5
      <3>2. QED
        BY <1>2, <1>3, <3>1
    <2>3. Abs(t) \in Times /\ Abs(t).tv_sec = s /\ Abs(t).tv_nsec = n
      BY <1>1, <2>1
    <2>4. ValueOf(Abs(t)) = v /\ Size(v) = v
      <3>1. ValueOf(Abs(t)) = v
        BY <1>1, <2>1
      <3>2. v \in Int /\ ~(v < 0)
        BY <1>3, <2>2
      <3>3. QED
        BY <3>1, <3>2 DEF Size
    <2>5. QED
      BY <1>1, <1>2, <1>3, <1>5, <2>1, <2>2, <2>3, <2>4
  <1>6. QED
    BY <1>2, <1>4, <1>5

LEMMA ZeroIs ==
    ASSUME Units, NEW t \in Times, -NSEC_PER_SEC < t.tv_nsec, t.tv_nsec < NSEC_PER_SEC
    PROVE  IsZero(t) <=> ValueOf(t) = 0
  <1>1. PICK N, s, n : N = NSEC_PER_SEC /\ s = t.tv_sec /\ n = t.tv_nsec
    OBVIOUS
  <1>2. N \in Nat \ {0} /\ s \in Int /\ n \in Int /\ -N < n /\ n < N
    BY <1>1 DEF Units, Times
  <1>3. ValueOf(t) = N * s + n
    <2>1. s * N = N * s
      BY <1>2
    <2>2. QED
      BY <1>1, <2>1 DEF ValueOf
  <1>4. ASSUME N * s + n = 0
        PROVE  s = 0
    <2>1. N * s \in Int
      BY <1>2
    <2>2. -N < N * s /\ N * s < N
      BY <1>2, <1>4, <2>1
    <2>3. QED
      BY <1>2, <2>2, ProductBelow
  <1>5. N * 0 + 0 = 0
    BY <1>2
  <1>6. QED
    BY <1>1, <1>2, <1>3, <1>4, <1>5 DEF IsZero

\* The times ts2 has been: h[k] after k doublings, h[n] = t.
IsHistory(h, t, n, x, y) ==
    /\ h \in [Nat -> Times] /\ h[n] = t /\ ValueOf(h[0]) = Size(y)
    /\ \A k \in 0..n : Multiple(h[k], x, y)
    /\ \A k \in 0..(n - 1) : h[k + 1] = Doubled(h[k])

LEMMA HistoryStarts ==
    ASSUME NEW t \in Times, NEW x, NEW y, Multiple(t, x, y), ValueOf(t) = Size(y)
    PROVE  \E h : IsHistory(h, t, 0, x, y)
  <1>1. PICK h : h = [k \in Nat |-> t]
    OBVIOUS
  <1>2. h \in [Nat -> Times] /\ h[0] = t /\ (\A k \in 0..0 : h[k] = t)
    BY <1>1
  <1>3. IsHistory(h, t, 0, x, y)
    BY <1>2 DEF IsHistory
  <1>4. QED
    BY <1>3

LEMMA HistoryGrows ==
    ASSUME Units, NEW h, NEW t \in Times, NEW n \in Nat, NEW x \in Nat, NEW y \in Int \ {0},
           IsHistory(h, t, n, x, y), ValueOf(t) <= x
    PROVE  \E g : IsHistory(g, Doubled(t), n + 1, x, y)
  <1>1. /\ h \in [Nat -> Times] /\ h[n] = t /\ ValueOf(h[0]) = Size(y)
        /\ \A k \in 0..n : Multiple(h[k], x, y)
        /\ \A k \in 0..(n - 1) : h[k + 1] = Doubled(h[k])
    BY DEF IsHistory
  <1>2. PICK d : d = Doubled(t)
    OBVIOUS
  <1>3. d \in Times
    BY <1>2, DoublingIs
  <1>4. Multiple(t, x, y)
    BY <1>1
  <1>5. Multiple(d, x, y)
    BY <1>2, <1>4, DoubledMultiple
  <1>6. PICK g : g = [h EXCEPT ![n + 1] = d]
    OBVIOUS
  <1>7. g \in [Nat -> Times] /\ g[n + 1] = d /\ \A k \in 0..n : g[k] = h[k]
    BY <1>1, <1>3, <1>6
  <1>8. ValueOf(g[0]) = Size(y)
    BY <1>1, <1>7
  <1>9. ASSUME NEW k \in 0..(n + 1)
        PROVE  Multiple(g[k], x, y)
    <2>1. k \in 0..n \/ k = n + 1
      OBVIOUS
    <2>2. QED
      BY <1>1, <1>5, <1>7, <2>1
  <1>10. ASSUME NEW k \in 0..((n + 1) - 1)
         PROVE  g[k + 1] = Doubled(g[k])
    <2>1. k \in 0..n
      OBVIOUS
    <2>2. CASE k = n
      BY <1>1, <1>2, <1>7, <2>1, <2>2
    <2>3. CASE k # n
      <3>1. k \in 0..(n - 1) /\ k + 1 \in 0..n
        BY <2>1, <2>3
      <3>2. QED
        BY <1>1, <1>7, <2>1, <3>1
    <2>4. QED
      BY <2>2, <2>3
  <1>11. IsHistory(g, d, n + 1, x, y)
    BY <1>7, <1>8, <1>9, <1>10 DEF IsHistory
  <1>12. QED
    BY <1>2, <1>11

LEMMA HistoryShrinks ==
    ASSUME Units, NEW h, NEW t \in Times, NEW n \in Nat, n # 0, NEW x, NEW y, IsHistory(h, t, n, x, y)
    PROVE  Halved(t) \in Times /\ ValueOf(t) = 2 * ValueOf(Halved(t)) /\ IsHistory(h, Halved(t), n - 1, x, y)
  <1>1. /\ h \in [Nat -> Times] /\ h[n] = t /\ ValueOf(h[0]) = Size(y)
        /\ \A k \in 0..n : Multiple(h[k], x, y)
        /\ \A k \in 0..(n - 1) : h[k + 1] = Doubled(h[k])
    BY DEF IsHistory
  <1>2. PICK m \in Nat : m = n - 1
    OBVIOUS
  <1>3. PICK u \in Times : u = h[m]
    BY <1>1, <1>2
  <1>4. t = Doubled(u)
    <2>1. m \in 0..(n - 1) /\ m + 1 = n
      BY <1>2
    <2>2. QED
      BY <1>1, <1>3, <2>1
  <1>5. Halved(t) = u /\ ValueOf(t) = 2 * ValueOf(u)
    BY <1>4, DoublingIs
  <1>6. (\A k \in 0..m : k \in 0..n) /\ (\A k \in 0..(m - 1) : k \in 0..(n - 1))
    BY <1>2
  <1>7. IsHistory(h, u, m, x, y)
    BY <1>1, <1>3, <1>6 DEF IsHistory
  <1>8. QED
    BY <1>2, <1>5, <1>7

LEMMA HistoryIs ==
    ASSUME Units, NEW h, NEW t \in Times, NEW n \in Nat, NEW x, NEW y \in Int \ {0}, IsHistory(h, t, n, x, y)
    PROVE  /\ Multiple(t, x, y) /\ ValueOf(t) \in Nat \ {0} /\ (n = 0 => ValueOf(t) = Size(y))
           /\ \E c \in Nat : ValueOf(t) = c * Size(y)
  <1>1. Multiple(t, x, y) /\ (n = 0 => ValueOf(t) = Size(y))
    BY DEF IsHistory
  <1>2. PICK c \in Nat \ {0} : ValueOf(t) = c * Size(y)
    BY <1>1 DEF Multiple, MultipleIs
  <1>3. PICK B \in Nat \ {0} : B = Size(y)
    BY DEF Size
  <1>4. c * B \in Nat \ {0}
    OBVIOUS
  <1>5. QED
    BY <1>1, <1>2, <1>3, <1>4

-----------------------------------------------------------------------------
(***************************************************************************)
(* timespec_mod: the remainder.                                            *)
(***************************************************************************)
LEMMA RemainderIs ==
    ASSUME NEW v \in Int, NEW b \in Nat \ {0}, NEW r \in 0..(b - 1), \E q \in Int : v = b * q + r
    PROVE  v % b = r
  <1> PICK q \in Int : v = b * q + r
    OBVIOUS
  <1>1. PICK p, s : p = v \div b /\ s = v % b
    OBVIOUS
  <1>2. p \in Int /\ s \in 0..(b - 1) /\ b * p + s = v
    BY <1>1, Quotient
  <1>3. s = r
    BY <1>2, OneQuotient, ZenonT(60)
  <1>4. QED
    BY <1>1, <1>3

\* What is left of the sizes, with one more divisor taken when the signs differ, has the remainder's size.
LEMMA SignRestored ==
    ASSUME NEW x \in Int, NEW y \in Int \ {0}, NEW B \in Nat \ {0}, B = Size(y), NEW r \in 0..(B - 1),
           \E q \in Int : Size(x) = q * B + r
    PROVE  LET left == IF (x < 0) # (y < 0) /\ r # 0 THEN r - B ELSE r
           IN  RemainderOf(x, y) = IF x < 0 THEN -left ELSE left
  <1>1. PICK q \in Int : Size(x) = q * B + r
    OBVIOUS
  <1>2. PICK p : p = B * q
    OBVIOUS
  <1>3. p \in Int /\ r \in 0..(B - 1) /\ Size(x) = p + r /\ r \in Int
    BY <1>1, <1>2
  <1>4. (p + r) % B = r
    <2>1. p + r \in Int /\ \E e \in Int : p + r = B * e + r
      BY <1>2, <1>3
    <2>2. QED
      BY <2>1, RemainderIs
  <1>5. ASSUME r = 0
        PROVE  (-(p + r)) % B = 0
    <2>1. -(p + r) = B * (-q) + 0 /\ -q \in Int /\ -(p + r) \in Int /\ 0 \in 0..(B - 1)
      BY <1>2, <1>3, <1>5
    <2>2. PICK w \in Int : w = -(p + r) /\ \E e \in Int : w = B * e + 0
      BY <2>1
    <2>3. w % B = 0
      BY <2>1, <2>2, RemainderIs, ZenonT(60)
    <2>4. QED
      BY <2>2, <2>3
  <1>6. ASSUME r # 0
        PROVE  (-(p + r)) % B = B - r
    <2>1. B * (-q - 1) = -p - B
      BY <1>2
    <2>2. -(p + r) = B * (-q - 1) + (B - r) /\ -q - 1 \in Int /\ -(p + r) \in Int /\ B - r \in 0..(B - 1)
      BY <1>3, <1>6, <2>1
    <2>3. PICK w \in Int, s \in 0..(B - 1) : w = -(p + r) /\ s = B - r /\ \E e \in Int : w = B * e + s
      BY <2>2
    <2>4. w % B = s
      BY <2>3, RemainderIs, ZenonT(60)
    <2>5. QED
      BY <2>3, <2>4
  <1>7. CASE y > 0
    <2>1. B = y /\ RemainderOf(x, y) = x % B
      BY <1>1, <1>7 DEF Size, RemainderOf
    <2>2. CASE x >= 0
      BY <1>1, <1>3, <1>4, <1>7, <2>1, <2>2 DEF Size
    <2>3. CASE x < 0
      <3>1. x = -(p + r)
        BY <1>3, <2>3 DEF Size
      <3>2. CASE r = 0
        BY <1>1, <1>5, <1>7, <2>1, <2>3, <3>1, <3>2
      <3>3. CASE r # 0
        BY <1>1, <1>3, <1>6, <1>7, <2>1, <2>3, <3>1, <3>3
      <3>4. QED
        BY <3>2, <3>3
    <2>4. QED
      BY <2>2, <2>3
  <1>8. CASE y < 0
    <2>1. B = -y /\ RemainderOf(x, y) = -((-x) % B)
      BY <1>1, <1>8 DEF Size, RemainderOf
    <2>2. CASE x >= 0
      <3>1. -x = -(p + r)
        BY <1>3, <2>2 DEF Size
      <3>2. CASE r = 0
        BY <1>1, <1>5, <1>8, <2>1, <2>2, <3>1, <3>2
      <3>3. CASE r # 0
        BY <1>1, <1>3, <1>6, <1>8, <2>1, <2>2, <3>1, <3>3
      <3>4. QED
        BY <3>2, <3>3
    <2>3. CASE x < 0
      <3>1. -x = p + r
        BY <1>3, <2>3 DEF Size
      <3>2. QED
        BY <1>1, <1>3, <1>4, <1>8, <2>1, <2>3, <3>1
    <2>4. QED
      BY <2>2, <2>3
  <1>9. QED
    BY <1>7, <1>8

-----------------------------------------------------------------------------
(***************************************************************************)
(* timespec_mod: the invariant of its loops.                               *)
(***************************************************************************)
Dividend == ValueOf(given[1])
Divisor == ValueOf(given[2])

\* The calls it is proved right for.
Calls == Pairs \subseteq {p \in Times \X Times : Within(Size(ValueOf(p[1])), ValueOf(p[2]))}

Typed == /\ given \in Pairs /\ ts1 \in Times /\ ts2 \in Times /\ i \in Nat
         /\ at \in {"called", "shift", "subtract", "sign", "done"}
AsCalled == at = "called" => ts1 = given[1] /\ ts2 = given[2] /\ i = 0
Working == at \in {"shift", "subtract", "sign"}
SignsDropped ==
    Working => /\ Divisor # 0 /\ neg1 = (Dividend < 0) /\ neg2 = (Divisor < 0)
               /\ -NSEC_PER_SEC < ts1.tv_nsec /\ ts1.tv_nsec < NSEC_PER_SEC
\* ts2 has been doubled i times, and halving it undoes that.
Doublings == Working => \E h : IsHistory(h, ts2, i, Size(Dividend), Divisor)
\* What is left in ts1 is the dividend's size less a multiple of the divisor's.
Taken ==
    /\ at = "shift" => ValueOf(ts1) = Size(Dividend)
    /\ at \in {"subtract", "sign"} =>
         ValueOf(ts1) \in Nat /\ \E q \in Nat : Size(Dividend) = q * Size(Divisor) + ValueOf(ts1)
    /\ at = "subtract" => ValueOf(ts1) < 2 * ValueOf(ts2)
    /\ at = "sign" => i = 0 /\ ValueOf(ts1) < ValueOf(ts2)
Answered == at = "done" => ValueOf(ts1) = RemainderOf(Dividend, Divisor)

ModInv == Typed /\ AsCalled /\ SignsDropped /\ Doublings /\ Taken /\ Answered

LEMMA CallIs ==
    ASSUME Units, Calls, Typed
    PROVE  /\ given[1] \in Times /\ given[2] \in Times /\ Dividend \in Int /\ Divisor \in Int
           /\ Size(Dividend) \in Nat /\ Within(Size(Dividend), Divisor)
  <1>1. PICK p \in Times \X Times : p = given /\ Within(Size(ValueOf(p[1])), ValueOf(p[2]))
    BY DEF Calls, Typed
  <1>2. PICK a \in Times, b \in Times : a = given[1] /\ b = given[2]
    BY <1>1
  <1>3. ValueOf(a) \in Int /\ ValueOf(b) \in Int
    <2>1. NSEC_PER_SEC \in Int /\ a.tv_sec \in Int /\ a.tv_nsec \in Int /\ b.tv_sec \in Int /\ b.tv_nsec \in Int
      BY DEF Units, Times
    <2>2. QED
      BY <2>1 DEF ValueOf
  <1>4. QED
    BY <1>1, <1>2, <1>3 DEF Dividend, Divisor, Size

LEMMA ModStarts ==
    ASSUME Units, Calls, Init
    PROVE  ModInv
  <1>1. PICK p \in Times \X Times : p = given
    BY DEF Calls, Init
  <1>2. Typed
    BY <1>1 DEF Typed, Init
  <1>3. QED
    BY <1>2 DEF ModInv, Init, AsCalled, Working, SignsDropped, Doublings, Taken, Answered

LEMMA ByZeroKeeps ==
    ASSUME Units, Calls, ModInv, ByZero
    PROVE  ModInv'
  <1>1. /\ Typed /\ at = "called" /\ at' = "done" /\ given' = given /\ i' = i /\ ts1 = given[1] /\ ts2 = given[2]
        /\ ts1' = timespec_normalise(ts1) /\ ts2' = timespec_normalise(ts2) /\ IsZero(timespec_normalise(ts2))
    BY DEF ModInv, ByZero, AsCalled
  <1>2. ts1 \in Times /\ ts2 \in Times
    BY <1>1 DEF Typed
  <1>3. PICK m, n : m = timespec_normalise(ts1) /\ n = timespec_normalise(ts2)
    OBVIOUS
  <1>4. /\ m \in Times /\ ValueOf(m) = Dividend /\ n \in Times /\ ValueOf(n) = Divisor /\ Normal(n)
    BY <1>1, <1>2, <1>3, Normalised DEF Dividend, Divisor
  <1>5. Divisor = 0
    <2>1. -NSEC_PER_SEC < n.tv_nsec /\ n.tv_nsec < NSEC_PER_SEC
      BY <1>4 DEF Normal, Units
    <2>2. QED
      BY <1>1, <1>3, <1>4, <2>1, ZeroIs
  <1>6. ValueOf(m) = RemainderOf(Dividend, Divisor)
    BY <1>4, <1>5 DEF RemainderOf
  <1>7. Answered'
    BY <1>1, <1>3, <1>6 DEF Answered, Dividend, Divisor
  <1>8. Typed'
    BY <1>1, <1>3, <1>4 DEF Typed
  <1>9. QED
    BY <1>1, <1>7, <1>8 DEF ModInv, AsCalled, Working, SignsDropped, Doublings, Taken

LEMMA DropSignsKeeps ==
    ASSUME Units, Calls, ModInv, DropSigns
    PROVE  ModInv'
  <1>1. /\ Typed /\ at = "called" /\ at' = "shift" /\ given' = given /\ i' = i /\ i = 0
        /\ ts1 = given[1] /\ ts2 = given[2]
    BY DEF ModInv, DropSigns, AsCalled
  <1>2. ts1 \in Times /\ ts2 \in Times
    BY <1>1 DEF Typed
  <1>3. PICK m, n : m = timespec_normalise(ts1) /\ n = timespec_normalise(ts2)
    OBVIOUS
  <1>4. /\ neg1' = Negative(m) /\ neg2' = Negative(n) /\ ts1' = Abs(m) /\ ts2' = Abs(n) /\ ~IsZero(n)
    BY <1>3 DEF DropSigns
  <1>5. PICK x, y : x = Dividend /\ y = Divisor
    OBVIOUS
  <1>6. /\ m \in Times /\ ValueOf(m) = x /\ Normal(m) /\ n \in Times /\ ValueOf(n) = y /\ Normal(n)
    BY <1>1, <1>2, <1>3, <1>5, Normalised DEF Dividend, Divisor
  <1>7. x \in Int /\ y \in Int
    BY <1>1, <1>5, CallIs
  <1>8. y # 0
    <2>1. -NSEC_PER_SEC < n.tv_nsec /\ n.tv_nsec < NSEC_PER_SEC
      BY <1>6 DEF Normal, Units
    <2>2. QED
      BY <1>4, <1>6, <2>1, ZeroIs
  <1>9. /\ ts1' \in Times /\ ValueOf(ts1') = Size(x) /\ (Negative(m) <=> x < 0)
        /\ -NSEC_PER_SEC < ts1'.tv_nsec /\ ts1'.tv_nsec < NSEC_PER_SEC
    BY <1>4, <1>6, SignOf
  <1>10. /\ ts2' \in Times /\ ValueOf(ts2') = Size(y) /\ (Negative(n) <=> y < 0)
         /\ -NSEC_PER_SEC < ts2'.tv_nsec /\ ts2'.tv_nsec < NSEC_PER_SEC /\ ts2'.tv_sec >= 0
         /\ (y < 0 => ts2'.tv_nsec <= 0) /\ (y >= 0 => ts2'.tv_nsec >= 0)
    BY <1>4, <1>6, SignOf
  <1>11. PICK t \in Times : t = ts2'
    BY <1>10
  <1>12. MultipleIs(t, 1, Size(x), y)
    <2>1. PICK N : N = NSEC_PER_SEC
      OBVIOUS
    <2>2. N \in Nat \ {0} /\ t.tv_nsec \in Int /\ 1 * N = N
      BY <2>1 DEF Units, Times
    <2>3. Size(y) \in Int /\ 1 * Size(y) = Size(y)
      BY <1>7 DEF Size
    <2>4. QED
      BY <1>7, <1>10, <1>11, <2>1, <2>2, <2>3 DEF MultipleIs
  <1>13. \E h : IsHistory(h, t, 0, Size(x), y)
    <2>1. Multiple(t, Size(x), y)
      BY <1>12 DEF Multiple
    <2>2. QED
      BY <1>10, <1>11, <2>1, HistoryStarts
  <1>14. Dividend' = x /\ Divisor' = y
    BY <1>1, <1>5 DEF Dividend, Divisor
  <1>15. Doublings'
    BY <1>1, <1>11, <1>13, <1>14 DEF Doublings
  <1>16. SignsDropped'
    <2>1. Negative(m) = (x < 0) /\ Negative(n) = (y < 0)
      BY <1>9, <1>10 DEF Negative
    <2>2. QED
      BY <1>4, <1>8, <1>9, <1>14, <2>1 DEF SignsDropped
  <1>17. Typed'
    BY <1>1, <1>9, <1>10 DEF Typed
  <1>18. Taken'
    BY <1>1, <1>9, <1>14 DEF Taken
  <1>19. QED
    BY <1>1, <1>15, <1>16, <1>17, <1>18 DEF ModInv, AsCalled, Answered

LEMMA ShiftKeeps ==
    ASSUME Units, Calls, ModInv, Shift
    PROVE  ModInv'
  <1>1. /\ Typed /\ at = "shift" /\ at' = at /\ given' = given /\ ts1' = ts1 /\ neg1' = neg1 /\ neg2' = neg2
        /\ i' = i + 1 /\ ts2' = Doubled(ts2) /\ timespec_ge(ts1, ts2)
    BY DEF ModInv, Shift, Smaller
  <1>2. ts1 \in Times /\ ts2 \in Times /\ i \in Nat
    BY <1>1 DEF Typed
  <1>3. PICK x, y : x = Size(Dividend) /\ y = Divisor
    OBVIOUS
  <1>4. x \in Nat /\ y \in Int \ {0}
    BY <1>1, <1>3, CallIs DEF ModInv, SignsDropped, Working
  <1>5. ValueOf(ts1) = x
    BY <1>1, <1>3 DEF ModInv, Taken
  <1>6. PICK h : IsHistory(h, ts2, i, x, y)
    BY <1>1, <1>3 DEF ModInv, Doublings, Working
  <1>7. ValueOf(ts2) <= x
    <2>1. ValueOf(ts2) \in Nat
      BY <1>2, <1>4, <1>6, HistoryIs
    <2>2. x >= ValueOf(ts2)
      BY <1>1, <1>2, <1>5, Comparisons
    <2>3. QED
      BY <1>4, <2>1, <2>2
  <1>8. \E g : IsHistory(g, ts2', i', x, y)
    BY <1>1, <1>2, <1>4, <1>6, <1>7, HistoryGrows
  <1>9. Size(Dividend)' = x /\ Divisor' = y /\ Dividend' = Dividend
    BY <1>1, <1>3 DEF Dividend, Divisor
  <1>10. Doublings'
    BY <1>8, <1>9 DEF Doublings
  <1>11. Typed'
    BY <1>1, <1>2, DoublingIs DEF Typed
  <1>12. SignsDropped'
    BY <1>1, <1>9, <1>3 DEF ModInv, SignsDropped, Working
  <1>13. Taken'
    BY <1>1, <1>5, <1>9 DEF Taken
  <1>14. QED
    BY <1>1, <1>10, <1>11, <1>12, <1>13 DEF ModInv, AsCalled, Answered

LEMMA ShiftedKeeps ==
    ASSUME Units, Longs, Calls, ModInv, Shifted
    PROVE  ModInv'
  <1>1. /\ Typed /\ at = "shift" /\ at' = "subtract" /\ given' = given /\ ts1' = ts1 /\ ts2' = ts2 /\ i' = i
        /\ neg1' = neg1 /\ neg2' = neg2 /\ ~Smaller
    BY DEF ModInv, Shifted
  <1>2. ts1 \in Times /\ ts2 \in Times /\ i \in Nat
    BY <1>1 DEF Typed
  <1>3. PICK x, y : x = Size(Dividend) /\ y = Divisor
    OBVIOUS
  <1>4. x \in Nat /\ y \in Int \ {0} /\ Within(x, y)
    BY <1>1, <1>3, CallIs DEF ModInv, SignsDropped, Working
  <1>5. ValueOf(ts1) = x
    BY <1>1, <1>3 DEF ModInv, Taken
  <1>6. PICK h : IsHistory(h, ts2, i, x, y)
    BY <1>1, <1>3 DEF ModInv, Doublings, Working
  <1>7. Multiple(ts2, x, y) /\ ValueOf(ts2) \in Nat
    BY <1>2, <1>4, <1>6, HistoryIs
  <1>8. ValueOf(ts2) > x \/ ts2.tv_sec >= LONG_MAX \div 2
    <2>1. ts2.tv_sec < LONG_MAX \div 2 \/ ts2.tv_sec >= LONG_MAX \div 2
      BY <1>2 DEF Times, Longs
    <2>2. timespec_ge(ts1, ts2) <=> x >= ValueOf(ts2)
      BY <1>2, <1>5, Comparisons
    <2>3. QED
      BY <1>1, <1>4, <1>7, <2>1, <2>2 DEF Smaller
  <1>9. x < 2 * ValueOf(ts2)
    BY <1>2, <1>4, <1>7, <1>8, PastIt
  <1>10. Size(Dividend)' = x /\ Divisor' = y /\ Dividend' = Dividend
    BY <1>1, <1>3 DEF Dividend, Divisor
  <1>11. Taken'
    <2>1. PICK B \in Nat : B = Size(y)
      BY <1>4 DEF Size
    <2>2. x = 0 * B + x
      BY <1>4
    <2>3. QED
      BY <1>1, <1>4, <1>5, <1>9, <1>10, <2>1, <2>2 DEF Taken
  <1>12. Doublings'
    BY <1>1, <1>6, <1>10 DEF Doublings
  <1>13. SignsDropped'
    BY <1>1, <1>3, <1>10 DEF ModInv, SignsDropped, Working
  <1>14. Typed'
    BY <1>1 DEF Typed
  <1>15. QED
    BY <1>1, <1>11, <1>12, <1>13, <1>14 DEF ModInv, AsCalled, Answered

LEMMA SubtractKeeps ==
    ASSUME Units, Calls, ModInv, Subtract
    PROVE  ModInv'
  <1>1. /\ Typed /\ at = "subtract" /\ given' = given /\ neg1' = neg1 /\ neg2' = neg2
        /\ ts1' = IF timespec_ge(ts1, ts2) THEN timespec_sub(ts1, ts2) ELSE ts1
    BY DEF ModInv, Subtract
  <1>2. ts1 \in Times /\ ts2 \in Times /\ i \in Nat
    BY <1>1 DEF Typed
  <1>3. PICK x, y : x = Size(Dividend) /\ y = Divisor
    OBVIOUS
  <1>4. x \in Nat /\ y \in Int \ {0}
    BY <1>1, <1>3, CallIs DEF ModInv, SignsDropped, Working
  <1>5. PICK B \in Nat \ {0} : B = Size(y)
    BY <1>4 DEF Size
  <1>6. PICK r \in Nat, q \in Nat : r = ValueOf(ts1) /\ x = q * B + r
    BY <1>1, <1>3, <1>5 DEF ModInv, Taken
  <1>7. PICK h : IsHistory(h, ts2, i, x, y)
    BY <1>1, <1>3 DEF ModInv, Doublings, Working
  <1>8. PICK v \in Nat \ {0} : v = ValueOf(ts2) /\ (i = 0 => v = B) /\ \E c \in Nat : v = c * B
    BY <1>2, <1>4, <1>5, <1>7, HistoryIs
  <1>9. r < 2 * v
    BY <1>1, <1>6, <1>8 DEF ModInv, Taken
  <1>10. PICK c \in Nat : v = c * B
    BY <1>8
  <1>11. PICK s \in Nat : /\ ts1' \in Times /\ s = ValueOf(ts1') /\ s < v
                          /\ -NSEC_PER_SEC < ts1'.tv_nsec /\ ts1'.tv_nsec < NSEC_PER_SEC
                          /\ \E p \in Nat : x = p * B + s
    <2>1. CASE r >= v
      <3>1. timespec_ge(ts1, ts2)
        BY <1>2, <1>6, <1>8, <2>1, Comparisons
      <3>2. PICK d : d = timespec_sub(ts1, ts2)
        OBVIOUS
      <3>3. d \in Times /\ Normal(d) /\ ValueOf(d) = r - v
        BY <1>2, <1>6, <1>8, <3>2, Sums
      <3>4. -NSEC_PER_SEC < d.tv_nsec /\ d.tv_nsec < NSEC_PER_SEC
        BY <3>3 DEF Normal, Units
      <3>5. ts1' = d
        BY <1>1, <3>1, <3>2
      <3>6. x = (q + c) * B + (r - v)
        BY <1>6, <1>10
      <3>7. r - v \in Nat /\ r - v < v /\ q + c \in Nat
        BY <1>9, <2>1
      <3>8. QED
        BY <3>3, <3>4, <3>5, <3>6, <3>7
    <2>2. CASE r < v
      <3>1. ~timespec_ge(ts1, ts2)
        BY <1>2, <1>6, <1>8, <2>2, Comparisons
      <3>2. ts1' = ts1
        BY <1>1, <3>1
      <3>3. -NSEC_PER_SEC < ts1.tv_nsec /\ ts1.tv_nsec < NSEC_PER_SEC
        BY <1>1 DEF ModInv, SignsDropped, Working
      <3>4. QED
        BY <1>2, <1>6, <2>2, <3>2, <3>3
    <2>3. QED
      BY <2>1, <2>2
  <1>12. Size(Dividend)' = x /\ Divisor' = y /\ Dividend' = Dividend
    BY <1>1, <1>3 DEF Dividend, Divisor
  <1>13. SignsDropped'
    BY <1>1, <1>3, <1>11, <1>12 DEF ModInv, SignsDropped, Working
  <1>14. CASE i = 0
    <2>1. at' = "sign" /\ ts2' = ts2 /\ i' = i
      BY <1>14 DEF Subtract
    <2>2. Typed'
      BY <1>1, <1>11, <2>1 DEF Typed
    <2>3. Doublings'
      BY <1>7, <1>12, <2>1 DEF Doublings
    <2>4. Taken'
      BY <1>5, <1>8, <1>11, <1>12, <1>14, <2>1 DEF Taken
    <2>5. QED
      BY <1>13, <2>1, <2>2, <2>3, <2>4 DEF ModInv, AsCalled, Answered
  <1>15. CASE i # 0
    <2>1. at' = at /\ i' = i - 1 /\ ts2' = Halved(ts2)
      BY <1>15 DEF Subtract
    <2>2. Halved(ts2) \in Times /\ ValueOf(ts2) = 2 * ValueOf(Halved(ts2)) /\ IsHistory(h, Halved(ts2), i - 1, x, y)
      BY <1>2, <1>7, <1>15, HistoryShrinks
    <2>3. Typed'
      BY <1>1, <1>2, <1>11, <1>15, <2>1, <2>2 DEF Typed
    <2>4. Doublings'
      BY <1>12, <2>1, <2>2 DEF Doublings
    <2>5. Taken'
      <3>1. ValueOf(ts1') < 2 * ValueOf(ts2')
        BY <1>8, <1>11, <2>1, <2>2
      <3>2. QED
        BY <1>1, <1>5, <1>11, <1>12, <2>1, <3>1 DEF Taken
    <2>6. QED
      BY <1>1, <1>13, <2>1, <2>3, <2>4, <2>5 DEF ModInv, AsCalled, Answered
  <1>16. QED
    BY <1>14, <1>15

LEMMA NegatedIs ==
    ASSUME Units, NEW t \in Times
    PROVE  Negated(t) \in Times /\ ValueOf(Negated(t)) = -ValueOf(t) /\ ValueOf(t) \in Int
  <1>1. PICK N, s, n : N = NSEC_PER_SEC /\ s = t.tv_sec /\ n = t.tv_nsec
    OBVIOUS
  <1>2. N \in Nat \ {0} /\ s \in Int /\ n \in Int /\ -s \in Int /\ -n \in Int
    BY <1>1 DEF Units, Times
  <1>3. Negated(t) \in Times /\ Negated(t).tv_sec = -s /\ Negated(t).tv_nsec = -n
    BY <1>1, <1>2, TimeIs DEF Negated
  <1>4. (-s) * N + (-n) = -(s * N + n) /\ s * N + n \in Int
    BY <1>2
  <1>5. QED
    BY <1>1, <1>3, <1>4 DEF ValueOf

LEMMA RestoreSignKeeps ==
    ASSUME Units, Calls, ModInv, RestoreSign
    PROVE  ModInv'
  <1> DEFINE u == IF neg1 # neg2 /\ ~IsZero(ts1) THEN timespec_sub(ts1, ts2) ELSE ts1
  <1>1. /\ Typed /\ at = "sign" /\ at' = "done" /\ given' = given /\ ts2' = ts2 /\ i' = i /\ i = 0
        /\ ts1' = IF neg1 THEN Negated(u) ELSE u
    BY DEF ModInv, RestoreSign, Taken
  <1>2. ts1 \in Times /\ ts2 \in Times /\ i \in Nat
    BY <1>1 DEF Typed
  <1>3. PICK x, y : x = Dividend /\ y = Divisor
    OBVIOUS
  <1>4. x \in Int /\ Size(x) \in Nat /\ y \in Int \ {0} /\ neg1 = (x < 0) /\ neg2 = (y < 0)
    BY <1>1, <1>3, CallIs DEF ModInv, SignsDropped, Working
  <1>5. PICK B \in Nat \ {0} : B = Size(y)
    BY <1>4 DEF Size
  <1>6. PICK h : IsHistory(h, ts2, i, Size(x), y)
    BY <1>1, <1>3 DEF ModInv, Doublings, Working
  <1>7. ValueOf(ts2) = B
    BY <1>1, <1>2, <1>4, <1>5, <1>6, HistoryIs
  <1>8. PICK r \in 0..(B - 1), q \in Nat : r = ValueOf(ts1) /\ Size(x) = q * B + r
    BY <1>1, <1>3, <1>5, <1>7 DEF ModInv, Taken
  <1>9. IsZero(ts1) <=> r = 0
    BY <1>1, <1>2, <1>8, ZeroIs DEF ModInv, SignsDropped, Working
  <1> DEFINE left == IF (x < 0) # (y < 0) /\ r # 0 THEN r - B ELSE r
  <1>10. u \in Times /\ ValueOf(u) = left
    <2>1. timespec_sub(ts1, ts2) \in Times /\ ValueOf(timespec_sub(ts1, ts2)) = r - B
      BY <1>2, <1>7, <1>8, Sums
    <2>2. CASE (x < 0) # (y < 0) /\ r # 0
      BY <1>4, <1>9, <2>1, <2>2
    <2>3. CASE ~((x < 0) # (y < 0) /\ r # 0)
      BY <1>2, <1>4, <1>8, <1>9, <2>3
    <2>4. QED
      BY <2>2, <2>3
  <1>11. RemainderOf(x, y) = IF x < 0 THEN -left ELSE left
    <2>1. \E p \in Int : Size(x) = p * B + r
      BY <1>8
    <2>2. QED
      BY <1>4, <1>5, <2>1, SignRestored
  <1> HIDE DEF u, left
  <1>12. ts1' \in Times /\ ValueOf(ts1') = RemainderOf(x, y)
    <2>1. CASE x < 0
      BY <1>1, <1>4, <1>10, <1>11, <2>1, NegatedIs
    <2>2. CASE ~(x < 0)
      BY <1>1, <1>4, <1>10, <1>11, <2>2
    <2>3. QED
      BY <2>1, <2>2
  <1>13. Answered'
    BY <1>1, <1>3, <1>12 DEF Answered, Dividend, Divisor
  <1>14. Typed'
    BY <1>1, <1>2, <1>12 DEF Typed
  <1>15. QED
    BY <1>1, <1>13, <1>14 DEF ModInv, AsCalled, Working, SignsDropped, Doublings, Taken

\* The invariant of timespec_mod's loops: the doubled ts2 can be halved back to the divisor, and what is left
\* of ts1 differs from the dividend by a multiple of the divisor.
THEOREM ModInvariant ==
    ASSUME Units, Longs, Calls
    PROVE  Spec => []ModInv
  <1>1. Init => ModInv
    BY ModStarts
  <1>2. ModInv /\ [Next]_vars => ModInv'
    <2>1. SUFFICES ASSUME ModInv, [Next]_vars
                   PROVE  ModInv'
      OBVIOUS
    <2>2. CASE Next
      BY <2>1, <2>2, ByZeroKeeps, DropSignsKeeps, ShiftKeeps, ShiftedKeeps, SubtractKeeps, RestoreSignKeeps DEF Next
    <2>3. CASE UNCHANGED vars
      BY <2>1, <2>3 DEF vars, ModInv, Typed, AsCalled, Working, SignsDropped, Doublings, Taken, Answered,
                        Dividend, Divisor
    <2>4. QED
      BY <2>1, <2>2, <2>3
  <1>3. QED
    BY <1>1, <1>2, PTL DEF Spec

\* timespec_mod returns the remainder of the two numbers, with the sign of the divisor, for every two times
\* within the calls above (timespec.c:102, "the remainder left over after dividing ts1 by ts2").
THEOREM ModLeavesTheRemainder ==
    ASSUME Units, Longs, Calls
    PROVE  Spec => [](at = "done" => ValueOf(ts1) = RemainderOf(ValueOf(given[1]), ValueOf(given[2])))
  <1>1. ModInv => (at = "done" => ValueOf(ts1) = RemainderOf(ValueOf(given[1]), ValueOf(given[2])))
    BY DEF ModInv, Answered, Dividend, Divisor
  <1>2. QED
    BY <1>1, ModInvariant, PTL

\* On the way no tv_nsec leaves a long, though the doubling of a negative divisor's has no bound of its own
\* (timespec.c:144).
THEOREM ModStaysInALong ==
    ASSUME Units, Longs, Calls
    PROVE  Spec => [](at \in {"shift", "subtract", "sign"} =>
                        -LONG_MAX <= ts2.tv_nsec /\ ts2.tv_nsec <= LONG_MAX)
  <1>1. ASSUME ModInv, Working
        PROVE  -LONG_MAX <= ts2.tv_nsec /\ ts2.tv_nsec <= LONG_MAX
    <2>1. Typed /\ ts2 \in Times /\ i \in Nat
      BY <1>1 DEF ModInv, Typed
    <2>2. PICK x, y : x = Size(Dividend) /\ y = Divisor
      OBVIOUS
    <2>3. x \in Nat /\ y \in Int \ {0} /\ Within(x, y)
      BY <1>1, <2>1, <2>2, CallIs DEF ModInv, SignsDropped
    <2>4. PICK h : IsHistory(h, ts2, i, x, y)
      BY <1>1, <2>2 DEF ModInv, Doublings
    <2>5. Multiple(ts2, x, y)
      BY <2>1, <2>3, <2>4, HistoryIs
    <2>6. QED
      BY <2>1, <2>3, <2>5, MultipleFits
  <1>2. ModInv => (at \in {"shift", "subtract", "sign"} => -LONG_MAX <= ts2.tv_nsec /\ ts2.tv_nsec <= LONG_MAX)
    BY <1>1 DEF Working
  <1>3. QED
    BY <1>2, ModInvariant, PTL
=============================================================================
