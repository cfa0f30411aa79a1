------------------------------- MODULE DesProofs -------------------------------
(***************************************************************************)
(* Proofs about Des for every size of a block, every number of rounds,     *)
(* every choice of tables and S boxes, every key and every text.           *)
(***************************************************************************)
EXTENDS Des, TLAPS, SequenceTheorems, NaturalsInduction, WellFoundedInduction

-----------------------------------------------------------------------------
(***************************************************************************)
(* Pieces of bits.                                                         *)
(***************************************************************************)
\* n bits are a sequence of bits.
LEMMA Sequence ==
    ASSUME NEW n \in Nat, NEW s \in Bits(n)
    PROVE  s \in Seq(Bit) /\ Len(s) = n /\ DOMAIN s = 1..n /\ \A k \in 1..n : s[k] \in Bit
  BY DEF Bits

\* A sequence of bits is as many bits as it is long.
LEMMA FromSequence ==
    ASSUME NEW s \in Seq(Bit)
    PROVE  Len(s) \in Nat /\ s \in Bits(Len(s))
  BY LenProperties DEF Bits

\* m of n bits, from the a-th on.
LEMMA Piece ==
    ASSUME NEW n \in Nat, NEW s \in Bits(n), NEW a \in 1..(n + 1), NEW m \in 0..(n + 1 - a)
    PROVE  /\ SubSeq(s, a, a + m - 1) \in Bits(m)
           /\ \A k \in 1..m : SubSeq(s, a, a + m - 1)[k] = s[a + k - 1]
  <1>1. \A i \in a .. a + m - 1 : s[i] \in Bit
    BY DEF Bits
  <1>2. PICK b \in Int : b = a + m - 1
    OBVIOUS
  <1>3. /\ SubSeq(s, a, b) \in Seq(Bit) /\ Len(SubSeq(s, a, b)) = (IF a <= b THEN b - a + 1 ELSE 0)
        /\ \A i \in 1 .. b - a + 1 : SubSeq(s, a, b)[i] = s[a + i - 1]
    BY <1>1, <1>2, SubSeqProperties
  <1>4. b - a + 1 = m
    BY <1>2
  <1>5. Len(SubSeq(s, a, b)) = m
    BY <1>2, <1>3
  <1>6. SubSeq(s, a, b) \in Bits(m) /\ \A k \in 1..m : SubSeq(s, a, b)[k] = s[a + k - 1]
    BY <1>3, <1>4, <1>5, FromSequence
  <1>7. QED
    BY <1>2, <1>6

\* What n bits and m bits behind them are.
AreJoined(n, m, s, t) ==
    /\ s \o t \in Bits(n + m)
    /\ \A k \in 1..n : (s \o t)[k] = s[k]
    /\ \A k \in 1..m : (s \o t)[n + k] = t[k]

\* Bits put behind bits are bits, and each keeps its own.
LEMMA Joined ==
    ASSUME NEW n \in Nat, NEW m \in Nat, NEW s \in Bits(n), NEW t \in Bits(m)
    PROVE  AreJoined(n, m, s, t)
  <1>1. s \in Seq(Bit) /\ t \in Seq(Bit) /\ Len(s) = n /\ Len(t) = m
    BY Sequence
  <1>2. /\ s \o t \in Seq(Bit) /\ Len(s \o t) = n + m
        /\ \A k \in 1 .. n + m : (s \o t)[k] = IF k <= n THEN s[k] ELSE t[k - n]
    BY <1>1, ConcatProperties
  <1>3. s \o t \in Bits(n + m)
    BY <1>2, FromSequence
  <1>4. \A k \in 1..n : (s \o t)[k] = s[k]
    BY <1>2
  <1>5. \A k \in 1..m : (s \o t)[n + k] = t[k]
    <2> TAKE k \in 1..m
    <2>1. n + k \in 1 .. n + m /\ ~(n + k <= n) /\ (n + k) - n = k
      OBVIOUS
    <2>2. QED
      BY <1>2, <2>1
  <1>6. QED
    BY <1>3, <1>4, <1>5 DEF AreJoined

\* Bits that agree everywhere are the same.
LEMMA SameBits ==
    ASSUME NEW n \in Nat, NEW s \in Bits(n), NEW t \in Bits(n), \A k \in 1..n : s[k] = t[k]
    PROVE  s = t
  BY DEF Bits

-----------------------------------------------------------------------------
(***************************************************************************)
(* The key's schedule.                                                     *)
(***************************************************************************)
\* A set of natural numbers that is not empty has a least element.
LEMMA LeastNatural ==
    ASSUME NEW S \in SUBSET Nat, S # {}
    PROVE  \E s \in S : \A r \in S : s <= r
  <1>1. PICK s \in S : \A r \in S : ~(<<r, s>> \in OpToRel(<, Nat))
    BY NatLessThanWellFounded, WFMin
  <1>2. \A r \in S : ~(r < s)
    BY <1>1 DEF OpToRel
  <1>3. QED
    BY <1>2

\* The rotations up to the n-th subkey, as far as they are laid down.
Turning(f, n) == f = [i \in 0..n |-> IF i = 0 THEN 0 ELSE f[i - 1] + LOOP_Table[i]]

\* There is a function of the rotations: the definition of Loops defines something.
LEMMA TurningExists ==
    ASSUME Tables, NEW n \in 0..ROUNDS
    PROVE  \E f : Turning(f, n)
  <1> DEFINE Bad == {m \in Nat : m <= n /\ ~\E f : Turning(f, m)}
  <1> SUFFICES ASSUME n \in Bad PROVE FALSE
    BY DEF Tables
  <1>1. PICK m \in Bad : \A r \in Bad : m <= r
    <2>1. Bad \in SUBSET Nat /\ Bad # {}
      OBVIOUS
    <2> HIDE DEF Bad
    <2>2. QED
      BY <2>1, LeastNatural
  <1>2. CASE m = 0
    <2>1. Turning([i \in 0..0 |-> 0], 0)
      BY DEF Turning
    <2>2. QED
      BY <1>2, <2>1
  <1>3. CASE m # 0
    <2>1. m - 1 \in Nat /\ m - 1 <= n /\ ~(m <= m - 1)
      BY <1>3, n \in Nat DEF Tables
    <2>2. m - 1 \notin Bad
      BY <1>1, <2>1
    <2>3. PICK g : Turning(g, m - 1)
      BY <2>1, <2>2
    <2>4. DOMAIN g = 0..(m - 1) /\ \A i \in 0..(m - 1) : g[i] = IF i = 0 THEN 0 ELSE g[i - 1] + LOOP_Table[i]
      BY <2>3 DEF Turning
    <2> DEFINE f == [i \in 0..m |-> IF i = m THEN g[m - 1] + LOOP_Table[m] ELSE g[i]]
    <2>5. \A i \in 0..m : f[i] = IF i = 0 THEN 0 ELSE f[i - 1] + LOOP_Table[i]
      BY <1>3, <2>1, <2>4
    <2>6. f = [i \in 0..m |-> IF i = 0 THEN 0 ELSE f[i - 1] + LOOP_Table[i]]
      <3>1. DOMAIN f = 0..m /\ f = [i \in 0..m |-> f[i]]
        OBVIOUS
      <3> HIDE DEF f
      <3>2. QED
        BY <2>5, <3>1
    <2>7. Turning(f, m)
      BY <2>6 DEF Turning
    <2>8. QED
      BY <2>7
  <1>4. QED
    BY <1>2, <1>3

\* Loops is such a function, up to the last round.
LEMMA LoopsTurns ==
    ASSUME Tables
    PROVE  Turning(Loops, ROUNDS)
  <1>1. ROUNDS \in 0..ROUNDS
    BY DEF Tables
  <1>2. \E f : Turning(f, ROUNDS)
    BY <1>1, TurningExists
  <1>3. QED
    BY <1>2 DEF Loops, Turning

\* The halves of the key are turned by a natural number of places.
LEMMA LoopsNat ==
    ASSUME Tables, NEW n \in 0..ROUNDS
    PROVE  Loops[n] \in Nat
  <1> DEFINE Bad == {m \in 0..ROUNDS : Loops[m] \notin Nat}
  <1> SUFFICES ASSUME n \in Bad PROVE FALSE
    OBVIOUS
  <1>1. PICK m \in Bad : \A r \in Bad : m <= r
    <2>1. Bad \in SUBSET Nat
      <3>1. ROUNDS \in Nat
        BY DEF Tables
      <3>2. 0..ROUNDS \in SUBSET Nat
        BY <3>1
      <3>3. QED
        BY <3>2
    <2>2. Bad # {}
      OBVIOUS
    <2> HIDE DEF Bad
    <2>3. QED
      BY <2>1, <2>2, LeastNatural
  <1>2. /\ ROUNDS \in Nat /\ m \in 0..ROUNDS
        /\ \A i \in 0..ROUNDS : Loops[i] = IF i = 0 THEN 0 ELSE Loops[i - 1] + LOOP_Table[i]
    <2>1. ROUNDS \in Nat
      BY DEF Tables
    <2>2. Turning(Loops, ROUNDS)
      BY LoopsTurns
    <2>3. \A i \in 0..ROUNDS : Loops[i] = IF i = 0 THEN 0 ELSE Loops[i - 1] + LOOP_Table[i]
      BY <2>2 DEF Turning
    <2>4. QED
      BY <2>1, <2>3
  <1>3. m # 0 /\ m - 1 \in 0..ROUNDS /\ ~(m <= m - 1) /\ m \in Nat
    <2>1. m # 0
      BY <1>2
    <2>2. QED
      BY <1>2, <2>1
  <1>4. Loops[m - 1] \in Nat
    BY <1>1, <1>3
  <1>5. LOOP_Table[m] \in Nat
    <2>1. LOOP_Table \in Seq(Nat) /\ Len(LOOP_Table) = ROUNDS /\ m \in 1..ROUNDS
      BY <1>2, <1>3 DEF Tables
    <2>2. m \in 1..Len(LOOP_Table)
      BY <2>1
    <2>3. QED
      BY <2>1, <2>2, ElementOfSeq
  <1>6. QED
    BY <1>2, <1>3, <1>4, <1>5

\* A table that points into n bits makes bits of them, as many as it has entries.
LEMMA TransformBits ==
    ASSUME NEW n \in Nat, NEW s \in Bits(n), NEW T \in Seq(1..n)
    PROVE  /\ Len(T) \in Nat /\ Transform(s, T) \in Bits(Len(T))
           /\ \A k \in 1..Len(T) : Transform(s, T)[k] = s[T[k]]
  <1>1. Len(T) \in Nat /\ \A k \in 1..Len(T) : T[k] \in 1..n
    BY ElementOfSeq, LenProperties
  <1>2. QED
    BY <1>1 DEF Transform, Bits

\* Rotating n bits leaves n bits.
LEMMA RotateBits ==
    ASSUME NEW n \in Nat, NEW s \in Bits(n), NEW m \in 0..n
    PROVE  RotateL(s, m) \in Bits(n)
  <1>1. Len(s) = n
    BY Sequence
  <1> DEFINE a == SubSeq(s, m + 1, n)
             b == SubSeq(s, 1, m)
  <1>2. a \in Bits(n - m)
    <2>1. m + 1 \in 1..(n + 1) /\ n - m \in 0..(n + 1 - (m + 1)) /\ (m + 1) + (n - m) - 1 = n
      OBVIOUS
    <2>2. SubSeq(s, m + 1, (m + 1) + (n - m) - 1) \in Bits(n - m)
      BY <2>1, Piece
    <2>3. QED
      BY <2>1, <2>2
  <1>3. b \in Bits(m)
    <2>1. 1 \in 1..(n + 1) /\ m \in 0..(n + 1 - 1) /\ 1 + m - 1 = m
      OBVIOUS
    <2>2. SubSeq(s, 1, 1 + m - 1) \in Bits(m)
      BY <2>1, Piece
    <2>3. QED
      BY <2>1, <2>2
  <1> HIDE DEF a, b
  <1>4. a \o b \in Bits(n)
    <2>1. n - m \in Nat /\ (n - m) + m = n
      OBVIOUS
    <2>2. AreJoined(n - m, m, a, b)
      BY <1>2, <1>3, <2>1, Joined
    <2>3. QED
      BY <2>1, <2>2 DEF AreJoined
  <1>5. QED
    BY <1>1, <1>4 DEF RotateL, a, b

\* Every subkey is as many bits as the S boxes take.
LEMMA SubKeyBits ==
    ASSUME Tables, NEW k \in Bits(KEYBITS), NEW i \in 0..ROUNDS
    PROVE  SubKey(k, i) \in Bits(Len(E_Table))
  <1> DEFINE K == Transform(k, PC1_Table)
             n == Len(PC1_Table) \div 2
             turn == Loops[i] % n
             a == SubSeq(K, 1, n)
             b == SubSeq(K, n + 1, 2 * n)
  <1>1. Len(PC1_Table) \in Nat /\ K \in Bits(Len(PC1_Table))
    BY TransformBits DEF Tables
  <1>2. n \in Nat \ {0} /\ 2 * n <= Len(PC1_Table)
    BY <1>1 DEF Tables
  <1> HIDE DEF K, n
  <1>3. turn \in 0..n
    <2>1. Loops[i] \in Nat
      BY LoopsNat
    <2>2. QED
      BY <1>2, <2>1
  <1>4. a \in Bits(n)
    <2>1. 1 \in 1..(Len(PC1_Table) + 1) /\ n \in 0..(Len(PC1_Table) + 1 - 1) /\ 1 + n - 1 = n
      BY <1>1, <1>2
    <2>2. SubSeq(K, 1, 1 + n - 1) \in Bits(n)
      BY <1>1, <2>1, Piece
    <2>3. QED
      BY <2>1, <2>2
  <1>5. b \in Bits(n)
    <2>1. /\ n + 1 \in 1..(Len(PC1_Table) + 1) /\ n \in 0..(Len(PC1_Table) + 1 - (n + 1))
          /\ (n + 1) + n - 1 = 2 * n
      BY <1>1, <1>2
    <2>2. SubSeq(K, n + 1, (n + 1) + n - 1) \in Bits(n)
      BY <1>1, <2>1, Piece
    <2>3. QED
      BY <2>1, <2>2
  <1> HIDE DEF a, b, turn
  <1>6. RotateL(a, turn) \in Bits(n) /\ RotateL(b, turn) \in Bits(n)
    BY <1>2, <1>3, <1>4, <1>5, RotateBits
  <1>7. RotateL(a, turn) \o RotateL(b, turn) \in Bits(2 * n)
    <2>1. AreJoined(n, n, RotateL(a, turn), RotateL(b, turn))
      BY <1>2, <1>6, Joined
    <2>2. n + n = 2 * n
      BY <1>2
    <2>3. QED
      BY <2>1, <2>2 DEF AreJoined
  <1>8. Transform(RotateL(a, turn) \o RotateL(b, turn), PC2_Table) \in Bits(Len(PC2_Table))
    <2>1. 2 * n \in Nat /\ PC2_Table \in Seq(1..(2 * n))
      BY <1>2 DEF Tables, n
    <2>2. QED
      BY <1>7, <2>1, TransformBits
  <1>9. QED
    BY <1>8 DEF SubKey, Tables, K, n, turn, a, b

-----------------------------------------------------------------------------
(***************************************************************************)
(* A round and its undoing.                                                *)
(***************************************************************************)
\* Adding a bit twice leaves the other.
LEMMA TwoBits ==
    ASSUME NEW a \in Bit, NEW b \in Bit
    PROVE  (a + b) % 2 \in Bit /\ (a + ((a + b) % 2)) % 2 = b
  BY DEF Bit

\* XOR with the same bits twice gives back what there was.
LEMMA XorTwice ==
    ASSUME NEW n \in Nat, NEW a \in Bits(n), NEW b \in Bits(n)
    PROVE  XorBits(a, b) \in Bits(n) /\ XorBits(a, XorBits(a, b)) = b
  <1>1. Len(a) = n
    BY Sequence
  <1>2. \A k \in 1..n : a[k] \in Bit /\ b[k] \in Bit
    BY DEF Bits
  <1>3. XorBits(a, b) \in Bits(n) /\ \A k \in 1..n : XorBits(a, b)[k] = (a[k] + b[k]) % 2
    BY <1>1, <1>2, TwoBits DEF XorBits, Bits
  <1>4. \A k \in 1..n : (a[k] + XorBits(a, b)[k]) % 2 = b[k]
    BY <1>2, <1>3, TwoBits
  <1>5. XorBits(a, XorBits(a, b)) = [k \in 1..n |-> (a[k] + XorBits(a, b)[k]) % 2]
    BY <1>1 DEF XorBits
  <1>6. [k \in 1..n |-> (a[k] + XorBits(a, b)[k]) % 2] = b
    BY <1>4 DEF Bits
  <1>7. QED
    BY <1>3, <1>5, <1>6

\* What the S boxes make of half a block and a subkey is half a block.
LEMMA FBits ==
    ASSUME Tables, NEW s \in Bits(HALF), NEW Ki \in Bits(Len(E_Table))
    PROVE  F_func(s, Ki) \in Bits(HALF)
  <1>1. HALF \in Nat /\ E_Table \in Seq(1..HALF)
    BY DEF Tables
  <1>2. Len(E_Table) \in Nat /\ Transform(s, E_Table) \in Bits(Len(E_Table))
    BY <1>1, TransformBits
  <1>3. PICK x \in Bits(Len(E_Table)) : x = XorBits(Transform(s, E_Table), Ki)
    BY <1>2, XorTwice
  <1>4. \A k \in 1..HALF : S_func(x)[P_Table[k]] \in Bit
    BY DEF Tables
  <1>5. F_func(s, Ki) = [k \in 1..HALF |-> S_func(x)[P_Table[k]]]
    BY <1>3 DEF F_func, Transform, Tables
  <1>6. QED
    BY <1>4, <1>5 DEF Bits

Lower(m) == SubSeq(m, 1, HALF)
Upper(m) == SubSeq(m, HALF + 1, BLOCK)

\* A round of encryption or of decryption on m with the subkey Ki.
Turned(m, Ki, forward) ==
    IF forward THEN Upper(m) \o XorBits(F_func(Upper(m), Ki), Lower(m))
               ELSE XorBits(F_func(Lower(m), Ki), Upper(m)) \o Lower(m)

\* A block is its two halves.
LEMMA Halves ==
    ASSUME Tables, NEW m \in Bits(BLOCK)
    PROVE  /\ Lower(m) \in Bits(HALF) /\ Upper(m) \in Bits(HALF)
           /\ m = Lower(m) \o Upper(m)
  <1>1. HALF \in Nat \ {0} /\ BLOCK = HALF + HALF /\ BLOCK \in Nat
    BY DEF Tables, BLOCK
  <1>2. Lower(m) \in Bits(HALF) /\ \A k \in 1..HALF : Lower(m)[k] = m[k]
    <2>1. /\ 1 \in 1..(BLOCK + 1) /\ HALF \in 0..(BLOCK + 1 - 1) /\ 1 + HALF - 1 = HALF
          /\ \A k \in 1..HALF : 1 + k - 1 = k
      BY <1>1
    <2>2. /\ SubSeq(m, 1, 1 + HALF - 1) \in Bits(HALF)
          /\ \A k \in 1..HALF : SubSeq(m, 1, 1 + HALF - 1)[k] = m[1 + k - 1]
      BY <1>1, <2>1, Piece
    <2>3. QED
      BY <2>1, <2>2 DEF Lower
  <1>3. Upper(m) \in Bits(HALF) /\ \A k \in 1..HALF : Upper(m)[k] = m[HALF + k]
    <2>1. /\ HALF + 1 \in 1..(BLOCK + 1) /\ HALF \in 0..(BLOCK + 1 - (HALF + 1))
          /\ (HALF + 1) + HALF - 1 = BLOCK /\ \A k \in 1..HALF : HALF + 1 + k - 1 = HALF + k
      BY <1>1
    <2>2. /\ SubSeq(m, HALF + 1, (HALF + 1) + HALF - 1) \in Bits(HALF)
          /\ \A k \in 1..HALF : SubSeq(m, HALF + 1, (HALF + 1) + HALF - 1)[k] = m[HALF + 1 + k - 1]
      BY <1>1, <2>1, Piece
    <2>3. QED
      BY <2>1, <2>2 DEF Upper
  <1>4. PICK w : w = Lower(m) \o Upper(m)
    OBVIOUS
  <1>5. /\ w \in Bits(BLOCK)
        /\ \A k \in 1..HALF : w[k] = m[k] /\ w[HALF + k] = m[HALF + k]
    <2>1. PICK a \in Bits(HALF), b \in Bits(HALF) : a = Lower(m) /\ b = Upper(m) /\ w = a \o b
      BY <1>2, <1>3, <1>4
    <2>2. AreJoined(HALF, HALF, a, b)
      BY <1>1, Joined
    <2>3. QED
      BY <1>1, <1>2, <1>3, <2>1, <2>2 DEF AreJoined
  <1>6. \A k \in 1..BLOCK : w[k] = m[k]
    <2> TAKE k \in 1..BLOCK
    <2>1. CASE k <= HALF
      <3>1. k \in 1..HALF
        BY <1>1, <2>1
      <3>2. QED
        BY <1>5, <3>1
    <2>2. CASE k > HALF
      <3>1. k - HALF \in 1..HALF /\ HALF + (k - HALF) = k
        BY <1>1, <2>2
      <3>2. w[HALF + (k - HALF)] = m[HALF + (k - HALF)]
        BY <1>5, <3>1
      <3>3. QED
        BY <3>1, <3>2
    <2>3. k <= HALF \/ k > HALF
      BY <1>1
    <2>4. QED
      BY <2>1, <2>2, <2>3
  <1>7. w = m
    BY <1>1, <1>5, <1>6, SameBits
  <1>8. QED
    BY <1>2, <1>3, <1>4, <1>7

\* Two halves make a block, whose halves they are.
LEMMA JoinedHalves ==
    ASSUME Tables, NEW a \in Bits(HALF), NEW b \in Bits(HALF)
    PROVE  a \o b \in Bits(BLOCK) /\ Lower(a \o b) = a /\ Upper(a \o b) = b
  <1>1. HALF \in Nat \ {0} /\ BLOCK = HALF + HALF /\ BLOCK \in Nat
    BY DEF Tables, BLOCK
  <1>2. PICK w : w = a \o b
    OBVIOUS
  <1>3. /\ w \in Bits(BLOCK)
        /\ \A k \in 1..HALF : w[k] = a[k] /\ w[HALF + k] = b[k]
    <2>1. AreJoined(HALF, HALF, a, b)
      BY <1>1, Joined
    <2>2. QED
      BY <1>1, <1>2, <2>1 DEF AreJoined
  <1>4. Lower(w) = a
    <2>1. /\ 1 \in 1..(BLOCK + 1) /\ HALF \in 0..(BLOCK + 1 - 1) /\ 1 + HALF - 1 = HALF
          /\ \A k \in 1..HALF : 1 + k - 1 = k
      BY <1>1
    <2>2. /\ SubSeq(w, 1, 1 + HALF - 1) \in Bits(HALF)
          /\ \A k \in 1..HALF : SubSeq(w, 1, 1 + HALF - 1)[k] = w[1 + k - 1]
      BY <1>1, <1>3, <2>1, Piece
    <2>3. Lower(w) \in Bits(HALF) /\ \A k \in 1..HALF : Lower(w)[k] = a[k]
      BY <1>3, <2>1, <2>2 DEF Lower
    <2>4. QED
      BY <1>1, <2>3, SameBits
  <1>5. Upper(w) = b
    <2>1. /\ HALF + 1 \in 1..(BLOCK + 1) /\ HALF \in 0..(BLOCK + 1 - (HALF + 1))
          /\ (HALF + 1) + HALF - 1 = BLOCK /\ \A k \in 1..HALF : HALF + 1 + k - 1 = HALF + k
      BY <1>1
    <2>2. /\ SubSeq(w, HALF + 1, (HALF + 1) + HALF - 1) \in Bits(HALF)
          /\ \A k \in 1..HALF : SubSeq(w, HALF + 1, (HALF + 1) + HALF - 1)[k] = w[HALF + 1 + k - 1]
      BY <1>1, <1>3, <2>1, Piece
    <2>3. Upper(w) \in Bits(HALF) /\ \A k \in 1..HALF : Upper(w)[k] = b[k]
      BY <1>3, <2>1, <2>2 DEF Upper
    <2>4. QED
      BY <1>1, <2>3, SameBits
  <1>6. QED
    BY <1>2, <1>3, <1>4, <1>5

\* A round gives a block, and a round the other way with the same subkey gives back what it was given.
LEMMA TurnedBack ==
    ASSUME Tables, NEW m \in Bits(BLOCK), NEW Ki \in Bits(Len(E_Table)), NEW forward \in BOOLEAN
    PROVE  /\ Turned(m, Ki, forward) \in Bits(BLOCK)
           /\ Turned(Turned(m, Ki, forward), Ki, ~forward) = m
  <1>1. PICK L \in Bits(HALF), R \in Bits(HALF) : L = Lower(m) /\ R = Upper(m) /\ m = L \o R
    BY Halves
  <1>2. HALF \in Nat
    BY DEF Tables
  <1>3. CASE forward
    <2>1. PICK f \in Bits(HALF) : f = F_func(R, Ki)
      BY FBits
    <2>2. PICK x \in Bits(HALF) : x = XorBits(f, L) /\ XorBits(f, x) = L
      BY <1>2, XorTwice
    <2>3. Turned(m, Ki, forward) = R \o x
      BY <1>1, <1>3, <2>1, <2>2 DEF Turned
    <2>4. R \o x \in Bits(BLOCK) /\ Lower(R \o x) = R /\ Upper(R \o x) = x
      BY JoinedHalves
    <2>5. Turned(R \o x, Ki, ~forward) = L \o R
      BY <1>3, <2>1, <2>2, <2>4 DEF Turned
    <2>6. QED
      BY <1>1, <2>3, <2>4, <2>5
  <1>4. CASE ~forward
    <2>1. PICK f \in Bits(HALF) : f = F_func(L, Ki)
      BY FBits
    <2>2. PICK x \in Bits(HALF) : x = XorBits(f, R) /\ XorBits(f, x) = R
      BY <1>2, XorTwice
    <2>3. Turned(m, Ki, forward) = x \o L
      BY <1>1, <1>4, <2>1, <2>2 DEF Turned
    <2>4. x \o L \in Bits(BLOCK) /\ Lower(x \o L) = x /\ Upper(x \o L) = L
      BY JoinedHalves
    <2>5. Turned(x \o L, Ki, ~forward) = L \o R
      BY <1>4, <2>1, <2>2, <2>4 DEF Turned
    <2>6. QED
      BY <1>1, <2>3, <2>4, <2>5
  <1>5. QED
    BY <1>3, <1>4

-----------------------------------------------------------------------------
(***************************************************************************)
(* Texts of blocks.                                                        *)
(***************************************************************************)
\* A block is not empty.
LEMMA BlockLength ==
    ASSUME Tables
    PROVE  BLOCK \in Nat \ {0}
  BY DEF Tables, BLOCK

\* The n-th block's places in a text.
LEMMA Places ==
    ASSUME Tables, NEW n \in Nat \ {0}
    PROVE  /\ BLOCK * (n - 1) \in Nat /\ BLOCK * n \in Nat
           /\ BLOCK * n = BLOCK * (n - 1) + BLOCK
  <1>1. PICK b \in Nat \ {0} : b = BLOCK
    BY BlockLength
  <1>2. b * (n - 1) \in Nat /\ b * n \in Nat /\ b * n = b * (n - 1) + b
    OBVIOUS
  <1>3. QED
    BY <1>1, <1>2

\* One block ends before a later one begins.
LEMMA Apart ==
    ASSUME Tables, NEW n \in Nat, NEW m \in Nat, n <= m
    PROVE  BLOCK * n <= BLOCK * m
  <1>1. PICK b \in Nat \ {0} : b = BLOCK
    BY BlockLength
  <1>2. PICK d \in Nat : m = n + d
    <2>1. m - n \in Nat /\ m = n + (m - n)
      OBVIOUS
    <2>2. QED
      BY <2>1
  <1>3. b * m = b * n + b * d /\ b * d >= 0
    BY <1>2
  <1>4. b * n \in Nat /\ b * d \in Nat /\ b * m \in Nat
    OBVIOUS
  <1>5. QED
    BY <1>1, <1>3, <1>4

\* A block that lies within a text is its bits there.
LEMMA Cut ==
    ASSUME Tables, NEW text \in Seq(Bit), NEW n \in Nat \ {0}, BLOCK * n <= Len(text)
    PROVE  /\ Block(text, n) \in Bits(BLOCK)
           /\ \A k \in 1..BLOCK : Block(text, n)[k] = text[BLOCK * (n - 1) + k]
  <1>1. PICK c \in Nat : c = BLOCK * (n - 1) /\ BLOCK * n = c + BLOCK
    BY Places
  <1>2. PICK l \in Nat : l = Len(text) /\ text \in Bits(l) /\ c + BLOCK <= l
    BY <1>1, FromSequence
  <1>3. /\ c + 1 \in 1..(l + 1) /\ BLOCK \in 0..(l + 1 - (c + 1)) /\ (c + 1) + BLOCK - 1 = c + BLOCK
        /\ \A k \in 1..BLOCK : (c + 1) + k - 1 = c + k
    BY <1>2, BlockLength
  <1>4. /\ SubSeq(text, c + 1, (c + 1) + BLOCK - 1) \in Bits(BLOCK)
        /\ \A k \in 1..BLOCK : SubSeq(text, c + 1, (c + 1) + BLOCK - 1)[k] = text[(c + 1) + k - 1]
    BY <1>2, <1>3, Piece
  <1>5. Block(text, n) = SubSeq(text, c + 1, c + BLOCK)
    BY <1>1 DEF Block
  <1>6. QED
    BY <1>1, <1>3, <1>4, <1>5

\* What a text of blocks is when one more block is written behind the first n.
IsExtended(text, n, w, t) ==
    /\ t \in Seq(Bit) /\ Len(t) = BLOCK * (n + 1)
    /\ Block(t, n + 1) = w
    /\ \A m \in 1..n : Block(t, m) = Block(text, m)

\* DesEncrypt and DesDecrypt write a block behind those written before, and leave those alone.
LEMMA Extended ==
    ASSUME Tables, NEW text \in Seq(Bit), NEW n \in Nat, BLOCK * n <= Len(text), NEW w \in Bits(BLOCK)
    PROVE  IsExtended(text, n, w, SubSeq(text, 1, BLOCK * n) \o w)
  <1>0. PICK t : t = SubSeq(text, 1, BLOCK * n) \o w
    OBVIOUS
  <1>1. PICK b \in Nat \ {0} : b = BLOCK
    BY BlockLength
  <1>2. PICK c \in Nat : c = BLOCK * n /\ BLOCK * (n + 1) = c + b
    <2>1. n + 1 \in Nat \ {0} /\ n + 1 - 1 = n
      OBVIOUS
    <2>2. /\ BLOCK * (n + 1 - 1) \in Nat /\ BLOCK * (n + 1) = BLOCK * (n + 1 - 1) + BLOCK
      BY <2>1, Places
    <2>3. QED
      BY <1>1, <2>1, <2>2
  <1>3. PICK a \in Bits(c) : a = SubSeq(text, 1, c) /\ \A k \in 1..c : a[k] = text[k]
    <2>1. PICK l \in Nat : l = Len(text) /\ text \in Bits(l) /\ c <= l
      BY <1>2, FromSequence
    <2>2. /\ 1 \in 1..(l + 1) /\ c \in 0..(l + 1 - 1) /\ 1 + c - 1 = c /\ \A k \in 1..c : 1 + k - 1 = k
      BY <2>1
    <2>3. /\ SubSeq(text, 1, 1 + c - 1) \in Bits(c)
          /\ \A k \in 1..c : SubSeq(text, 1, 1 + c - 1)[k] = text[1 + k - 1]
      BY <2>1, <2>2, Piece
    <2>4. QED
      BY <2>2, <2>3
  <1>4. /\ t \in Bits(c + b) /\ \A k \in 1..c : t[k] = text[k]
        /\ \A k \in 1..b : t[c + k] = w[k]
    <2>1. AreJoined(c, b, a, w)
      BY <1>1, Joined
    <2>2. t = a \o w
      BY <1>0, <1>2, <1>3
    <2>3. QED
      BY <1>3, <2>1, <2>2 DEF AreJoined
  <1>5. t \in Seq(Bit) /\ Len(t) = BLOCK * (n + 1)
    <2>1. PICK e \in Nat : e = c + b
      BY <1>1
    <2>2. t \in Seq(Bit) /\ Len(t) = e
      BY <1>4, <2>1, Sequence
    <2>3. QED
      BY <1>2, <2>1, <2>2
  <1>6. Block(t, n + 1) = w
    <2>1. PICK x \in Nat \ {0} : x = n + 1 /\ x - 1 = n
      OBVIOUS
    <2>2. BLOCK * x <= Len(t) /\ BLOCK * (x - 1) = c
      BY <1>1, <1>2, <1>5, <2>1
    <2>3. /\ Block(t, x) \in Bits(BLOCK)
          /\ \A k \in 1..BLOCK : Block(t, x)[k] = t[BLOCK * (x - 1) + k]
      BY <1>5, <2>2, Cut
    <2>4. BLOCK \in Nat /\ \A k \in 1..BLOCK : Block(t, x)[k] = w[k]
      BY <1>1, <1>4, <2>2, <2>3
    <2>5. Block(t, x) = w
      BY <2>3, <2>4, SameBits
    <2>6. QED
      BY <2>1, <2>5
  <1>7. ASSUME NEW m \in 1..n
        PROVE  Block(t, m) = Block(text, m)
    <2>1. PICK d \in Nat : d = BLOCK * (m - 1) /\ BLOCK * m = d + b
      BY <1>1, Places
    <2>2. d + b <= c
      <3>1. m \in Nat /\ m <= n
        OBVIOUS
      <3>2. BLOCK * m <= BLOCK * n
        BY <3>1, Apart
      <3>3. QED
        BY <1>2, <2>1, <3>2
    <2>3. m \in Nat \ {0} /\ BLOCK * m <= Len(text) /\ BLOCK * m <= Len(t)
      BY <1>2, <1>5, <2>1, <2>2, LenProperties
    <2>4. /\ Block(t, m) \in Bits(BLOCK) /\ Block(text, m) \in Bits(BLOCK)
          /\ \A k \in 1..BLOCK : Block(t, m)[k] = t[d + k] /\ Block(text, m)[k] = text[d + k]
      BY <1>5, <2>1, <2>3, Cut
    <2>5. \A k \in 1..BLOCK : t[d + k] = text[d + k]
      <3> TAKE k \in 1..BLOCK
      <3>1. k \in 1..b
        BY <1>1
      <3>2. d + k \in 1..c
        BY <2>2, <3>1
      <3>3. QED
        BY <1>4, <3>2
    <2>6. BLOCK \in Nat /\ \A k \in 1..BLOCK : Block(t, m)[k] = Block(text, m)[k]
      BY <1>1, <2>4, <2>5
    <2>7. QED
      BY <2>4, <2>6, SameBits
  <1>8. QED
    BY <1>0, <1>5, <1>6, <1>7 DEF IsExtended

\* A text that has the first n blocks of another is its beginning.
LEMMA SameText ==
    ASSUME Tables, NEW s \in Seq(Bit), NEW t \in Seq(Bit), NEW n \in Nat,
           Len(t) = BLOCK * n, BLOCK * n <= Len(s),
           \A m \in 1..n : Block(t, m) = Block(s, m)
    PROVE  t = SubSeq(s, 1, BLOCK * n)
  <1>1. PICK b \in Nat \ {0} : b = BLOCK
    BY BlockLength
  <1>2. PICK c \in Nat : c = BLOCK * n
    BY <1>1
  <1>3. SubSeq(s, 1, c) \in Bits(c) /\ \A k \in 1..c : SubSeq(s, 1, c)[k] = s[k]
    <2>1. PICK l \in Nat : l = Len(s) /\ s \in Bits(l) /\ c <= l
      BY <1>2, FromSequence
    <2>2. /\ 1 \in 1..(l + 1) /\ c \in 0..(l + 1 - 1) /\ 1 + c - 1 = c /\ \A k \in 1..c : 1 + k - 1 = k
      BY <2>1
    <2>3. /\ SubSeq(s, 1, 1 + c - 1) \in Bits(c)
          /\ \A k \in 1..c : SubSeq(s, 1, 1 + c - 1)[k] = s[1 + k - 1]
      BY <2>1, <2>2, Piece
    <2>4. QED
      BY <2>2, <2>3
  <1>4. ASSUME NEW i \in 1..c
        PROVE  t[i] = s[i]
    <2>1. PICK q \in Nat, k \in 1..b : i = b * q + k
      <3>1. PICK j \in Nat : i = j + 1
        <4>1. i - 1 \in Nat /\ i = (i - 1) + 1
          OBVIOUS
        <4>2. QED
          BY <4>1
      <3>2. j \div b \in Nat /\ j % b \in 0..(b - 1) /\ j = (b * (j \div b)) + (j % b)
        OBVIOUS
      <3>3. PICK x \in Nat, y \in 0..(b - 1) : i = (b * x + y) + 1
        BY <3>1, <3>2
      <3>4. PICK z \in Nat : z = b * x
        OBVIOUS
      <3>5. y + 1 \in 1..b /\ i = z + (y + 1)
        BY <3>3, <3>4
      <3>6. QED
        BY <3>4, <3>5
    <2>2. q < n
      <3> SUFFICES ASSUME n <= q PROVE FALSE
        OBVIOUS
      <3>1. BLOCK * n <= BLOCK * q
        BY Apart
      <3>2. PICK e \in Nat : e = BLOCK * q /\ i = e + k
        BY <1>1, <2>1
      <3>3. QED
        BY <1>2, <3>1, <3>2
    <2>3. q + 1 \in 1..n /\ q + 1 \in Nat \ {0} /\ q + 1 - 1 = q
      BY <2>2
    <2>4. BLOCK * (q + 1) <= c
      BY <1>2, <2>3, Apart
    <2>5. k \in 1..BLOCK /\ BLOCK * (q + 1) <= Len(t) /\ BLOCK * (q + 1) <= Len(s)
      <3>1. BLOCK * (q + 1) \in Nat /\ Len(s) \in Nat
        BY <2>3, Places, LenProperties
      <3>2. QED
        BY <1>1, <1>2, <2>4, <3>1
    <2>6. /\ Block(t, q + 1)[k] = t[BLOCK * (q + 1 - 1) + k]
          /\ Block(s, q + 1)[k] = s[BLOCK * (q + 1 - 1) + k]
      BY <2>3, <2>5, Cut
    <2>7. i = BLOCK * (q + 1 - 1) + k
      BY <1>1, <2>1, <2>3
    <2>8. QED
      BY <2>3, <2>6, <2>7
  <1>5. t \in Bits(c)
    BY <1>2, FromSequence
  <1>6. QED
    BY <1>2, <1>3, <1>4, <1>5, SameBits

\* The two permutations of a block undo each other.
LEMMA Permuted ==
    ASSUME Tables, NEW m \in Bits(BLOCK)
    PROVE  /\ Transform(m, IP_Table) \in Bits(BLOCK) /\ Transform(m, IPR_Table) \in Bits(BLOCK)
           /\ Transform(Transform(m, IPR_Table), IP_Table) = m
           /\ Transform(Transform(m, IP_Table), IPR_Table) = m
  <1>1. BLOCK \in Nat
    BY BlockLength
  <1>2. /\ IP_Table \in Seq(1..BLOCK) /\ Len(IP_Table) = BLOCK
        /\ IPR_Table \in Seq(1..BLOCK) /\ Len(IPR_Table) = BLOCK
        /\ \A k \in 1..BLOCK : IP_Table[IPR_Table[k]] = k /\ IPR_Table[IP_Table[k]] = k
    BY DEF Tables
  <1>3. \A k \in 1..BLOCK : IP_Table[k] \in 1..BLOCK /\ IPR_Table[k] \in 1..BLOCK
    BY <1>2, ElementOfSeq
  <1>0. ASSUME NEW x \in Bits(BLOCK), NEW T \in {IP_Table, IPR_Table}
        PROVE  Transform(x, T) \in Bits(BLOCK) /\ \A k \in 1..BLOCK : Transform(x, T)[k] = x[T[k]]
    <2>1. T \in Seq(1..BLOCK) /\ Len(T) = BLOCK
      BY <1>2
    <2>2. QED
      BY <1>1, <2>1, TransformBits
  <1>4. PICK a \in Bits(BLOCK) : a = Transform(m, IP_Table) /\ \A k \in 1..BLOCK : a[k] = m[IP_Table[k]]
    BY <1>0
  <1>5. PICK b \in Bits(BLOCK) : b = Transform(m, IPR_Table) /\ \A k \in 1..BLOCK : b[k] = m[IPR_Table[k]]
    BY <1>0
  <1>6. PICK c \in Bits(BLOCK) : c = Transform(b, IP_Table) /\ \A k \in 1..BLOCK : c[k] = b[IP_Table[k]]
    BY <1>0
  <1>7. PICK d \in Bits(BLOCK) : d = Transform(a, IPR_Table) /\ \A k \in 1..BLOCK : d[k] = a[IPR_Table[k]]
    BY <1>0
  <1>8. c = m
    <2>1. \A k \in 1..BLOCK : c[k] = m[k]
      <3> TAKE k \in 1..BLOCK
      <3>1. PICK j \in 1..BLOCK : j = IP_Table[k] /\ IPR_Table[j] = k
        BY <1>2, <1>3
      <3>2. c[k] = b[j] /\ b[j] = m[k]
        BY <1>5, <1>6, <3>1
      <3>3. QED
        BY <3>2
    <2>2. QED
      BY <1>1, <2>1, SameBits
  <1>9. d = m
    <2>1. \A k \in 1..BLOCK : d[k] = m[k]
      <3> TAKE k \in 1..BLOCK
      <3>1. PICK j \in 1..BLOCK : j = IPR_Table[k] /\ IP_Table[j] = k
        BY <1>2, <1>3
      <3>2. d[k] = a[j] /\ a[j] = m[k]
        BY <1>4, <1>7, <3>1
      <3>3. QED
        BY <3>2
    <2>2. QED
      BY <1>1, <2>1, SameBits
  <1>10. QED
    BY <1>4, <1>5, <1>6, <1>7, <1>8, <1>9

-----------------------------------------------------------------------------
(***************************************************************************)
(* The inductive invariant: what the trail of a block holds, which of its  *)
(* values M is, and what has been written.                                 *)
(***************************************************************************)
Count == IF Is3DES THEN 3 ELSE 1

\* Where the value after r rounds of the encryption's pass p stands in a block's trail.
At(p, r) == (p - 1) * (ROUNDS + 1) + r + 1

\* The subkeys of the encryption's passes, each in the order of its rounds: of the three
\* passes the second has the other key, and goes the other way.
Schedule ==
    [p \in 1..3 |-> [r \in 1..ROUNDS |->
        SubKey(Key(IF p = 2 THEN 1 ELSE 0), IF p # 2 THEN r ELSE ROUNDS + 1 - r)]]

\* What the value after r rounds of pass p is made of, in the trail t of the block w.
Link(t, w, keys, p, r) ==
    /\ r = 0 /\ p = 1 => t[At(p, r)] = Transform(w, IP_Table)
    /\ r = 0 /\ p > 1 => t[At(p, r)] = t[At(p - 1, ROUNDS)]
    /\ r > 0 => t[At(p, r)] = Turned(t[At(p, r - 1)], keys[p][r], p # 2)

\* t is the trail of the block w, as far as it has been laid.
Chain(t, w, keys) ==
    \A p \in 1..3, r \in 0..ROUNDS : At(p, r) <= Len(t) => Link(t, w, keys, p, r)

Typed ==
    /\ phase \in {"encrypt", "decrypt", "done", "refused"}
    /\ pKey \in Seq(Bit) /\ orig \in Seq(Bit) /\ from \in Seq(Bit) /\ to \in Seq(Bit)
    /\ size \in Nat /\ block \in 1..(Blocks + 1) /\ pass \in 1..Count /\ round \in -1..ROUNDS
    /\ trail \in [1..Blocks -> Seq(Bits(BLOCK))]

\* Only within a block is there a pass or a round.
Within ==
    round >= 0 \/ pass > 1 => block <= Blocks /\ phase \in {"encrypt", "decrypt"}

\* How far the trail of block n has been laid.
Laid(n) == IF phase = "refused" THEN 0
           ELSE IF phase # "encrypt" \/ n < block THEN At(Count, ROUNDS)
           ELSE IF n = block THEN At(pass, round) ELSE 0

Trails == \A n \in 1..Blocks : Len(trail[n]) = Laid(n) /\ Chain(trail[n], Block(orig, n), Schedule)

\* M is the value laid last, and on the way back the one that mirrors it.
Mirrors ==
    round >= 0 => M = trail[block][IF phase = "encrypt" THEN At(pass, round)
                                   ELSE At(Count + 1 - pass, ROUNDS - round)]

Coded(m) == Transform(m, IPR_Table)
Last(n) == trail[n][At(Count, ROUNDS)]

\* What has been written of each block, and what is read.
Written ==
    /\ Len(orig) = BLOCK * Blocks /\ Len(from) = BLOCK * Blocks
    /\ Len(to) = BLOCK * (IF pass = 1 THEN block - 1 ELSE block)
    /\ phase = "encrypt" => from = orig
    /\ \A n \in 1..(block - 1) : Block(to, n) = IF phase = "encrypt" THEN Coded(Last(n)) ELSE Block(orig, n)
    /\ phase = "decrypt" => \A n \in 1..Blocks : Block(from, n) = Coded(Last(n))
    /\ pass > 1 /\ round = -1 =>
          Block(to, block) = Coded(trail[block][IF phase = "encrypt" THEN At(pass - 1, ROUNDS)
                                                ELSE At(Count + 2 - pass, 0)])
    /\ phase = "done" => block = Blocks + 1

IInv == Typed /\ Within /\ Trails /\ Mirrors /\ Written

-----------------------------------------------------------------------------
(***************************************************************************)
(* Facts about a state of the right shape.                                 *)
(***************************************************************************)
\* The numbers of a call, and what its pass does: which key, and in which direction.
LEMMA Shape ==
    ASSUME Tables, Typed
    PROVE  /\ ROUNDS \in Nat /\ BLOCK \in Nat \ {0} /\ Blocks \in Nat
           /\ block \in Nat \ {0} /\ block <= Blocks + 1
           /\ Count \in {1, 3} /\ pass \in 1..3 /\ pass <= Count /\ Len(Passes) = Count
           /\ Passes[pass] = <<IF pass = 2 THEN 1 ELSE 0, IF pass = 2 THEN Other ELSE phase>>
  <1>1. ROUNDS \in Nat /\ BLOCK \in Nat \ {0}
    BY BlockLength DEF Tables
  <1>2. Blocks \in Nat
    BY DEF Typed, Blocks, Rounded
  <1>3. block \in Nat \ {0} /\ block <= Blocks + 1
    BY <1>2 DEF Typed
  <1>4. CASE Is3DES
    <2>1. Count = 3 /\ pass \in 1..3
      BY <1>4 DEF Count, Typed
    <2>2. Passes = <<<<0, phase>>, <<1, Other>>, <<0, phase>>>>
      BY <1>4 DEF Passes
    <2>3. Len(Passes) = 3
      BY <2>2
    <2>4. Passes[1] = <<0, phase>> /\ Passes[2] = <<1, Other>> /\ Passes[3] = <<0, phase>>
      BY <2>2
    <2>5. QED
      BY <1>1, <1>2, <1>3, <2>1, <2>3, <2>4
  <1>5. CASE ~Is3DES
    <2>1. Count = 1 /\ pass = 1
      BY <1>5 DEF Count, Typed
    <2>2. Passes = <<<<0, phase>>>>
      BY <1>5 DEF Passes
    <2>3. QED
      BY <1>1, <1>2, <1>3, <2>1, <2>2
  <1>6. QED
    BY <1>4, <1>5

\* Where the values of the three passes stand.
LEMMA AtIs ==
    ASSUME Tables, NEW r \in Int
    PROVE  At(1, r) = r + 1 /\ At(2, r) = ROUNDS + r + 2 /\ At(3, r) = 2 * ROUNDS + r + 3
  BY DEF At, Tables

\* No two values stand in one place.
LEMMA OnePlace ==
    ASSUME Tables, NEW p \in 1..3, NEW r \in 0..ROUNDS, NEW x \in 1..3, NEW y \in 0..ROUNDS,
           At(p, r) = At(x, y)
    PROVE  p = x /\ r = y
  <1>1. ROUNDS \in Nat /\ r \in Int /\ y \in Int
    BY DEF Tables
  <1>2. /\ At(1, r) = r + 1 /\ At(2, r) = ROUNDS + r + 2 /\ At(3, r) = 2 * ROUNDS + r + 3
        /\ At(1, y) = y + 1 /\ At(2, y) = ROUNDS + y + 2 /\ At(3, y) = 2 * ROUNDS + y + 3
    BY <1>1, AtIs
  <1>3. p \in {1, 2, 3} /\ x \in {1, 2, 3}
    OBVIOUS
  <1>4. QED
    BY <1>1, <1>2, <1>3

\* The value a link names stands before the value it makes.
LEMMA Before ==
    ASSUME Tables, NEW p \in 1..3, NEW r \in 0..ROUNDS
    PROVE  /\ At(p, r) \in Nat \ {0}
           /\ r > 0 => At(p, r - 1) = At(p, r) - 1 /\ At(p, r - 1) \in Nat \ {0} /\ r - 1 \in 0..ROUNDS
           /\ r = 0 /\ p > 1 => /\ At(p - 1, ROUNDS) = At(p, r) - 1 /\ At(p - 1, ROUNDS) \in Nat \ {0}
                                /\ p - 1 \in 1..3
  <1>1. ROUNDS \in Nat /\ r \in Int /\ r - 1 \in Int /\ ROUNDS \in Int
    BY DEF Tables
  <1>2. /\ At(1, r) = r + 1 /\ At(2, r) = ROUNDS + r + 2 /\ At(3, r) = 2 * ROUNDS + r + 3
        /\ At(1, r - 1) = r /\ At(2, r - 1) = ROUNDS + r + 1 /\ At(3, r - 1) = 2 * ROUNDS + r + 2
        /\ At(1, ROUNDS) = ROUNDS + 1 /\ At(2, ROUNDS) = 2 * ROUNDS + 2
    BY <1>1, AtIs
  <1>3. p \in {1, 2, 3}
    OBVIOUS
  <1>4. At(p, r) \in Nat \ {0}
    BY <1>1, <1>2, <1>3
  <1>5. r > 0 => At(p, r - 1) = At(p, r) - 1 /\ At(p, r - 1) \in Nat \ {0} /\ r - 1 \in 0..ROUNDS
    BY <1>1, <1>2, <1>3
  <1>6. r = 0 /\ p > 1 => /\ At(p - 1, ROUNDS) = At(p, r) - 1 /\ At(p - 1, ROUNDS) \in Nat \ {0}
                          /\ p - 1 \in 1..3
    <2>1. CASE p = 1
      BY <2>1
    <2>2. CASE p = 2
      <3>1. p - 1 = 1
        BY <2>2
      <3>2. QED
        BY <1>1, <1>2, <2>2, <3>1
    <2>3. CASE p = 3
      <3>1. p - 1 = 2
        BY <2>3
      <3>2. QED
        BY <1>1, <1>2, <2>3, <3>1
    <2>4. QED
      BY <1>3, <2>1, <2>2, <2>3
  <1>7. QED
    BY <1>4, <1>5, <1>6

\* Every subkey of the schedule is what the S boxes take.
LEMMA ScheduleBits ==
    ASSUME Tables, Typed, NEW p \in 1..3, NEW r \in 1..ROUNDS
    PROVE  /\ Schedule[p][r] = SubKey(Key(IF p = 2 THEN 1 ELSE 0), IF p # 2 THEN r ELSE ROUNDS + 1 - r)
           /\ Schedule[p][r] \in Bits(Len(E_Table))
  <1>1. KEYBITS \in Nat \ {0} /\ ROUNDS \in Nat
    BY DEF Tables
  <1>2. PICK d \in Bits(2 * KEYBITS) : d = deskey
    <2>1. \A k \in 1..(2 * KEYBITS) : deskey[k] \in Bit
      <3> TAKE k \in 1..(2 * KEYBITS)
      <3>1. deskey[k] = IF k <= Len(pKey) THEN pKey[k] ELSE 0
        BY DEF deskey
      <3>2. CASE k <= Len(pKey)
        <4>1. pKey \in Seq(Bit) /\ Len(pKey) \in Nat
          BY LenProperties DEF Typed
        <4>2. k \in 1..Len(pKey)
          BY <1>1, <3>2, <4>1
        <4>3. pKey[k] \in Bit
          BY <4>1, <4>2, ElementOfSeq
        <4>4. QED
          BY <3>1, <3>2, <4>3
      <3>3. CASE ~(k <= Len(pKey))
        BY <3>1, <3>3 DEF Bit
      <3>4. QED
        BY <3>2, <3>3
    <2>2. QED
      BY <2>1 DEF deskey, Bits
  <1>3. SubSeq(d, 1, KEYBITS) \in Bits(KEYBITS)
    <2>1. /\ 1 \in 1..(2 * KEYBITS + 1) /\ KEYBITS \in 0..(2 * KEYBITS + 1 - 1) /\ 1 + KEYBITS - 1 = KEYBITS
          /\ 2 * KEYBITS \in Nat
      BY <1>1
    <2>2. SubSeq(d, 1, 1 + KEYBITS - 1) \in Bits(KEYBITS)
      BY <2>1, Piece
    <2>3. QED
      BY <2>1, <2>2
  <1>4. SubSeq(d, KEYBITS + 1, 2 * KEYBITS) \in Bits(KEYBITS)
    <2>1. /\ KEYBITS + 1 \in 1..(2 * KEYBITS + 1) /\ KEYBITS \in 0..(2 * KEYBITS + 1 - (KEYBITS + 1))
          /\ (KEYBITS + 1) + KEYBITS - 1 = 2 * KEYBITS /\ 2 * KEYBITS \in Nat
      BY <1>1
    <2>2. SubSeq(d, KEYBITS + 1, (KEYBITS + 1) + KEYBITS - 1) \in Bits(KEYBITS)
      BY <2>1, Piece
    <2>3. QED
      BY <2>1, <2>2
  <1>5. PICK k \in Bits(KEYBITS) : k = Key(IF p = 2 THEN 1 ELSE 0)
    BY <1>2, <1>3, <1>4 DEF Key
  <1>6. PICK i \in 0..ROUNDS : i = IF p # 2 THEN r ELSE ROUNDS + 1 - r
    <2>1. (IF p # 2 THEN r ELSE ROUNDS + 1 - r) \in 0..ROUNDS
      BY <1>1
    <2>2. QED
      BY <2>1
  <1>7. SubKey(k, i) \in Bits(Len(E_Table))
    BY SubKeyBits
  <1>8. Schedule[p][r] = SubKey(Key(IF p = 2 THEN 1 ELSE 0), IF p # 2 THEN r ELSE ROUNDS + 1 - r)
    BY DEF Schedule
  <1>9. QED
    BY <1>5, <1>6, <1>7, <1>8

\* One more value at the end of a trail.
LEMMA ChainGrows ==
    ASSUME Tables, NEW S, NEW t \in Seq(S), NEW v \in S, NEW w, NEW keys,
           NEW p \in 1..3, NEW r \in 0..ROUNDS,
           Len(t) = At(p, r) - 1, Chain(t, w, keys), Link(Append(t, v), w, keys, p, r)
    PROVE  Chain(Append(t, v), w, keys)
  <1>1. PICK a \in Nat \ {0} : a = At(p, r) /\ Len(t) = a - 1
    BY Before
  <1>2. PICK u \in Seq(S) : /\ u = Append(t, v) /\ Len(u) = a /\ \A i \in 1..(a - 1) : u[i] = t[i]
    <2>1. /\ Append(t, v) \in Seq(S) /\ Len(Append(t, v)) = Len(t) + 1
          /\ \A i \in 1..Len(t) : Append(t, v)[i] = t[i]
      BY AppendProperties
    <2>2. Len(Append(t, v)) = a
      BY <1>1, <2>1
    <2>3. QED
      BY <1>1, <2>1, <2>2
  <1>3. ASSUME NEW x \in 1..3, NEW y \in 0..ROUNDS, At(x, y) <= a
        PROVE  Link(u, w, keys, x, y)
    <2>1. CASE At(x, y) = a
      <3>1. x = p /\ y = r
        BY <1>1, <2>1, OnePlace
      <3>2. QED
        BY <1>2, <3>1
    <2>2. CASE At(x, y) # a
      <3>1. PICK b \in Nat \ {0} : b = At(x, y) /\ b <= a - 1
        <4>1. PICK b \in Nat \ {0} : b = At(x, y)
          BY Before
        <4>2. b <= a - 1
          BY <1>3, <2>2, <4>1
        <4>3. QED
          BY <4>1, <4>2
      <3>2. Link(t, w, keys, x, y)
        BY <1>1, <3>1 DEF Chain
      <3>3. u[b] = t[b]
        BY <1>2, <3>1
      <3>4. y > 0 => u[At(x, y - 1)] = t[At(x, y - 1)]
        <4> SUFFICES ASSUME y > 0 PROVE u[At(x, y - 1)] = t[At(x, y - 1)]
          OBVIOUS
        <4>1. At(x, y - 1) = b - 1 /\ b - 1 \in Nat \ {0}
          <5>1. At(x, y - 1) = At(x, y) - 1 /\ At(x, y - 1) \in Nat \ {0}
            BY Before
          <5>2. QED
            BY <3>1, <5>1
        <4>2. b - 1 \in 1..(a - 1)
          BY <3>1, <4>1
        <4>3. QED
          BY <1>2, <4>1, <4>2
      <3>5. y = 0 /\ x > 1 => u[At(x - 1, ROUNDS)] = t[At(x - 1, ROUNDS)]
        <4> SUFFICES ASSUME y = 0, x > 1 PROVE u[At(x - 1, ROUNDS)] = t[At(x - 1, ROUNDS)]
          OBVIOUS
        <4>1. At(x - 1, ROUNDS) = b - 1 /\ b - 1 \in Nat \ {0}
          <5>1. At(x - 1, ROUNDS) = At(x, y) - 1 /\ At(x - 1, ROUNDS) \in Nat \ {0}
            BY Before
          <5>2. QED
            BY <3>1, <5>1
        <4>2. b - 1 \in 1..(a - 1)
          BY <3>1, <4>1
        <4>3. QED
          BY <1>2, <4>1, <4>2
      <3>6. QED
        BY <3>1, <3>2, <3>3, <3>4, <3>5 DEF Link
    <2>3. QED
      BY <2>1, <2>2
  <1>4. QED
    BY <1>2, <1>3 DEF Chain

\* A round of the program, in terms of the encryption's rounds.
LEMMA RoundTurns ==
    ASSUME Tables, Typed, Within, Round
    PROVE  \E p \in 1..3, r \in 1..ROUNDS :
              /\ p = IF phase = "encrypt" THEN pass ELSE Count + 1 - pass
              /\ r = IF phase = "encrypt" THEN round + 1 ELSE ROUNDS - round
              /\ M' = Turned(M, Schedule[p][r], IF phase = "encrypt" THEN p # 2 ELSE p = 2)
  <1>1. /\ ROUNDS \in Nat /\ round \in 0..(ROUNDS - 1) /\ phase \in {"encrypt", "decrypt"}
        /\ Count \in {1, 3} /\ pass \in 1..3 /\ pass <= Count
        /\ Passes[pass][1] = (IF pass = 2 THEN 1 ELSE 0)
        /\ Passes[pass][2] = (IF pass = 2 THEN Other ELSE phase)
    BY Shape DEF Round, Within
  <1>2. PICK p \in 1..3, r \in 1..ROUNDS :
              /\ p = IF phase = "encrypt" THEN pass ELSE Count + 1 - pass
              /\ r = IF phase = "encrypt" THEN round + 1 ELSE ROUNDS - round
              /\ p = 2 <=> pass = 2
    <2>1. (IF phase = "encrypt" THEN pass ELSE Count + 1 - pass) \in 1..3
      BY <1>1
    <2>2. (IF phase = "encrypt" THEN round + 1 ELSE ROUNDS - round) \in 1..ROUNDS
      BY <1>1
    <2>3. (IF phase = "encrypt" THEN pass ELSE Count + 1 - pass) = 2 <=> pass = 2
      BY <1>1
    <2>4. QED
      BY <2>1, <2>2, <2>3
  <1>3. Encrypting <=> (IF phase = "encrypt" THEN p # 2 ELSE p = 2)
    BY <1>1, <1>2 DEF Encrypting, Other
  <1>4. KeyOf = IF p # 2 THEN r ELSE ROUNDS + 1 - r
    BY <1>1, <1>2, <1>3 DEF KeyOf
  <1>5. Schedule[p][r] = SubKey(Key(Passes[pass][1]), KeyOf)
    BY <1>1, <1>2, <1>4, ScheduleBits
  <1>6. M' = Turned(M, SubKey(Key(Passes[pass][1]), KeyOf), Encrypting)
    BY DEF Round, Turned, Lower, Upper, Li, Ri
  <1>7. M' = Turned(M, Schedule[p][r], IF phase = "encrypt" THEN p # 2 ELSE p = 2)
    <2>1. CASE Encrypting
      BY <1>3, <1>5, <1>6, <2>1 DEF Turned
    <2>2. CASE ~Encrypting
      BY <1>3, <1>5, <1>6, <2>2 DEF Turned
    <2>3. QED
      BY <2>1, <2>2
  <1>8. QED
    BY <1>2, <1>7

-----------------------------------------------------------------------------
(***************************************************************************)
(* Every step keeps the invariant.                                         *)
(***************************************************************************)
\* What depends on the key and the size does not change within a call.
LEMMA Kept ==
    ASSUME pKey' = pKey, size' = size
    PROVE  Count' = Count /\ Blocks' = Blocks /\ Schedule' = Schedule
  <1>1. Count' = Count
    BY DEF Count, Is3DES
  <1>2. Blocks' = Blocks
    BY DEF Blocks, Rounded
  <1>3. deskey' = deskey
    BY DEF deskey
  <1>4. \A i \in {0, 1} : Key(i)' = Key(i)
    BY <1>3 DEF Key
  <1>5. Schedule' = Schedule
    BY <1>4 DEF Schedule
  <1>6. QED
    BY <1>1, <1>2, <1>5

\* Whatever a trail holds is a block.
LEMMA TrailBits ==
    ASSUME Tables, Typed, NEW n \in 1..Blocks
    PROVE  /\ trail[n] \in Seq(Bits(BLOCK)) /\ Len(trail[n]) \in Nat
           /\ \A i \in 1..Len(trail[n]) : trail[n][i] \in Bits(BLOCK)
  <1>1. trail[n] \in Seq(Bits(BLOCK))
    BY DEF Typed
  <1>2. QED
    BY <1>1, ElementOfSeq, LenProperties

\* The places of a pass lie before the end of every later one.
LEMMA AtMost ==
    ASSUME Tables, NEW p \in 1..3, NEW q \in 1..3, p <= q, NEW r \in 0..ROUNDS
    PROVE  At(p, r) \in Nat \ {0} /\ At(q, ROUNDS) \in Nat \ {0} /\ At(p, r) <= At(q, ROUNDS)
  <1>1. ROUNDS \in Nat /\ r \in Int /\ ROUNDS \in Int
    BY DEF Tables
  <1>2. /\ At(1, r) = r + 1 /\ At(2, r) = ROUNDS + r + 2 /\ At(3, r) = 2 * ROUNDS + r + 3
        /\ At(1, ROUNDS) = ROUNDS + 1 /\ At(2, ROUNDS) = 2 * ROUNDS + 2 /\ At(3, ROUNDS) = 3 * ROUNDS + 3
    BY <1>1, AtIs
  <1>3. p \in {1, 2, 3} /\ q \in {1, 2, 3}
    OBVIOUS
  <1>4. QED
    BY <1>1, <1>2, <1>3

\* Before a pass begins the trail ends where the pass before it ended.
LEMMA Between ==
    ASSUME Tables
    PROVE  /\ At(1, -1) = 0
           /\ \A p \in 1..3, r \in 0..ROUNDS : At(p, r - 1) = At(p, r) - 1
           /\ \A p \in 1..2 : At(p + 1, -1) = At(p, ROUNDS)
  <1>1. ROUNDS \in Nat /\ ROUNDS \in Int
    BY DEF Tables
  <1>2. \A r \in Int : At(1, r) = r + 1 /\ At(2, r) = ROUNDS + r + 2 /\ At(3, r) = 2 * ROUNDS + r + 3
    BY AtIs
  <1>3. At(1, -1) = 0
    BY <1>2
  <1>4. ASSUME NEW p \in 1..3, NEW r \in 0..ROUNDS
        PROVE  At(p, r - 1) = At(p, r) - 1
    <2>1. r \in Int /\ r - 1 \in Int /\ p \in {1, 2, 3}
      OBVIOUS
    <2>2. QED
      BY <1>1, <1>2, <2>1
  <1>5. ASSUME NEW p \in 1..2
        PROVE  At(p + 1, -1) = At(p, ROUNDS)
    <2>1. CASE p = 1
      <3>1. p + 1 = 2
        BY <2>1
      <3>2. QED
        BY <1>1, <1>2, <2>1, <3>1
    <2>2. CASE p = 2
      <3>1. p + 1 = 3
        BY <2>2
      <3>2. QED
        BY <1>1, <1>2, <2>2, <3>1
    <2>3. QED
      BY <2>1, <2>2
  <1>6. QED
    BY <1>3, <1>4, <1>5

\* A value's place, and the end of the trail before it is laid.
LEMMA Stands ==
    ASSUME Tables, NEW p \in 1..3, NEW r \in 0..ROUNDS
    PROVE  At(p, r) \in Nat \ {0} /\ At(p, r - 1) = At(p, r) - 1
  <1>1. At(p, r) \in Nat \ {0}
    BY Before, SMTT(60)
  <1>2. At(p, r - 1) = At(p, r) - 1
    BY Between, SMTT(60)
  <1>3. QED
    BY <1>1, <1>2

\* A value is laid in the encryption.
LEMMA Lays ==
    ASSUME Tables, IInv, phase = "encrypt", block <= Blocks,
           round' \in 0..ROUNDS, round = round' - 1,
           M' \in Bits(BLOCK), trail' = [trail EXCEPT ![block] = Append(@, M')],
           Link(Append(trail[block], M'), Block(orig, block), Schedule, pass, round'),
           UNCHANGED <<phase, pKey, from, to, orig, size, block, pass>>
    PROVE  IInv'
  <1> USE DEF IInv
  <1>1. /\ ROUNDS \in Nat /\ BLOCK \in Nat \ {0} /\ Blocks \in Nat
        /\ block \in 1..Blocks /\ block \in Nat /\ Count \in {1, 3} /\ pass \in 1..3
    BY Shape
  <1>2. Count' = Count /\ Blocks' = Blocks /\ Schedule' = Schedule
    BY Kept
  <1>3. PICK t \in Seq(Bits(BLOCK)) : /\ t = trail[block] /\ Len(t) = At(pass, round)
                                      /\ Chain(t, Block(orig, block), Schedule)
    BY <1>1, TrailBits DEF Trails, Laid
  <1>4. PICK v \in Bits(BLOCK), r \in 0..ROUNDS : v = M' /\ r = round' /\ round = r - 1
    OBVIOUS
  <1>5. PICK a \in Nat \ {0} : a = At(pass, r) /\ Len(t) = a - 1
    <2>1. pass \in 1..3
      BY <1>1
    <2>2. At(pass, r) \in Nat \ {0} /\ At(pass, r - 1) = At(pass, r) - 1
      BY <2>1, Stands, ZenonT(60)
    <2>3. QED
      BY <1>3, <1>4, <2>2
  <1>6. Chain(Append(t, v), Block(orig, block), Schedule)
    BY <1>1, <1>3, <1>4, <1>5, ChainGrows
  <1>7. PICK u \in Seq(Bits(BLOCK)) : u = Append(t, v) /\ Len(u) = a /\ u[a] = v
    <2>1. /\ Append(t, v) \in Seq(Bits(BLOCK)) /\ Len(Append(t, v)) = Len(t) + 1
          /\ Append(t, v)[Len(t) + 1] = v
      BY AppendProperties
    <2>2. Len(t) + 1 = a
      BY <1>5
    <2>3. QED
      BY <2>1, <2>2
  <1>8. trail' = [trail EXCEPT ![block] = u]
    BY <1>3, <1>4, <1>7
  <1>9. trail \in [1..Blocks -> Seq(Bits(BLOCK))]
    BY DEF Typed
  <1>10. trail'[block] = u /\ \A n \in 1..Blocks : n # block => trail'[n] = trail[n]
    BY <1>1, <1>8, <1>9
  <1>11. Typed'
    <2>1. trail' \in [1..Blocks -> Seq(Bits(BLOCK))]
      BY <1>8, <1>9
    <2>2. QED
      BY <1>1, <1>2, <2>1 DEF Typed
  <1>12. Within'
    BY <1>2 DEF Within
  <1>13. Trails'
    <2>1. ASSUME NEW n \in 1..Blocks
          PROVE  Len(trail'[n]) = Laid(n)' /\ Chain(trail'[n], Block(orig, n), Schedule)
      <3>1. CASE n = block
        <4>1. trail'[n] = u
          BY <1>10, <3>1
        <4>2. Laid(n)' = At(pass, r)
          BY <1>1, <1>4, <3>1 DEF Laid
        <4>3. Len(u) = At(pass, r)
          BY <1>5, <1>7
        <4>4. Chain(u, Block(orig, n), Schedule)
          BY <1>6, <1>7, <3>1
        <4>5. QED
          BY <4>1, <4>2, <4>3, <4>4
      <3>2. CASE n # block
        <4>1. trail'[n] = trail[n] /\ Len(trail[n]) = Laid(n) /\ Chain(trail[n], Block(orig, n), Schedule)
          BY <1>10, <3>2 DEF Trails
        <4>2. Laid(n)' = Laid(n)
          BY <1>2, <3>2 DEF Laid
        <4>3. QED
          BY <4>1, <4>2
      <3>3. QED
        BY <3>1, <3>2
    <2>2. QED
      BY <1>2, <2>1 DEF Trails
  <1>14. Mirrors'
    BY <1>4, <1>5, <1>7, <1>10 DEF Mirrors
  <1>15. Written'
    <2>1. \A n \in 1..(block - 1) : Last(n)' = Last(n)
      <3> TAKE n \in 1..(block - 1)
      <3>1. n \in 1..Blocks /\ n # block
        BY <1>1
      <3>2. QED
        BY <1>2, <1>10, <3>1 DEF Last
    <2>2. \A n \in 1..(block - 1) : Block(to, n) = Coded(Last(n)')
      BY <2>1 DEF Written
    <2>3. round' # -1
      BY <1>4
    <2>4. QED
      BY <1>2, <2>2, <2>3 DEF Written
  <1>16. QED
    BY <1>11, <1>12, <1>13, <1>14, <1>15

\* A value of the trail is met again in the decryption.
LEMMA Meets ==
    ASSUME Tables, IInv, phase = "decrypt", block <= Blocks, round' \in 0..ROUNDS,
           M' = trail[block][At(Count + 1 - pass, ROUNDS - round')], trail' = trail,
           UNCHANGED <<phase, pKey, from, to, orig, size, block, pass>>
    PROVE  IInv'
  <1> USE DEF IInv
  <1>1. Count' = Count /\ Blocks' = Blocks /\ Schedule' = Schedule
    BY Kept
  <1>2. Typed'
    <2>1. ROUNDS \in Nat
      BY DEF Tables
    <2>2. QED
      BY <1>1, <2>1 DEF Typed
  <1>3. Within'
    BY <1>1 DEF Within
  <1>4. Trails'
    BY <1>1 DEF Trails, Laid
  <1>5. Mirrors'
    BY <1>1 DEF Mirrors
  <1>6. Written'
    BY <1>1 DEF Written, Last
  <1>7. QED
    BY <1>2, <1>3, <1>4, <1>5, <1>6

\* A pass begins on the text or on what the pass before it left.
LEMMA BeginKeeps ==
    ASSUME Tables, IInv, Begin
    PROVE  IInv'
  <1>1. /\ ROUNDS \in Nat /\ BLOCK \in Nat \ {0} /\ Blocks \in Nat
        /\ block \in 1..Blocks /\ Count \in {1, 3} /\ pass \in 1..3 /\ pass <= Count
        /\ phase \in {"encrypt", "decrypt"} /\ round = -1 /\ block <= Blocks
        /\ 0 \in 0..ROUNDS /\ round = 0 - 1 /\ round' = 0
    BY Shape DEF Begin, IInv
  <1>2. UNCHANGED <<phase, pKey, from, to, orig, size, block, pass>>
    BY DEF Begin
  <1>3. M' = Transform(Source, IP_Table)
    BY DEF Begin
  <1>4. PICK t \in Seq(Bits(BLOCK)) :
            /\ t = trail[block] /\ Len(t) \in Nat /\ \A i \in 1..Len(t) : t[i] \in Bits(BLOCK)
            /\ Len(t) = Laid(block) /\ Chain(t, Block(orig, block), Schedule)
    BY <1>1, TrailBits DEF IInv, Trails
  <1>5. PICK b \in Bits(BLOCK) : b = Block(orig, block)
    <2>1. BLOCK * block <= Len(orig)
      <3>1. block \in Nat /\ block <= Blocks
        BY <1>1
      <3>2. BLOCK * block <= BLOCK * Blocks
        BY <1>1, <3>1, Apart
      <3>3. QED
        BY <3>2 DEF IInv, Written
    <2>2. orig \in Seq(Bit) /\ block \in Nat \ {0}
      BY <1>1 DEF IInv, Typed
    <2>3. QED
      BY <2>1, <2>2, Cut
  <1>6. CASE phase = "encrypt"
    <2>1. trail' = [trail EXCEPT ![block] = Append(@, M')]
      BY <1>6 DEF Begin, Recorded
    <2>2. Len(t) = At(pass, -1)
      BY <1>1, <1>4, <1>6 DEF Laid
    <2>3. PICK v : v = M'
      OBVIOUS
    <2>4. CASE pass = 1
      <3>1. Source = b
        BY <1>5, <1>6, <2>4 DEF Source, IInv, Written
      <3>2. v = Transform(b, IP_Table) /\ v \in Bits(BLOCK)
        BY <1>3, <2>3, <3>1, Permuted
      <3>3. Len(t) + 1 = At(pass, 0)
        <4>1. At(1, 0) = 1 /\ At(1, -1) = 0
          BY AtIs, Between, SMTT(60)
        <4>2. QED
          BY <2>2, <2>4, <4>1
      <3>4. Append(t, v)[At(pass, 0)] = v
        <4>1. Append(t, v)[Len(t) + 1] = v
          BY <3>2, AppendProperties
        <4>2. QED
          BY <3>3, <4>1
      <3>5. Link(Append(t, v), b, Schedule, pass, 0)
        BY <2>4, <3>2, <3>4 DEF Link
      <3>6. QED
        BY <1>1, <1>2, <1>4, <1>5, <1>6, <2>1, <2>3, <3>2, <3>5, Lays
    <2>5. CASE pass # 1
      <3>1. PICK p \in 1..2 : pass = p + 1 /\ pass - 1 = p /\ p \in 1..3
        <4>1. pass - 1 \in 1..2 /\ pass = (pass - 1) + 1
          BY <1>1, <2>5
        <4>2. QED
          BY <4>1
      <3>2. Len(t) = At(p, ROUNDS)
        BY <2>2, <3>1, Between, SMTT(60)
      <3>3. PICK c \in Nat \ {0} : c = At(p, ROUNDS) /\ c = Len(t)
        <4>1. At(p, ROUNDS) \in Nat \ {0}
          BY <1>1, <3>1, AtMost, SMTT(60)
        <4>2. QED
          BY <3>2, <4>1
      <3>4. PICK m \in Bits(BLOCK) : m = t[c]
        BY <1>4, <3>3
      <3>5. Source = Coded(m)
        <4>1. Source = Block(to, block)
          BY <2>5 DEF Source
        <4>2. Block(to, block) = Coded(trail[block][At(pass - 1, ROUNDS)])
          BY <1>1, <1>6, <2>5 DEF IInv, Written
        <4>3. QED
          BY <1>4, <3>1, <3>3, <3>4, <4>1, <4>2
      <3>6. v = m
        BY <1>3, <2>3, <3>4, <3>5, Permuted DEF Coded
      <3>7. c + 1 = At(pass, 0)
        <4>1. \A r \in {0, -1} : At(2, r) = ROUNDS + r + 2 /\ At(3, r) = 2 * ROUNDS + r + 3
          BY AtIs
        <4>2. pass \in {2, 3}
          BY <1>1, <2>5
        <4>3. At(pass, 0) = At(pass, -1) + 1
          BY <1>1, <4>1, <4>2
        <4>4. QED
          BY <2>2, <3>3, <4>3
      <3>8. Append(t, v)[At(pass, 0)] = v /\ Append(t, v)[At(p, ROUNDS)] = m
        <4>1. /\ Append(t, v)[Len(t) + 1] = v
              /\ \A i \in 1..Len(t) : Append(t, v)[i] = t[i]
          BY <3>4, <3>6, AppendProperties
        <4>2. c \in 1..Len(t) /\ c + 1 = Len(t) + 1
          BY <3>3
        <4>3. QED
          BY <3>3, <3>4, <3>7, <4>1, <4>2
      <3>9. Link(Append(t, v), b, Schedule, pass, 0)
        <4>1. Append(t, v)[At(pass, 0)] = Append(t, v)[At(pass - 1, ROUNDS)]
          BY <3>1, <3>6, <3>8
        <4>2. ~(0 > 0)
          OBVIOUS
        <4>3. QED
          BY <2>5, <4>1, <4>2 DEF Link
      <3>10. QED
        BY <1>1, <1>2, <1>4, <1>5, <1>6, <2>1, <2>3, <3>4, <3>6, <3>9, Lays
    <2>6. QED
      BY <2>4, <2>5
  <1>7. CASE phase = "decrypt"
    <2>1. trail' = trail
      BY <1>7 DEF Begin, Recorded
    <2>2. PICK e \in Nat \ {0} : e = At(Count, ROUNDS) /\ Len(t) = e
      <3>1. Count \in 1..3 /\ At(Count, ROUNDS) \in Nat \ {0}
        BY <1>1, AtMost, SMTT(60)
      <3>2. Len(t) = At(Count, ROUNDS)
        BY <1>4, <1>7 DEF Laid
      <3>3. QED
        BY <3>1, <3>2
    <2>3. CASE pass = 1
      <3>1. PICK m \in Bits(BLOCK) : m = t[e]
        BY <1>4, <2>2
      <3>2. Source = Coded(m)
        BY <1>1, <1>4, <1>7, <2>2, <2>3, <3>1 DEF Source, IInv, Written, Last
      <3>3. M' = m
        BY <1>3, <3>1, <3>2, Permuted DEF Coded
      <3>4. Count + 1 - pass = Count /\ ROUNDS - round' = ROUNDS
        BY <1>1, <2>3
      <3>5. M' = trail[block][At(Count + 1 - pass, ROUNDS - round')]
        BY <1>4, <2>2, <3>1, <3>3, <3>4
      <3>6. QED
        BY <1>1, <1>2, <1>7, <2>1, <3>5, Meets
    <2>4. CASE pass # 1
      <3>1. PICK q \in 2..3 : q = Count + 2 - pass /\ q - 1 = Count + 1 - pass /\ q <= Count
        <4>1. Count + 2 - pass \in 2..3 /\ Count + 2 - pass <= Count
          BY <1>1, <2>4
        <4>2. PICK q \in 2..3 : q = Count + 2 - pass
          BY <4>1
        <4>3. q - 1 = Count + 1 - pass /\ q <= Count
          BY <1>1, <4>1, <4>2
        <4>4. QED
          BY <4>2, <4>3
      <3>2. PICK c \in Nat \ {0} : c = At(q, 0) /\ c <= e
        <4>1. q \in 1..3 /\ Count \in 1..3 /\ q <= Count
          BY <1>1, <3>1
        <4>2. At(q, 0) \in Nat \ {0} /\ At(q, 0) <= At(Count, ROUNDS)
          BY <1>1, <4>1, AtMost, SMTT(60)
        <4>3. QED
          BY <2>2, <4>2
      <3>3. PICK m \in Bits(BLOCK) : m = t[c]
        <4>1. c \in 1..Len(t)
          BY <2>2, <3>2
        <4>2. QED
          BY <1>4, <4>1
      <3>4. m = t[At(q - 1, ROUNDS)]
        <4>1. Link(t, Block(orig, block), Schedule, q, 0)
          BY <1>1, <1>4, <2>2, <3>1, <3>2 DEF Chain
        <4>2. QED
          BY <3>1, <3>2, <3>3, <4>1 DEF Link
      <3>5. Source = Coded(m)
        <4>1. Source = Block(to, block)
          BY <2>4 DEF Source
        <4>2. Block(to, block) = Coded(trail[block][At(Count + 2 - pass, 0)])
          BY <1>1, <1>7, <2>4 DEF IInv, Written
        <4>3. QED
          BY <1>4, <3>1, <3>2, <3>3, <4>1, <4>2
      <3>6. M' = m
        BY <1>3, <3>3, <3>5, Permuted DEF Coded
      <3>7. ROUNDS - round' = ROUNDS
        BY <1>1
      <3>8. M' = trail[block][At(Count + 1 - pass, ROUNDS - round')]
        BY <1>4, <3>1, <3>4, <3>6, <3>7
      <3>9. QED
        BY <1>1, <1>2, <1>7, <2>1, <3>8, Meets
    <2>5. QED
      BY <2>3, <2>4
  <1>8. QED
    BY <1>1, <1>6, <1>7

\* A round makes the next value of the trail, or goes back to the one before.
LEMMA RoundKeeps ==
    ASSUME Tables, IInv, Round
    PROVE  IInv'
  <1>1. /\ ROUNDS \in Nat /\ BLOCK \in Nat \ {0} /\ Blocks \in Nat
        /\ block \in 1..Blocks /\ Count \in {1, 3} /\ pass \in 1..3 /\ pass <= Count
        /\ phase \in {"encrypt", "decrypt"} /\ block <= Blocks
        /\ round \in 0..(ROUNDS - 1) /\ round' = round + 1 /\ round' \in 0..ROUNDS /\ round = round' - 1
    BY Shape DEF Round, IInv, Within
  <1>2. UNCHANGED <<phase, pKey, from, to, orig, size, block, pass>>
    BY DEF Round
  <1>3. PICK p \in 1..3, r \in 1..ROUNDS :
              /\ p = IF phase = "encrypt" THEN pass ELSE Count + 1 - pass
              /\ r = IF phase = "encrypt" THEN round + 1 ELSE ROUNDS - round
              /\ M' = Turned(M, Schedule[p][r], IF phase = "encrypt" THEN p # 2 ELSE p = 2)
    BY RoundTurns DEF IInv
  <1>4. PICK K \in Bits(Len(E_Table)) : K = Schedule[p][r]
    BY ScheduleBits DEF IInv
  <1>5. PICK t \in Seq(Bits(BLOCK)) :
            /\ t = trail[block] /\ Len(t) \in Nat /\ \A i \in 1..Len(t) : t[i] \in Bits(BLOCK)
            /\ Len(t) = Laid(block) /\ Chain(t, Block(orig, block), Schedule)
    BY <1>1, TrailBits DEF IInv, Trails
  <1>6. PICK c \in Nat \ {0} : c = At(p, r - 1) /\ At(p, r) = c + 1 /\ r \in 0..ROUNDS /\ r > 0
    <2>1. r \in 0..ROUNDS /\ r > 0
      BY <1>1
    <2>2. At(p, r) \in Nat \ {0} /\ At(p, r - 1) = At(p, r) - 1 /\ At(p, r - 1) \in Nat \ {0}
      BY <2>1, Before
    <2>3. QED
      BY <2>1, <2>2
  <1>7. CASE phase = "encrypt"
    <2>1. trail' = [trail EXCEPT ![block] = Append(@, M')]
      BY <1>7 DEF Round, Recorded
    <2>2. p = pass /\ r = round' /\ r - 1 = round
      BY <1>1, <1>3, <1>7
    <2>3. Len(t) = c
      BY <1>1, <1>5, <1>6, <1>7, <2>2 DEF Laid
    <2>4. PICK m \in Bits(BLOCK) : m = t[c] /\ M = m
      <3>1. t[c] \in Bits(BLOCK)
        BY <1>5, <2>3
      <3>2. M = t[c]
        BY <1>1, <1>5, <1>6, <1>7, <2>2 DEF IInv, Mirrors
      <3>3. QED
        BY <3>1, <3>2
    <2>5. PICK v \in Bits(BLOCK) : v = M' /\ v = Turned(m, K, p # 2)
      BY <1>3, <1>4, <1>7, <2>4, TurnedBack
    <2>6. Append(t, v)[At(p, r)] = v /\ Append(t, v)[At(p, r - 1)] = m
      <3>1. /\ Append(t, v)[Len(t) + 1] = v
            /\ \A i \in 1..Len(t) : Append(t, v)[i] = t[i]
        BY AppendProperties
      <3>2. c \in 1..Len(t)
        BY <2>3
      <3>3. QED
        BY <1>6, <2>3, <2>4, <3>1, <3>2
    <2>7. Link(Append(t, v), Block(orig, block), Schedule, p, r)
      <3>1. Append(t, v)[At(p, r)] = Turned(Append(t, v)[At(p, r - 1)], Schedule[p][r], p # 2)
        BY <1>4, <2>5, <2>6
      <3>2. r # 0 /\ r > 0
        BY <1>6
      <3>3. QED
        BY <3>1, <3>2 DEF Link
    <2>8. QED
      BY <1>1, <1>2, <1>5, <1>7, <2>1, <2>2, <2>5, <2>7, Lays
  <1>8. CASE phase = "decrypt"
    <2>1. trail' = trail
      BY <1>8 DEF Round, Recorded
    <2>2. p = Count + 1 - pass /\ r = ROUNDS - round /\ r - 1 = ROUNDS - round'
      BY <1>1, <1>3, <1>8
    <2>3. PICK e \in Nat \ {0} : e = At(Count, ROUNDS) /\ Len(t) = e /\ c + 1 <= e
      <3>1. p <= Count /\ Count \in 1..3
        BY <1>1, <2>2
      <3>2. At(Count, ROUNDS) \in Nat \ {0} /\ At(p, r) <= At(Count, ROUNDS)
        BY <1>6, <3>1, AtMost, SMTT(60)
      <3>3. Len(t) = At(Count, ROUNDS)
        BY <1>5, <1>8 DEF Laid
      <3>4. QED
        BY <1>6, <3>2, <3>3
    <2>4. PICK m \in Bits(BLOCK) : m = t[c]
      <3>1. c \in 1..Len(t)
        BY <2>3
      <3>2. QED
        BY <1>5, <3>1
    <2>5. M = t[c + 1]
      <3>1. M = trail[block][At(Count + 1 - pass, ROUNDS - round)]
        BY <1>1, <1>8 DEF IInv, Mirrors
      <3>2. QED
        BY <1>5, <1>6, <2>2, <3>1
    <2>6. t[c + 1] = Turned(m, K, p # 2)
      <3>1. Link(t, Block(orig, block), Schedule, p, r)
        BY <1>5, <1>6, <2>3 DEF Chain
      <3>2. QED
        BY <1>4, <1>6, <2>4, <3>1 DEF Link
    <2>7. M' = m
      <3>1. PICK f \in BOOLEAN : f = (p # 2) /\ (~f) = (p = 2)
        OBVIOUS
      <3>2. M = Turned(m, K, f)
        BY <2>5, <2>6, <3>1
      <3>3. M' = Turned(M, K, ~f)
        BY <1>3, <1>4, <1>8, <3>1
      <3>4. Turned(Turned(m, K, f), K, ~f) = m
        BY TurnedBack
      <3>5. QED
        BY <3>2, <3>3, <3>4
    <2>8. M' = trail[block][At(Count + 1 - pass, ROUNDS - round')]
      BY <1>5, <1>6, <2>2, <2>4, <2>7
    <2>9. QED
      BY <1>1, <1>2, <1>8, <2>1, <2>8, Meets
  <1>9. QED
    BY <1>1, <1>7, <1>8

\* The end of a pass writes the block, and the last one goes on to the next block.
LEMMA EndKeeps ==
    ASSUME Tables, IInv, End
    PROVE  IInv'
  <1>1. /\ ROUNDS \in Nat /\ BLOCK \in Nat \ {0} /\ Blocks \in Nat
        /\ Count \in {1, 3} /\ pass \in 1..3 /\ pass <= Count /\ Len(Passes) = Count
        /\ round = ROUNDS /\ round' = -1
    BY Shape DEF End, IInv
  <1>2. /\ block \in 1..Blocks /\ block <= Blocks /\ block - 1 \in Nat /\ block - 1 + 1 = block
        /\ block \in Nat \ {0} /\ phase \in {"encrypt", "decrypt"}
    BY <1>1, Shape DEF IInv, Within
  <1>3. UNCHANGED <<phase, pKey, from, orig, size, M, trail>>
    BY DEF End
  <1>4. Count' = Count /\ Blocks' = Blocks /\ Schedule' = Schedule
    BY <1>3, Kept
  <1>5. PICK t \in Seq(Bits(BLOCK)) :
            /\ t = trail[block] /\ Len(t) \in Nat /\ \A i \in 1..Len(t) : t[i] \in Bits(BLOCK)
            /\ Len(t) = Laid(block) /\ Chain(t, Block(orig, block), Schedule)
    BY <1>2, TrailBits DEF IInv, Trails
  \* M is a value of the trail, at c.
  <1>6. PICK c \in Nat \ {0} :
            /\ c <= Len(t)
            /\ c = IF phase = "encrypt" THEN At(pass, ROUNDS) ELSE At(Count + 1 - pass, 0)
    <2>1. CASE phase = "encrypt"
      <3>1. At(pass, ROUNDS) \in Nat \ {0}
        <4>1. ROUNDS \in 0..ROUNDS
          BY <1>1
        <4>2. QED
          BY <1>1, <4>1, Before, SMTT(60)
      <3>2. Len(t) = At(pass, ROUNDS)
        BY <1>1, <1>2, <1>5, <2>1 DEF Laid
      <3>3. QED
        BY <2>1, <3>1, <3>2
    <2>2. CASE phase # "encrypt"
      <3>1. PICK q \in 1..3 : q = Count + 1 - pass
        <4>1. Count + 1 - pass \in 1..3
          BY <1>1
        <4>2. QED
          BY <4>1
      <3>2. q <= Count /\ Count \in 1..3 /\ 0 \in 0..ROUNDS
        BY <1>1, <3>1
      <3>3. At(q, 0) \in Nat \ {0} /\ At(q, 0) <= At(Count, ROUNDS)
        BY <3>2, AtMost, SMTT(60)
      <3>4. Len(t) = At(Count, ROUNDS)
        BY <1>2, <1>5, <2>2 DEF Laid
      <3>5. QED
        BY <2>2, <3>1, <3>3, <3>4
    <2>3. QED
      BY <2>1, <2>2
  <1>7. PICK m \in Bits(BLOCK) : m = t[c] /\ M = m
    <2>1. t[c] \in Bits(BLOCK)
      BY <1>5, <1>6
    <2>2. M = t[c]
      <3>1. ROUNDS - ROUNDS = 0 /\ round >= 0
        BY <1>1
      <3>2. QED
        BY <1>1, <1>5, <1>6, <3>1 DEF IInv, Mirrors
    <2>3. QED
      BY <2>1, <2>2
  <1>8. PICK w \in Bits(BLOCK) : w = Coded(m)
    BY Permuted DEF Coded
  <1>9. PICK T : T = to'
    OBVIOUS
  <1>10. /\ T \in Seq(Bit) /\ Len(T) = BLOCK * block
         /\ Block(T, block) = w
         /\ \A n \in 1..(block - 1) : Block(T, n) = Block(to, n)
    <2>1. T = SubSeq(to, 1, BLOCK * (block - 1)) \o w
      BY <1>7, <1>8, <1>9 DEF End, Coded
    <2>2. to \in Seq(Bit) /\ BLOCK * (block - 1) <= Len(to)
      <3>1. CASE pass = 1
        <4>1. Len(to) = BLOCK * (block - 1) /\ BLOCK * (block - 1) \in Nat
          BY <1>2, <3>1, Places DEF IInv, Written
        <4>2. QED
          BY <4>1 DEF IInv, Typed
      <3>2. CASE pass # 1
        <4>1. Len(to) = BLOCK * block
          BY <3>2 DEF IInv, Written
        <4>2. BLOCK * (block - 1) \in Nat /\ BLOCK * block = BLOCK * (block - 1) + BLOCK
          BY <1>2, Places
        <4>3. BLOCK * (block - 1) <= BLOCK * block
          BY <1>1, <4>2
        <4>4. QED
          BY <4>1, <4>3 DEF IInv, Typed
      <3>3. QED
        BY <3>1, <3>2
    <2>3. PICK n \in Nat : n = block - 1 /\ n + 1 = block
      BY <1>2
    <2>4. /\ T \in Seq(Bit) /\ Len(T) = BLOCK * (n + 1)
          /\ Block(T, n + 1) = w
          /\ \A k \in 1..n : Block(T, k) = Block(to, k)
      <3>1. T = SubSeq(to, 1, BLOCK * n) \o w /\ BLOCK * n <= Len(to) /\ to \in Seq(Bit)
        BY <2>1, <2>2, <2>3
      <3>2. QED
        BY <3>1, Extended DEF IsExtended
    <2>5. QED
      BY <2>3, <2>4
  <1>11. CASE pass < Count
    <2>1. pass' = pass + 1 /\ block' = block
      BY <1>1, <1>11 DEF End
    <2>2. PICK q \in 2..3 : q = pass + 1 /\ q - 1 = pass /\ q <= Count
      <3>1. PICK q \in 2..3 : q = pass + 1
        <4>1. pass + 1 \in 2..3
          BY <1>1, <1>11
        <4>2. QED
          BY <4>1
      <3>2. q - 1 = pass /\ q <= Count
        BY <1>1, <1>11, <3>1
      <3>3. QED
        BY <3>1, <3>2
    <2>3. Typed'
      <3>1. pass' \in 1..Count
        BY <1>1, <2>1, <2>2
      <3>2. -1 \in -1..ROUNDS
        BY <1>1
      <3>3. QED
        BY <1>1, <1>3, <1>4, <1>9, <1>10, <2>1, <3>1, <3>2 DEF IInv, Typed
    <2>4. Within'
      BY <1>2, <1>3, <1>4, <2>1 DEF Within
    <2>5. Trails'
      <3>1. ASSUME NEW n \in 1..Blocks
            PROVE  Laid(n)' = Laid(n)
        <4>1. At(q, -1) = At(pass, ROUNDS)
          <5>1. pass \in 1..2
            BY <1>1, <1>11
          <5>2. QED
            BY <2>2, <5>1, Between, SMTT(60)
        <4>2. QED
          BY <1>1, <1>3, <1>4, <2>1, <2>2, <4>1 DEF Laid
      <3>2. QED
        BY <1>3, <1>4, <3>1 DEF IInv, Trails
    <2>6. Mirrors'
      BY <1>1 DEF Mirrors
    <2>7. Written'
      <3>1. Len(T) = BLOCK * (IF pass' = 1 THEN block - 1 ELSE block)
        <4>1. pass' # 1
          BY <1>1, <2>1
        <4>2. QED
          BY <1>10, <4>1
      <3>2. \A n \in 1..(block - 1) :
                Block(T, n) = IF phase = "encrypt" THEN Coded(Last(n)) ELSE Block(orig, n)
        BY <1>10 DEF IInv, Written
      <3>3. Block(T, block) = Coded(trail[block][IF phase = "encrypt" THEN At(q - 1, ROUNDS)
                                                 ELSE At(Count + 2 - q, 0)])
        <4>1. Count + 2 - q = Count + 1 - pass
          BY <1>1, <2>2
        <4>2. QED
          BY <1>5, <1>6, <1>7, <1>8, <1>10, <2>2, <4>1
      <3>4. \A n \in 1..Blocks : Last(n)' = Last(n)
        BY <1>3, <1>4 DEF Last
      <3>5. \A n \in 1..(block - 1) : Last(n)' = Last(n)
        BY <1>3, <1>4 DEF Last
      <3>6. phase # "done"
        BY <1>2
      <3>7. /\ Len(orig) = BLOCK * Blocks /\ Len(from) = BLOCK * Blocks
            /\ phase = "encrypt" => from = orig
            /\ phase = "decrypt" => \A n \in 1..Blocks : Block(from, n) = Coded(Last(n))
        BY DEF IInv, Written
      <3>8. pass' = q
        BY <2>1, <2>2
      <3>9. QED
        BY <1>3, <1>4, <1>9, <2>1, <3>1, <3>2, <3>3, <3>4, <3>5, <3>6, <3>7, <3>8 DEF Written
    <2>8. QED
      BY <2>3, <2>4, <2>5, <2>6, <2>7 DEF IInv
  <1>12. CASE ~(pass < Count)
    <2>1. pass' = 1 /\ block' = block + 1 /\ pass = Count
      BY <1>1, <1>12 DEF End
    <2>2. block' - 1 = block /\ block' \in 1..(Blocks + 1) /\ block + 1 \in 1..(Blocks + 1)
      BY <1>1, <1>2, <2>1
    <2>3. Typed'
      <3>1. 1 \in 1..Count /\ -1 \in -1..ROUNDS
        BY <1>1
      <3>2. QED
        BY <1>1, <1>3, <1>4, <1>9, <1>10, <2>1, <2>2, <3>1 DEF IInv, Typed
    <2>4. Within'
      BY <1>1, <2>1 DEF Within
    <2>5. Trails'
      <3>1. ASSUME NEW n \in 1..Blocks
            PROVE  Laid(n)' = Laid(n)
        <4>1. CASE phase = "encrypt"
          <5>1. n < block' <=> n < block \/ n = block
            BY <1>2, <2>1
          <5>2. CASE n < block
            BY <1>3, <1>4, <4>1, <5>1, <5>2 DEF Laid
          <5>3. CASE n = block
            <6>1. Laid(n)' = At(Count, ROUNDS)
              BY <1>3, <1>4, <4>1, <5>1, <5>3 DEF Laid
            <6>2. Laid(n) = At(pass, ROUNDS)
              BY <1>1, <1>2, <4>1, <5>3 DEF Laid
            <6>3. QED
              BY <2>1, <6>1, <6>2
          <5>4. CASE n > block
            <6>1. At(1, -1) = 0
              BY Between, SMTT(60)
            <6>2. Laid(n) = 0
              BY <1>2, <4>1, <5>4 DEF Laid
            <6>3. Laid(n)' = 0
              BY <1>1, <1>2, <1>3, <1>4, <2>1, <4>1, <5>1, <5>4, <6>1 DEF Laid
            <6>4. QED
              BY <6>2, <6>3
          <5>5. QED
            BY <1>2, <5>2, <5>3, <5>4
        <4>2. CASE phase # "encrypt"
          BY <1>3, <1>4, <4>2 DEF Laid
        <4>3. QED
          BY <4>1, <4>2
      <3>2. QED
        BY <1>3, <1>4, <3>1 DEF IInv, Trails
    <2>6. Mirrors'
      BY <1>1 DEF Mirrors
    <2>7. Written'
      <3>1. Block(T, block) = IF phase = "encrypt" THEN Coded(Last(block)) ELSE Block(orig, block)
        <4>1. CASE phase = "encrypt"
          BY <1>5, <1>6, <1>7, <1>8, <1>10, <2>1, <4>1 DEF Last
        <4>2. CASE phase # "encrypt"
          <5>1. c = At(1, 0)
            <6>1. Count + 1 - pass = 1
              BY <1>1, <2>1
            <6>2. QED
              BY <1>6, <4>2, <6>1
          <5>2. PICK b \in Bits(BLOCK) : b = Block(orig, block)
            <6>1. BLOCK * block <= Len(orig)
              <7>1. block \in Nat /\ block <= Blocks
                BY <1>2
              <7>2. BLOCK * block <= BLOCK * Blocks
                BY <1>1, <7>1, Apart
              <7>3. QED
                BY <7>2 DEF IInv, Written
            <6>2. orig \in Seq(Bit)
              BY DEF IInv, Typed
            <6>3. QED
              BY <1>2, <6>1, <6>2, Cut
          <5>3. m = Transform(b, IP_Table)
            <6>1. 1 \in 1..3 /\ 0 \in 0..ROUNDS
              BY <1>1
            <6>2. Link(t, b, Schedule, 1, 0)
              BY <1>5, <1>6, <5>1, <5>2, <6>1 DEF Chain
            <6>3. QED
              BY <1>7, <5>1, <6>2 DEF Link
          <5>4. w = b
            BY <1>8, <5>3, Permuted DEF Coded
          <5>5. QED
            BY <1>10, <4>2, <5>2, <5>4
        <4>3. QED
          BY <4>1, <4>2
      <3>2. \A n \in 1..block :
                Block(T, n) = IF phase = "encrypt" THEN Coded(Last(n)) ELSE Block(orig, n)
        <4> TAKE n \in 1..block
        <4>1. CASE n = block
          BY <3>1, <4>1
        <4>2. CASE n # block
          <5>1. n \in 1..(block - 1)
            BY <1>2, <4>2
          <5>2. Block(to, n) = IF phase = "encrypt" THEN Coded(Last(n)) ELSE Block(orig, n)
            BY <5>1 DEF IInv, Written
          <5>3. QED
            BY <1>10, <5>1, <5>2
        <4>3. QED
          BY <4>1, <4>2
      <3>3. Len(T) = BLOCK * (block' - 1)
        BY <1>10, <2>2
      <3>4. \A n \in 1..Blocks : Last(n)' = Last(n)
        BY <1>3, <1>4 DEF Last
      <3>5. \A n \in 1..block : Last(n)' = Last(n)
        BY <1>3, <1>4 DEF Last
      <3>6. phase # "done" /\ ~(1 > 1)
        BY <1>2
      <3>7. /\ Len(orig) = BLOCK * Blocks /\ Len(from) = BLOCK * Blocks
            /\ phase = "encrypt" => from = orig
            /\ phase = "decrypt" => \A n \in 1..Blocks : Block(from, n) = Coded(Last(n))
        BY DEF IInv, Written
      <3>8. QED
        BY <1>3, <1>4, <1>9, <2>1, <2>2, <3>2, <3>3, <3>4, <3>5, <3>6, <3>7 DEF Written
    <2>8. QED
      BY <2>3, <2>4, <2>5, <2>6, <2>7 DEF IInv
  <1>13. QED
    BY <1>11, <1>12

\* DesDecrypt is given what DesEncrypt has written.
LEMMA DecryptKeeps ==
    ASSUME Tables, IInv, Decrypt
    PROVE  IInv'
  <1>1. /\ ROUNDS \in Nat /\ BLOCK \in Nat \ {0} /\ Blocks \in Nat
        /\ block \in Nat /\ block = Blocks + 1 /\ pass \in 1..3 /\ Count \in {1, 3}
    BY Shape DEF Decrypt, IInv
  <1>2. pass = 1 /\ round = -1 /\ phase = "encrypt" /\ phase' = "decrypt" /\ block' = 1
    <2>1. ~(block <= Blocks)
      BY <1>1
    <2>2. ~(round >= 0) /\ ~(pass > 1)
      BY <2>1 DEF IInv, Within
    <2>3. round \in -1..ROUNDS
      BY DEF IInv, Typed
    <2>4. QED
      BY <1>1, <2>2, <2>3 DEF Decrypt
  <1>3. from' = to /\ to' = <<>> /\ UNCHANGED <<pKey, orig, size, pass, M, round, trail>>
    BY DEF Decrypt
  <1>4. Count' = Count /\ Blocks' = Blocks /\ Schedule' = Schedule
    BY <1>3, Kept
  <1>5. Typed'
    <2>1. <<>> \in Seq(Bit) /\ 1 \in 1..(Blocks + 1)
      BY <1>1, EmptySeq
    <2>2. QED
      BY <1>2, <1>3, <1>4, <2>1 DEF IInv, Typed
  <1>6. Within'
    BY <1>2, <1>3 DEF Within
  <1>7. Trails'
    <2>1. ASSUME NEW n \in 1..Blocks
          PROVE  Laid(n)' = Laid(n)
      <3>1. n < block
        BY <1>1
      <3>2. QED
        BY <1>2, <1>4, <3>1 DEF Laid
    <2>2. QED
      BY <1>3, <1>4, <2>1 DEF IInv, Trails
  <1>8. Mirrors'
    BY <1>2, <1>3 DEF Mirrors
  <1>9. Written'
    <2>1. Len(to') = BLOCK * (block' - 1)
      <3>1. Len(to') = 0
        BY <1>3, EmptySeq
      <3>2. BLOCK * (1 - 1) = 0
        BY <1>1
      <3>3. QED
        BY <1>2, <3>1, <3>2
    <2>2. \A n \in 1..Blocks : Block(to, n) = Coded(Last(n))
      <3>1. block - 1 = Blocks
        BY <1>1
      <3>2. QED
        BY <1>2, <3>1 DEF IInv, Written
    <2>3. \A n \in 1..Blocks : Last(n)' = Last(n)
      BY <1>3, <1>4 DEF Last
    <2>4. Len(to) = BLOCK * Blocks /\ Len(orig) = BLOCK * Blocks
      <3>1. block - 1 = Blocks
        BY <1>1
      <3>2. QED
        BY <1>2, <3>1 DEF IInv, Written
    <2>5. \A n : n \notin 1..(block' - 1)
      <3>1. 1..(1 - 1) = {}
        OBVIOUS
      <3>2. QED
        BY <1>2, <3>1
    <2>6. QED
      BY <1>2, <1>3, <1>4, <2>1, <2>2, <2>3, <2>4, <2>5 DEF Written
  <1>10. QED
    BY <1>5, <1>6, <1>7, <1>8, <1>9 DEF IInv

\* The end of the decryption.
LEMMA FinishKeeps ==
    ASSUME Tables, IInv, Finish
    PROVE  IInv'
  <1>1. /\ ROUNDS \in Nat /\ Blocks \in Nat
        /\ block \in Nat /\ block = Blocks + 1 /\ pass \in 1..3
    BY Shape DEF Finish, IInv
  <1>2. pass = 1 /\ round = -1 /\ phase = "decrypt" /\ phase' = "done"
    <2>1. ~(block <= Blocks)
      BY <1>1
    <2>2. ~(round >= 0) /\ ~(pass > 1)
      BY <2>1 DEF IInv, Within
    <2>3. round \in -1..ROUNDS
      BY DEF IInv, Typed
    <2>4. QED
      BY <1>1, <2>2, <2>3 DEF Finish
  <1>3. UNCHANGED <<pKey, from, to, orig, size, block, pass, M, round, trail>>
    BY DEF Finish
  <1>4. Count' = Count /\ Blocks' = Blocks /\ Schedule' = Schedule
    BY <1>3, Kept
  <1>5. Typed'
    BY <1>2, <1>3, <1>4 DEF IInv, Typed
  <1>6. Within'
    BY <1>2, <1>3 DEF Within
  <1>7. Trails'
    <2>1. ASSUME NEW n \in 1..Blocks
          PROVE  Laid(n)' = Laid(n)
      BY <1>2, <1>4 DEF Laid
    <2>2. QED
      BY <1>3, <1>4, <2>1 DEF IInv, Trails
  <1>8. Mirrors'
    BY <1>2, <1>3 DEF Mirrors
  <1>9. Written'
    BY <1>1, <1>2, <1>3, <1>4 DEF IInv, Written
  <1>10. QED
    BY <1>5, <1>6, <1>7, <1>8, <1>9 DEF IInv

\* Before the first block.
LEMMA InitHolds ==
    ASSUME Tables, Inputs, Init
    PROVE  IInv
  <1>1. /\ pKey \in Seq(Bit) /\ orig \in Seq(Bit) /\ size \in Nat
        /\ ROUNDS \in Nat /\ BLOCK \in Nat \ {0}
    BY BlockLength DEF Init, Inputs, Tables
  <1>2. Blocks \in Nat
    BY <1>1 DEF Blocks, Rounded
  <1>3. /\ from = orig /\ to = <<>> /\ block = 1 /\ pass = 1 /\ round = -1
        /\ phase \in {"encrypt", "refused"} /\ Len(orig) = BLOCK * Blocks
        /\ trail = [n \in 1..Blocks |-> <<>>]
    BY DEF Init
  <1>4. Count \in {1, 3}
    BY DEF Count
  <1>5. Typed
    <2>1. <<>> \in Seq(Bit) /\ <<>> \in Seq(Bits(BLOCK))
      BY EmptySeq
    <2>2. 1 \in 1..(Blocks + 1) /\ 1 \in 1..Count /\ -1 \in -1..ROUNDS
      BY <1>1, <1>2, <1>4
    <2>3. QED
      BY <1>1, <1>3, <2>1, <2>2 DEF Typed
  <1>6. Within
    BY <1>3 DEF Within
  <1>7. Trails
    <2>1. ASSUME NEW n \in 1..Blocks
          PROVE  Len(trail[n]) = Laid(n) /\ Chain(trail[n], Block(orig, n), Schedule)
      <3>1. trail[n] = <<>> /\ Len(trail[n]) = 0
        BY <1>3, EmptySeq
      <3>2. Laid(n) = 0
        <4>1. At(1, -1) = 0
          BY Between, SMTT(60)
        <4>2. ~(n < 1)
          BY <1>2
        <4>3. QED
          BY <1>3, <4>1, <4>2 DEF Laid
      <3>3. Chain(trail[n], Block(orig, n), Schedule)
        <4>1. ASSUME NEW p \in 1..3, NEW r \in 0..ROUNDS
              PROVE  ~(At(p, r) <= 0)
          <5>1. PICK a \in Nat \ {0} : a = At(p, r)
            BY Before
          <5>2. QED
            BY <5>1
        <4>2. QED
          BY <3>1, <4>1 DEF Chain
      <3>4. QED
        BY <3>1, <3>2, <3>3
    <2>2. QED
      BY <2>1 DEF Trails
  <1>8. Mirrors
    BY <1>3 DEF Mirrors
  <1>9. Written
    <2>1. Len(to) = BLOCK * (block - 1)
      <3>1. Len(to) = 0
        BY <1>3, EmptySeq
      <3>2. BLOCK * (1 - 1) = 0
        BY <1>1
      <3>3. QED
        BY <1>3, <3>1, <3>2
    <2>2. \A n : n \notin 1..(block - 1)
      <3>1. 1..(1 - 1) = {}
        OBVIOUS
      <3>2. QED
        BY <1>3, <3>1
    <2>3. QED
      BY <1>3, <2>1, <2>2 DEF Written
  <1>10. QED
    BY <1>5, <1>6, <1>7, <1>8, <1>9 DEF IInv

-----------------------------------------------------------------------------
\* What the invariant says of the way back.
LEMMA Returns ==
    ASSUME Tables, IInv
    PROVE  GoesBack
  <1>1. /\ ROUNDS \in Nat /\ BLOCK \in Nat \ {0} /\ Blocks \in Nat /\ block \in Nat \ {0}
        /\ Count \in {1, 3} /\ pass \in 1..3 /\ pass <= Count
    BY Shape DEF IInv
  <1>2. ASSUME phase = "decrypt", round >= 0
        PROVE  M = trail[block][Len(trail[block]) - Steps]
    <2>1. block \in 1..Blocks /\ round \in 0..ROUNDS
      BY <1>1, <1>2 DEF IInv, Within, Typed
    <2>2. Len(trail[block]) = At(Count, ROUNDS)
      BY <1>2, <2>1 DEF IInv, Trails, Laid
    <2>3. M = trail[block][At(Count + 1 - pass, ROUNDS - round)]
      BY <1>2 DEF IInv, Mirrors
    <2>4. At(Count, ROUNDS) - Steps = At(Count + 1 - pass, ROUNDS - round)
      <3>1. PICK r \in 0..ROUNDS : r = round /\ ROUNDS - r \in Int
        BY <1>1, <2>1
      <3>2. \A i \in Int : At(1, i) = i + 1 /\ At(2, i) = ROUNDS + i + 2 /\ At(3, i) = 2 * ROUNDS + i + 3
        BY AtIs
      <3>3. /\ At(1, ROUNDS - r) = ROUNDS - r + 1 /\ At(2, ROUNDS - r) = ROUNDS + (ROUNDS - r) + 2
            /\ At(3, ROUNDS - r) = 2 * ROUNDS + (ROUNDS - r) + 3
            /\ At(1, ROUNDS) = ROUNDS + 1 /\ At(3, ROUNDS) = 3 * ROUNDS + 3
        BY <1>1, <3>1, <3>2
      <3>4. Steps = IF pass = 1 THEN r ELSE IF pass = 2 THEN ROUNDS + 1 + r ELSE 2 * ROUNDS + 2 + r
        <4>1. pass \in {1, 2, 3}
          BY <1>1
        <4>2. QED
          BY <1>1, <3>1, <4>1 DEF Steps
      <3>5. CASE Count = 1
        <4>1. pass = 1 /\ Count + 1 - pass = 1
          BY <1>1, <3>5
        <4>2. QED
          BY <1>1, <3>1, <3>3, <3>4, <3>5, <4>1
      <3>6. CASE Count = 3
        <4>1. CASE pass = 1
          <5>1. Count + 1 - pass = 3
            BY <3>6, <4>1
          <5>2. QED
            BY <1>1, <3>1, <3>3, <3>4, <3>6, <4>1, <5>1
        <4>2. CASE pass = 2
          <5>1. Count + 1 - pass = 2
            BY <3>6, <4>2
          <5>2. QED
            BY <1>1, <3>1, <3>3, <3>4, <3>6, <4>2, <5>1
        <4>3. CASE pass = 3
          <5>1. Count + 1 - pass = 1
            BY <3>6, <4>3
          <5>2. QED
            BY <1>1, <3>1, <3>3, <3>4, <3>6, <4>3, <5>1
        <4>4. pass \in {1, 2, 3}
          BY <1>1
        <4>5. QED
          BY <4>1, <4>2, <4>3, <4>4
      <3>7. QED
        BY <1>1, <3>5, <3>6
    <2>5. QED
      BY <2>2, <2>3, <2>4
  <1>3. ASSUME NEW n \in Nat, n = block - 1, pass = 1, phase \in {"decrypt", "done"}
        PROVE  to = SubSeq(orig, 1, BLOCK * n)
    <2>1. n <= Blocks
      BY <1>1, <1>3 DEF IInv, Typed
    <2>2. Len(to) = BLOCK * n /\ Len(orig) = BLOCK * Blocks
      BY <1>3 DEF IInv, Written
    <2>3. BLOCK * n <= Len(orig)
      BY <1>1, <2>1, <2>2, Apart
    <2>4. \A m \in 1..n : Block(to, m) = Block(orig, m)
      BY <1>3 DEF IInv, Written
    <2>5. to \in Seq(Bit) /\ orig \in Seq(Bit)
      BY DEF IInv, Typed
    <2>6. QED
      BY <2>2, <2>3, <2>4, <2>5, SameText
  <1>4. block - 1 \in Nat
    BY <1>1
  <1>5. ASSUME phase = "done"
        PROVE  to = orig
    <2>1. pass = 1
      <3>1. ~(pass > 1)
        BY <1>5 DEF IInv, Within
      <3>2. QED
        BY <1>1, <3>1
    <2>2. block - 1 = Blocks
      BY <1>1, <1>5 DEF IInv, Written
    <2>3. to = SubSeq(orig, 1, BLOCK * (block - 1))
      BY <1>3, <1>4, <1>5, <2>1
    <2>4. to = SubSeq(orig, 1, Len(orig)) /\ orig \in Seq(Bit)
      BY <2>2, <2>3 DEF IInv, Written, Typed
    <2>5. QED
      BY <2>4, SubSeqFull
  <1>6. ASSUME phase = "decrypt", ~(pass > 1)
        PROVE  to = SubSeq(orig, 1, BLOCK * (block - 1))
    <2>1. pass = 1
      BY <1>1, <1>6
    <2>2. QED
      BY <1>3, <1>4, <1>6, <2>1
  <1>7. QED
    BY <1>2, <1>5, <1>6 DEF GoesBack

\* What DesEncrypt has made of a text, under one key or two, DesDecrypt takes back value by value:
\* whatever the tables, the S boxes, the rounds, the key and the text are, every round of a block's
\* decryption finds in M what the mirrored round of its encryption left there, and the text comes back.
THEOREM DecryptionGoesBack ==
    ASSUME Tables, Inputs
    PROVE  Spec => []GoesBack
  <1>1. Init => IInv
    BY InitHolds
  <1>2. IInv /\ [Next]_vars => IInv'
    <2> SUFFICES ASSUME IInv, [Next]_vars PROVE IInv'
      OBVIOUS
    <2>1. CASE Begin
      BY <2>1, BeginKeeps
    <2>2. CASE Round
      BY <2>2, RoundKeeps
    <2>3. CASE End
      BY <2>3, EndKeeps
    <2>4. CASE Decrypt
      BY <2>4, DecryptKeeps
    <2>5. CASE Finish
      BY <2>5, FinishKeeps
    <2>6. CASE UNCHANGED vars
      <3>1. UNCHANGED <<phase, pKey, from, to, orig, size, block, pass, M, round, trail>>
        BY <2>6 DEF vars
      <3>2. Count' = Count /\ Blocks' = Blocks /\ Schedule' = Schedule
        BY <3>1, Kept
      <3>3. Typed' /\ Within' /\ Mirrors'
        BY <3>1, <3>2 DEF IInv, Typed, Within, Mirrors
      <3>4. Trails'
        BY <3>1, <3>2 DEF IInv, Trails, Laid
      <3>5. Written'
        BY <3>1, <3>2 DEF IInv, Written, Last
      <3>6. QED
        BY <3>3, <3>4, <3>5 DEF IInv
    <2>7. QED
      BY <2>1, <2>2, <2>3, <2>4, <2>5, <2>6 DEF Next
  <1>3. IInv => GoesBack
    BY Returns
  <1>4. QED
    BY <1>1, <1>2, <1>3, PTL DEF Spec

=============================================================================
