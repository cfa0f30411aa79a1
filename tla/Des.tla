--------------------------------- MODULE Des ---------------------------------
(***************************************************************************)
(* des.c: DesEncrypt and DesDecrypt, round by round.  A text is a sequence *)
(* of bits, in blocks of two halves; one pass over a block is a            *)
(* permutation, ROUNDS rounds that each change one half, and the inverse   *)
(* permutation; a long key makes it three passes with two keys.  The       *)
(* tables are constants, and what the S boxes do is any function at all.   *)
(*                                                                         *)
(* The tables SubKey, Is3DES and the work areas are static in the code:    *)
(* one call at a time is assumed.                                          *)
(***************************************************************************)
EXTENDS Integers, Sequences

CONSTANTS
    HALF,                       \* bits of half a block, which is 8 bytes
    ROUNDS,
    IP_Table, IPR_Table,        \* permutations of a block
    E_Table, P_Table,           \* in a round
    PC1_Table, PC2_Table,       \* of the key's halves
    LOOP_Table,                 \* by how much they are rotated
    S_func(_),
    KEYBITS,                    \* of a key of 8 bytes
    Texts, Keys,                \* of bits
    Sizes                       \* the lengths of texts, in bytes

VARIABLES
    phase,                      \* "encrypt", "decrypt", then "done", or "refused"
    pKey, from, to,             \* the key and the texts of the call
    orig, size,                \* the first text, and its iOrigLen
    block, pass, M, round,      \* where it is: round is -1 between the passes
    trail                       \* the values that M took in each block's encryption

vars == <<phase, pKey, from, to, orig, size, block, pass, M, round, trail>>

BLOCK == 2 * HALF
Block(text, n) == SubSeq(text, BLOCK * (n - 1) + 1, BLOCK * n)

Bit == {0, 1}
Bits(n) == [1..n -> Bit]

\* What des.c's tables are: the two permutations of a block undo each other, every other
\* table points into what it is applied to, and the S boxes give bits wherever P_Table looks.
Tables ==
    /\ HALF \in Nat \ {0} /\ ROUNDS \in Nat /\ KEYBITS \in Nat \ {0}
    /\ IP_Table \in Seq(1..BLOCK) /\ Len(IP_Table) = BLOCK
    /\ IPR_Table \in Seq(1..BLOCK) /\ Len(IPR_Table) = BLOCK
    /\ \A k \in 1..BLOCK : IP_Table[IPR_Table[k]] = k /\ IPR_Table[IP_Table[k]] = k
    /\ E_Table \in Seq(1..HALF)
    /\ P_Table \in Seq(Nat) /\ Len(P_Table) = HALF
    /\ \A s \in Bits(Len(E_Table)) : \A k \in 1..HALF : S_func(s)[P_Table[k]] \in Bit
    /\ PC1_Table \in Seq(1..KEYBITS) /\ Len(PC1_Table) >= 2
    /\ PC2_Table \in Seq(1..(2 * (Len(PC1_Table) \div 2))) /\ Len(PC2_Table) = Len(E_Table)
    /\ LOOP_Table \in Seq(Nat) /\ Len(LOOP_Table) = ROUNDS

Inputs == Texts \subseteq Seq(Bit) /\ Keys \subseteq Seq(Bit) /\ Sizes \subseteq Nat

-----------------------------------------------------------------------------
(***************************************************************************)
(* The helpers, and the key's schedule.                                    *)
(***************************************************************************)
Transform(In, Table) == [k \in 1..Len(Table) |-> In[Table[k]]]
XorBits(a, b) == [k \in 1..Len(a) |-> (a[k] + b[k]) % 2]
RotateL(In, loop) == SubSeq(In, loop + 1, Len(In)) \o SubSeq(In, 1, loop)

\* How far the halves of the key have been rotated before the i-th subkey is taken.
Loops[i \in 0..ROUNDS] == IF i = 0 THEN 0 ELSE Loops[i - 1] + LOOP_Table[i]

SubKey(k, i) ==
    LET K == Transform(k, PC1_Table)
        n == Len(PC1_Table) \div 2
        turn == Loops[i] % n
    IN  Transform(RotateL(SubSeq(K, 1, n), turn) \o RotateL(SubSeq(K, n + 1, 2 * n), turn), PC2_Table)

\* The key is cut to two of 8 bytes, or filled with zeros.
deskey == [k \in 1..(2 * KEYBITS) |-> IF k <= Len(pKey) THEN pKey[k] ELSE 0]
Key(which) == IF which = 0 THEN SubSeq(deskey, 1, KEYBITS) ELSE SubSeq(deskey, KEYBITS + 1, 2 * KEYBITS)
Is3DES == Len(pKey) > KEYBITS

F_func(In, Ki) == Transform(S_func(XorBits(Transform(In, E_Table), Ki)), P_Table)

-----------------------------------------------------------------------------
(***************************************************************************)
(* The passes of a call: which key, and in which direction.                 *)
(***************************************************************************)
Other == IF phase = "encrypt" THEN "decrypt" ELSE "encrypt"
Passes == IF Is3DES THEN <<<<0, phase>>, <<1, Other>>, <<0, phase>>>> ELSE <<<<0, phase>>>>

Encrypting == Passes[pass][2] = "encrypt"
Li == SubSeq(M, 1, HALF)
Ri == SubSeq(M, HALF + 1, BLOCK)

\* iOrigLen is rounded up to blocks, so that what lies behind the text is read too.
Rounded(n) == 8 * ((n + 7) \div 8)
Blocks == Rounded(size) \div 8

Init == /\ pKey \in Keys /\ size \in Sizes
        /\ orig \in Texts /\ Len(orig) = BLOCK * Blocks
        /\ from = orig /\ to = <<>>
        /\ phase = IF size = 0 THEN "refused" ELSE "encrypt"
        /\ block = 1 /\ pass = 1 /\ M = <<>> /\ round = -1
        /\ trail = [n \in 1..Blocks |-> <<>>]

\* A pass begins: on the text, or on what the pass before it left.
Source == IF pass = 1 THEN Block(from, block) ELSE Block(to, block)
Recorded(m) == trail' = IF phase = "encrypt" THEN [trail EXCEPT ![block] = Append(@, m)] ELSE trail

Begin == /\ phase \in {"encrypt", "decrypt"} /\ round = -1 /\ block <= Blocks
         /\ M' = Transform(Source, IP_Table)
         /\ round' = 0
         /\ Recorded(M')
         /\ UNCHANGED <<phase, pKey, from, to, orig, size, block, pass>>

\* As KeyOf, in the same order both times.
InOrder == round + 1

\* Encryption takes the subkeys from the first to the last, decryption from the last to the first.
KeyOf == IF Encrypting THEN round + 1 ELSE ROUNDS - round

\* A round changes one half with the help of the other, and they change places.
Round == /\ round \in 0..(ROUNDS - 1)
         /\ LET Ki == SubKey(Key(Passes[pass][1]), KeyOf)
            IN  M' = IF Encrypting THEN Ri \o XorBits(F_func(Ri, Ki), Li)
                                   ELSE XorBits(F_func(Li, Ki), Ri) \o Li
         /\ round' = round + 1
         /\ Recorded(M')
         /\ UNCHANGED <<phase, pKey, from, to, orig, size, block, pass>>

End == /\ round = ROUNDS
       /\ to' = SubSeq(to, 1, BLOCK * (block - 1)) \o Transform(M, IPR_Table)
       /\ round' = -1
       /\ IF pass < Len(Passes) THEN pass' = pass + 1 /\ UNCHANGED block
                                ELSE pass' = 1 /\ block' = block + 1
       /\ UNCHANGED <<phase, pKey, from, orig, size, M, trail>>

\* DesDecrypt is called with the result, whose length is a number of blocks.
Decrypt == /\ phase = "encrypt" /\ block > Blocks
           /\ phase' = "decrypt"
           /\ from' = to /\ to' = <<>>
           /\ block' = 1
           /\ UNCHANGED <<pKey, orig, size, pass, M, round, trail>>

Finish == /\ phase = "decrypt" /\ block > Blocks
          /\ phase' = "done"
          /\ UNCHANGED <<pKey, from, to, orig, size, block, pass, M, round, trail>>

Next == Begin \/ Round \/ End \/ Decrypt \/ Finish

Spec == Init /\ [][Next]_vars

-----------------------------------------------------------------------------
\* Decryption takes every block through the values of its encryption in the opposite order, round by round,
\* with one key and with two, and so gives back the blocks that were read.
Steps == (pass - 1) * (ROUNDS + 1) + round
GoesBack ==
    /\ phase = "decrypt" /\ round >= 0 =>
          M = trail[block][Len(trail[block]) - Steps]
    /\ phase = "done" => to = orig
    /\ phase = "decrypt" => to = <<>> \/ pass > 1 \/ round >= 0
                            \/ to = SubSeq(orig, 1, BLOCK * (block - 1))
=============================================================================
