------------------------------- MODULE Ciphers -------------------------------
(***************************************************************************)
(* The modes of aes.c and the calls around them, and those of d3des.c: how *)
(* a text is cut into blocks, filled up and chained.  The block ciphers    *)
(* themselves, Cipher and InvCipher, are any permutation of the blocks and *)
(* its inverse.                                                            *)
(*                                                                         *)
(* A text is encrypted and what came out is decrypted, each in one call of *)
(* a wrapper or piece by piece on a context that keeps the initialisation  *)
(* vector.                                                                 *)
(***************************************************************************)
EXTENDS Integers, Sequences, SequencesExt

CONSTANTS
    BLOCKLEN,                      \* bytes of a block; keys are as long
    BYTE,                          \* values of a byte
    Xor(_, _),
    Cipher(_, _), InvCipher(_, _), \* of a block, with a key
    Plains, Keys, Rooms, Ivs

VARIABLES
    mode,
    plain, key, room, iv0,         \* the call's arguments
    iv, fed,                       \* the context, and how much of the text it has had
    coded, decoded,                \* what came out
    aligned,                       \* every piece was a number of blocks
    stage, ret

vars == <<mode, plain, key, room, iv0, iv, fed, coded, decoded, aligned, stage, ret>>

Zero(n) == [k \in 1..n |-> 0]
Blocks(text) == [n \in 1..(Len(text) \div BLOCKLEN) |-> SubSeq(text, BLOCKLEN * (n - 1) + 1, BLOCKLEN * n)]
ez_aes_cbc_encrypt_out_len(n) == BLOCKLEN * ((n + BLOCKLEN - 1) \div BLOCKLEN)
FilledUp(text) == text \o Zero(ez_aes_cbc_encrypt_out_len(Len(text)) - Len(text))

\* A key is cut, or filled with zeros.
FixedKey(k) == [n \in 1..BLOCKLEN |-> IF n <= Len(k) THEN k[n] ELSE 0]

-----------------------------------------------------------------------------
(***************************************************************************)
(* The modes: c holds the vector and what has come out.                    *)
(***************************************************************************)
XorWithIv(b, v) == [n \in 1..BLOCKLEN |-> Xor(b[n], v[n])]

CBCEncrypted(c, b) ==
    LET e == Cipher(XorWithIv(b, c.iv), FixedKey(key)) IN [iv |-> e, out |-> c.out \o e]
AES_CBC_encrypt_buffer(v, text) == FoldLeft(CBCEncrypted, [iv |-> v, out |-> <<>>], Blocks(text))

CBCDecrypted(c, b) ==
    [iv |-> b, out |-> c.out \o XorWithIv(InvCipher(b, FixedKey(key)), c.iv)]
AES_CBC_decrypt_buffer(v, text) == FoldLeft(CBCDecrypted, [iv |-> v, out |-> <<>>], Blocks(text))

\* As Incremented, without the carry.
IncrementedLast(v) == [v EXCEPT ![BLOCKLEN] = (@ + 1) % BYTE]

\* The vector is a number, its last byte the lowest.
Incremented(v) ==
    [n \in 1..BLOCKLEN |-> IF \A m \in (n + 1)..BLOCKLEN : v[m] = BYTE - 1 THEN (v[n] + 1) % BYTE ELSE v[n]]

\* Every call begins a block of the key stream.
CTRByte(c, x) ==
    LET fresh == c.bi = BLOCKLEN
        buffer == IF fresh THEN Cipher(c.iv, FixedKey(key)) ELSE c.buffer
        bi == IF fresh THEN 0 ELSE c.bi
    IN  [iv |-> IF fresh THEN Incremented(c.iv) ELSE c.iv, buffer |-> buffer, bi |-> bi + 1,
         out |-> Append(c.out, Xor(x, buffer[bi + 1]))]
AES_CTR_xcrypt_buffer(v, text) ==
    FoldLeft(CTRByte, [iv |-> v, buffer |-> <<>>, bi |-> BLOCKLEN, out |-> <<>>], text)

-----------------------------------------------------------------------------
(***************************************************************************)
(* ez_aes_cbc_encrypt and ez_aes_cbc_decrypt, where the vector is the key, *)
(* and ez_des_ecb_encrypt and ez_des_ecb_decrypt, block by block.          *)
(***************************************************************************)
ez_aes_cbc_encrypt ==
    IF plain = <<>> \/ room < Len(plain) \/ key = <<>> THEN [ret |-> -1, out |-> <<>>]
    ELSE IF room < ez_aes_cbc_encrypt_out_len(Len(plain)) THEN [ret |-> -3, out |-> <<>>]
    ELSE [ret |-> ez_aes_cbc_encrypt_out_len(Len(plain)),
          out |-> AES_CBC_encrypt_buffer(FixedKey(key), FilledUp(plain)).out]

ez_aes_cbc_decrypt(text) ==
    IF text = <<>> \/ room < Len(text) \/ key = <<>> THEN [ret |-> -1, out |-> <<>>]
    ELSE IF Len(text) % BLOCKLEN # 0 THEN [ret |-> -3, out |-> <<>>]
    ELSE [ret |-> Len(text), out |-> AES_CBC_decrypt_buffer(FixedKey(key), text).out]

Each(f(_, _), text) == FlattenSeq([n \in DOMAIN Blocks(text) |-> f(Blocks(text)[n], FixedKey(key))])
ez_des_ecb_encrypt == [ret |-> ez_aes_cbc_encrypt_out_len(Len(plain)), out |-> Each(Cipher, FilledUp(plain))]
ez_des_ecb_decrypt(text) ==
    IF Len(text) % BLOCKLEN # 0 THEN [ret |-> -1, out |-> <<>>]
    ELSE [ret |-> Len(text), out |-> Each(InvCipher, text)]

-----------------------------------------------------------------------------
Init == /\ mode \in {"ez_aes_cbc", "ez_des_ecb", "AES_CBC", "AES_CTR"}
        /\ plain \in Plains /\ key \in Keys /\ room \in Rooms /\ iv0 \in Ivs
        /\ mode # "ez_aes_cbc" => room = CHOOSE r \in Rooms : TRUE
        /\ mode \in {"ez_aes_cbc", "ez_des_ecb"} => iv0 = CHOOSE v \in Ivs : TRUE
        /\ mode = "AES_CBC" => Len(plain) % BLOCKLEN = 0
        /\ iv = iv0 /\ fed = 0 /\ coded = <<>> /\ decoded = <<>> /\ aligned = TRUE
        /\ stage = "encrypt" /\ ret = 0

\* The wrappers; also a text that is no number of blocks is given to decryption.
Encrypt == /\ mode \in {"ez_aes_cbc", "ez_des_ecb"} /\ stage = "encrypt"
           /\ LET e == IF mode = "ez_aes_cbc" THEN ez_aes_cbc_encrypt ELSE ez_des_ecb_encrypt
              IN  ret' = e.ret /\ coded' = e.out
           /\ stage' = "encrypted"
           /\ UNCHANGED <<mode, plain, key, room, iv0, iv, fed, decoded, aligned>>
Decrypt(text) ==
    /\ mode \in {"ez_aes_cbc", "ez_des_ecb"} /\ stage = "encrypted" /\ ret > 0
    /\ LET d == IF mode = "ez_aes_cbc" THEN ez_aes_cbc_decrypt(text) ELSE ez_des_ecb_decrypt(text)
       IN  ret' = d.ret /\ decoded' = d.out
    /\ stage' = IF text = coded THEN "decrypted" ELSE "cut"
    /\ UNCHANGED <<mode, plain, key, room, iv0, iv, fed, coded, aligned>>

\* A piece of n bytes on a context; the pieces of CBC are blocks.
Pieces(text) == {n \in 1..(Len(text) - fed) : mode = "AES_CBC" => n % BLOCKLEN = 0}
Piece(text, n) == SubSeq(text, fed + 1, fed + n)

EncryptPiece(n) ==
    /\ mode \in {"AES_CBC", "AES_CTR"} /\ stage = "encrypt" /\ n \in Pieces(plain)
    /\ LET c == IF mode = "AES_CBC" THEN AES_CBC_encrypt_buffer(iv, Piece(plain, n))
                ELSE AES_CTR_xcrypt_buffer(iv, Piece(plain, n))
       IN  iv' = c.iv /\ coded' = coded \o c.out
    /\ fed' = fed + n
    /\ aligned' = (aligned /\ (n % BLOCKLEN = 0 \/ fed + n = Len(plain)))
    /\ UNCHANGED <<mode, plain, key, room, iv0, decoded, stage, ret>>

\* The other side has its own context, with the same vector (AES_init_ctx_iv).
SwitchSides == /\ mode \in {"AES_CBC", "AES_CTR"} /\ stage = "encrypt" /\ fed = Len(plain)
               /\ stage' = "decrypt" /\ iv' = iv0 /\ fed' = 0
               /\ UNCHANGED <<mode, plain, key, room, iv0, coded, decoded, aligned, ret>>

DecryptPiece(n) ==
    /\ stage = "decrypt" /\ n \in Pieces(coded)
    /\ LET c == IF mode = "AES_CBC" THEN AES_CBC_decrypt_buffer(iv, Piece(coded, n))
                ELSE AES_CTR_xcrypt_buffer(iv, Piece(coded, n))
       IN  iv' = c.iv /\ decoded' = decoded \o c.out
    /\ fed' = fed + n
    /\ aligned' = (aligned /\ (n % BLOCKLEN = 0 \/ fed + n = Len(coded)))
    /\ UNCHANGED <<mode, plain, key, room, iv0, coded, stage, ret>>

Next == \/ Encrypt \/ SwitchSides
        \/ \E n \in 1..Len(coded) : Decrypt(SubSeq(coded, 1, n))
        \/ \E n \in 1..Len(plain) : EncryptPiece(n) \/ DecryptPiece(n)

Spec == Init /\ [][Next]_vars

-----------------------------------------------------------------------------
\* What the modes are defined to be: the n-th block of a cipher text.
Before(n) == IF n = 1 THEN (IF mode = "ez_aes_cbc" THEN FixedKey(key) ELSE iv0) ELSE Blocks(coded)[n - 1]
Stands(n) ==
    LET b == Blocks(FilledUp(plain))[n]
        c == Blocks(coded)[n]
    IN  IF mode = "ez_des_ecb" THEN c = Cipher(b, FixedKey(key))
        ELSE c = Cipher(XorWithIv(b, Before(n)), FixedKey(key))

\* The number that a vector is, and the k-th vector after one.
NumberOf(v) == FoldLeft(LAMBDA n, x : BYTE * n + x, 0, v)
StreamByte(k) ==
    LET v == CHOOSE w \in [1..BLOCKLEN -> 0..(BYTE - 1)] :
                NumberOf(w) = (NumberOf(iv0) + ((k - 1) \div BLOCKLEN)) % (BYTE ^ BLOCKLEN)
    IN  Cipher(v, FixedKey(key))[((k - 1) % BLOCKLEN) + 1]

\* A cipher text is what its mode defines, in however many pieces it was made, and is decrypted, in whatever
\* other pieces, to the text filled up with zeros; in counter mode both hold when the pieces are blocks.  It
\* is refused only for want of room, or of a text or key, and one that was cut off inside a block always is.
TextComesBack ==
    /\ mode # "AES_CTR" => \A n \in 1..(Len(coded) \div BLOCKLEN) : Stands(n)
    /\ mode = "AES_CTR" /\ aligned => \A k \in 1..Len(coded) : coded[k] = Xor(plain[k], StreamByte(k))
    /\ stage = "encrypted" => (ret <= 0 <=> coded = <<>>) /\ (ret > 0 => Len(coded) = ret)
    /\ stage = "encrypted" /\ ret < 0 => plain = <<>> \/ key = <<>> \/ room < Len(FilledUp(plain))
    /\ stage = "decrypted" => ret = Len(coded) /\ decoded = FilledUp(plain)
    /\ stage = "cut" => /\ IsPrefix(decoded, FilledUp(plain)) /\ Len(decoded) % BLOCKLEN = 0
                        /\ ret = (IF decoded # <<>> THEN Len(decoded) ELSE IF mode = "ez_aes_cbc" THEN -3 ELSE -1)
    /\ stage = "decrypt" /\ aligned => decoded = SubSeq(plain, 1, fed)
=============================================================================
