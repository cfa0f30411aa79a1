------------------------------- MODULE Digests -------------------------------
(***************************************************************************)
(* sha1.c, sha256.c, std_md5.c and md5.c: a message is cut by its caller   *)
(* into pieces, and by the algorithm into blocks of BLOCK bytes, the last  *)
(* one or two filled up with a mark, zeros and the message's length.  The  *)
(* compression of a block is not modelled: a digest is the sequence of the *)
(* blocks that were compressed, which is what it is a function of.         *)
(*                                                                         *)
(* The length is in bits, in two words, here one element of the block      *)
(* each: LOW and HIGH are how many values they have (2^32 in the code),    *)
(* and a LOW of bits is a multiple of a block.                             *)
(***************************************************************************)
EXTENDS Integers, Sequences, SequencesExt

CONSTANTS
    BLOCK, LOW, HIGH,
    Lengths,       \* of messages, in bytes
    CHUNK,         \* what ez_file_md5 reads at a time
    HASH           \* the bytes of a digest

VARIABLES
    alg, message, taken,
    ctx,           \* the context
    step,         \* "input"; "ended": the digest was asked for; "returned" from a call that does all
    digest, status \* what the last call wrote and returned

vars == <<alg, message, taken, ctx, step, digest, status>>

LENGTH == 2                  \* elements of a block that hold the length
ROOM == BLOCK - LENGTH
MARK == -1

\* One context for all: lo and hi are the words of the length (lo alone, all of it, in sha256; in md5 lo is
\* as wide as a long), of bits but in std_md5, where lo is bytes.
NewContext == [buffer |-> [k \in 1..BLOCK |-> 0], index |-> 0, lo |-> 0, hi |-> 0, blocks |-> <<>>,
               computed |-> FALSE, corrupted |-> 0]

\* A block is compressed; the bytes of the buffer stay.
Compress(c) == [c EXCEPT !.blocks = Append(@, c.buffer), !.index = 0]
CompressAll(c, data) ==
    [c EXCEPT !.blocks = @ \o [k \in 1..(Len(data) \div BLOCK) |-> SubSeq(data, BLOCK * (k - 1) + 1, BLOCK * k)]]

\* The elements of `data' are copied into the buffer behind the first n.
Put(c, n, data) ==
    [c EXCEPT !.buffer = [k \in 1..BLOCK |-> IF k - n \in 1..Len(data) THEN data[k - n] ELSE @[k]]]
Zeros(n) == [k \in 1..n |-> 0]

-----------------------------------------------------------------------------
(***************************************************************************)
(* sha1.c.  The context remembers that the digest was taken (computed) and *)
(* that something went wrong (corrupted, the error).                       *)
(***************************************************************************)
shaNull == 1
shaStateError == 3

\* The length is counted, with a carry; a carry out of it is an error.
Counted(c) ==
    LET lo == (c.lo + 8) % LOW
        hi == IF lo = 0 THEN (c.hi + 1) % HIGH ELSE c.hi
    IN  [c EXCEPT !.lo = lo, !.hi = hi, !.corrupted = IF lo = 0 /\ hi = 0 THEN 1 ELSE @]

Octet(c, x) == LET d == [Put(c, c.index, <<x>>) EXCEPT !.index = @ + 1] IN Counted(d)

SHA1Input(c, data) ==
    IF data = <<>> THEN c
    ELSE IF c.computed THEN [c EXCEPT !.corrupted = shaStateError]
    ELSE FoldLeft(LAMBDA d, x : IF d.corrupted # 0 THEN d
                                ELSE IF Octet(d, x).index = BLOCK THEN Compress(Octet(d, x)) ELSE Octet(d, x),
                  c, data)

\* As SHA1PadMessage, with the mark one byte later in the first block.
SHA1PadMessageLate(c) ==
    LET full == c.index > ROOM
        marked == Put(c, c.index, <<MARK>> \o Zeros((IF full THEN BLOCK ELSE ROOM) - c.index - 1))
        last == IF full THEN Put(Compress(marked), 0, Zeros(ROOM)) ELSE marked
    IN  Compress(Put(last, ROOM, <<c.hi, c.lo>>))

\* One block when the mark and the length fit, and two when they do not.
SHA1PadMessage(c) ==
    LET full == c.index > ROOM - 1
        marked == Put(c, c.index, <<MARK>> \o Zeros((IF full THEN BLOCK ELSE ROOM) - c.index - 1))
        last == IF full THEN Put(Compress(marked), 0, Zeros(ROOM)) ELSE marked
    IN  Compress(Put(last, ROOM, <<c.hi, c.lo>>))

\* The digest may be asked for again; the message is wiped out.
SHA1Result(c) ==
    IF c.corrupted # 0 \/ c.computed THEN c
    ELSE [SHA1PadMessage(c) EXCEPT !.buffer = Zeros(BLOCK), !.lo = 0, !.hi = 0, !.computed = TRUE]

-----------------------------------------------------------------------------
(***************************************************************************)
(* sha256.c: the length is counted when a block is full.                   *)
(***************************************************************************)
sha256_update(c, data) ==
    FoldLeft(LAMBDA d, x : LET e == [Put(d, d.index, <<x>>) EXCEPT !.index = @ + 1]
                           IN  IF e.index = BLOCK
                               THEN [Compress(e) EXCEPT !.lo = (@ + 8 * BLOCK) % (LOW * HIGH)] ELSE e,
             c, data)

sha256_final(c) ==
    LET marked == IF c.index < ROOM
                  THEN Put(c, c.index, <<MARK>> \o Zeros(ROOM - c.index - 1))
                  ELSE Put(Compress(Put(c, c.index, <<MARK>> \o Zeros(BLOCK - c.index - 1))), 0, Zeros(ROOM))
        bitlen == (c.lo + 8 * c.index) % (LOW * HIGH)
    IN  Compress(Put(marked, ROOM, <<bitlen \div LOW, bitlen % LOW>>))

-----------------------------------------------------------------------------
(***************************************************************************)
(* std_md5.c: whole blocks are compressed where they are; lo counts bytes, *)
(* up to BYTES, and becomes bits at the end.                               *)
(***************************************************************************)
BYTES == LOW \div 8

std_MD5_Update(c, data) ==
    LET size == Len(data)
        lo == (c.lo + size) % BYTES
        counted == [c EXCEPT !.lo = lo, !.hi = (@ + (IF lo < c.lo THEN 1 ELSE 0) + size \div BYTES) % HIGH]
        used == c.lo % BLOCK
        available == BLOCK - used
        cut == IF used = 0 THEN 0 ELSE available
        rest == SubSeq(data, cut + 1, size)
        whole == BLOCK * (Len(rest) \div BLOCK)
        first == IF used = 0 THEN counted ELSE Compress(Put(counted, used, SubSeq(data, 1, cut)))
    IN  IF used # 0 /\ size < available THEN Put(counted, used, data)
        ELSE Put(CompressAll(first, SubSeq(rest, 1, whole)), 0, SubSeq(rest, whole + 1, Len(rest)))

std_MD5_Final(c) ==
    LET used == (c.lo % BLOCK) + 1
        marked == Put(c, used - 1, <<MARK>>)
        second == BLOCK - used < LENGTH
        filled == IF second THEN Put(Compress(Put(marked, used, Zeros(BLOCK - used))), 0, Zeros(ROOM))
                            ELSE Put(marked, used, Zeros(ROOM - used))
    IN  Compress(Put(filled, ROOM, <<(8 * c.lo) % LOW, c.hi>>))

-----------------------------------------------------------------------------
(***************************************************************************)
(* md5.c: the end is fed like the message.  count[0] is a long of 64 bits, *)
(* so its carry is not that of 32, though 32 of its bits are written.      *)
(***************************************************************************)
ez_MD5Update(c, data) ==
    LET inputLen == Len(data)
        index == (c.lo \div 8) % BLOCK
        partLen == BLOCK - index
        counted == [c EXCEPT !.lo = @ + 8 * inputLen, !.hi = (@ + inputLen \div BYTES) % HIGH]
        i == IF inputLen >= partLen THEN partLen + BLOCK * ((inputLen - partLen) \div BLOCK) ELSE 0
    IN  IF inputLen >= partLen
        THEN Put(CompressAll(Compress(Put(counted, index, SubSeq(data, 1, partLen))), SubSeq(data, partLen + 1, i)),
                 0, SubSeq(data, i + 1, inputLen))
        ELSE Put(counted, index, data)

ez_MD5Final(c) ==
    LET bits == <<c.lo % LOW, c.hi>>
        index == (c.lo \div 8) % BLOCK
        padLen == IF index < ROOM THEN ROOM - index ELSE BLOCK + ROOM - index
    IN  ez_MD5Update(ez_MD5Update(c, <<MARK>> \o Zeros(padLen - 1)), bits)

-----------------------------------------------------------------------------
(***************************************************************************)
(* The calls.                                                              *)
(***************************************************************************)
Update(c, data) ==
    CASE alg = "sha1" -> SHA1Input(c, data) [] alg = "sha256" -> sha256_update(c, data)
      [] alg = "std_md5" -> std_MD5_Update(c, data) [] OTHER -> ez_MD5Update(c, data)
Final(c) ==
    CASE alg = "sha1" -> SHA1Result(c) [] alg = "sha256" -> sha256_final(c)
      [] alg = "std_md5" -> std_MD5_Final(c) [] OTHER -> ez_MD5Final(c)

Init == /\ alg \in {"sha1", "sha256", "std_md5", "md5", "file_md5"}
        /\ \E n \in Lengths : message = [k \in 1..n |-> k]
        /\ taken = 0 /\ ctx = NewContext /\ step = "input"
        /\ digest = <<>> /\ status = 0

\* The next n bytes; ez_file_md5 feeds what a read returns.
Input(n) ==
    /\ step = "input" /\ taken + n <= Len(message)
    /\ alg = "file_md5" => n \in 1..CHUNK
    /\ ctx' = Update(ctx, SubSeq(message, taken + 1, taken + n))
    /\ taken' = taken + n
    /\ UNCHANGED <<alg, message, step, digest, status>>

\* The digest.
Result == /\ step = "input" /\ taken = Len(message)
          /\ ctx' = Final(ctx)
          /\ step' = "ended"
          /\ status' = ctx'.corrupted
          /\ digest' = IF status' = 0 THEN ctx'.blocks ELSE digest
          /\ UNCHANGED <<alg, message, taken>>

\* A file that cannot be read.
ReadError == /\ alg = "file_md5" /\ step = "input"
             /\ step' = "returned" /\ status' = -100
             /\ UNCHANGED <<alg, message, taken, ctx, digest>>

\* A context of sha1 knows that it has ended: more input spoils it, the result can be asked for again.
InputAfter == /\ alg = "sha1" /\ step = "ended"
              /\ ctx' = SHA1Input(ctx, <<0>>)
              /\ status' = ctx'.corrupted
              /\ UNCHANGED <<alg, message, taken, step, digest>>
ResultAgain == /\ alg = "sha1" /\ step = "ended"
               /\ ctx' = SHA1Result(ctx)
               /\ status' = ctx'.corrupted
               /\ digest' = IF status' = 0 THEN ctx'.blocks ELSE digest
               /\ UNCHANGED <<alg, message, taken, step>>

\* ez_sha1 and ez_sha1_str, ez_cal_std_md5 and its two strings, ez_md5_calc and its string: a message in one
\* call, into the room for a digest or for the string of it.
ez_sha1(room) == IF room < 2 * HASH + 1 \/ message = <<>> THEN -1
                 ELSE IF SHA1Result(SHA1Input(NewContext, message)).corrupted # 0 THEN -4 ELSE 0
ez_cal_std_md5(room) == IF room < HASH \/ message = <<>> THEN -1 ELSE 0
ez_cal_std_md5_32b_string(room) == IF room <= 2 * HASH \/ message = <<>> THEN -1 ELSE 0
ez_md5_calc == 0

AtOnce(ret) == /\ step = "input" /\ taken = 0
               /\ step' = "returned" /\ status' = ret
               /\ digest' = IF ret = 0 THEN Final(Update(NewContext, message)).blocks ELSE digest
               /\ UNCHANGED <<alg, message, taken, ctx>>
OneCall == \/ \E room \in {2 * HASH, 2 * HASH + 1} : alg = "sha1" /\ AtOnce(ez_sha1(room))
           \/ \E room \in {HASH - 1, HASH} : alg = "std_md5" /\ AtOnce(ez_cal_std_md5(room))
           \/ \E room \in {2 * HASH, 2 * HASH + 1} : alg = "std_md5" /\ AtOnce(ez_cal_std_md5_32b_string(room))
           \/ alg = "md5" /\ AtOnce(ez_md5_calc)

Next == \/ \E n \in 1..(Len(message) - taken) : Input(n)
        \/ Result \/ ReadError \/ InputAfter \/ ResultAgain \/ OneCall

Spec == Init /\ [][Next]_vars

-----------------------------------------------------------------------------
\* The blocks of a message as RFC 1321 and FIPS 180 define them.
Tail0 == (2 * BLOCK - LENGTH - 1 - (Len(message) % BLOCK)) % BLOCK
LengthOf(n) == <<((8 * n) \div LOW) % HIGH, (8 * n) % LOW>>
Standard ==
    LET n == Len(message)
        len == IF alg \in {"sha1", "sha256"} THEN LengthOf(n) ELSE Reverse(LengthOf(n))
        all == message \o <<MARK>> \o Zeros(Tail0) \o len
    IN  [k \in 1..(Len(all) \div BLOCK) |-> SubSeq(all, BLOCK * (k - 1) + 1, BLOCK * k)]

\* Whether the two words of the length hold that of the message; in md5.c, a message of less than a word
\* of bits, or one in a single call, has no carry to lose.
NoCarry == alg \notin {"md5", "file_md5"} \/ Len(message) < BYTES \/ taken = 0
TooLong == alg = "sha1" /\ 8 * Len(message) >= LOW * HIGH

\* However a message was cut, the digest is that of its blocks, whenever it is asked for; a message that is
\* too long, and one that goes on after its digest was taken, give an error and leave no other digest.
DigestOfTheMessage ==
    /\ digest # <<>> /\ NoCarry => digest = Standard /\ ~TooLong
    /\ digest # <<>> => Len(digest) = Len(Standard)
    /\ step # "input" /\ status = 0 => digest # <<>>
    /\ step = "input" /\ ~TooLong => ctx.blocks = SubSeq(Standard, 1, taken \div BLOCK)
=============================================================================
