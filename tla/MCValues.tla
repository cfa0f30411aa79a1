------------------------------ MODULE MCValues ------------------------------
(***************************************************************************)
(* The parts of the library that compute on values: times, digests and     *)
(* ciphers; the file helpers; and the table of readings and the receiver   *)
(* of HDLC, whose modules this one extends.  They share nothing: in a      *)
(* behaviour one of them runs, `part', and the others stay where they are. *)
(***************************************************************************)
EXTENDS DataIdx, HdlcReceiver, SequencesExt

VARIABLES part,
          ts1, ts2, i, neg1, neg2, at, given,
          tree, content, was, call, pc, pos, kept, result, answer, faults,
          alg, message, taken, ctx, step, digest, status,
          phase, pKey, from, to, orig, size, block, pass, M, round, trail,
          mode, plain, key, room, iv0, iv, fed, coded, decoded, aligned, stage, ret

timeVars == <<ts1, ts2, i, neg1, neg2, at, given>>
fsVars == <<tree, content, was, call, pc, pos, kept, result, answer, faults>>
digestVars == <<alg, message, taken, ctx, step, digest, status>>
desVars == <<phase, pKey, from, to, orig, size, block, pass, M, round, trail>>
cipherVars == <<mode, plain, key, room, iv0, iv, fed, coded, decoded, aligned, stage, ret>>

(***************************************************************************)
(* hdlc_ondata over every line of a few bytes, cut in every way, through a *)
(* buffer small enough to overload.  FLAG is 4; the other bytes serve as   *)
(* lengths that are too small, that fit, and that are never reached.       *)
(***************************************************************************)
MCChunks == UNION {[1..n -> {1, 3, 4, 5}] : n \in 1..3}

(***************************************************************************)
(* A second of 8 nanoseconds and a long of 9 bits.  With the far times the *)
(* doubling in timespec_mod stops at the bound.  Doubles are coarser than  *)
(* nanoseconds, or finer, and hold some of them only.                      *)
(***************************************************************************)
Tm(s, n) == [tv_sec |-> s, tv_nsec |-> n]
Near == {Tm(s, n) : s \in -4..4, n \in {-17, -8, -7, -1, 0, 3, 8, 13}}
Far == {Tm(253, 7), Tm(-250, 3), Tm(126, 5), Tm(0, 1)} \X {Tm(127, 0), Tm(126, 7), Tm(3, 5), Tm(1, 1), Tm(-127, 0)}
T == INSTANCE Timespec WITH
        NSEC_PER_SEC <- 8, NSEC_PER_USEC <- 2, NSEC_PER_MSEC <- 4, LONG_MAX <- 255, Grids <- {3, 4, 12},
        Pairs <- (Near \X Near) \cup Far

(***************************************************************************)
(* Two callers of ez_fs.c, a stream of two bytes.                          *)
(***************************************************************************)
FsCalls == {[fn |-> "creat_dir", path |-> p] : p \in {<<"", "a", "b", "c">>, <<"a", "b">>, <<"a", "", "b", "">>}}
           \cup {[fn |-> "load"], [fn |-> "exist"]}
           \cup [fn : {"save", "append", "save_memory_memory"}, buff : {<<>>, <<1>>, <<1, 2, 3>>},
                 buff2 : {<<>>, <<4, 5>>}]
F == INSTANCE EzFs WITH
        Callers <- {"A", "B"}, Calls <- FsCalls, Trees <- {{<<>>}, {<<>>, <<"a">>}},
        Contents <- {<<-1>>, <<>>, <<7, 8>>, <<7, 8, 9, 9, 9>>}, STREAM <- 2

(***************************************************************************)
(* Blocks of eight bytes, two of which hold the length; a word is 16 bytes *)
(* and three words are too many.                                           *)
(***************************************************************************)
H == INSTANCE Digests WITH
        BLOCK <- 8, LOW <- 128, HIGH <- 3, Lengths <- {0, 1, 5, 6, 7, 8, 9, 13, 14, 15, 16, 17, 23, 33, 47, 48, 49},
        CHUNK <- 9, HASH <- 4

(***************************************************************************)
(* des.c with blocks of eight bits, four rounds and a round function that  *)
(* has no inverse; up to two blocks, keys of every kind of length.         *)
(***************************************************************************)
SBox(x) == <<(x[1] * x[2] + x[6]) % 2, (x[3] + x[5]) % 2, (x[2] + x[4] * x[6]) % 2, (1 + x[1] * x[5]) % 2>>
BitTexts == {<<>>, <<1, 0, 1, 1, 0, 0, 1, 0>>, <<0, 0, 0, 0, 0, 0, 0, 0>>, <<1, 1, 1, 0, 1, 0, 0, 1>>,
             <<0, 1, 1, 1, 0, 1, 0, 0, 1, 1, 1, 0, 1, 1, 0, 1>>}
BitKeys == {<<>>, <<1, 0, 1>>, <<1, 0, 1, 1, 0, 1, 0, 0>>, <<1, 0, 1, 1, 0, 1, 0, 0, 1>>,
            <<1, 0, 1, 1, 0, 1, 0, 0, 1, 1, 0, 1, 0, 1, 1, 0, 1, 1>>}
D == INSTANCE Des WITH
        HALF <- 4, ROUNDS <- 4, IP_Table <- <<6, 2, 8, 4, 1, 7, 3, 5>>, IPR_Table <- <<5, 2, 7, 4, 8, 1, 6, 3>>,
        E_Table <- <<4, 1, 2, 3, 4, 1>>, P_Table <- <<3, 1, 4, 2>>, PC1_Table <- <<7, 5, 3, 1, 6, 4>>,
        PC2_Table <- <<6, 1, 4, 2, 5, 3>>, LOOP_Table <- <<1, 1, 2, 1>>, S_func <- SBox, KEYBITS <- 8,
        Texts <- BitTexts, Keys <- BitKeys, Sizes <- 0..16
ASSUME TablesAssumption == D!Tables /\ D!Inputs

(***************************************************************************)
(* The modes with blocks of two bytes of two bits, and vectors that wrap.  *)
(***************************************************************************)
XorBytes(a, b) == (((a \div 2) + (b \div 2)) % 2) * 2 + ((a + b) % 2)
Number(b) == b[1] * 4 + b[2]
BlockOf(n) == <<n \div 4, n % 4>>
Enciphered(b, k) == BlockOf((7 * Number(b) + Number(k) + 3) % 16)
Deciphered(b, k) == BlockOf((7 * ((Number(b) - Number(k) + 29) % 16)) % 16)
C == INSTANCE Ciphers WITH
        BLOCKLEN <- 2, BYTE <- 4, Xor <- XorBytes, Cipher <- Enciphered, InvCipher <- Deciphered,
        Plains <- {<<>>, <<1>>, <<1, 2>>, <<3, 0, 1>>, <<0, 0, 3, 3>>, <<1, 2, 3, 0, 1>>, <<3, 3, 3, 3, 2, 1>>},
        Keys <- {<<>>, <<1>>, <<2, 3>>, <<2, 3, 1>>}, Rooms <- {2, 5, 6}, Ivs <- {<<0, 0>>, <<3, 3>>, <<1, 3>>}

-----------------------------------------------------------------------------
TimeOff == ts1 = 0 /\ ts2 = 0 /\ i = 0 /\ neg1 = FALSE /\ neg2 = FALSE /\ at = "off" /\ given = 0
FsOff == /\ tree = {} /\ content = 0 /\ was = 0 /\ call = 0 /\ pc = 0 /\ pos = 0 /\ kept = 0 /\ result = 0
         /\ answer = 0 /\ faults = {}
DigestOff == alg = "off" /\ message = 0 /\ taken = 0 /\ ctx = 0 /\ step = "off" /\ digest = 0 /\ status = 0
DesOff == /\ phase = "off" /\ pKey = 0 /\ from = 0 /\ to = 0 /\ orig = 0 /\ size = 0 /\ block = 0 /\ pass = 0
          /\ M = 0 /\ round = -1 /\ trail = 0
CipherOff == /\ mode = "off" /\ plain = 0 /\ key = 0 /\ room = 0 /\ iv0 = 0 /\ iv = 0 /\ fed = 0 /\ coded = 0
             /\ decoded = 0 /\ aligned = TRUE /\ stage = "off" /\ ret = 0

Init ==
    /\ InitIdx /\ InitReceiver
    /\ \/ part = "times" /\ T!Init /\ FsOff /\ DigestOff /\ DesOff /\ CipherOff
       \/ part \in {"readings", "line"} /\ TimeOff /\ FsOff /\ DigestOff /\ DesOff /\ CipherOff
       \/ part = "files" /\ F!Init /\ TimeOff /\ DigestOff /\ DesOff /\ CipherOff
       \/ part = "digests" /\ H!Init /\ TimeOff /\ FsOff /\ DesOff /\ CipherOff
       \/ part = "des" /\ D!Init /\ TimeOff /\ FsOff /\ DigestOff /\ CipherOff
       \/ part = "ciphers" /\ C!Init /\ TimeOff /\ FsOff /\ DigestOff /\ DesOff

TimeSteps == /\ part = "times" /\ T!Next
             /\ UNCHANGED <<part, rxVars, idxVars, fsVars, digestVars, desVars, cipherVars>>
LineSteps == /\ part = "line" /\ NextReceiver
             /\ UNCHANGED <<part, timeVars, idxVars, fsVars, digestVars, desVars, cipherVars>>
TableCalls == /\ part = "readings" /\ NextIdx
              /\ UNCHANGED <<part, rxVars, timeVars, fsVars, digestVars, desVars, cipherVars>>
FileSteps == /\ part = "files" /\ F!Next
             /\ UNCHANGED <<part, rxVars, timeVars, idxVars, digestVars, desVars, cipherVars>>
DigestCalls == /\ part = "digests" /\ H!Next
               /\ UNCHANGED <<part, rxVars, timeVars, idxVars, fsVars, desVars, cipherVars>>
DesSteps == /\ part = "des" /\ D!Next
            /\ UNCHANGED <<part, rxVars, timeVars, idxVars, fsVars, digestVars, cipherVars>>
CipherCalls == /\ part = "ciphers" /\ C!Next
               /\ UNCHANGED <<part, rxVars, timeVars, idxVars, fsVars, digestVars, desVars>>

Next == TimeSteps \/ LineSteps \/ TableCalls \/ FileSteps \/ DigestCalls \/ DesSteps \/ CipherCalls

\* The loop of a call of hdlc_ondata runs until it returns.
Spec == /\ Init /\ [][Next]_<<part, rxVars, timeVars, idxVars, fsVars, digestVars, desVars, cipherVars>>
        /\ WF_rxVars(part = "line" /\ Scan)

-----------------------------------------------------------------------------
\* The functions of timespec.c compute on the numbers that times stand for, timespec_mod through all its
\* doublings and subtractions.
TimesAreNumbers == part = "times" => T!TimesAreNumbers

\* What the callers of ez_fs.c are told is true, whoever else made directories or wrote the file meanwhile
\* and whatever the system failed, but for the fclose that nobody looks at: a length that was told is
\* that of the bytes handed to the stream, and they are in the file unless that last call failed.
AnswersAreTrue == part = "files" => F!AnswersAreTrue

\* A digest is that of the message's padded blocks, however the message was cut.
DigestOfTheMessage == part = "digests" => H!DigestOfTheMessage

\* DesDecrypt undoes DesEncrypt round by round.
GoesBack == part = "des" => D!GoesBack

\* The modes of AES and the calls around AES and DES give the text back.
TextComesBack == part = "ciphers" => C!TextComesBack
=============================================================================
