------------------------------ MODULE MCHdlcLink ------------------------------
(***************************************************************************)
(* HdlcLink with the constants and the checksums of the code: FLAG 0xFE,   *)
(* ESC 0x7D, complement 0x20, a buffer of two packets.                     *)
(***************************************************************************)
EXTENDS HdlcLink, Checksums

MCComplement(b) == Complement8[b]
MCCrc8(dat)  == Crc8(51, dat)
MCCrc16(dat) == ModbusCrc16(dat)

\* Bytes that need escaping, their complements and plain ones, next to each other, and
\* two bytes whose packet yields other data with ESC in place of the first.
MCPayloads == {<<145, 65>>, <<254, 125>>, <<125, 222, 65>>}

\* Three payloads in pieces up to a whole packet on a quiet line, two in small pieces
\* among noise.
MCMaxSent(silent)  == IF silent THEN 3 ELSE 2
MCMaxPiece(silent) == IF silent THEN 9 ELSE 3

\* "Ae", whose checksum is 0x7D, and "Ab", whose checksum is 0xFE.
MCSpecialSum == {<<65, 101>>, <<65, 98>>}
=============================================================================
