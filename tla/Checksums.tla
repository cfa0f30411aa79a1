------------------------------ MODULE Checksums ------------------------------
(***************************************************************************)
(* The checksums a packet can carry: crc8.c and ez_mod_bus_crc16.c.  Both  *)
(* work byte by byte through a table, whose entry for b is eight shifts of *)
(* b through the checksum's polynomial; the two tables of the second are   *)
(* the low and the high bytes of one.  Functions and not operators, so     *)
(* that TLC computes each table once.                                      *)
(***************************************************************************)
EXTENDS Integers, SequencesExt, Bitwise

Xor4 == [a \in 0..15 |-> [b \in 0..15 |-> a ^^ b]]
Xor8 == [a \in 0..255 |-> [b \in 0..255 |->
           16 * Xor4[a \div 16][b \div 16] + Xor4[a % 16][b % 16]]]
Complement8 == [b \in 0..255 |-> Xor8[b][32]]

Shift8 == [r \in 0..255 |-> IF r % 2 = 1 THEN Xor8[r \div 2][140] ELSE r \div 2]
Shift16 ==
  [r \in 0..65535 |->
     IF r % 2 = 1 THEN 256 * Xor8[r \div 512][160] + Xor8[(r \div 2) % 256][1] ELSE r \div 2]

Table(shift) ==
  [b \in 0..255 |-> shift[shift[shift[shift[shift[shift[shift[shift[b]]]]]]]]]
Crc8Table   == Table(Shift8)
ModbusTable == Table(Shift16)

\* ez_crc8
Crc8(intv, dat) == FoldLeft(LAMBDA crc, b : Crc8Table[Xor8[crc][b]], intv, dat)

\* ez_modbus_crc16, as the pair <<uchCRCHi, uchCRCLo>>
ModbusCrc16(updata) ==
  FoldLeft(LAMBDA crc, b : LET entry == ModbusTable[Xor8[crc[1]][b]]
                           IN  <<Xor8[crc[2]][entry % 256], entry \div 256>>,
           <<255, 255>>, updata)
=============================================================================
