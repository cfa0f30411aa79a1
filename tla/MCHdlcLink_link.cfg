CONSTANTS
  FLAG = 254
  ESC = 125
  RX_LEN = 506
  Chunks = {}
  MaxHeard = 506
  Complement <- MCComplement
  PacketCrc8 <- MCCrc8
  PacketCrc16 <- MCCrc16
  Room = 253
  Mode = "VERIFY"
  Payloads <- MCPayloads
  MaxSent <- MCMaxSent
  NoiseBytes = {254, 3, 5}
  MaxNoise = 2
  Damages = {254, 125, 65, 4}
  MaxPiece <- MCMaxPiece
SPECIFICATION FairLink
INVARIANTS ArrivesIntact DamageDetected BufLenSuffices
PROPERTY IsChannel
CHECK_DEADLOCK FALSE
