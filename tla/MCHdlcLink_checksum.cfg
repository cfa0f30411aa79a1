CONSTANTS
  FLAG = 254
  ESC = 125
  RX_LEN = 506
  Chunks = {}
  MaxHeard = 506
  Complement <- MCComplement
  PacketCrc8 <- MCCrc8
  PacketCrc16 <- MCCrc16
  Room = 253
  Mode = "VERIFY"
  Payloads <- MCSpecialSum
  MaxSent <- MCMaxSent
  NoiseBytes = {}
  MaxNoise = 0
  Damages = {}
  MaxPiece <- MCMaxPiece
SPECIFICATION FairLink
INVARIANT ArrivesIntact
CHECK_DEADLOCK FALSE
