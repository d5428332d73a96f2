SPECIFICATION MCSpec
CONSTANTS
  Daemons = {d1, d2, d3}
  FieldBits = 3
  FieldPolynomial = 11
  MaxN = 6
  MaxK = 3
  ByteBits = 2
  CrcBits = 4
  CrcPolynomial = 12
  FlashBytes = 8
  PageBytes = 2
  SectorBytes = 4
  Endurance = 1
  WindowBytes = 8
  Bits = {0, 1}
  PayloadBase = 0
  Blocks = 2
  BlockBytes = 2
  CrcBase = 4
  SlotBytes = 2
  Contents <- Blocks2
  CrcOf <- Digest
  Scratch = {2, 5}
  Writes <- OtherWrites
  MaxFaults = 1
INVARIANT LayoutSound
INVARIANT VerifySound
INVARIANT ProtectionSound
INVARIANT CodesRecover
INVARIANT QuantSound
INVARIANT TrainingSound
INVARIANT DeviceFaithful
INVARIANT SocketOwned
INVARIANT PortsFaithful
INVARIANT HostSound
INVARIANT RequestFraming
CHECK_DEADLOCK FALSE
