CONSTANTS
  p = p
  q = q
  Packet = {p, q}
  Noise = noise
  PacketSize = 4
  RingSize = 7
  Alias <- AliasOfQ
  MaxRetries = 3
  MaxFaults = 2
SPECIFICATION FairSpec
INVARIANT TypeOK
INVARIANT FrameBounds
INVARIANT InSync
INVARIANT RunOnce
PROPERTY OneFaultMasked
PROPERTY LinkHeals
