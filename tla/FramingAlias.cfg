CONSTANTS
  p = p
  q = q
  Packet = {q}
  Noise = noise
  PacketSize = 4
  RingSize = 7
  Alias <- AliasOfQ
  MaxRetries = 3
  MaxFaults = 1
SPECIFICATION FairSpec
PROPERTY ResyncAlways
