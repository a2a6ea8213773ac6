CONSTANTS
  BpSlot = {0}
  WpSlot = {0, 1}
  Addr = {a}
  a = a
  Bit = {lo}
  HitMod = 2
  IdMod = 8
  Nothing = nothing
  Sessions <- AllSessions
  TxHalves = 7
SPECIFICATION FairSpec
INVARIANT TypeOK
INVARIANT AnswersInOrder
PROPERTY WholePackets
PROPERTY PauseHolds
PROPERTY EventKept
PROPERTY OneHitPerChange
PROPERTY ReleaseWorks
PROPERTY EventsSent
