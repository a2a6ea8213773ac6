CONSTANTS
  BpSlot = {0}
  WpSlot = {0}
  Addr = {a}
  a = a
  Bit = {lo}
  HitMod = 2
  IdMod = 8
  Nothing = nothing
  Sessions <- AllSessions
SPECIFICATION FairSpec
INVARIANT TypeOK
INVARIANT EventsWhole
PROPERTY PauseHolds
PROPERTY NextReleases
PROPERTY DisableReleasesRead
