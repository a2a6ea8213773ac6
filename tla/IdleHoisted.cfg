CONSTANTS
  BpSlot = {0}
  WpSlot = {}
  Addr = {a}
  a = a
  Bit = {}
  HitMod = 2
  IdMod = 8
  Nothing = nothing
  Sessions <- Hoisted
SPECIFICATION FairSpec
PROPERTY DisableReleases
