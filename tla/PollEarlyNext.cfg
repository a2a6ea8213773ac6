CONSTANTS
  BpSlot = {0}
  WpSlot = {}
  Addr = {a}
  a = a
  Bit = {}
  HitMod = 2
  IdMod = 8
  Nothing = nothing
  Sessions <- Patient
  TxHalves = 7
SPECIFICATION Spec
PROPERTY PauseUntilRelease
