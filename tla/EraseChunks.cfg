CONSTANTS
  Parts = {"M3"}
  Flash <- TheFlash
  PageSize = 8
  Cuts = {0, 5, 8}
  Bank2Start = 24
  Image <- TheImage
  Nothing = nothing
  Command <- LongErasures
  Ram <- TheRam
  Eeprom <- TheEeprom
  Registers <- TheRegisters
  Tries = 3
SPECIFICATION Spec
PROPERTY EraseOnlyItsPage
