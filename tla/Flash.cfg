CONSTANTS
  Parts = {"AVR", "M0", "M3", "XL"}
  Flash <- TheFlash
  PageSize = 8
  Cuts = {0, 5, 8}
  Bank2Start = 24
  Image <- TheImage
  Nothing = nothing
  Command <- Commands
  Ram <- TheRam
  Eeprom <- TheEeprom
  Registers <- TheRegisters
  Tries = 3
SPECIFICATION FairSpec
INVARIANT TypeOK
INVARIANT LockDiscipline
INVARIANT SuccessMeansStored
INVARIANT FirmwareUntouched
PROPERTY CommandEnds
