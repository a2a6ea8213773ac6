CONSTANTS
  Byte = {z, b}
  Zero = z
  Nothing = nothing
  N = 4
  Platforms = {"AVR", "STM32"}
  Capacity = 3
  MaxLen = 4
  MaxBytes = 9
  MayTimeout = TRUE
  Cores = {"M0", "M3"}
  RingSize = 2
  MaxArrived = 5
SPECIFICATION UartSpec
INVARIANT TypeOK
INVARIANT SlotsDisjoint
INVARIANT DropRemembered
PROPERTY ImplementsFifo
INVARIANT NoStrandedByte
INVARIANT SentInOrder
INVARIANT AckBeforeReset
PROPERTY EverythingSent
INVARIANT NoIdleMissed
INVARIANT EveryByteKept
PROPERTY EveryByteProcessed
