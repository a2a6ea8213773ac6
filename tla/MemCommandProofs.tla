-------------------------- MODULE MemCommandProofs --------------------------
(***************************************************************************)
(* Proofs about MemCommand, for every flash geometry, firmware size and    *)
(* set of commands: banks are locked again, the firmware is left alone,    *)
(* and what was acknowledged is in flash.                                  *)
(***************************************************************************)
EXTENDS MemCommand, TLAPS

(* The page base of an address is at most the address, and at most the     *)
(* page base of any later address.                                         *)
LEMMA PageBaseType ==
  ASSUME NEW x \in Nat
  PROVE  PageBase(x) \in Nat /\ PageBase(x) <= x /\ x < PageBase(x) + PageSize
<1>1. PageSize \in Nat /\ PageSize > 0
  BY FlashAssumption
<1>2. x % PageSize \in Nat /\ x % PageSize < PageSize /\ x % PageSize <= x
  BY <1>1
<1> QED BY <1>1, <1>2 DEF PageBase

LEMMA PageBaseMonotonic ==
  ASSUME NEW x \in Nat, NEW y \in Nat, x <= y
  PROVE  PageBase(x) <= PageBase(y)
<1> DEFINE P == PageSize
           q == x \div P
           s == y \div P
<1>1. P \in Nat /\ P > 0
  BY FlashAssumption
<1>2. q \in Int /\ s \in Int /\ PageBase(x) = P * q /\ PageBase(y) = P * s
  <2>1. x = P * q + (x % P) /\ y = P * s + (y % P)
    BY <1>1
  <2>2. q \in Int /\ s \in Int /\ x % P \in Int /\ y % P \in Int
    BY <1>1
  <2> QED BY <2>1, <2>2, <1>1 DEF PageBase
<1>3. ASSUME s < q PROVE FALSE
  <2>1. P * s <= P * (q - 1)
    BY <1>1, <1>2, <1>3
  <2>2. P * (q - 1) = P * q - P
    BY <1>1, <1>2
  <2>3. PageBase(y) + P <= PageBase(x)
    <3> HIDE DEF P, q, s
    <3> QED BY <2>1, <2>2, <1>2, <1>1
  <2>4. PageBase(x) \in Nat /\ PageBase(x) <= x
    BY PageBaseType
  <2>5. PageBase(y) \in Nat /\ y < PageBase(y) + P
    BY PageBaseType
  <2> HIDE DEF P
  <2> QED BY <2>3, <2>4, <2>5, <1>1
<1>4. q <= s
  BY <1>2, <1>3
<1> QED
  <2> HIDE DEF P, q, s
  <2> QED BY <1>1, <1>2, <1>4
-----------------------------------------------------------------------------
(* Type correctness.                                                       *)
LEMMA BanksTyped == \A x : BankOf(x) \in Banks
  BY DEF BankOf, Banks

(* What a job writes are bytes, the padding included.                      *)
LEMMA EffectBytes ==
  ASSUME TypeOK, at # "rest"
  PROVE  \A x \in DOMAIN Effect : Effect[x] \in Byte
<1>1. call \in Chunks /\ half \in {0, 2}
  BY DEF TypeOK
<1>2. CASE call.zone = "ERASE"
  BY <1>2 DEF Effect, Blank, Byte
<1>3. CASE call.zone # "ERASE"
  <2> SUFFICES ASSUME NEW x \in Halfword(call.address + half)
               PROVE  Padded(call, x - call.address) \in Byte
    BY <1>3 DEF Effect
  <2>1. call.address \in Nat /\ call.length \in 1 .. 4
        /\ call.data \in [0 .. 3 -> Byte]
    BY <1>1 DEF Chunks, WordSize
  <2>2. x - call.address \in 0 .. 3
    BY <1>1, <2>1 DEF Halfword
  <2>3. call.data[x - call.address] \in Byte
    BY <2>1, <2>2
  <2> QED BY <2>3 DEF Padded, Blank, Byte
<1> QED BY <1>2, <1>3

(* Every turn of the loop sends one to four bytes.                         *)
LEMMA ChunkTyped ==
  ASSUME TypeOK, Sending
  PROVE  Chunk \in Chunks
<1>1. cmd \in Command /\ offset \in Nat /\ offset < cmd.length
  BY DEF TypeOK, Sending
<1>2. /\ cmd.op \in {"READ", "WRITE"}
      /\ cmd.zone \in {"RAM", "FLASH", "EEPROM", "ERASE", "REG"}
      /\ cmd.address \in Nat /\ cmd.length \in Nat
      /\ cmd.data \in [0 .. cmd.length - 1 -> Byte]
  BY <1>1, CommandAssumption
<1> DEFINE n == IF cmd.length - offset < WordSize THEN cmd.length - offset ELSE WordSize
<1>3. n \in 1 .. WordSize /\ offset + n <= cmd.length
  BY <1>1, <1>2 DEF WordSize
<1>4. \A i \in 0 .. WordSize - 1 : (IF i < n THEN cmd.data[offset + i] ELSE 0) \in Byte
  <2> SUFFICES ASSUME NEW i \in 0 .. WordSize - 1, i < n
               PROVE  cmd.data[offset + i] \in Byte
    BY DEF Byte
  <2>1. offset + i \in 0 .. cmd.length - 1
    BY <1>1, <1>2, <1>3 DEF WordSize
  <2> QED BY <2>1, <1>2
<1> QED BY <1>1, <1>2, <1>3, <1>4 DEF Chunk, Chunks

LEMMA InitTyped == Init => TypeOK
<1> SUFFICES ASSUME Init PROVE TypeOK
  OBVIOUS
<1>1. flash \in [FlashAddress -> Byte]
  BY DEF Init, FlashInit, Byte, Blank
<1>2. reg \in [Banks -> Register]
  BY DEF Init, FlashInit, AtRest, Register
<1>3. 0 \in 0 .. Tries
  BY CommandAssumption
<1> QED BY <1>1, <1>2, <1>3 DEF Init, FlashInit, TypeOK

LEMMA HalTyped == TypeOK /\ HalStep => TypeOK'
<1> SUFFICES ASSUME TypeOK, Hal, UNCHANGED pcVars PROVE TypeOK'
  BY DEF HalStep
<1> USE DEF TypeOK, pcVars, regVars
<1>1. CASE Unlock
  BY <1>1 DEF Unlock, Register
<1>2. CASE Wait
  BY <1>2 DEF Wait
<1>3. CASE Start
  <2>1. reg' \in [Banks -> Register]
    BY <1>3, BanksTyped DEF Start, Register, Here
  <2>2. \A b \in Banks : job'[b] # Nothing => \A x \in DOMAIN job'[b] : job'[b][x] \in Byte
    <3> SUFFICES ASSUME NEW b \in Banks, job'[b] # Nothing
                 PROVE  \A x \in DOMAIN job'[b] : job'[b][x] \in Byte
      OBVIOUS
    <3>1. job'[b] = job[b] \/ job'[b] = Effect
      BY <1>3 DEF Start
    <3>2. \A x \in DOMAIN Effect : Effect[x] \in Byte
      BY <1>3, EffectBytes DEF Start
    <3> QED BY <3>1, <3>2
  <2> QED BY <1>3, <2>1, <2>2 DEF Start
<1>4. CASE Settle
  <2>1. reg' \in [Banks -> Register]
    BY <1>4, BanksTyped DEF Settle, Register, Here
  <2> QED BY <1>4, <2>1 DEF Settle
<1>5. CASE Lock
  BY <1>5 DEF Lock, Register
<1> QED BY <1>1, <1>2, <1>3, <1>4, <1>5 DEF Hal

LEMMA ControllerTyped == TypeOK /\ Controllers => TypeOK'
<1> SUFFICES ASSUME TypeOK, NEW b \in Banks, Controller(b), UNCHANGED pcVars
             PROVE  TypeOK'
  BY DEF Controllers
<1>1. flash' \in [FlashAddress -> Byte]
  <2>1. \A x \in DOMAIN job[b] : job[b][x] \in Byte
    BY DEF Controller, TypeOK
  <2> QED BY <2>1 DEF Controller, TypeOK
<1>2. reg' \in [Banks -> Register]
  BY DEF Controller, TypeOK, Register
<1> QED BY <1>1, <1>2 DEF Controller, TypeOK, pcVars, halVars

LEMMA PcTyped == TypeOK /\ (Type \/ PcStep) => TypeOK'
<1> SUFFICES ASSUME TypeOK, Type \/ PcStep PROVE TypeOK'
  OBVIOUS
<1> USE DEF TypeOK, flashVars, regVars, halVars
<1>0. Tries \in Nat \ {0}
  BY CommandAssumption
<1>1. CASE Type
  <2>1. at = "rest" /\ cmd' \in Command /\ offset' = 0 /\ tried' = 0 /\ refused' = FALSE
    BY <1>1 DEF Type
  <2>2. UNCHANGED <<part, flash, reg, job, call, at, half, ok>>
    BY <1>1 DEF Type
  <2>3. tried' \in 0 .. Tries /\ offset' \in Nat
    BY <1>0, <2>1
  <2>4. refused' \in BOOLEAN
    BY <2>1, Zenon
  <2> QED BY <2>1, <2>2, <2>3, <2>4
<1>2. CASE Send
  <2>1. Chunk \in Chunks
    BY <1>2, ChunkTyped DEF Send
  <2> QED BY <1>0, <1>2, <2>1 DEF Send, Enter, Sending, Direct
<1>3. CASE SendLost
  BY <1>0, <1>3 DEF SendLost
<1>4. CASE Answer
  BY <1>0, <1>4 DEF Answer, Return, WordSize
<1>5. CASE AnswerLost
  BY <1>5 DEF AnswerLost, Return
<1>6. CASE End
  <2>1. at = "rest" /\ cmd' = Nothing /\ offset' = 0 /\ tried' = 0 /\ refused' = FALSE
    BY <1>6 DEF End, Finished, GivenUp, Sending
  <2>2. UNCHANGED <<part, flash, reg, job, call, at, half, ok>>
    BY <1>6 DEF End
  <2>3. tried' \in 0 .. Tries /\ offset' \in Nat
    BY <1>0, <2>1
  <2>4. refused' \in BOOLEAN
    BY <2>1, Zenon
  <2> QED BY <2>1, <2>2, <2>3, <2>4
<1> QED BY <1>1, <1>2, <1>3, <1>4, <1>5, <1>6 DEF PcStep

(* Every variable keeps its type (TypeOK): the halfwords of a write, its   *)
(* padding and its chunks stay within bytes and words.                     *)
THEOREM TypeCorrect == Spec => []TypeOK
<1>1. TypeOK /\ [Next]_vars => TypeOK'
  <2>1. TypeOK /\ UNCHANGED vars => TypeOK'
    BY DEF TypeOK, vars, flashVars, regVars, halVars, pcVars
  <2> QED BY <2>1, HalTyped, ControllerTyped, PcTyped DEF Next
<1> QED BY <1>1, InitTyped, PTL DEF Spec
-----------------------------------------------------------------------------
(* Locking.  While a call is at the controller exactly the banks it        *)
(* unlocked are open, the bank it works on among them, and PG or PER is    *)
(* set only there and only until the job has settled.                      *)
AtController == at \in {"wait", "start", "settle", "lock"}

LockInv ==
  /\ at # "rest" /\ half = 2 => call.zone = "FLASH" /\ call.length > 2
  /\ ~AtController => \A b \in Banks : reg[b].lock /\ reg[b].mode = "none"
  /\ AtController => \A b \in Banks :
       /\ reg[b].lock <=> b \notin Unlocks(call)
       /\ reg[b].mode = "none" \/ (at = "settle" /\ b = Here)

LEMMA HereUnlocked ==
  ASSUME TypeOK, LockInv, at # "rest"
  PROVE  Here \in Unlocks(call)
<1>1. call.address \in Nat /\ half \in {0, 2}
  BY DEF TypeOK, Chunks
<1>2. CASE half = 0
  <2>1. call.address + half = call.address
    BY <1>1, <1>2
  <2> QED BY <2>1 DEF Here, Unlocks
<1>3. CASE half = 2
  BY <1>3 DEF LockInv, Here, Unlocks
<1> QED BY <1>1, <1>2, <1>3

(* The lock is open where a job is started, and everything is closed when  *)
(* a call has returned.                                                    *)
LEMMA LockInvSafe == TypeOK /\ LockInv => LockDiscipline
<1> SUFFICES ASSUME TypeOK, LockInv PROVE LockDiscipline
  OBVIOUS
<1>1. at = "start" => ~reg[Here].lock
  BY HereUnlocked, BanksTyped DEF LockInv, AtController, Here
<1> QED BY <1>1 DEF LockInv, AtController, LockDiscipline

LEMMA LockHal == TypeOK /\ LockInv /\ HalStep => LockInv'
<1> SUFFICES ASSUME TypeOK, LockInv, Hal PROVE LockInv'
  BY DEF HalStep
<1> USE DEF LockInv, AtController
<1>0. reg \in [Banks -> Register]
  BY DEF TypeOK
<1>1. CASE Unlock
  <2>1. /\ at = "unlock" /\ at' = "wait" /\ UNCHANGED <<part, call, half>>
        /\ Unlocks(call)' = Unlocks(call)
    BY <1>1 DEF Unlock, Unlocks, BankOf
  <2>2. \A b \in Banks : /\ reg'[b].lock = (b \notin Unlocks(call))
                         /\ reg'[b].mode = "none"
    BY <1>0, <1>1, <2>1 DEF Unlock, Register
  <2> QED BY <2>1, <2>2
<1>2. CASE Wait
  <2>1. /\ at = "wait" /\ at' \in {"start", "lock"} /\ UNCHANGED <<part, reg, call, half>>
        /\ Unlocks(call)' = Unlocks(call)
    BY <1>2 DEF Wait, Unlocks, BankOf, regVars
  <2> QED BY <2>1
<1>3. CASE Start
  <2>1. /\ at = "start" /\ at' = "settle" /\ UNCHANGED <<part, call, half>>
        /\ Unlocks(call)' = Unlocks(call) /\ Here' = Here
    BY <1>3 DEF Start, Unlocks, BankOf, Here
  <2>2. \A b \in Banks : /\ reg'[b].lock = reg[b].lock
                         /\ b # Here => reg'[b].mode = reg[b].mode
    BY <1>0, <1>3 DEF Start, Register
  <2> QED BY <2>1, <2>2
<1>4. CASE Settle
  <2>1. /\ at = "settle" /\ at' \in {"wait", "lock"} /\ UNCHANGED <<part, call>>
        /\ Unlocks(call)' = Unlocks(call)
        /\ half' = half \/ (half' = 2 /\ call.zone = "FLASH" /\ call.length > 2)
    BY <1>4 DEF Settle, Unlocks, BankOf
  <2>2. \A b \in Banks : /\ reg'[b].lock = reg[b].lock
                         /\ reg'[b].mode = IF b = Here THEN "none" ELSE reg[b].mode
    BY <1>0, <1>4 DEF Settle, Register
  <2> QED BY <2>1, <2>2
<1>5. CASE Lock
  <2>1. at = "lock" /\ at' = "reply" /\ UNCHANGED <<part, call, half>>
    BY <1>5 DEF Lock
  <2>2. \A b \in Banks : reg'[b].lock /\ reg'[b].mode = reg[b].mode
    BY <1>0, <1>5, <2>1 DEF Lock, Register
  <2> QED BY <2>1, <2>2
<1> QED BY <1>1, <1>2, <1>3, <1>4, <1>5 DEF Hal

LEMMA LockController == TypeOK /\ LockInv /\ Controllers => LockInv'
<1> SUFFICES ASSUME TypeOK, LockInv, NEW c \in Banks, Controller(c) PROVE LockInv'
  BY DEF Controllers
<1>1. UNCHANGED <<part, call, at, half>>
  BY DEF Controller, halVars
<1>2. \A b \in Banks : reg'[b].lock = reg[b].lock /\ reg'[b].mode = reg[b].mode
  BY DEF Controller, TypeOK, Register
<1>3. Unlocks(call)' = Unlocks(call) /\ Here' = Here
  BY <1>1 DEF Unlocks, BankOf, Here
<1> QED BY <1>1, <1>2, <1>3 DEF LockInv, AtController

LEMMA LockPc == TypeOK /\ LockInv /\ (Type \/ PcStep) => LockInv'
<1> SUFFICES ASSUME TypeOK, LockInv, Type \/ PcStep PROVE LockInv'
  OBVIOUS
<1>1. ~AtController /\ ~AtController' /\ UNCHANGED <<part, reg>>
  <2>1. CASE Type
    BY <2>1 DEF Type, AtController, flashVars, regVars, halVars, TypeOK
  <2>2. CASE PcStep
    BY <2>2 DEF PcStep, Send, SendLost, Answer, AnswerLost, Return, End, Enter, Sending,
                Finished, GivenUp, AtController, flashVars, regVars, halVars
  <2> QED BY <2>1, <2>2
<1>2. at' = "rest" \/ half' = 0 \/ UNCHANGED <<at, call, half>>
  BY DEF PcStep, Type, Send, SendLost, Answer, AnswerLost, Return, End, Enter, flashVars, halVars
<1> QED BY <1>1, <1>2 DEF LockInv

LEMMA LockInvariant == Spec => []LockInv
<1>1. Init => LockInv
  BY DEF Init, FlashInit, AtRest, LockInv, AtController
<1>2. TypeOK /\ LockInv /\ [Next]_vars => LockInv'
  <2>1. LockInv /\ UNCHANGED vars => LockInv'
    BY DEF LockInv, AtController, Unlocks, BankOf, Here, vars, flashVars, regVars, halVars
  <2> QED BY <2>1, LockHal, LockController, LockPc DEF Next
<1> QED BY <1>1, <1>2, TypeCorrect, PTL DEF Spec

(* No command leaves the flash unlocked or ready to program, however its   *)
(* job ended, and no job is started on a locked bank (LockDiscipline).     *)
THEOREM LocksHeld == Spec => []LockDiscipline
  BY LockInvariant, TypeCorrect, LockInvSafe, PTL
-----------------------------------------------------------------------------
(* The firmware.  A call at the controller, and a job left behind by an    *)
(* earlier one, work above the end of the image only.                      *)
AboveImage(c) == IF c.zone = "ERASE" THEN PageBase(c.address) >= Image.end
                 ELSE c.address >= Image.end

FirmwareInv ==
  /\ FirmwareUntouched
  /\ \A b \in Banks : job[b] # Nothing => \A x \in DOMAIN job[b] : x >= Image.end
  /\ cmd # Nothing => Valid(cmd)
  /\ at \in {"unlock", "wait", "start", "settle", "lock"} => AboveImage(call)

(* What the validator lets through on a part that can erase starts above   *)
(* the image, and an erase does so with its whole page.                    *)
LEMMA ValidAbove ==
  ASSUME NEW c \in Command, Valid(c), part # "AVR", c.op = "WRITE",
         c.zone \in {"FLASH", "ERASE"}, c.length > 0
  PROVE  AboveImage(c)
<1>1. /\ c.address \in Nat /\ c.length \in Nat
      /\ Flash.start \in Nat /\ Image.start = Flash.start
      /\ Image.start \in Nat /\ Image.end \in Nat /\ PageSize \in Nat \ {0}
  BY FlashAssumption, CommandAssumption
<1>2. Segments(c.zone) = {Flash}
  BY DEF Segments
<1>3. CASE c.zone = "ERASE"
  <2>1. Flash.start <= c.address
    BY <1>2, <1>3 DEF Valid, ValidErase, InSegment
  <2>2. PageBase(c.address) \in Nat /\ c.address < PageBase(c.address) + PageSize
    BY <1>1, PageBaseType
  <2>3. PageBase(c.address) + PageSize <= Image.start \/ PageBase(c.address) >= Image.end
    BY <1>3 DEF Valid, ValidErase, OverlapsFirmware
  <2> QED BY <1>1, <1>3, <2>1, <2>2, <2>3 DEF AboveImage
<1>4. CASE c.zone = "FLASH"
  <2>1. Flash.start <= c.address
    BY <1>2, <1>4 DEF Valid, ValidMem, InSegment
  <2>2. c.address + c.length <= Image.start \/ c.address >= Image.end
    BY <1>4 DEF Valid, ValidMem, OverlapsFirmware
  <2> QED BY <1>1, <1>4, <2>1, <2>2 DEF AboveImage
<1> QED BY <1>3, <1>4

(* Its later chunks start above it too.                                    *)
LEMMA ChunkAbove ==
  ASSUME TypeOK, Sending, Valid(cmd), Erases(Chunk) \/ Programs(Chunk)
  PROVE  AboveImage(Chunk)
<1>1. cmd \in Command /\ offset \in Nat /\ offset < cmd.length
  BY DEF TypeOK, Sending
<1>2. cmd.address \in Nat /\ cmd.length \in Nat /\ Image.end \in Nat
  BY <1>1, FlashAssumption, CommandAssumption
<1>3. /\ Chunk.zone = cmd.zone /\ Chunk.op = cmd.op
      /\ Chunk.address = cmd.address + offset
  BY DEF Chunk
<1>4. part # "AVR" /\ cmd.op = "WRITE" /\ cmd.zone \in {"FLASH", "ERASE"}
  BY <1>3 DEF Erases, Programs
<1>5. AboveImage(cmd)
  BY <1>1, <1>2, <1>4, ValidAbove
<1>6. PageBase(cmd.address) <= PageBase(cmd.address + offset)
  BY <1>1, <1>2, PageBaseMonotonic
<1>7. PageBase(cmd.address) \in Nat /\ PageBase(cmd.address + offset) \in Nat
  BY <1>1, <1>2, PageBaseType
<1> QED BY <1>1, <1>2, <1>3, <1>5, <1>6, <1>7 DEF AboveImage

(* A job works above the image if its call does.                           *)
LEMMA EffectAbove ==
  ASSUME TypeOK, at # "rest", AboveImage(call)
  PROVE  \A x \in DOMAIN Effect : x >= Image.end
<1>1. call.address \in Nat /\ half \in Nat /\ Image.end \in Nat /\ PageSize \in Nat
  BY FlashAssumption DEF TypeOK, Chunks
<1>2. CASE call.zone = "ERASE"
  <2>1. PageBase(call.address) \in Nat /\ PageBase(call.address) >= Image.end
    BY <1>1, <1>2, PageBaseType DEF AboveImage
  <2>2. DOMAIN Effect = Page(call.address)
    BY <1>2 DEF Effect
  <2> QED BY <1>1, <2>1, <2>2 DEF Page
<1>3. CASE call.zone # "ERASE"
  <2>1. DOMAIN Effect = Halfword(call.address + half)
    BY <1>3 DEF Effect
  <2> QED BY <1>1, <1>3, <2>1 DEF AboveImage, Halfword
<1> QED BY <1>2, <1>3

LEMMA FirmwareHal == TypeOK /\ FirmwareInv /\ HalStep => FirmwareInv'
<1> SUFFICES ASSUME TypeOK, FirmwareInv, Hal, UNCHANGED pcVars PROVE FirmwareInv'
  BY DEF HalStep
<1>1. UNCHANGED <<part, flash, call, cmd>>
  BY DEF Hal, Unlock, Wait, Start, Settle, Lock, pcVars
<1>2. at \in {"unlock", "wait", "start", "settle", "lock"}
  BY DEF Hal, Unlock, Wait, Start, Settle, Lock
<1>3. \A b \in Banks : job'[b] \in {job[b], Effect, Nothing}
  BY DEF Hal, Unlock, Wait, Start, Settle, Lock, regVars, TypeOK
<1>4. \A x \in DOMAIN Effect : x >= Image.end
  BY <1>2, EffectAbove DEF FirmwareInv
<1>5. Valid(cmd)' = Valid(cmd)
  BY <1>1 DEF Valid, ValidErase, ValidMem, ValidRegister, Found, InSegment, Segments, OverlapsFirmware
<1>6. FirmwareUntouched'
  BY <1>1 DEF FirmwareInv, FirmwareUntouched
<1>7. \A b \in Banks : job'[b] # Nothing => \A x \in DOMAIN job'[b] : x >= Image.end
  BY <1>3, <1>4 DEF FirmwareInv
<1> QED BY <1>1, <1>2, <1>5, <1>6, <1>7 DEF FirmwareInv, AboveImage

LEMMA FirmwareController == TypeOK /\ FirmwareInv /\ Controllers => FirmwareInv'
<1> SUFFICES ASSUME TypeOK, FirmwareInv, NEW b \in Banks, Controller(b), UNCHANGED pcVars
             PROVE  FirmwareInv'
  BY DEF Controllers
<1>1. UNCHANGED <<part, call, at, cmd>>
  BY DEF Controller, halVars, pcVars
<1>2. FirmwareUntouched'
  <2> SUFFICES ASSUME NEW x \in Image.start .. Image.end - 1 PROVE flash'[x] = 0
    BY DEF FirmwareUntouched
  <2>1. /\ Image.start \in Nat /\ Image.end \in Nat /\ Flash.size \in Nat
        /\ Image.start = Flash.start /\ Image.end <= Flash.start + Flash.size
    BY FlashAssumption
  <2>2. x \in FlashAddress /\ ~(x >= Image.end)
    BY <2>1 DEF FlashAddress, FlashEnd
  <2>3. x \notin DOMAIN job[b]
    BY <2>2 DEF FirmwareInv, Controller
  <2>4. flash'[x] = flash[x]
    BY <2>2, <2>3 DEF Controller
  <2> QED BY <2>4 DEF FirmwareInv, FirmwareUntouched
<1>3. \A a \in Banks : job'[a] # Nothing => job'[a] = job[a]
  BY DEF Controller
<1>4. Valid(cmd)' = Valid(cmd)
  BY <1>1 DEF Valid, ValidErase, ValidMem, ValidRegister, Found, InSegment, Segments, OverlapsFirmware
<1>5. \A a \in Banks : job'[a] # Nothing => \A x \in DOMAIN job'[a] : x >= Image.end
  BY <1>3 DEF FirmwareInv
<1> QED BY <1>1, <1>2, <1>4, <1>5 DEF FirmwareInv, AboveImage

LEMMA FirmwarePc == TypeOK /\ FirmwareInv /\ (Type \/ PcStep) => FirmwareInv'
<1> SUFFICES ASSUME TypeOK, FirmwareInv, Type \/ PcStep PROVE FirmwareInv'
  OBVIOUS
<1>1. UNCHANGED <<part, flash, job>>
  BY DEF PcStep, Type, Send, SendLost, Answer, AnswerLost, Return, End, Enter,
         flashVars, regVars, halVars
<1>2. FirmwareUntouched'
  BY <1>1 DEF FirmwareInv, FirmwareUntouched
<1>3. \A c : Valid(c)' = Valid(c)
  BY <1>1 DEF Valid, ValidErase, ValidMem, ValidRegister, Found, InSegment, Segments, OverlapsFirmware
<1>4. cmd' # Nothing => Valid(cmd')
  <2>1. CASE Type
    BY <2>1 DEF Type
  <2>2. CASE PcStep
    BY <2>2 DEF PcStep, Send, SendLost, Answer, AnswerLost, Return, End, FirmwareInv
  <2> QED BY <2>1, <2>2
<1>5. at' \in {"unlock", "wait", "start", "settle", "lock"} => AboveImage(call')
  <2>1. CASE Send
    <3>1. Sending /\ Valid(cmd)
      BY <2>1 DEF Send, Sending, FirmwareInv
    <3>2. call' = Chunk /\ (at' # "reply" => Erases(Chunk) \/ Programs(Chunk))
      BY <2>1 DEF Send, Enter
    <3> QED BY <3>1, <3>2, ChunkAbove
  <2>2. CASE SendLost \/ Type \/ End
    BY <2>2 DEF SendLost, Type, End, FirmwareInv, flashVars, halVars, AboveImage
  <2>3. CASE Answer \/ AnswerLost
    BY <2>3 DEF Answer, AnswerLost, Return
  <2> QED BY <2>1, <2>2, <2>3 DEF PcStep
<1>6. \A b \in Banks : job'[b] # Nothing => \A x \in DOMAIN job'[b] : x >= Image.end
  BY <1>1 DEF FirmwareInv
<1> QED BY <1>2, <1>3, <1>4, <1>5, <1>6 DEF FirmwareInv, AboveImage

LEMMA FirmwareInvariant == Spec => []FirmwareInv
<1>1. Init => FirmwareInv
  <2>1. Init => FirmwareUntouched
    <3> SUFFICES ASSUME Init, NEW x \in Image.start .. Image.end - 1 PROVE flash[x] = 0
      BY DEF FirmwareUntouched
    <3>1. /\ Image.start \in Nat /\ Image.end \in Nat /\ Flash.size \in Nat
          /\ Image.start = Flash.start /\ Image.end <= Flash.start + Flash.size
      BY FlashAssumption
    <3>2. x \in FlashAddress /\ x < Image.end
      BY <3>1 DEF FlashAddress, FlashEnd
    <3> QED BY <3>2 DEF Init, FlashInit
  <2> QED BY <2>1 DEF Init, FlashInit, FirmwareInv
<1>2. TypeOK /\ FirmwareInv /\ [Next]_vars => FirmwareInv'
  <2>1. FirmwareInv /\ UNCHANGED vars => FirmwareInv'
    BY DEF FirmwareInv, FirmwareUntouched, AboveImage, Valid, ValidErase, ValidMem, ValidRegister, Found, InSegment,
           Segments, OverlapsFirmware, vars, flashVars, regVars, halVars, pcVars
  <2> QED BY <2>1, FirmwareHal, FirmwareController, FirmwarePc DEF Next
<1> QED BY <1>1, <1>2, TypeCorrect, PTL DEF Spec

(* Nothing the prompt accepts changes a byte of the running firmware       *)
(* (FirmwareUntouched), whatever is lost, retried or broken off.           *)
THEOREM FirmwareSafe == Spec => []FirmwareUntouched
<1>1. FirmwareInv => FirmwareUntouched
  BY DEF FirmwareInv
<1> QED BY <1>1, FirmwareInvariant, PTL
-----------------------------------------------------------------------------
(* Flash is cut into pages: what a job works on lies in one bank, and the  *)
(* page of an address in flash lies in flash.                              *)
LEMMA PageBaseMultiple ==
  ASSUME NEW x \in Nat, x % PageSize = 0
  PROVE  PageBase(x) = x
  BY DEF PageBase

LEMMA PageBaseStep ==
  ASSUME NEW x \in Nat, NEW y \in Nat, x < y, y % PageSize = 0
  PROVE  PageBase(x) + PageSize <= y
<1> DEFINE P == PageSize
           q == x \div P
           s == y \div P
<1>1. P \in Nat /\ P > 0
  BY FlashAssumption
<1>2. q \in Int /\ s \in Int /\ PageBase(x) = P * q /\ y = P * s
  <2>1. x = P * q + (x % P) /\ y = P * s + (y % P)
    BY <1>1
  <2>2. q \in Int /\ s \in Int /\ x % P \in Int /\ P * q \in Int /\ P * s \in Int
    BY <1>1
  <2> HIDE DEF q, s
  <2> QED BY <2>1, <2>2, <1>1 DEF PageBase
<1>3. PageBase(x) \in Nat /\ PageBase(x) <= x
  BY PageBaseType
<1> HIDE DEF P, q, s
<1>4. ASSUME s <= q PROVE FALSE
  <2>1. P * s <= P * q
    BY <1>1, <1>2, <1>4
  <2> QED BY <2>1, <1>2, <1>3
<1>5. q + 1 <= s
  BY <1>2, <1>4
<1>6. P * (q + 1) <= P * s
  BY <1>1, <1>2, <1>5
<1>7. P * (q + 1) = P * q + P
  BY <1>1, <1>2
<1> QED BY <1>2, <1>6, <1>7 DEF P

LEMMA PageBank ==
  ASSUME NEW x \in Nat, NEW y \in Page(x)
  PROVE  BankOf(y) = BankOf(x)
<1>1. Bank2Start \in Nat /\ Bank2Start % PageSize = 0 /\ PageSize \in Nat
  BY FlashAssumption
<1>2. PageBase(x) \in Nat /\ PageBase(x) <= x
  BY PageBaseType
<1>3. y \in Nat /\ PageBase(x) <= y /\ y < PageBase(x) + PageSize
  BY <1>1, <1>2 DEF Page
<1>4. CASE x >= Bank2Start
  <2>1. PageBase(Bank2Start) <= PageBase(x)
    BY <1>1, <1>4, PageBaseMonotonic
  <2> QED BY <1>1, <1>2, <1>3, <1>4, <2>1, PageBaseMultiple DEF BankOf
<1>5. CASE x < Bank2Start
  <2>1. PageBase(x) + PageSize <= Bank2Start
    BY <1>1, <1>5, PageBaseStep
  <2> QED BY <1>1, <1>2, <1>3, <1>5, <2>1 DEF BankOf
<1> QED BY <1>1, <1>4, <1>5

LEMMA HalfwordBank ==
  ASSUME NEW x \in Nat, x % 2 = 0
  PROVE  BankOf(x + 1) = BankOf(x)
<1> DEFINE p == PageSize \div 2
           q == Bank2Start \div PageSize
<1>1. /\ PageSize \in Nat /\ PageSize % 2 = 0 /\ PageSize > 0
      /\ Bank2Start \in Nat /\ Bank2Start % PageSize = 0
  BY FlashAssumption
<1>2. p \in Int /\ q \in Int /\ PageSize = 2 * p
  BY <1>1
<1>3. Bank2Start = PageSize * q
  BY <1>1
<1> HIDE DEF p, q
<1>4. PageSize * q = 2 * (p * q) /\ p * q \in Int
  BY <1>2
<1>5. Bank2Start % 2 = 0
  BY <1>1, <1>3, <1>4
<1>6. x + 1 >= Bank2Start <=> x >= Bank2Start
  BY <1>1, <1>5
<1> QED BY <1>6 DEF BankOf

LEMMA SumOfMultiples ==
  ASSUME NEW a \in Nat, NEW b \in Nat, NEW p \in Nat \ {0}, a % p = 0, b % p = 0
  PROVE  (a + b) % p = 0
<1> DEFINE q == a \div p
           s == b \div p
<1>1. q \in Int /\ s \in Int /\ a = p * q /\ b = p * s
  OBVIOUS
<1> HIDE DEF q, s
<1>2. p * q + p * s = p * (q + s) /\ q + s \in Int
  BY <1>1
<1>3. (p * (q + s)) % p = 0
  BY <1>2
<1> QED BY <1>1, <1>2, <1>3

LEMMA PageInFlash ==
  ASSUME NEW x \in FlashAddress
  PROVE  Page(x) \subseteq FlashAddress
<1>1. /\ Flash.start \in Nat /\ Flash.size \in Nat /\ PageSize \in Nat \ {0}
      /\ Flash.start % PageSize = 0 /\ Flash.size % PageSize = 0
  BY FlashAssumption
<1>2. x \in Nat /\ Flash.start <= x /\ x < FlashEnd /\ FlashEnd = Flash.start + Flash.size
      /\ FlashEnd \in Nat
  BY <1>1 DEF FlashAddress, FlashEnd
<1>3. FlashEnd % PageSize = 0
  BY <1>1, <1>2, SumOfMultiples
<1>4. PageBase(Flash.start) <= PageBase(x)
  BY <1>1, <1>2, PageBaseMonotonic
<1>5. PageBase(x) + PageSize <= FlashEnd
  BY <1>2, <1>3, PageBaseStep
<1>6. PageBase(x) \in Nat
  BY <1>2, PageBaseType
<1> QED BY <1>1, <1>2, <1>4, <1>5, <1>6, PageBaseMultiple DEF Page, FlashAddress
-----------------------------------------------------------------------------
(* What has been acknowledged, or read back, stays.  A byte is stored if   *)
(* flash holds it and no job that is still to end would change it; the     *)
(* bytes below Done are, and so is the page of an ERASE as soon as Done    *)
(* has moved.  The call at the MCU is the chunk the PC is at, and the jobs *)
(* of a bank, given up or not, work on cells of that bank only.            *)
AtWork == at \in {"unlock", "wait", "start", "settle", "lock"}

Stored(x, v) == /\ flash[x] = v
                /\ \A b \in Banks : job[b] # Nothing /\ x \in DOMAIN job[b]
                                      => job[b][x] = v

Done == IF at \in {"lock", "reply"} /\ ok THEN offset + WordSize
        ELSE IF AtWork /\ half = 2 THEN offset + 2 ELSE offset

CallInv ==
  /\ at # "rest" => call = Chunk /\ offset < cmd.length
  /\ AtWork => /\ call.op = "WRITE" /\ part # "AVR"
               /\ \/ call.zone = "ERASE"
                  \/ call.zone = "FLASH" /\ call.address % 2 = 0
  /\ \A b \in Banks : job[b] # Nothing => \A x \in DOMAIN job[b] : BankOf(x) = b

WriteStored == \A i \in 0 .. cmd.length - 1 :
                 i < Done => Stored(cmd.address + i, cmd.data[i])
EraseStored == Done # 0 => \A x \in Page(cmd.address) : Stored(x, Blank)

StoreInv == cmd # Nothing /\ cmd.op = "WRITE" /\ ~refused =>
              /\ cmd.zone = "FLASH" => WriteStored
              /\ cmd.zone = "ERASE" => EraseStored

(* The fields of the call at the MCU, in terms of the command.             *)
LEMMA CallFields ==
  ASSUME TypeOK, CallInv, LockInv, at # "rest"
  PROVE  /\ cmd \in Command /\ offset \in Nat /\ offset < cmd.length
         /\ cmd.address \in Nat /\ cmd.length \in Nat
         /\ call.op = cmd.op /\ call.zone = cmd.zone
         /\ call.address = cmd.address + offset
         /\ call.length = (IF cmd.length - offset < 4 THEN cmd.length - offset ELSE 4)
         /\ \A i \in 0 .. 3 : i < call.length => call.data[i] = cmd.data[offset + i]
         /\ half \in {0, 2} /\ (half = 2 => call.zone = "FLASH" /\ call.length > 2)
<1>1. cmd \in Command /\ offset \in Nat /\ offset < cmd.length /\ call = Chunk
  BY DEF TypeOK, CallInv
<1>2. cmd.address \in Nat /\ cmd.length \in Nat
  BY <1>1, CommandAssumption
<1>3. half \in {0, 2} /\ (half = 2 => call.zone = "FLASH" /\ call.length > 2)
  BY DEF TypeOK, LockInv
<1> QED BY <1>1, <1>2, <1>3 DEF Chunk, WordSize

(* A job works in the bank it was given to.                                *)
LEMMA EffectBank ==
  ASSUME TypeOK, CallInv, LockInv, AtWork
  PROVE  \A x \in DOMAIN Effect : BankOf(x) = Here
<1>1. /\ call.address \in Nat /\ half \in {0, 2}
      /\ half = 2 => call.zone = "FLASH"
      /\ call.zone = "ERASE" \/ (call.zone = "FLASH" /\ call.address % 2 = 0)
  BY DEF TypeOK, Chunks, CallInv, LockInv, AtWork
<1>2. CASE call.zone = "ERASE"
  <2>1. DOMAIN Effect = Page(call.address)
    BY <1>2 DEF Effect
  <2>2. half = 0 /\ call.address + half = call.address
    BY <1>1, <1>2
  <2> QED BY <1>1, <2>1, <2>2, PageBank DEF Here
<1>3. CASE call.zone = "FLASH"
  <2> DEFINE h == call.address + half
  <2>1. DOMAIN Effect = Halfword(h)
    BY <1>3 DEF Effect
  <2>2. h \in Nat /\ h % 2 = 0
    BY <1>1, <1>3
  <2>3. BankOf(h + 1) = BankOf(h)
    BY <2>2, HalfwordBank
  <2> QED BY <2>1, <2>3 DEF Here, Halfword
<1> QED BY <1>1, <1>2, <1>3

(* A controller that ends its job changes no stored byte.                  *)
LEMMA StoredController ==
  ASSUME NEW b \in Banks, Controller(b), NEW x \in FlashAddress, NEW v, Stored(x, v)
  PROVE  Stored(x, v)'
<1>1. flash'[x] = v
  BY DEF Controller, Stored
<1>2. \A c \in Banks : job'[c] # Nothing => job'[c] = job[c]
  BY DEF Controller
<1> QED BY <1>1, <1>2 DEF Stored

(* What was read back when the bank is free is stored.                     *)
LEMMA StoredVerified ==
  ASSUME CallInv, job[Here] = Nothing, Verified,
         NEW x \in DOMAIN Effect, BankOf(x) = Here
  PROVE  Stored(x, Effect[x])
<1>1. flash[x] = Effect[x]
  BY DEF Verified
<1>2. \A b \in Banks : job[b] # Nothing => x \notin DOMAIN job[b]
  BY DEF CallInv
<1> QED BY <1>1, <1>2 DEF Stored

(* The bytes of a command on flash lie in flash.                           *)
LEMMA CommandInFlash ==
  ASSUME TypeOK, FirmwareInv, cmd # Nothing, cmd.op = "WRITE"
  PROVE  /\ cmd.address \in Nat /\ cmd.length \in Nat
         /\ cmd.zone = "FLASH" => \A i \in 0 .. cmd.length - 1 :
                                    cmd.address + i \in FlashAddress
         /\ cmd.zone = "ERASE" => Page(cmd.address) \subseteq FlashAddress
<1>1. /\ cmd \in Command /\ cmd.address \in Nat /\ cmd.length \in Nat
      /\ Flash.start \in Nat /\ Flash.size \in Nat /\ Valid(cmd)
  BY CommandAssumption, FlashAssumption DEF TypeOK, FirmwareInv
<1>2. CASE cmd.zone = "FLASH"
  <2>1. Flash.start <= cmd.address /\ cmd.address + cmd.length <= Flash.start + Flash.size
    BY <1>1, <1>2 DEF Valid, ValidMem, InSegment, Segments
  <2> QED BY <1>1, <1>2, <2>1 DEF FlashAddress, FlashEnd
<1>3. CASE cmd.zone = "ERASE"
  <2>1. Flash.start <= cmd.address /\ cmd.address + 1 <= Flash.start + Flash.size
    BY <1>1, <1>3 DEF Valid, ValidErase, InSegment, Segments
  <2>2. cmd.address \in FlashAddress
    BY <1>1, <2>1 DEF FlashAddress, FlashEnd
  <2> QED BY <1>1, <1>3, <2>2, PageInFlash
<1> QED BY <1>1, <1>2, <1>3
-----------------------------------------------------------------------------
LEMMA CallHal == TypeOK /\ CallInv /\ LockInv /\ HalStep => CallInv'
<1> SUFFICES ASSUME TypeOK, CallInv, LockInv, Hal, UNCHANGED pcVars PROVE CallInv'
  BY DEF HalStep
<1>1. UNCHANGED <<part, call, cmd, offset>> /\ AtWork /\ at # "rest" /\ at' # "rest"
  BY DEF Hal, Unlock, Wait, Start, Settle, Lock, pcVars, AtWork
<1>2. Chunk' = Chunk
  BY <1>1 DEF Chunk
<1>3. \A x : BankOf(x)' = BankOf(x)
  BY <1>1 DEF BankOf
<1>4. \A b \in Banks : job'[b] # Nothing => \A x \in DOMAIN job'[b] : BankOf(x) = b
  <2> SUFFICES ASSUME NEW b \in Banks, job'[b] # Nothing
               PROVE  \A x \in DOMAIN job'[b] : BankOf(x) = b
    OBVIOUS
  <2>1. job'[b] = job[b] \/ (b = Here /\ job'[b] = Effect)
    BY DEF Hal, Unlock, Wait, Start, Settle, Lock, regVars, TypeOK
  <2> QED BY <1>1, <2>1, EffectBank DEF CallInv
<1> QED BY <1>1, <1>2, <1>3, <1>4 DEF CallInv, AtWork

LEMMA CallController == TypeOK /\ CallInv /\ Controllers => CallInv'
<1> SUFFICES ASSUME TypeOK, CallInv, NEW b \in Banks, Controller(b), UNCHANGED pcVars
             PROVE  CallInv'
  BY DEF Controllers
<1>1. UNCHANGED <<part, call, at, cmd, offset>> /\ Chunk' = Chunk
  BY DEF Controller, halVars, pcVars, Chunk
<1>2. \A c \in Banks : job'[c] # Nothing => job'[c] = job[c]
  BY DEF Controller
<1> QED BY <1>1, <1>2 DEF CallInv, AtWork, BankOf

LEMMA CallPc == TypeOK /\ CallInv /\ (Type \/ PcStep) => CallInv'
<1> SUFFICES ASSUME TypeOK, CallInv, Type \/ PcStep PROVE CallInv'
  OBVIOUS
<1>1. UNCHANGED <<part, flash, job>>
  BY DEF PcStep, Type, Send, SendLost, Answer, AnswerLost, Return, End, Enter,
         flashVars, regVars, halVars
<1>2. \A b \in Banks : job'[b] # Nothing => \A x \in DOMAIN job'[b] : BankOf(x)' = b
  BY <1>1 DEF CallInv, BankOf
<1>3. CASE Send
  <2>1. /\ call' = Chunk /\ UNCHANGED <<cmd, offset>> /\ offset < cmd.length
        /\ AtWork' => Erases(Chunk) \/ Programs(Chunk)
    BY <1>3 DEF Send, Enter, Sending, AtWork
  <2>2. Chunk' = Chunk
    BY <2>1 DEF Chunk
  <2> QED BY <1>1, <1>2, <2>1, <2>2 DEF CallInv, Erases, Programs
<1>4. CASE ~Send
  <2>1. at' = "rest"
    BY <1>4 DEF PcStep, Type, SendLost, Answer, AnswerLost, Return, End, Finished,
                GivenUp, Sending, flashVars, halVars, TypeOK
  <2> QED BY <1>2, <2>1 DEF CallInv, AtWork
<1> QED BY <1>3, <1>4
-----------------------------------------------------------------------------
(* flash_wait_busy has come back, and the cells are read: a chunk moves    *)
(* Done only over what it has just verified.                               *)
LEMMA StoreSettle ==
  ASSUME TypeOK, CallInv, LockInv, StoreInv, Settle, UNCHANGED pcVars
  PROVE  StoreInv'
<1>1. /\ at = "settle" /\ at' \in {"wait", "lock"} /\ UNCHANGED <<part, flash, job, call>>
      /\ UNCHANGED <<cmd, offset, refused>>
      /\ ok' => job[Here] = Nothing /\ Verified
      /\ at' = "wait" => ok'
      /\ half' = IF at' = "wait" THEN 2 ELSE half
      /\ at' = "wait" <=> ok' /\ call.zone = "FLASH" /\ call.length > 2 /\ half = 0
  BY DEF Settle, pcVars
<1>2. \A x, v : Stored(x, v)' <=> Stored(x, v)
  BY <1>1 DEF Stored
<1>3. ok' => \A x \in DOMAIN Effect : Stored(x, Effect[x])
  BY <1>1, EffectBank, StoredVerified DEF AtWork
<1> SUFFICES ASSUME cmd # Nothing, cmd.op = "WRITE", ~refused
             PROVE  /\ cmd.zone = "FLASH" => WriteStored'
                    /\ cmd.zone = "ERASE" => EraseStored'
  BY <1>1 DEF StoreInv
<1>4. /\ cmd \in Command /\ offset \in Nat /\ offset < cmd.length
      /\ cmd.address \in Nat /\ cmd.length \in Nat
      /\ call.zone = cmd.zone /\ call.address = cmd.address + offset
      /\ call.length = (IF cmd.length - offset < 4 THEN cmd.length - offset ELSE 4)
      /\ \A i \in 0 .. 3 : i < call.length => call.data[i] = cmd.data[offset + i]
      /\ half \in {0, 2} /\ (half = 2 => call.zone = "FLASH" /\ call.length > 2)
  BY <1>1, CallFields
<1>5. Done = offset + half
  BY <1>1, <1>4 DEF Done, AtWork
<1>6. Done' = IF at' = "wait" THEN offset + 2 ELSE IF ok' THEN offset + 4
              ELSE offset + half
  BY <1>1, <1>4 DEF Done, AtWork, WordSize
<1>7. ASSUME cmd.zone = "FLASH", NEW i \in 0 .. cmd.length - 1, i < Done'
      PROVE  Stored(cmd.address + i, cmd.data[i])
  <2>1. CASE i < Done
    BY <1>7, <2>1 DEF StoreInv, WriteStored
  <2>2. CASE ~(i < Done)
    <3> DEFINE j == i - offset
    <3>1. i \in Nat /\ i < cmd.length
      BY <1>4, <1>7
    <3>2. ok' /\ (j = half \/ j = half + 1)
      <4>1. ok' /\ at' = "wait" => half = 0
        BY <1>1
      <4>2. at' # "wait" /\ ok' => half = 2 \/ call.length <= 2
        BY <1>1, <1>4, <1>7
      <4>3. CASE at' = "wait"
        BY <1>1, <1>4, <1>5, <1>6, <1>7, <2>2, <3>1, <4>1, <4>3
      <4>4. CASE at' # "wait" /\ ok'
        BY <1>4, <1>5, <1>6, <1>7, <2>2, <3>1, <4>2, <4>4
      <4>5. CASE at' # "wait" /\ ~ok'
        BY <1>4, <1>5, <1>6, <1>7, <2>2, <3>1, <4>5
      <4> QED BY <4>3, <4>4, <4>5
    <3>3. j \in 0 .. 3 /\ j < call.length /\ offset + j = i
      <4>1. offset + j = i /\ j < cmd.length - offset /\ j \in Int
        BY <1>4, <3>1
      <4>2. j = 0 \/ j = 1 \/ j = 2 \/ j = 3
        BY <1>4, <3>2
      <4> HIDE DEF j
      <4> QED BY <1>4, <4>1, <4>2
    <3>4. cmd.address + i = call.address + j /\ (call.address + j) - call.address = j
      BY <1>4, <3>1, <3>3
    <3>5. call.address + j \in Halfword(call.address + half)
      BY <1>4, <3>2, <3>3 DEF Halfword
    <3>6. /\ call.address + j \in DOMAIN Effect
          /\ Effect[call.address + j] = Padded(call, (call.address + j) - call.address)
      BY <1>4, <1>7, <3>5 DEF Effect
    <3>7. Padded(call, j) = cmd.data[i]
      BY <1>4, <3>3 DEF Padded
    <3> HIDE DEF j
    <3> QED BY <1>3, <3>2, <3>4, <3>6, <3>7
  <2> QED BY <2>1, <2>2
<1>8. ASSUME cmd.zone = "ERASE", Done' # 0, NEW x \in Page(cmd.address)
      PROVE  Stored(x, Blank)
  <2>1. half = 0 /\ Done = offset /\ at' # "wait"
    BY <1>1, <1>4, <1>5, <1>8
  <2>2. CASE offset = 0
    <3>1. ok' /\ call.address = cmd.address
      BY <1>4, <1>6, <1>8, <2>1, <2>2
    <3>2. x \in DOMAIN Effect /\ Effect[x] = Blank
      BY <1>4, <1>8, <3>1 DEF Effect
    <3> QED BY <1>3, <3>1, <3>2
  <2>3. CASE offset # 0
    BY <1>8, <2>1, <2>3 DEF StoreInv, EraseStored
  <2> QED BY <2>2, <2>3
<1>9. UNCHANGED <<cmd.address, cmd.length, cmd.data>> /\ Page(cmd.address)' = Page(cmd.address)
  BY <1>1 DEF Page, PageBase
<1> QED BY <1>1, <1>2, <1>7, <1>8, <1>9 DEF WriteStored, EraseStored

(* A job begins above what is stored of a write, and blanks what it works  *)
(* on in an erasure.                                                       *)
LEMMA StoreStart ==
  ASSUME TypeOK, CallInv, LockInv, StoreInv, Start, UNCHANGED pcVars
  PROVE  StoreInv'
<1>1. /\ at = "start" /\ at' = "settle" /\ UNCHANGED <<part, flash, call, half, ok>>
      /\ UNCHANGED <<cmd, offset, refused>>
      /\ \A b \in Banks : job'[b] \in {job[b], Effect, Nothing}
  BY DEF Start, pcVars, TypeOK
<1>2. \A x, v : Stored(x, v) /\ (x \in DOMAIN Effect => Effect[x] = v) => Stored(x, v)'
  BY <1>1 DEF Stored
<1> SUFFICES ASSUME cmd # Nothing, cmd.op = "WRITE", ~refused
             PROVE  /\ cmd.zone = "FLASH" => WriteStored'
                    /\ cmd.zone = "ERASE" => EraseStored'
  BY <1>1 DEF StoreInv
<1>3. /\ cmd \in Command /\ offset \in Nat
      /\ cmd.address \in Nat /\ cmd.length \in Nat
      /\ call.zone = cmd.zone /\ call.address = cmd.address + offset /\ half \in {0, 2}
  BY <1>1, CallFields
<1>4. Done = offset + half /\ Done' = Done
  BY <1>1, <1>3 DEF Done, AtWork
<1>5. UNCHANGED <<cmd.address, cmd.length, cmd.data>> /\ Page(cmd.address)' = Page(cmd.address)
  BY <1>1 DEF Page, PageBase
<1>6. ASSUME cmd.zone = "FLASH", NEW i \in 0 .. cmd.length - 1, i < Done
      PROVE  Stored(cmd.address + i, cmd.data[i])'
  <2>1. Stored(cmd.address + i, cmd.data[i])
    BY <1>6 DEF StoreInv, WriteStored
  <2>2. DOMAIN Effect = Halfword(call.address + half)
    BY <1>3, <1>6 DEF Effect
  <2>3. cmd.address + i \notin Halfword(call.address + half)
    BY <1>3, <1>4, <1>6 DEF Halfword
  <2>4. PICK x, v : x = cmd.address + i /\ v = cmd.data[i]
    OBVIOUS
  <2>5. Stored(x, v)'
    BY <1>2, <2>1, <2>2, <2>3, <2>4
  <2> QED BY <1>5, <2>4, <2>5, <1>1
<1>7. ASSUME cmd.zone = "ERASE", Done # 0, NEW x \in Page(cmd.address)
      PROVE  Stored(x, Blank)'
  <2>1. Stored(x, Blank)
    BY <1>7 DEF StoreInv, EraseStored
  <2>2. x \in DOMAIN Effect => Effect[x] = Blank
    BY <1>3, <1>7 DEF Effect
  <2> QED BY <1>2, <2>1, <2>2
<1> QED BY <1>1, <1>4, <1>5, <1>6, <1>7 DEF WriteStored, EraseStored

LEMMA StoreHal == TypeOK /\ CallInv /\ LockInv /\ StoreInv /\ HalStep => StoreInv'
<1> SUFFICES ASSUME TypeOK, CallInv, LockInv, StoreInv, Hal, UNCHANGED pcVars
             PROVE  StoreInv'
  BY DEF HalStep
<1>1. CASE Settle
  BY <1>1, StoreSettle
<1>2. CASE Start
  BY <1>2, StoreStart
<1>3. CASE Unlock \/ Wait \/ Lock
  <2>1. UNCHANGED <<part, flash, job, call, half, cmd, offset, refused>>
    BY <1>3 DEF Unlock, Wait, Lock, pcVars, regVars
  <2>2. offset \in Nat /\ half \in {0, 2} /\ ok \in BOOLEAN /\ at # "rest"
        /\ (half = 2 => call.zone = "FLASH")
    BY <1>3 DEF TypeOK, LockInv, Unlock, Wait, Lock
  <2>3. Done' <= Done /\ (Done # 0 \/ Done' = 0) /\ Done \in Nat /\ Done' \in Nat
    <3>1. CASE Unlock
      BY <2>1, <2>2, <3>1 DEF Unlock, Done, AtWork
    <3>2. CASE Wait
      BY <2>1, <2>2, <3>2 DEF Wait, Done, AtWork
    <3>3. CASE Lock
      BY <2>1, <2>2, <3>3 DEF Lock, Done, AtWork, WordSize
    <3> QED BY <1>3, <3>1, <3>2, <3>3
  <2>4. \A x, v : Stored(x, v)' <=> Stored(x, v)
    BY <2>1 DEF Stored
  <2>5. cmd # Nothing => cmd.length \in Nat
    BY CommandAssumption DEF TypeOK
  <2>6. ASSUME cmd # Nothing, WriteStored PROVE WriteStored'
    BY <2>1, <2>3, <2>4, <2>5, <2>6 DEF WriteStored
  <2>7. EraseStored => EraseStored'
    BY <2>1, <2>3, <2>4 DEF EraseStored, Page, PageBase
  <2> QED BY <2>1, <2>6, <2>7 DEF StoreInv
<1> QED BY <1>1, <1>2, <1>3 DEF Hal

LEMMA StoreController ==
  TypeOK /\ FirmwareInv /\ StoreInv /\ Controllers => StoreInv'
<1> SUFFICES ASSUME TypeOK, FirmwareInv, StoreInv, NEW b \in Banks, Controller(b),
                    UNCHANGED pcVars
             PROVE  StoreInv'
  BY DEF Controllers
<1>1. UNCHANGED <<part, call, at, half, ok, cmd, offset, refused>>
  BY DEF Controller, halVars, pcVars
<1>2. Done' = Done
  BY <1>1 DEF Done, AtWork
<1> SUFFICES ASSUME cmd # Nothing, cmd.op = "WRITE", ~refused
             PROVE  /\ cmd.zone = "FLASH" => WriteStored'
                    /\ cmd.zone = "ERASE" => EraseStored'
  BY <1>1 DEF StoreInv
<1>3. ASSUME cmd.zone = "FLASH", NEW i \in 0 .. cmd.length - 1, i < Done
      PROVE  Stored(cmd.address + i, cmd.data[i])'
  <2>1. Stored(cmd.address + i, cmd.data[i]) /\ cmd.address + i \in FlashAddress
    BY <1>3, CommandInFlash DEF StoreInv, WriteStored
  <2>2. PICK x, v : x \in FlashAddress /\ x = cmd.address + i /\ v = cmd.data[i]
    BY <2>1
  <2>3. Stored(x, v)'
    BY <2>1, <2>2, StoredController
  <2> QED BY <1>1, <2>2, <2>3
<1>4. ASSUME cmd.zone = "ERASE", Done # 0, NEW x \in Page(cmd.address)
      PROVE  Stored(x, Blank)'
  BY <1>4, CommandInFlash, StoredController DEF StoreInv, EraseStored
<1> QED BY <1>1, <1>2, <1>3, <1>4 DEF WriteStored, EraseStored, Page, PageBase

(* The PC counts a chunk as done if it was acknowledged and not refused.   *)
LEMMA StorePc ==
  TypeOK /\ CallInv /\ LockInv /\ StoreInv /\ (Type \/ PcStep) => StoreInv'
<1> SUFFICES ASSUME TypeOK, CallInv, LockInv, StoreInv, Type \/ PcStep PROVE StoreInv'
  OBVIOUS
<1>1. UNCHANGED <<part, flash, job>>
  BY DEF PcStep, Type, Send, SendLost, Answer, AnswerLost, Return, End, Enter,
         flashVars, regVars, halVars
<1>2. \A x, v : Stored(x, v)' <=> Stored(x, v)
  BY <1>1 DEF Stored
<1>3. CASE Type
  <2>1. cmd' \in Command /\ offset' = 0 /\ at' = "rest"
    BY <1>3 DEF Type, flashVars, halVars, TypeOK
  <2>2. Done' = 0 /\ cmd'.length \in Nat
    BY <2>1, CommandAssumption DEF Done, AtWork
  <2>3. WriteStored' /\ EraseStored'
    BY <2>2 DEF WriteStored, EraseStored
  <2> QED BY <2>3 DEF StoreInv
<1>4. CASE End
  BY <1>4 DEF End, StoreInv
<1>5. CASE Send \/ SendLost \/ Answer \/ AnswerLost
  <2>1. UNCHANGED cmd /\ cmd # Nothing
    BY <1>5 DEF Send, SendLost, Answer, AnswerLost, Return, Sending, TypeOK
  <2>2. cmd \in Command /\ cmd.length \in Nat /\ offset \in Nat
    BY <2>1, CommandAssumption DEF TypeOK
  <2>3. ASSUME cmd.op = "WRITE", cmd.zone \in {"FLASH", "ERASE"}, ~refused'
        PROVE  ~refused /\ Done' <= Done /\ Done \in Nat /\ Done' \in Nat
    <3>1. CASE Send
      <4>1. /\ at = "rest" /\ at' \in {"unlock", "reply"} /\ half' = 0
            /\ UNCHANGED <<offset, refused>>
            /\ ok' <=> Direct(Chunk) \/ RegisterAccess(Chunk)
        BY <3>1 DEF Send, Enter
      <4>2. Chunk.zone = cmd.zone /\ Chunk.op = cmd.op
        BY DEF Chunk
      <4>3. ~ok'
        BY <2>3, <4>1, <4>2 DEF Direct, RegisterAccess, StoreZones
      <4>4. Done = offset /\ Done' = offset
        BY <4>1, <4>3 DEF Done, AtWork
      <4> QED BY <2>2, <2>3, <4>1, <4>4
    <3>2. CASE SendLost
      <4>1. at = "rest" /\ at' = "rest" /\ UNCHANGED <<offset, refused>>
        BY <3>2 DEF SendLost, Sending, flashVars, halVars
      <4> QED BY <2>2, <2>3, <4>1 DEF Done, AtWork
    <3>3. CASE Answer
      <4>1. /\ at = "reply" /\ at' = "rest" /\ offset' = offset + WordSize
            /\ ok /\ ~refused
        BY <2>3, <3>3 DEF Answer, Return
      <4> QED BY <2>2, <4>1 DEF Done, AtWork, WordSize
    <3>4. CASE AnswerLost
      <4>1. at = "reply" /\ at' = "rest" /\ UNCHANGED <<offset, refused>>
        BY <3>4 DEF AnswerLost, Return
      <4> QED BY <2>2, <2>3, <4>1 DEF Done, AtWork, WordSize
    <3> QED BY <1>5, <3>1, <3>2, <3>3, <3>4
  <2>4. ASSUME cmd.op = "WRITE", cmd.zone = "FLASH", ~refused' PROVE WriteStored'
    <3>1. ~refused /\ Done' <= Done /\ Done \in Nat /\ Done' \in Nat
      BY <2>3, <2>4
    <3>2. WriteStored
      BY <2>1, <2>4, <3>1 DEF StoreInv
    <3> QED BY <1>2, <2>1, <2>2, <3>1, <3>2 DEF WriteStored
  <2>5. ASSUME cmd.op = "WRITE", cmd.zone = "ERASE", ~refused' PROVE EraseStored'
    <3>1. ~refused /\ (Done' # 0 => Done # 0)
      BY <2>3, <2>5
    <3>2. EraseStored
      BY <2>1, <2>5, <3>1 DEF StoreInv
    <3> QED BY <1>2, <2>1, <3>1, <3>2 DEF EraseStored, Page, PageBase
  <2> QED BY <2>1, <2>4, <2>5 DEF StoreInv
<1> QED BY <1>3, <1>4, <1>5 DEF PcStep

(* When the loop ends everything below the length is below Done.           *)
LEMMA StoreInvSafe == TypeOK /\ StoreInv => SuccessMeansStored
<1> SUFFICES ASSUME TypeOK, StoreInv, Finished, ~refused, cmd.op = "WRITE"
             PROVE  /\ cmd.zone = "FLASH" => \A i \in 0 .. cmd.length - 1 :
                                               flash[cmd.address + i] = cmd.data[i]
                    /\ cmd.zone = "ERASE" => cmd.length = 0 \/
                                               \A x \in Page(cmd.address) : flash[x] = Blank
  BY DEF SuccessMeansStored
<1>1. /\ cmd # Nothing /\ at = "rest" /\ offset >= cmd.length
      /\ cmd.length \in Nat /\ offset \in Nat
  BY CommandAssumption DEF Finished, TypeOK
<1>2. Done = offset
  BY <1>1 DEF Done, AtWork
<1>3. CASE cmd.zone = "FLASH"
  BY <1>1, <1>2, <1>3 DEF StoreInv, WriteStored, Stored
<1>4. CASE cmd.zone = "ERASE"
  BY <1>1, <1>2, <1>4 DEF StoreInv, EraseStored, Stored
<1> QED BY <1>3, <1>4

(* A command every chunk of which was acknowledged has been carried out:   *)
(* its data is in flash, byte by byte, or its page is blank, whatever was  *)
(* lost and retried and whatever jobs earlier commands left at work        *)
(* (SuccessMeansStored; execute, hal_write_memory).                        *)
THEOREM AckMeansStored == Spec => []SuccessMeansStored
<1>1. Init => CallInv /\ StoreInv
  BY DEF Init, FlashInit, CallInv, StoreInv, AtWork
<1>2. TypeOK /\ FirmwareInv /\ LockInv /\ CallInv /\ StoreInv /\ [Next]_vars
        => CallInv' /\ StoreInv'
  <2>1. CallInv /\ StoreInv /\ UNCHANGED vars => CallInv' /\ StoreInv'
    BY DEF CallInv, StoreInv, AtWork, Chunk, BankOf, WriteStored, EraseStored, Stored,
           Done, Page, PageBase, vars, flashVars, regVars, halVars, pcVars
  <2> QED BY <2>1, CallHal, CallController, CallPc, StoreHal, StoreController, StorePc
          DEF Next
<1> QED BY <1>1, <1>2, LockInvariant, FirmwareInvariant, TypeCorrect, StoreInvSafe, PTL DEF Spec
=============================================================================
