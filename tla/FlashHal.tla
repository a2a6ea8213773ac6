------------------------------ MODULE FlashHal ------------------------------
(***************************************************************************)
(* hal_read_memory, hal_write_memory and the register calls on the parts   *)
(* MDT runs on, and the flash controller below them.  Programming goes     *)
(* halfword by halfword, erasing by page; XL parts have two banks, each    *)
(* with its own lock, flags and busy bit.  The busy waits of the code are  *)
(* bounded, so a call may end while the controller is still at work, and a *)
(* job given up so may yet finish during a later call.                     *)
(*                                                                         *)
(* The controller is modelled as doing whatever the code has to guard      *)
(* against: a job takes effect in whole, in part or not at all, and raises *)
(* EOP or not.  Contents of RAM, EEPROM and registers are left out.        *)
(***************************************************************************)
EXTENDS Integers

CONSTANTS Parts,        (* the parts there may be: AVR, M0, M3, XL         *)
          Flash,        (* the flash segment: [start, size] in bytes       *)
          PageSize,     (* FLASH_PAGE_SIZE                                 *)
          Bank2Start,   (* FLASH_BANK2_START, of XL parts                  *)
          Image,        (* the running firmware: [start, end] in flash     *)
          Cuts,         (* where in a page a job may break off             *)
          Nothing       (* no call, no job                                 *)

ASSUME FlashAssumption ==
  /\ Parts \subseteq {"AVR", "M0", "M3", "XL"}
  /\ Flash \in [start : Nat \ {0}, size : Nat]
  /\ PageSize \in Nat \ {0} /\ PageSize % 2 = 0
  /\ Flash.start % PageSize = 0 /\ Flash.size % PageSize = 0
  /\ Cuts \subseteq 0 .. PageSize
  /\ Bank2Start \in Nat /\ Bank2Start % PageSize = 0
  /\ Image \in [start : Nat, end : Nat]
  /\ Image.start = Flash.start /\ Image.start < Image.end
  /\ Image.end <= Flash.start + Flash.size

VARIABLES part,    \* the part
          flash,   \* what each byte of flash holds
          reg,     \* LOCK, PG or PER, and EOP of each bank
          job,     \* what each bank's controller is at, or Nothing
          call,    \* the call of hal_write_memory or hal_read_memory
          at,      \* where it is
          half,    \* offset of the halfword it is at
          ok       \* its result so far

regVars == <<reg, job>>
halVars == <<call, at, half, ok>>
flashVars == <<part, flash, regVars, halVars>>

Blank    == 255
Byte     == 0 .. 255
FlashEnd == Flash.start + Flash.size
FlashAddress == Flash.start .. FlashEnd - 1
Banks    == {1, 2}

Register == [lock : BOOLEAN, mode : {"none", "PG", "PER"}, eop : BOOLEAN]
AtRest   == [lock |-> TRUE, mode |-> "none", eop |-> FALSE]

FlashInit ==
  /\ part \in Parts
  /\ flash = [x \in FlashAddress |-> IF x < Image.end THEN 0 ELSE Blank]
  /\ reg = [b \in Banks |-> AtRest] /\ job = [b \in Banks |-> Nothing]
  /\ call = Nothing /\ at = "rest" /\ half = 0 /\ ok = FALSE
-----------------------------------------------------------------------------
BankOf(x)   == IF part = "XL" /\ x >= Bank2Start THEN 2 ELSE 1
PageBase(x) == x - (x % PageSize)
Page(x)     == PageBase(x) .. PageBase(x) + PageSize - 1
Halfword(x) == {x, x + 1}

(* Byte i of the halfwords a write of c.data programs: past its length,    *)
(* 0xFF, which leaves a cell erased.                                       *)
Padded(c, i) == IF i < c.length THEN c.data[i] ELSE Blank

(* flash_is_erased: every halfword that will be touched is blank.          *)
Touched(c)  == c.address .. c.address + (c.length + (c.length % 2)) - 1
IsErased(c) == \A x \in Touched(c) \cap FlashAddress : flash[x] = Blank

ReadZones(p)  == IF p = "AVR" THEN {"RAM", "FLASH", "EEPROM"} ELSE {"RAM", "FLASH"}
StoreZones(p) == IF p = "AVR" THEN {"RAM", "EEPROM"} ELSE {"RAM"}

(* The calls that reach the controller, and those that are simply stored   *)
(* or copied; anything else returns 0 at once.                             *)
Erases(c)   == c.op = "WRITE" /\ c.zone = "ERASE" /\ part # "AVR"
Programs(c) == /\ c.op = "WRITE" /\ c.zone = "FLASH" /\ part # "AVR"
               /\ c.length # 0
               /\ c.address % 2 = 0
               /\ IsErased(c)
Direct(c)   == /\ c.length # 0
               /\ c.zone \in IF c.op = "READ" THEN ReadZones(part) ELSE StoreZones(part)

(* hal_read_register and hal_write_register: a byte of an AVR, otherwise   *)
(* an aligned word.                                                        *)
RegisterAccess(c) == c.zone = "REG" /\ (part = "AVR" \/ c.address % 4 = 0)

(* Fault: the seam is forgotten.                                            *)
UnlocksFirst(c) == {BankOf(c.address)}

(* The banks a call unlocks, and locks again: both, if the two halfwords   *)
(* of a word lie on either side of the seam.                               *)
Unlocks(c) == IF c.zone = "FLASH" /\ c.length > 2
              THEN {BankOf(c.address), BankOf(c.address + 2)}
              ELSE {BankOf(c.address)}
-----------------------------------------------------------------------------
Enter(c) == /\ at = "rest"
            /\ call' = c
            /\ half' = 0
            /\ at' = IF Erases(c) \/ Programs(c) THEN "unlock" ELSE "reply"
            /\ ok' = (Direct(c) \/ RegisterAccess(c))
            /\ UNCHANGED <<part, flash, regVars>>

Unlock == /\ at = "unlock"
          /\ reg' = [b \in Banks |-> IF b \in Unlocks(call)
                       THEN [reg[b] EXCEPT !.lock = FALSE] ELSE reg[b]]
          /\ at' = "wait"
          /\ UNCHANGED <<part, flash, job, call, half, ok>>

(* The bank the call works on now.                                         *)
Here == BankOf(call.address + half)

(* Fault: the wait has no bound.                                            *)
WaitForever == /\ at = "wait"
               /\ job[Here] = Nothing
               /\ at' = "start"
               /\ UNCHANGED <<part, flash, regVars, call, half, ok>>

(* flash_wait_busy before a job: the controller is free, or time is up.    *)
Wait == /\ at = "wait"
        /\ \/ job[Here] = Nothing /\ at' = "start" /\ UNCHANGED ok
           \/ job[Here] # Nothing /\ at' = "lock" /\ ok' = FALSE
        /\ UNCHANGED <<part, flash, regVars, call, half>>

(* What a job makes of the cells it works on: a page blank, or a halfword  *)
(* of the data.                                                            *)
Effect == IF call.zone = "ERASE"
          THEN [x \in Page(call.address) |-> Blank]
          ELSE [x \in Halfword(call.address + half) |-> Padded(call, x - call.address)]

(* Clear the flags, set PG or PER, start.  A locked controller, or one     *)
(* asked to program cells that are not erased, does nothing: no EOP.       *)
Willing == /\ ~reg[Here].lock
           /\ \/ call.zone = "ERASE"
              \/ \A x \in DOMAIN Effect : flash[x] = Blank

Start == /\ at = "start"
         /\ reg' = [reg EXCEPT ![Here].eop = FALSE,
                              ![Here].mode = IF call.zone = "ERASE" THEN "PER" ELSE "PG"]
         /\ job' = [job EXCEPT ![Here] = IF Willing THEN Effect ELSE Nothing]
         /\ at' = "settle"
         /\ UNCHANGED <<part, flash, call, half, ok>>

(* The controller ends a job: the first of its cells are done, or all, or  *)
(* none, with EOP or without.                                              *)
Controller(b) ==
  /\ job[b] # Nothing
  /\ \E done \in Cuts, eop \in BOOLEAN :
       /\ flash' = [x \in FlashAddress |->
                      IF x \in DOMAIN job[b] /\ x % PageSize < done
                      THEN job[b][x] ELSE flash[x]]
       /\ reg' = [reg EXCEPT ![b].eop = eop]
  /\ job' = [job EXCEPT ![b] = Nothing]
  /\ UNCHANGED <<part, halVars>>

(* Fault: EOP is believed.                                                  *)
VerifiedUnread == TRUE

(* Reading back what was written.                                          *)
Verified == \A x \in DOMAIN Effect : flash[x] = Effect[x]

(* Fault: as many halfwords as the length asks for, and one more.           *)
SettleOnward ==
  /\ at = "settle"
  /\ ok' = (job[Here] = Nothing /\ reg[Here].eop /\ Verified)
  /\ reg' = [reg EXCEPT ![Here].eop = FALSE, ![Here].mode = "none"]
  /\ IF ok' /\ call.zone = "FLASH" /\ half + 1 < call.length
     THEN half' = half + 2 /\ at' = "wait"
     ELSE at' = "lock" /\ UNCHANGED half
  /\ UNCHANGED <<part, flash, job, call>>

(* flash_wait_busy after a job, which may give it up, EOP, clearing PG or  *)
(* PER, and the comparison; then the second halfword of a word.            *)
Settle ==
  /\ at = "settle"
  /\ ok' = (job[Here] = Nothing /\ reg[Here].eop /\ Verified)
  /\ reg' = [reg EXCEPT ![Here].eop = FALSE, ![Here].mode = "none"]
  /\ IF ok' /\ call.zone = "FLASH" /\ call.length > 2 /\ half = 0
     THEN half' = 2 /\ at' = "wait"
     ELSE at' = "lock" /\ UNCHANGED half
  /\ UNCHANGED <<part, flash, job, call>>

Lock == /\ at = "lock"
        /\ reg' = [b \in Banks |-> IF b \in Unlocks(call)
                     THEN [reg[b] EXCEPT !.lock = TRUE] ELSE reg[b]]
        /\ at' = "reply"
        /\ UNCHANGED <<part, flash, job, call, half, ok>>

Hal == Unlock \/ Wait \/ Start \/ Settle \/ Lock
-----------------------------------------------------------------------------
(* Between two calls every bank is locked and neither programming nor      *)
(* erasing is enabled; a job is only started on a bank that is unlocked.   *)
LockDiscipline ==
  /\ at \in {"rest", "reply"} => \A b \in Banks : reg[b].lock /\ reg[b].mode = "none"
  /\ at = "start" => ~reg[Here].lock
=============================================================================
