----------------------------- MODULE MemCommand -----------------------------
(***************************************************************************)
(* A command on memory or a register from the prompt to the HAL: the       *)
(* validator, the chunks of four bytes execute() sends one after another,  *)
(* each tried up to Tries times, and FlashHal on the MCU.  A request or a  *)
(* reply may be lost; answers that come late are the matter of PcLink.     *)
(*                                                                         *)
(* A command is [op, zone, address, length, data]; data maps 0 ..          *)
(* length - 1 to bytes.  A chunk has the same form.  READ_REG and          *)
(* WRITE_REG have the zone REG and the length execute() gives them: a word.*)
(***************************************************************************)
EXTENDS FlashHal

CONSTANTS Command,      (* what the user may type                          *)
          Ram,          (* the RAM segment                                 *)
          Eeprom,       (* the EEPROM segment of an AVR                    *)
          Registers,    (* the registers: [start, size, writable]          *)
          Tries         (* MDT_MAX_RETRIES                                 *)

ASSUME CommandAssumption ==
  /\ Tries \in Nat \ {0}
  /\ Ram \in [start : Nat, size : Nat] /\ Eeprom \in [start : Nat, size : Nat]
  /\ Registers \subseteq [start : Nat, size : Nat, writable : BOOLEAN]
  /\ \A c \in Command :
       /\ c.op \in {"READ", "WRITE"}
       /\ c.zone \in {"RAM", "FLASH", "EEPROM", "ERASE", "REG"}
       /\ c.address \in Nat /\ c.length \in Nat
       /\ c.data \in [0 .. c.length - 1 -> Byte]

VARIABLES cmd,      \* the command at work, or Nothing
          offset,   \* where its current chunk starts
          tried,    \* attempts spent on that chunk
          refused   \* a chunk of it was answered STATUS_ERROR

pcVars == <<cmd, offset, tried, refused>>
vars == <<flashVars, pcVars>>

WordSize == 4

Init == /\ FlashInit
        /\ cmd = Nothing /\ offset = 0 /\ tried = 0 /\ refused = FALSE
-----------------------------------------------------------------------------
(* _find_mem_segment: one segment of the zone holds the whole range.       *)
Segments(zone) == CASE zone = "RAM" -> {Ram}
                    [] zone = "EEPROM" -> IF part = "AVR" THEN {Eeprom} ELSE {}
                    [] OTHER -> {Flash}
InSegment(zone, address, length) ==
  \E s \in Segments(zone) : s.start <= address /\ address + length <= s.start + s.size

(* _overlaps_firmware; the build info of an AVR has no firmware range.     *)
OverlapsFirmware(address, size) ==
  part # "AVR" /\ ~(address + size <= Image.start \/ address >= Image.end)

(* Fault: an ERASE is checked as if it began at the address given.          *)
ValidEraseUnaligned(c) == /\ InSegment("ERASE", c.address, 1)
                          /\ ~OverlapsFirmware(c.address, PageSize)

(* validate_write_mem on zone ERASE: the page of the address is checked,   *)
(* the length is not.                                                      *)
ValidErase(c) == /\ InSegment("ERASE", c.address, 1)
                 /\ ~OverlapsFirmware(PageBase(c.address), PageSize)

(* _find_register; registers do not overlap.                               *)
Found(address) == {r \in Registers : r.start <= address /\ address < r.start + r.size}

(* validate_read_reg and validate_write_reg.                               *)
ValidRegister(c) == \E r \in Found(c.address) : c.op = "WRITE" => r.writable

(* validate_read_mem, which lets zone ERASE be read as if it were FLASH,   *)
(* and validate_write_mem on any other zone.                               *)
ValidMem(c) ==
  /\ InSegment(c.zone, c.address, c.length)
  /\ c.op = "WRITE" /\ c.zone = "FLASH" => ~OverlapsFirmware(c.address, c.length)

(* The dispatch of validate_commands.                                      *)
Valid(c) == CASE c.zone = "REG" -> ValidRegister(c)
              [] c.op = "WRITE" /\ c.zone = "ERASE" -> ValidErase(c)
              [] OTHER -> ValidMem(c)

Type == /\ cmd = Nothing
        /\ \E c \in Command : Valid(c) /\ cmd' = c
        /\ offset' = 0 /\ tried' = 0 /\ refused' = FALSE
        /\ UNCHANGED flashVars

(* One turn of the loop of execute().                                      *)
Chunk == LET n == IF cmd.length - offset < WordSize THEN cmd.length - offset ELSE WordSize
         IN  [op |-> cmd.op, zone |-> cmd.zone, address |-> cmd.address + offset,
              length |-> n,
              data |-> [i \in 0 .. WordSize - 1 |->
                          IF i < n THEN cmd.data[offset + i] ELSE 0]]

Sending == cmd # Nothing /\ offset < cmd.length /\ at = "rest"

Send == /\ Sending /\ tried < Tries
        /\ tried' = tried + 1
        /\ Enter(Chunk)
        /\ UNCHANGED <<cmd, offset, refused>>

SendLost == /\ Sending /\ tried < Tries
            /\ tried' = tried + 1
            /\ UNCHANGED <<cmd, offset, refused, flashVars>>

Return == /\ at = "reply"
          /\ at' = "rest"
          /\ call' = Nothing
          /\ half' = 0
          /\ UNCHANGED <<part, flash, regVars, ok, cmd>>

(* The reply is read: STATUS_ERROR is logged and the loop goes on.         *)
Answer == /\ Return
          /\ offset' = offset + WordSize
          /\ tried' = 0
          /\ refused' = (refused \/ ~ok)

AnswerLost == Return /\ UNCHANGED <<offset, tried, refused>>

(* The end of the loop, and the end of the attempts.                       *)
Finished == cmd # Nothing /\ at = "rest" /\ offset >= cmd.length
GivenUp  == Sending /\ tried = Tries

End == /\ Finished \/ GivenUp
       /\ cmd' = Nothing
       /\ offset' = 0 /\ tried' = 0 /\ refused' = FALSE
       /\ UNCHANGED flashVars
-----------------------------------------------------------------------------
Controllers == (\E b \in Banks : Controller(b)) /\ UNCHANGED pcVars
HalStep == Hal /\ UNCHANGED pcVars
PcStep  == Send \/ SendLost \/ Answer \/ AnswerLost \/ End

Next == Type \/ PcStep \/ HalStep \/ Controllers

Spec == Init /\ [][Next]_vars

(* The code on either side of the link runs; the controller may hang.      *)
FairSpec == Spec /\ WF_vars(PcStep) /\ WF_vars(HalStep)
-----------------------------------------------------------------------------
Chunks == [op : {"READ", "WRITE"}, zone : {"RAM", "FLASH", "EEPROM", "ERASE", "REG"},
           address : Nat, length : 1 .. WordSize, data : [0 .. WordSize - 1 -> Byte]]

TypeOK ==
  /\ part \in Parts
  /\ flash \in [FlashAddress -> Byte]
  /\ reg \in [Banks -> Register]
  /\ DOMAIN job = Banks
  /\ \A b \in Banks : job[b] # Nothing => \A x \in DOMAIN job[b] : job[b][x] \in Byte
  /\ at \in {"rest", "unlock", "wait", "start", "settle", "lock", "reply"}
  /\ call \in IF at = "rest" THEN {Nothing} ELSE Chunks
  /\ half \in {0, 2} /\ ok \in BOOLEAN
  /\ cmd \in Command \cup {Nothing}
  /\ at # "rest" => cmd # Nothing
  /\ offset \in Nat /\ tried \in 0 .. Tries /\ refused \in BOOLEAN

(* A command every chunk of which was acknowledged has been carried out:   *)
(* the data is in flash, byte by byte, or the page is blank.               *)
SuccessMeansStored ==
  Finished /\ ~refused /\ cmd.op = "WRITE" =>
    /\ cmd.zone = "FLASH" => \A i \in 0 .. cmd.length - 1 :
                               flash[cmd.address + i] = cmd.data[i]
    /\ cmd.zone = "ERASE" => cmd.length = 0 \/
                               \A x \in Page(cmd.address) : flash[x] = Blank

(* The running firmware is never written, whatever is typed, lost, retried *)
(* or left half done.                                                      *)
FirmwareUntouched ==
  \A x \in Image.start .. Image.end - 1 : flash[x] = 0

(* Every command comes to an end, even if the controller never does.       *)
CommandEnds == cmd # Nothing ~> cmd = Nothing

(* An ERASE blanks nothing outside the page of its address.                *)
EraseOnlyItsPage ==
  [][cmd # Nothing /\ cmd.zone = "ERASE"
       => \A x \in FlashAddress \ Page(cmd.address) :
            flash'[x] = Blank => flash[x] = Blank]_vars
=============================================================================
