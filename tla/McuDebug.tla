------------------------------ MODULE McuDebug ------------------------------
(***************************************************************************)
(* The debugger state of the firmware and the operations on it that both   *)
(* scheduling modes share: software breakpoints (mcu_mdt_breakpoints.c),   *)
(* memory watchpoints (mcu_mdt_watchpoint.c), the events they raise and    *)
(* the command dispatcher (mcu_mdt_protocol.c).  The slot that holds the   *)
(* one pending event is left to McuPoll, where it is set in one step, and  *)
(* to McuIdle, where it is written field by field.                         *)
(*                                                                         *)
(* A memory word is the set of its bits that are 1, so that masking is     *)
(* set intersection.  A command is a record: op is the CMD_ID, ctl the     *)
(* control value, id the slot (or, for WRITE_MEM, the address) and arg the *)
(* watched address, the mask or the word written.                          *)
(***************************************************************************)
EXTENDS Naturals, FiniteSets

CONSTANTS BpSlot,     (* breakpoint slots: 0 .. MDT_MAX_BREAKPOINTS - 1    *)
          WpSlot,     (* watchpoint slots: 0 .. MDT_MAX_WATCHPOINTS - 1    *)
          Addr,       (* addresses of memory words                         *)
          Bit,        (* the bits of a word                                *)
          HitMod,     (* hit_count counts modulo this (2^8)                *)
          IdMod,      (* a watchpoint id is cut to a byte: modulo 2^8      *)
          Nothing     (* no event, no slot, no address                     *)

ASSUME DebugAssumption ==
  /\ BpSlot \subseteq Nat /\ WpSlot \subseteq Nat
  /\ HitMod \in Nat \ {0} /\ IdMod \in Nat \ {0}
  /\ Nothing \notin BpSlot

VARIABLES bp,      \* bp_state.slots
          wp,      \* watchpoints_descriptor: the slots and active_mask
          mem      \* the memory the watchpoints sample

Word == SUBSET Bit

Breakpoint == [enabled : BOOLEAN, next : BOOLEAN, hit_count : 0 .. HitMod - 1]
Watchpoint == [active : BOOLEAN, address : Addr \cup {Nothing},
               snapshot : Word, mask : Word]
Event == [type : {"BREAKPOINT_HIT"}, id : BpSlot, count : 0 .. HitMod - 1]
           \cup [type : {"WATCHPOINT_HIT"}, id : WpSlot, old : Word, new : Word]
           \cup [type : {"FAILED_PACKET"}]

(* What a command says of memory is an address and a word.                 *)
WellFormed(c) ==
  /\ c.op = "WRITE_MEM" => c.id \in Addr /\ c.arg \in Word
  /\ c.op = "WATCHPOINT" => /\ c.id \in Nat
                            /\ c.ctl = "ENABLE" => c.arg \in Addr
                            /\ c.ctl = "MASK" => c.arg \in Word

FailedPacket == [type |-> "FAILED_PACKET"]

ClearBp == [enabled |-> FALSE, next |-> FALSE, hit_count |-> 0]
ClearWp == [active |-> FALSE, address |-> Nothing, snapshot |-> {}, mask |-> Bit]

DebugInit == /\ bp = [b \in BpSlot |-> ClearBp]
             /\ wp = [s \in WpSlot |-> ClearWp]
             /\ mem = [a \in Addr |-> {}]

DebugTypeOK == /\ bp \in [BpSlot -> Breakpoint]
               /\ wp \in [WpSlot -> Watchpoint]
               /\ \A s \in WpSlot : wp[s].active => wp[s].address \in Addr
               /\ mem \in [Addr -> Word]
-----------------------------------------------------------------------------
BpControls == {"DISABLE", "ENABLE", "RESET", "NEXT"}
WpControls == {"DISABLE", "ENABLE", "RESET", "MASK"}

(* Fault: NEXT is accepted for disabled slots only.                         *)
BpControlInverted(slot, ctl) ==
  CASE ctl = "DISABLE" -> [slot EXCEPT !.enabled = FALSE]
    [] ctl = "ENABLE"  -> [slot EXCEPT !.enabled = TRUE]
    [] ctl = "RESET"   -> ClearBp
    [] ctl = "NEXT"    -> [slot EXCEPT !.next = slot.next \/ ~slot.enabled]

(* mdt_breakpoint_disable, _enable, _reset and _next on one slot.          *)
BpControl(slot, ctl) ==
  CASE ctl = "DISABLE" -> [slot EXCEPT !.enabled = FALSE]
    [] ctl = "ENABLE"  -> [slot EXCEPT !.enabled = TRUE]
    [] ctl = "RESET"   -> ClearBp
    [] ctl = "NEXT"    -> [slot EXCEPT !.next = slot.next \/ slot.enabled]

(* Fault: ENABLE does not store the address.                                *)
WpControlUnaddressed(slot, ctl, arg) ==
  CASE ctl = "ENABLE"  -> [slot EXCEPT !.active = TRUE, !.snapshot = mem[arg],
                                       !.mask = Bit]
    [] ctl = "DISABLE" -> [slot EXCEPT !.active = FALSE]
    [] ctl = "RESET"   -> ClearWp
    [] ctl = "MASK"    -> [slot EXCEPT !.mask = arg]

(* mdt_watchpoint_enable, _disable, _reset and _setmask on one slot.       *)
WpControl(slot, ctl, arg) ==
  CASE ctl = "ENABLE"  -> [active |-> TRUE, address |-> arg,
                           snapshot |-> mem[arg], mask |-> Bit]
    [] ctl = "DISABLE" -> [slot EXCEPT !.active = FALSE]
    [] ctl = "RESET"   -> ClearWp
    [] ctl = "MASK"    -> [slot EXCEPT !.mask = arg]

(* handle_watchpoint casts the slot ID to uint8_t before it is checked.    *)
WpId(c) == c.id % IdMod

(* What the dispatcher and the handlers accept; anything else is answered  *)
(* with STATUS_ERROR and changes nothing.                                  *)
Accepted(c) ==
  \/ c.op \in {"PING", "RESET", "WRITE_MEM"}
  \/ c.op = "BREAKPOINT" /\ c.id \in BpSlot /\ c.ctl \in BpControls
  \/ c.op = "WATCHPOINT" /\ WpId(c) \in WpSlot /\ c.ctl \in WpControls
                         /\ (c.ctl = "MASK" => wp[WpId(c)].active)

(* mdt_dispatch: the effect of a valid packet on the debugger's state.     *)
Execute(c) ==
  LET on(op) == c.op = op /\ Accepted(c) IN
  /\ bp' = IF on("BREAKPOINT")
           THEN [bp EXCEPT ![c.id] = BpControl(@, c.ctl)] ELSE bp
  /\ wp' = IF on("WATCHPOINT")
           THEN [wp EXCEPT ![WpId(c)] = WpControl(@, c.ctl, c.arg)] ELSE wp
  /\ mem' = IF on("WRITE_MEM") THEN [mem EXCEPT ![c.id] = c.arg] ELSE mem

(* The event of mdt_breakpoint_trigger.                                    *)
BpHit(b) == [type |-> "BREAKPOINT_HIT", id |-> b, count |-> bp[b].hit_count]

(* mcu_mdt_watchpoint_check: the slots are sampled in order, each changed  *)
(* one sets the event, which the first of them gets, and takes a new       *)
(* snapshot.                                                               *)
Changed(s) == /\ wp[s].active
              /\ mem[wp[s].address] \cap wp[s].mask
                   # wp[s].snapshot \cap wp[s].mask

WpHit(s) == [type |-> "WATCHPOINT_HIT", id |-> s,
             old |-> wp[s].snapshot, new |-> mem[wp[s].address]]

FirstChanged(s) == Changed(s) /\ \A t \in WpSlot : Changed(t) => s <= t

CheckHits == {WpHit(s) : s \in {t \in WpSlot : FirstChanged(t)}}

(* Fault: the snapshot is never renewed.                                    *)
TakeSnapshotsOnce == UNCHANGED wp

TakeSnapshots ==
  wp' = [s \in WpSlot |-> IF Changed(s)
           THEN [wp[s] EXCEPT !.snapshot = mem[wp[s].address]] ELSE wp[s]]
=============================================================================
