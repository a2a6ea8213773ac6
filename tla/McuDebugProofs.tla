--------------------------- MODULE McuDebugProofs ---------------------------
(***************************************************************************)
(* What the operations of McuDebug do to the debugger's state, for every   *)
(* number of slots and every word size: the lemmas that the proofs about   *)
(* both scheduling modes rest on.                                          *)
(***************************************************************************)
EXTENDS McuDebug, TLAPS

LEMMA ClearTypes == /\ ClearBp \in Breakpoint /\ ~ClearBp.next
                    /\ ClearWp \in Watchpoint /\ ~ClearWp.active
                    /\ {} \in Word
BY DebugAssumption DEF ClearBp, ClearWp, Breakpoint, Watchpoint, Word

LEMMA DebugInitTypes == DebugInit => DebugTypeOK
BY ClearTypes DEF DebugInit, DebugTypeOK

(* The commands of one slot.                                               *)
LEMMA BpControlType ==
  ASSUME NEW slot \in Breakpoint, NEW ctl \in BpControls
  PROVE  /\ BpControl(slot, ctl) \in Breakpoint
         /\ BpControl(slot, ctl).next =>
              (slot.next /\ ctl # "RESET") \/ (ctl = "NEXT" /\ slot.enabled)
         /\ slot.enabled /\ ctl \notin {"DISABLE", "RESET"}
              => BpControl(slot, ctl).enabled
<1> DEFINE new == BpControl(slot, ctl)
<1>0. 0 \in 0 .. HitMod - 1
  BY DebugAssumption
<1>1. PICK e \in BOOLEAN, n \in BOOLEAN, h \in 0 .. HitMod - 1 :
        slot = [enabled |-> e, next |-> n, hit_count |-> h]
  BY DEF Breakpoint
<1>6. slot.enabled = e /\ slot.next = n
  BY <1>1
<1>7. (n \/ e) \in BOOLEAN
  BY Zenon
<1>2. CASE ctl = "DISABLE"
  <2>1. new = [enabled |-> FALSE, next |-> n, hit_count |-> h]
    BY <1>1, <1>2 DEF BpControl
  <2> HIDE DEF new
  <2>2. new \in Breakpoint
    BY <1>1, <2>1 DEF Breakpoint
  <2>3. new.enabled = FALSE /\ new.next = n
    BY <2>1
  <2> QED BY <1>2, <1>6, <2>2, <2>3, Zenon DEF new
<1>3. CASE ctl = "ENABLE"
  <2>1. new = [enabled |-> TRUE, next |-> n, hit_count |-> h]
    BY <1>1, <1>3 DEF BpControl
  <2> HIDE DEF new
  <2>2. new \in Breakpoint
    BY <1>1, <2>1 DEF Breakpoint
  <2>3. new.enabled = TRUE /\ new.next = n
    BY <2>1
  <2> QED BY <1>3, <1>6, <2>2, <2>3, Zenon DEF new
<1>4. CASE ctl = "RESET"
  <2>1. new = [enabled |-> FALSE, next |-> FALSE, hit_count |-> 0]
    BY <1>1, <1>4 DEF BpControl, ClearBp
  <2> HIDE DEF new
  <2>2. new \in Breakpoint
    BY <1>0, <2>1 DEF Breakpoint
  <2>3. new.enabled = FALSE /\ new.next = FALSE
    BY <2>1
  <2> QED BY <1>4, <1>6, <2>2, <2>3, Zenon DEF new
<1>5. CASE ctl = "NEXT"
  <2>1. new = [enabled |-> e, next |-> (n \/ e), hit_count |-> h]
    BY <1>1, <1>5 DEF BpControl
  <2> HIDE DEF new
  <2>2. new \in Breakpoint
    BY <1>1, <1>7, <2>1 DEF Breakpoint
  <2>3. new.enabled = e /\ new.next = (n \/ e)
    BY <2>1
  <2> QED BY <1>5, <1>6, <2>2, <2>3, Zenon DEF new
<1> QED BY <1>2, <1>3, <1>4, <1>5 DEF BpControls

LEMMA WpControlType ==
  ASSUME DebugTypeOK, NEW slot \in Watchpoint, NEW ctl \in WpControls, NEW arg,
         ctl = "ENABLE" => arg \in Addr,
         ctl = "MASK" => arg \in Word,
         slot.active => slot.address \in Addr
  PROVE  LET new == WpControl(slot, ctl, arg) IN
         /\ new \in Watchpoint
         /\ new.active => new.address \in Addr
         /\ ctl = "ENABLE" => new = [active |-> TRUE, address |-> arg,
                                     snapshot |-> mem[arg], mask |-> Bit]
         /\ ctl \in {"DISABLE", "RESET"} => ~new.active
<1>0. Bit \in Word /\ {} \in Word
  BY DEF Word
<1>1. CASE ctl = "ENABLE"
  BY <1>0, <1>1 DEF WpControl, Watchpoint, DebugTypeOK
<1>2. CASE ctl = "DISABLE"
  BY <1>2 DEF WpControl, Watchpoint
<1>3. CASE ctl = "RESET"
  BY <1>0, <1>3 DEF WpControl, Watchpoint, ClearWp
<1>4. CASE ctl = "MASK"
  BY <1>4 DEF WpControl, Watchpoint
<1> QED BY <1>1, <1>2, <1>3, <1>4 DEF WpControls

(* mdt_dispatch keeps the types of the debugger's state.                   *)
LEMMA ExecuteTypes ==
  ASSUME DebugTypeOK, NEW c, WellFormed(c), Execute(c)
  PROVE  DebugTypeOK'
<1>1. bp' \in [BpSlot -> Breakpoint]
  <2>1. CASE c.op = "BREAKPOINT" /\ Accepted(c)
    <3>1. c.id \in BpSlot /\ c.ctl \in BpControls
      BY <2>1 DEF Accepted
    <3>2. bp' = [bp EXCEPT ![c.id] = BpControl(bp[c.id], c.ctl)]
      BY <2>1 DEF Execute
    <3> QED BY <3>1, <3>2, BpControlType DEF DebugTypeOK
  <2>2. CASE ~(c.op = "BREAKPOINT" /\ Accepted(c))
    BY <2>2 DEF Execute, DebugTypeOK
  <2> QED BY <2>1, <2>2
<1>2. /\ wp' \in [WpSlot -> Watchpoint]
      /\ \A s \in WpSlot : wp'[s].active => wp'[s].address \in Addr
  <2>1. CASE c.op = "WATCHPOINT" /\ Accepted(c)
    <3> DEFINE new == WpControl(wp[WpId(c)], c.ctl, c.arg)
    <3>1. WpId(c) \in WpSlot /\ c.ctl \in WpControls
      BY <2>1 DEF Accepted
    <3>2. wp' = [wp EXCEPT ![WpId(c)] = new]
      BY <2>1 DEF Execute
    <3>3. new \in Watchpoint /\ (new.active => new.address \in Addr)
      BY <2>1, <3>1, WpControlType DEF DebugTypeOK, WellFormed
    <3> HIDE DEF new
    <3> QED BY <3>1, <3>2, <3>3 DEF DebugTypeOK
  <2>2. CASE ~(c.op = "WATCHPOINT" /\ Accepted(c))
    BY <2>2 DEF Execute, DebugTypeOK
  <2> QED BY <2>1, <2>2
<1>3. mem' \in [Addr -> Word]
  BY DEF Execute, DebugTypeOK, WellFormed
<1> QED BY <1>1, <1>2, <1>3 DEF DebugTypeOK

(* mcu_mdt_watchpoint_check keeps them, and sees no change a second time.  *)
LEMMA SnapshotTypes ==
  ASSUME DebugTypeOK, TakeSnapshots, UNCHANGED <<bp, mem>>
  PROVE  DebugTypeOK' /\ \A s \in WpSlot : ~Changed(s)'
<1>1. ASSUME NEW s \in WpSlot
      PROVE  /\ wp'[s] \in Watchpoint
             /\ wp'[s].active => wp'[s].address \in Addr
             /\ ~Changed(s)'
  <2>1. wp[s] \in Watchpoint /\ (wp[s].active => wp[s].address \in Addr)
    BY DEF DebugTypeOK
  <2>2. CASE Changed(s)
    <3>1. wp'[s] = [wp[s] EXCEPT !.snapshot = mem[wp[s].address]]
      BY <2>2 DEF TakeSnapshots
    <3>2. mem[wp[s].address] \in Word
      BY <2>1, <2>2 DEF Changed, DebugTypeOK
    <3> QED BY <2>1, <3>1, <3>2 DEF Changed, Watchpoint
  <2>3. CASE ~Changed(s)
    <3>1. wp'[s] = wp[s]
      BY <2>3 DEF TakeSnapshots
    <3> QED BY <2>1, <2>3, <3>1 DEF Changed
  <2> QED BY <2>2, <2>3
<1>2. wp' \in [WpSlot -> Watchpoint]
  BY <1>1 DEF TakeSnapshots
<1> QED BY <1>1, <1>2 DEF DebugTypeOK

(* What the two sources of hits raise are events.                          *)
LEMMA HitsAreEvents ==
  ASSUME DebugTypeOK
  PROVE  /\ \A b \in BpSlot : BpHit(b) \in Event
         /\ CheckHits \subseteq Event
<1>1. ASSUME NEW b \in BpSlot PROVE BpHit(b) \in Event
  <2>1. bp[b].hit_count \in 0 .. HitMod - 1
    BY DEF DebugTypeOK, Breakpoint
  <2> QED BY <2>1 DEF BpHit, Event
<1>2. ASSUME NEW s \in WpSlot, Changed(s) PROVE WpHit(s) \in Event
  <2>1. wp[s].snapshot \in Word /\ mem[wp[s].address] \in Word
    BY <1>2 DEF DebugTypeOK, Watchpoint, Changed
  <2> QED BY <2>1 DEF WpHit, Event
<1>3. CheckHits \subseteq Event
  BY <1>2 DEF CheckHits, FirstChanged
<1> QED BY <1>1, <1>3
=============================================================================
