------------------------------- MODULE McuIdle -------------------------------
(***************************************************************************)
(* The firmware in interrupt mode (STM32): PendSV handles commands and     *)
(* preempts the user's program between any two of its memory accesses.     *)
(* The user's program does not preempt PendSV, and the USART interrupt     *)
(* touches the rings only, so handling one packet in PendSV is one step    *)
(* here; what the user's program does in mdt_breakpoint_trigger is one     *)
(* step per access of shared memory.  The user's program does not call     *)
(* mcu_mdt_poll, and no timer interrupt samples the watchpoints.           *)
(*                                                                         *)
(* The fields of pending_event are written one by one.  Two of them are    *)
(* enough to see a torn event: head is seq and mem_id, body is address,    *)
(* length and data.                                                        *)
(***************************************************************************)
EXTENDS McuDebug, Sequences

CONSTANTS Sessions    (* what the PC does and what runs on the MCU, by     *)
                      (* name:                                             *)
                      (*   command: the commands the PC may send           *)
                      (*   window: commands it may have unanswered         *)
                      (*   writes: what the program stores in watched words*)
                      (*   once: the flags that the compiler lets the spin *)
                      (*     loop read in its first turn only, which       *)
                      (*     bp_state not being volatile allows            *)

ASSUME IdleAssumption ==
  /\ Nothing \notin Event
  /\ \A n \in DOMAIN Sessions : /\ Sessions[n].window \in Nat
                                /\ Sessions[n].once \subseteq {"enabled", "next"}
                                /\ Sessions[n].writes \subseteq Word
                                /\ \A c \in Sessions[n].command : WellFormed(c)

VARIABLES session,      \* the name of the one there is
          pending,      \* pending_event.pending
          head, body,   \* its other fields: the events they belong to
          rx,           \* packets received and not yet handled
          tx,           \* replies on their way to the PC
          at,           \* where the user's program is
          slot,         \* the breakpoint it is at, or Nothing
          own,          \* the event mdt_event_set was called with
          reg,          \* what it loaded from bp_state and still uses
          told,         \* a command released that slot since it was hit
          early,        \* slots with a NEXT that nothing consumed yet
          crossed       \* PendSV set an event while the program was setting one,
                        \* and the PC may not have read what became of it

Now == Sessions[session]

debugVars == <<bp, wp, mem>>
eventVars == <<pending, head, body>>
mainVars  == <<at, slot, own, reg>>
ghostVars == <<told, early, crossed>>
vars == <<session, debugVars, eventVars, rx, tx, mainVars, ghostVars>>

Init == /\ session \in DOMAIN Sessions
        /\ DebugInit
        /\ pending = FALSE /\ head = Nothing /\ body = Nothing
        /\ rx = <<>> /\ tx = <<>>
        /\ at = "user" /\ slot = Nothing /\ own = Nothing /\ reg = ClearBp
        /\ told = FALSE /\ early = {} /\ crossed = FALSE
-----------------------------------------------------------------------------
(* The PC.                                                                 *)
PcSend == /\ Len(rx) + Len(tx) < Now.window
          /\ \E c \in Now.command : rx' = Append(rx, c)
          /\ UNCHANGED <<session, debugVars, eventVars, tx, mainVars, ghostVars>>

PcRead == /\ tx # <<>>
          /\ tx' = Tail(tx)
          /\ UNCHANGED <<session, debugVars, eventVars, rx, mainVars, ghostVars>>
-----------------------------------------------------------------------------
Setting == at \in {"head", "body", "raise"}

(* mdt_event_set, called from an interrupt.                                *)
EventSet(e) == /\ IF pending THEN UNCHANGED eventVars
                             ELSE pending' = TRUE /\ head' = e /\ body' = e
               /\ crossed' = (crossed \/ (Setting /\ ~pending))

Reply(c, status) == [kind |-> "reply", cmd |-> c.op, status |-> status]
EventReply       == [kind |-> "event", head |-> head', body |-> body']

(* handle_reserved: sample the watchpoints, then answer with the pending   *)
(* event, if there is one, and clear it.                                   *)
Poll(c) == /\ c.op = "NONE"
           /\ TakeSnapshots
           /\ IF pending \/ CheckHits = {}
              THEN UNCHANGED <<head, body>>
              ELSE \E e \in CheckHits : head' = e /\ body' = e
           /\ crossed' = (crossed \/ (Setting /\ ~pending /\ CheckHits # {}))
           /\ pending' = FALSE
           /\ tx' = Append(tx, IF pending \/ CheckHits # {}
                               THEN EventReply ELSE Reply(c, "ACK"))
           /\ UNCHANGED <<bp, mem, mainVars, told, early>>

Reject(c) == /\ c.op = "BAD"
             /\ tx' = Append(tx, Reply(c, "NACK"))
             /\ EventSet(FailedPacket)
             /\ UNCHANGED <<debugVars, mainVars, told, early>>

Releases(c) == c.op = "BREAKPOINT" /\ c.ctl \in {"NEXT", "DISABLE", "RESET"}

Handle(c) ==
  /\ c.op \notin {"NONE", "BAD", "RESET"}
  /\ Execute(c)
  /\ tx' = Append(tx, Reply(c, IF Accepted(c) THEN "ACK" ELSE "ERROR"))
  /\ told' = (told \/ (Releases(c) /\ c.id = slot))
  /\ early' = IF c.op # "BREAKPOINT" \/ c.id \notin BpSlot THEN early
              ELSE IF c.ctl = "RESET" THEN early \ {c.id}
              ELSE IF c.ctl = "NEXT" /\ bp[c.id].enabled /\ c.id # slot
              THEN early \cup {c.id} ELSE early
  /\ UNCHANGED <<eventVars, mainVars, crossed>>

(* The RESET reply leaves before hal_reset starts everything over (HalTx). *)
Restart(c) == /\ c.op = "RESET"
              /\ bp' = [b \in BpSlot |-> ClearBp]
              /\ wp' = [s \in WpSlot |-> ClearWp]
              /\ mem' = [a \in Addr |-> {}]
              /\ pending' = FALSE /\ head' = Nothing /\ body' = Nothing
              /\ tx' = Append(tx, Reply(c, "ACK"))
              /\ at' = "user" /\ slot' = Nothing /\ own' = Nothing
              /\ reg' = ClearBp
              /\ told' = FALSE /\ early' = {} /\ crossed' = (crossed /\ tx # <<>>)

(* PendSV: mdt_process_pending with one complete packet in the ring.       *)
PendSV == /\ rx # <<>>
          /\ rx' = IF Head(rx).op = "RESET" THEN <<>> ELSE Tail(rx)
          /\ \/ Poll(Head(rx)) \/ Reject(Head(rx))
             \/ Handle(Head(rx)) \/ Restart(Head(rx))
          /\ UNCHANGED session
-----------------------------------------------------------------------------
(* The user's program.                                                     *)
otherVars == <<session, wp, mem, rx, tx>>

UserWrite == /\ at = "user"
             /\ \E a \in Addr, w \in Now.writes : mem' = [mem EXCEPT ![a] = w]
             /\ UNCHANGED <<session, bp, wp, eventVars, rx, tx, mainVars, ghostVars>>

(* mdt_breakpoint_trigger up to the call of mdt_event_set.                 *)
Hit(b) == /\ at = "user"
          /\ bp[b].enabled
          /\ at' = "args"
          /\ slot' = b
          /\ told' = FALSE
          /\ UNCHANGED <<bp, otherVars, eventVars, own, reg, early, crossed>>

SetArgs == /\ at = "args"
           /\ own' = BpHit(slot)
           /\ at' = "test"
           /\ UNCHANGED <<bp, otherVars, eventVars, slot, reg, ghostVars>>

SetTest == /\ at = "test"
           /\ at' = IF pending THEN "load" ELSE "head"
           /\ UNCHANGED <<bp, otherVars, eventVars, slot, own, reg, ghostVars>>

(* Fault: pending is raised before the fields are written.                  *)
SetHeadRaises == /\ at = "head"
                 /\ head' = own
                 /\ pending' = TRUE
                 /\ at' = "body"
                 /\ UNCHANGED <<bp, otherVars, body, slot, own, reg, ghostVars>>

SetHead == /\ at = "head"
           /\ head' = own
           /\ at' = "body"
           /\ UNCHANGED <<bp, otherVars, pending, body, slot, own, reg, ghostVars>>

SetBody == /\ at = "body"
           /\ body' = own
           /\ at' = "raise"
           /\ UNCHANGED <<bp, otherVars, pending, head, slot, own, reg, ghostVars>>

SetRaise == /\ at = "raise"
            /\ pending' = TRUE
            /\ at' = "load"
            /\ UNCHANGED <<bp, otherVars, head, body, slot, own, reg, ghostVars>>

(* hit_count++ is a load and a store.                                      *)
CountLoad == /\ at = "load"
             /\ reg' = bp[slot]
             /\ at' = "store"
             /\ UNCHANGED <<bp, otherVars, eventVars, slot, own, ghostVars>>

(* Fault: hit_count is wider than its byte.                                 *)
CountStoreWide ==
  /\ at = "store"
  /\ bp' = [bp EXCEPT ![slot].hit_count = reg.hit_count + 1]
  /\ at' = "spin"
  /\ reg' = ClearBp
  /\ UNCHANGED <<otherVars, eventVars, slot, own, ghostVars>>

CountStore == /\ at = "store"
              /\ bp' = [bp EXCEPT ![slot].hit_count = (reg.hit_count + 1) % HitMod]
              /\ at' = "spin"
              /\ reg' = ClearBp
              /\ UNCHANGED <<otherVars, eventVars, slot, own, ghostVars>>

(* The spin loop: test enabled, test next, clear next.  The two flags      *)
(* share a byte: clearing next stores enabled as it was loaded.            *)
Leave == at' = "user" /\ slot' = Nothing /\ own' = Nothing /\ reg' = ClearBp

SpinOn == /\ at = "spin"
          /\ bp[slot].enabled
          /\ at' = "next"
          /\ UNCHANGED <<bp, otherVars, eventVars, slot, own, reg, ghostVars>>

(* After the first turn a build that reads next once is "deaf" to it.       *)
SpinExit == /\ at = "spin" \/ (at = "deaf" /\ "enabled" \notin Now.once)
            /\ ~bp[slot].enabled
            /\ Leave
            /\ early' = IF bp[slot].next THEN early \cup {slot} ELSE early
            /\ UNCHANGED <<bp, otherVars, eventVars, told, crossed>>

(* Fault: the loop tests enabled on entry only.                             *)
SpinNextOnly ==
  /\ at = "next"
  /\ reg' = IF bp[slot].next THEN bp[slot] ELSE ClearBp
  /\ at' = IF reg'.next THEN "clear" ELSE "next"
  /\ UNCHANGED <<bp, otherVars, eventVars, slot, own, ghostVars>>

SpinNext == /\ at = "next"
            /\ reg' = IF bp[slot].next THEN bp[slot] ELSE ClearBp
            /\ at' = IF reg'.next THEN "clear"
                     ELSE IF "next" \in Now.once THEN "deaf"
                     ELSE IF "enabled" \in Now.once THEN "next" ELSE "spin"
            /\ UNCHANGED <<bp, otherVars, eventVars, slot, own, ghostVars>>

(* Fault: next stays set.                                                   *)
SpinClearKept == /\ at = "clear"
                 /\ early' = early \ {slot}
                 /\ Leave
                 /\ UNCHANGED <<bp, otherVars, eventVars, told, crossed>>

(* Fault: the break is missing.                                             *)
SpinClearStays ==
  /\ at = "clear"
  /\ bp' = [bp EXCEPT ![slot].next = FALSE, ![slot].enabled = reg.enabled]
  /\ early' = early \ {slot}
  /\ at' = IF "enabled" \in Now.once THEN "next" ELSE "spin"
  /\ UNCHANGED <<otherVars, eventVars, slot, own, reg, told, crossed>>

SpinClear == /\ at = "clear"
             /\ bp' = [bp EXCEPT ![slot].next = FALSE,
                                 ![slot].enabled = reg.enabled]
             /\ early' = early \ {slot}
             /\ Leave
             /\ UNCHANGED <<otherVars, eventVars, told, crossed>>
-----------------------------------------------------------------------------
Trigger == SetArgs \/ SetTest \/ SetHead \/ SetBody \/ SetRaise
             \/ CountLoad \/ CountStore \/ SpinOn \/ SpinExit \/ SpinNext \/ SpinClear
Main == UserWrite \/ (\E b \in BpSlot : Hit(b)) \/ Trigger

Next == PcSend \/ PcRead \/ PendSV \/ Main

Spec == Init /\ [][Next]_vars

(* PendSV is taken, and the user's program runs between interrupts.        *)
FairSpec == Spec /\ WF_vars(PendSV) /\ WF_vars(Trigger) /\ WF_vars(PcRead)
-----------------------------------------------------------------------------
Field == Event \cup {Nothing}

Message == [kind : {"reply"}, cmd : {c.op : c \in Now.command},
            status : {"ACK", "NACK", "ERROR"}]
             \cup [kind : {"event"}, head : Field, body : Field]

TypeOK == /\ session \in DOMAIN Sessions
          /\ DebugTypeOK
          /\ pending \in BOOLEAN /\ head \in Field /\ body \in Field
          /\ rx \in Seq(Now.command)
          /\ tx \in Seq(Message) /\ Len(rx) + Len(tx) <= Now.window
          /\ at \in {"user", "args", "test", "head", "body", "raise", "load",
                     "store", "spin", "next", "deaf", "clear"}
          /\ slot \in BpSlot \cup {Nothing}
          /\ at # "user" => slot \in BpSlot
          /\ own \in Field
          /\ reg \in Breakpoint
          /\ told \in BOOLEAN /\ early \subseteq BpSlot /\ crossed \in BOOLEAN

(* An event that reaches the PC is one that was raised: its fields belong  *)
(* together, unless PendSV itself set an event (a bad packet, a watchpoint)*)
(* while it had interrupted the user's program in mdt_event_set.           *)
EventsWhole ==
  ~crossed => \A i \in DOMAIN tx : tx[i].kind = "event" =>
    tx[i].head = tx[i].body /\ tx[i].head # Nothing

(* The MCU stays paused until a NEXT, a DISABLE or a RESET of the slot is  *)
(* handled after the hit, or an earlier NEXT was left to act.              *)
Spinning == at \in {"spin", "next", "deaf", "clear"}
PauseHolds ==
  [][Spinning /\ slot' = Nothing
       => told \/ slot \in early \/ (rx # <<>> /\ Head(rx).op = "RESET")]_vars

(* In a build that reads `next' in every turn of the loop, a NEXT that     *)
(* PendSV has accepted ends the pause, unless the slot is disabled first.  *)
NextReleases ==
  \A b \in BpSlot :
    ("next" \notin Now.once /\ Spinning /\ slot = b /\ bp[b].next)
      ~> slot # b \/ ~bp[b].enabled

(* So does a DISABLE: the user's program does not stay in the spin loop    *)
(* once the slot is disabled for good.                                     *)
DisableReleases ==
  \A b \in BpSlot : ~<>[](slot = b /\ ~bp[b].enabled)

(* The same of builds that read `enabled' in every turn of the loop.       *)
DisableReleasesRead == "enabled" \in Now.once \/ DisableReleases
=============================================================================
