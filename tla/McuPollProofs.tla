---------------------------- MODULE McuPollProofs ----------------------------
(***************************************************************************)
(* Proofs about McuPoll for every number of breakpoints and watchpoints,   *)
(* every word size and every session: a pause lasts until it is released,  *)
(* a pending event is not replaced, a change is reported once, and replies *)
(* reach the PC whole and in the order of the commands until the transmit  *)
(* ring cuts one off.                                                      *)
(***************************************************************************)
EXTENDS McuPoll, McuDebugProofs, SequenceTheorems

(* What the proofs need of the types.                                      *)
Types == /\ DebugTypeOK
         /\ session \in DOMAIN Sessions
         /\ rx \in Seq(Now.command)
         /\ paused \in BpSlot \cup {Nothing}
         /\ at \in {"spin", "test"} => paused # Nothing
         /\ at = "user" => paused = Nothing

-----------------------------------------------------------------------------
LEMMA PacketLemma ==
  ASSUME Types, PollPacket
  PROVE  /\ Head(rx) \in Now.command /\ WellFormed(Head(rx))
         /\ Tail(rx) \in Seq(Now.command)
<1>1. Head(rx) \in Now.command /\ Tail(rx) \in Seq(Now.command)
  BY DEF Types, PollPacket
<1> QED BY <1>1, PollAssumption DEF Types, Now

LEMMA TypesStep == Types /\ [Next]_vars => Types'
<1> SUFFICES ASSUME Types, [Next]_vars PROVE Types'
  OBVIOUS
<1> USE DEF debugVars, linkVars, ghostVars
<1>0. DebugTypeOK /\ UNCHANGED <<bp, wp, mem>> => DebugTypeOK'
  BY DEF DebugTypeOK
<1>n. UNCHANGED session => Now' = Now
  BY DEF Now
<1>0a. CASE PcGiveUp
  BY <1>0, <1>0a, <1>n DEF PcGiveUp, Types
<1>1. CASE PcSend
  <2>1. rx' \in Seq(Now.command)
    BY <1>1 DEF PcSend, Types
  <2> QED BY <1>0, <1>1, <1>n, <2>1 DEF PcSend, Types
<1>2. CASE TxDrain
  BY <1>0, <1>2, <1>n DEF TxDrain, Types
<1>3. CASE UserWrite
  <2>1. mem' \in [Addr -> Word]
    BY <1>3, PollAssumption DEF UserWrite, Types, DebugTypeOK, Now
  <2>2. DebugTypeOK'
    BY <1>3, <2>1 DEF UserWrite, Types, DebugTypeOK
  <2> QED BY <1>3, <1>n, <2>2 DEF UserWrite, Types
<1>4. ASSUME NEW b \in BpSlot, UserBreak(b) PROVE Types'
  <2>1. [bp[b] EXCEPT !.hit_count = (bp[b].hit_count + 1) % HitMod]
          \in Breakpoint
    <3>1. bp[b] \in Breakpoint
      BY DEF Types, DebugTypeOK
    <3>2. (bp[b].hit_count + 1) % HitMod \in 0 .. HitMod - 1
      BY <3>1, DebugAssumption DEF Breakpoint
    <3> QED BY <3>1, <3>2 DEF Breakpoint
  <2>2. bp' \in [BpSlot -> Breakpoint]
    BY <1>4, <2>1 DEF UserBreak, Types, DebugTypeOK
  <2>3. DebugTypeOK'
    BY <1>4, <2>2 DEF UserBreak, Types, DebugTypeOK
  <2> QED BY <1>4, <1>n, <2>3, DebugAssumption DEF UserBreak, Types
<1>5. CASE UserPoll
  BY <1>0, <1>5, <1>n DEF UserPoll, Types
<1>6. CASE PollFlush
  <2>1. /\ UNCHANGED <<bp, wp, mem, rx, session, paused>> /\ at' = "drain"
    BY <1>6 DEF PollFlush
  <2> QED BY <1>0, <1>n, <2>1 DEF Types
<1>7. CASE PollPacket
  <2>1. rx' \in Seq(Now.command)
    BY <1>7, PacketLemma DEF PollPacket
  <2>2. DebugTypeOK' /\ at' \in {"drain", "reset"}
    <3>1. CASE Reject(Head(rx))
      BY <1>0, <1>7, <3>1 DEF Reject, PollPacket, Types
    <3>2. CASE Handle(Head(rx))
      <4>1. DebugTypeOK'
        BY <1>7, <3>2, ExecuteTypes, PacketLemma DEF Handle, Types
      <4> QED BY <1>7, <3>2, <4>1 DEF Handle, PollPacket
    <3> QED BY <1>7, <3>1, <3>2 DEF PollPacket
  <2> QED BY <1>7, <1>n, <2>1, <2>2 DEF PollPacket, Types
<1>8. CASE PollEmpty
  BY <1>0, <1>8, <1>n DEF PollEmpty, Types
<1>9. CASE PollWatch
  <2>1. DebugTypeOK'
    BY <1>9, SnapshotTypes DEF PollWatch, Types
  <2>2. /\ UNCHANGED <<rx, session, paused>>
        /\ at' = IF paused = Nothing THEN "user" ELSE "test"
    BY <1>9 DEF PollWatch
  <2> QED BY <1>n, <2>1, <2>2 DEF Types
<1>10. CASE SpinPoll \/ SpinExit \/ SpinTest
  BY <1>0, <1>10, <1>n DEF SpinPoll, SpinExit, SpinTest, Types
<1>11. CASE SpinNext
  <2>1. bp' \in [BpSlot -> Breakpoint]
    <3>1. \A b \in BpSlot : [bp[b] EXCEPT !.next = FALSE] \in Breakpoint
      BY DEF Types, DebugTypeOK, Breakpoint
    <3> QED BY <1>11, <3>1 DEF SpinNext, Types, DebugTypeOK
  <2>2. DebugTypeOK'
    BY <1>11, <2>1 DEF SpinNext, Types, DebugTypeOK
  <2> QED BY <1>11, <1>n, <2>2 DEF SpinNext, Types
<1>12. CASE Restart
  <2>1. ClearBp \in Breakpoint /\ ClearWp \in Watchpoint /\ {} \in Word
        /\ ~ClearWp.active
    BY ClearTypes
  <2>2. DebugTypeOK'
    BY <1>12, <2>1 DEF Restart, DebugTypeOK
  <2>3. rx' \in Seq(Now.command)
    BY <1>12 DEF Restart
  <2> QED BY <1>12, <1>n, <2>2, <2>3 DEF Restart, Types
<1>13. CASE UNCHANGED vars
  BY <1>0, <1>13, <1>n DEF vars, Types
<1> QED BY <1>0a, <1>1, <1>2, <1>3, <1>4, <1>5, <1>6, <1>7, <1>8, <1>9, <1>10,
           <1>11, <1>12, <1>13 DEF Next, User, MCU

LEMMA TypesInit == Init => Types
<1> SUFFICES ASSUME Init PROVE Types
  OBVIOUS
<1>1. DebugTypeOK
  BY DebugInitTypes DEF Init
<1> QED BY <1>1 DEF Init, Types
-----------------------------------------------------------------------------
LEMMA PushWhole ==
  ASSUME tx = <<>>, NEW m
  PROVE  Push(m) = Halves(m)
<1> DEFINE h == Halves(m)
<1>0. ASSUME NEW x, NEW y PROVE <<x, y>> \in Seq({x, y}) /\ Len(<<x, y>>) = 2
  OBVIOUS
<1>1. \E S : h \in Seq(S) /\ Len(h) = 2
  BY <1>0 DEF Halves
<1>3. tx \o h = h /\ SubSeq(h, 1, 2) = h
  BY <1>1, ConcatEmptySeq, SubSeqFull
<1>2. (IF Len(h) < TxHalves THEN Len(h) ELSE TxHalves) = 2
  BY <1>1, PollAssumption
<1> HIDE DEF h
<1> QED BY <1>2, <1>3 DEF Push, h

(* A pending event is not replaced before it is on the wire as a whole:    *)
(* mdt_event_flush waits for an empty transmit ring.                       *)
THEOREM EventsStay == Spec => EventKept
<1> USE DEF debugVars, linkVars, ghostVars
<1>1. ASSUME [Next]_vars, event # Nothing, event' # event
      PROVE  tx' = Halves(EventPacket(event)) \/ at = "reset"
  <2>0. \A e : EventSet(e) => event' = event
    BY <1>1 DEF EventSet
  <2>1. CASE PollFlush
    BY <1>1, <2>1, PushWhole DEF PollFlush, Send
  <2>2. CASE PollPacket
    BY <1>1, <2>0, <2>2 DEF PollPacket, Reject, Handle
  <2>3. CASE PollWatch
    BY <1>1, <2>0, <2>3 DEF PollWatch
  <2>4. CASE Restart
    BY <2>4 DEF Restart
  <2>5. ASSUME NEW b \in BpSlot, UserBreak(b) PROVE FALSE
    BY <1>1, <2>0, <2>5 DEF UserBreak
  <2>6. CASE \/ PcSend \/ PcGiveUp \/ TxDrain \/ UserWrite \/ UserPoll
             \/ PollEmpty \/ SpinPoll \/ SpinExit \/ SpinTest \/ SpinNext
             \/ UNCHANGED vars
    BY <1>1, <2>6 DEF PcSend, PcGiveUp, TxDrain, UserWrite, UserPoll, PollEmpty, SpinPoll,
                      SpinExit, SpinTest, SpinNext, vars
  <2> QED BY <1>1, <2>1, <2>2, <2>3, <2>4, <2>5, <2>6 DEF Next, User, MCU
<1>2. [Next]_vars
        => [event # Nothing /\ event' # event
              => tx' = Halves(EventPacket(event)) \/ at = "reset"]_vars
  BY <1>1
<1> QED BY <1>2, PTL DEF Spec, EventKept
-----------------------------------------------------------------------------
(* The slots whose change the next check will find are those something     *)
(* happened to since the last one.                                         *)
QuietInv == quiet => \A s \in WpSlot : ~Changed(s)

LEMMA QuietStep == Types /\ QuietInv /\ [Next]_vars => QuietInv'
<1> SUFFICES ASSUME Types, QuietInv, [Next]_vars PROVE QuietInv'
  OBVIOUS
<1> USE DEF debugVars, linkVars, ghostVars
<1>1. UNCHANGED <<wp, mem, quiet>> => QuietInv'
  BY DEF QuietInv, Changed
<1>2. CASE PollPacket
  <2> DEFINE c == Head(rx)
  <2>1. CASE Reject(c)
    BY <1>1, <2>1 DEF Reject
  <2>2. CASE Handle(c)
    <3>1. SUFFICES ASSUME quiet' PROVE \A s \in WpSlot : ~Changed(s)'
      BY DEF QuietInv
    <3>2. /\ quiet /\ c.op # "WRITE_MEM"
          /\ ~(c.op = "WATCHPOINT" /\ c.ctl = "MASK") /\ Execute(c)
      BY <2>2, <3>1 DEF Handle
    <3>3. mem' = mem /\ \A s \in WpSlot : ~Changed(s)
      BY <3>2 DEF Execute, QuietInv
    <3>4. CASE c.op = "WATCHPOINT" /\ Accepted(c)
      <4>1. c.ctl \in {"DISABLE", "ENABLE", "RESET"}
        BY <3>2, <3>4 DEF Accepted, WpControls
      <4>t. PICK t \in WpSlot : t = WpId(c)
        BY <3>4 DEF Accepted
      <4> DEFINE new == WpControl(wp[t], c.ctl, c.arg)
      <4>2. wp' = [wp EXCEPT ![t] = new]
        BY <3>2, <3>4, <4>t DEF Execute
      <4>3. /\ c.ctl = "ENABLE" => new = [active |-> TRUE, address |-> c.arg,
                                     snapshot |-> mem[c.arg], mask |-> Bit]
            /\ c.ctl \in {"DISABLE", "RESET"} => ~new.active
        <5>1. c.ctl = "ENABLE" => c.arg \in Addr
          BY <1>2, <3>4, PacketLemma DEF WellFormed
        <5>2. /\ wp[t] \in Watchpoint /\ DebugTypeOK
              /\ wp[t].active => wp[t].address \in Addr
          BY DEF Types, DebugTypeOK
        <5>3. c.ctl \in WpControls /\ c.ctl # "MASK"
          BY <4>1 DEF WpControls
        <5> QED BY <5>1, <5>2, <5>3, WpControlType
      <4>5. wp \in [WpSlot -> Watchpoint]
        BY DEF Types, DebugTypeOK
      <4> HIDE DEF new, c
      <4>4. ~Changed(t)'
        BY <3>3, <4>1, <4>2, <4>3, <4>5 DEF Changed
      <4>6. ASSUME NEW s \in WpSlot, s # t PROVE ~Changed(s)'
        <5>1. wp'[s] = wp[s]
          BY <4>2, <4>5, <4>6
        <5> QED BY <3>3, <5>1 DEF Changed
      <4> QED BY <4>4, <4>6
    <3>5. CASE ~(c.op = "WATCHPOINT" /\ Accepted(c))
      <4>1. wp' = wp
        BY <3>2, <3>5 DEF Execute
      <4> QED BY <3>3, <4>1 DEF Changed
    <3> QED BY <3>4, <3>5
  <2> QED BY <1>2, <2>1, <2>2 DEF PollPacket
<1>3. CASE PollWatch
  BY <1>3, SnapshotTypes DEF PollWatch, Types, QuietInv
<1>4. CASE Restart
  <2>1. ~ClearWp.active
    BY DEF ClearWp
  <2> QED BY <1>4, <2>1 DEF Restart, QuietInv, Changed
<1>5. CASE UserWrite
  BY <1>5 DEF UserWrite, QuietInv
<1>6. ASSUME NEW b \in BpSlot, UserBreak(b) PROVE QuietInv'
  BY <1>1, <1>6 DEF UserBreak
<1>7. CASE \/ PcSend \/ PcGiveUp \/ TxDrain \/ UserPoll \/ PollFlush \/ PollEmpty
           \/ SpinPoll \/ SpinExit \/ SpinTest \/ SpinNext \/ UNCHANGED vars
  BY <1>1, <1>7 DEF PcSend, PcGiveUp, TxDrain, UserPoll, PollFlush, PollEmpty, SpinPoll,
                    SpinExit, SpinTest, SpinNext, vars
<1> QED BY <1>2, <1>3, <1>4, <1>5, <1>6, <1>7 DEF Next, User, MCU

(* A check reports a watchpoint only if something was written, or a mask   *)
(* set, since the check before.                                            *)
THEOREM ChangesReportedOnce == Spec => OneHitPerChange
<1> USE DEF debugVars, linkVars, ghostVars
<1>1. ASSUME QuietInv, [Next]_vars, quiet, event # event', event' # Nothing
      PROVE  event'.type # "WATCHPOINT_HIT"
  <2>0. \A e : EventSet(e) => event' = e
    BY <1>1 DEF EventSet
  <2>1. CASE PollPacket
    <3>1. event' = event \/ event' = FailedPacket
      BY <2>0, <2>1 DEF PollPacket, Reject, Handle
    <3> QED BY <1>1, <3>1 DEF FailedPacket
  <2>2. CASE PollWatch
    <3>1. CheckHits = {}
      BY <1>1 DEF CheckHits, FirstChanged, QuietInv
    <3> QED BY <1>1, <2>2, <3>1 DEF PollWatch
  <2>3. ASSUME NEW b \in BpSlot, UserBreak(b)
        PROVE  event'.type # "WATCHPOINT_HIT"
    BY <2>0, <2>3 DEF UserBreak, BpHit
  <2>4. CASE \/ PcSend \/ PcGiveUp \/ TxDrain \/ UserWrite \/ UserPoll
             \/ PollFlush \/ PollEmpty \/ SpinPoll \/ SpinExit \/ SpinTest \/ SpinNext
             \/ Restart \/ UNCHANGED vars
    BY <1>1, <2>4 DEF PcSend, PcGiveUp, TxDrain, UserWrite, UserPoll, PollFlush, PollEmpty,
                      SpinPoll, SpinExit, SpinTest, SpinNext, Restart, vars
  <2> QED BY <1>1, <2>1, <2>2, <2>3, <2>4 DEF Next, User, MCU
<1>2. QuietInv /\ [Next]_vars
        => [quiet /\ event # event' /\ event' # Nothing
              => event'.type # "WATCHPOINT_HIT"]_vars
  BY <1>1
<1>3. Init => QuietInv
  <2>1. ~ClearWp.active
    BY DEF ClearWp
  <2> QED BY <2>1 DEF Init, DebugInit, QuietInv, Changed
<1> QED BY <1>2, <1>3, TypesInit, TypesStep, QuietStep, PTL
        DEF Spec, OneHitPerChange
-----------------------------------------------------------------------------
(* A NEXT that is set came early, or it releases the breakpoint the MCU    *)
(* stops at; right after the hit only an early one can be set.  As long as *)
(* nothing released it, that breakpoint stays enabled.                     *)
PauseInv ==
  /\ \A b \in BpSlot : bp[b].next => b \in early \/ (b = paused /\ told)
  /\ at = "spin" /\ bp[paused].next => paused \in early
  /\ paused # Nothing /\ ~told => bp[paused].enabled

(* mdt_breakpoint_dispatch.                                                *)
LEMMA PauseHandle ==
  ASSUME Types, PauseInv, PollPacket, Handle(Head(rx))
  PROVE  PauseInv'
<1> DEFINE c == Head(rx)
<1>1. /\ UNCHANGED paused /\ at' # "spin" /\ Execute(c)
      /\ paused \in BpSlot \cup {Nothing} /\ bp \in [BpSlot -> Breakpoint]
  BY DEF PollPacket, Handle, Types, DebugTypeOK
<1>2. told' <=> told \/ (Releases(c) /\ c.id = paused)
  BY DEF Handle
<1>3. early' = IF c.op # "BREAKPOINT" \/ c.id \notin BpSlot THEN early
               ELSE IF c.ctl = "RESET" THEN early \ {c.id}
               ELSE IF c.ctl = "NEXT" /\ bp[c.id].enabled /\ c.id # paused
               THEN early \cup {c.id} ELSE early
  BY DEF Handle
<1>p. /\ \A b \in BpSlot : bp[b].next => b \in early \/ (b = paused /\ told)
      /\ paused # Nothing /\ ~told => bp[paused].enabled
  BY DEF PauseInv
<1>4. CASE c.op = "BREAKPOINT" /\ Accepted(c)
  <2> DEFINE new == BpControl(bp[c.id], c.ctl)
  <2>1. c.id \in BpSlot /\ c.ctl \in BpControls
    BY <1>4 DEF Accepted
  <2>2. bp' = [bp EXCEPT ![c.id] = new]
    BY <1>1, <1>4 DEF Execute
  <2>3. /\ new.next => \/ (bp[c.id].next /\ c.ctl # "RESET")
                       \/ (c.ctl = "NEXT" /\ bp[c.id].enabled)
        /\ bp[c.id].enabled /\ c.ctl \notin {"DISABLE", "RESET"} => new.enabled
    BY <1>1, <2>1, BpControlType
  <2>4. Releases(c) <=> c.ctl \in {"NEXT", "DISABLE", "RESET"}
    BY <1>4 DEF Releases
  <2> HIDE DEF new, c
  <2>5. bp'[c.id] = new /\ \A b \in BpSlot : b # c.id => bp'[b] = bp[b]
    BY <1>1, <2>1, <2>2
  <2>6. ASSUME NEW b \in BpSlot, bp'[b].next
        PROVE  b \in early' \/ (b = paused /\ told')
    <3>1. CASE b = c.id
      BY <1>2, <1>3, <1>4, <1>p, <2>1, <2>3, <2>4, <2>5, <2>6, <3>1
    <3>2. CASE b # c.id
      BY <1>2, <1>3, <1>p, <2>5, <2>6, <3>2
    <3> QED BY <3>1, <3>2
  <2>7. ASSUME paused # Nothing, ~told' PROVE bp'[paused].enabled
    <3>1. ~told /\ bp[paused].enabled /\ paused \in BpSlot
      BY <1>1, <1>2, <1>p, <2>7
    <3>2. CASE paused = c.id
      BY <1>2, <2>1, <2>3, <2>4, <2>5, <2>7, <3>1, <3>2 DEF BpControls
    <3>3. CASE paused # c.id
      BY <2>5, <3>1, <3>3
    <3> QED BY <3>2, <3>3
  <2> QED BY <1>1, <2>6, <2>7 DEF PauseInv
<1>5. CASE ~(c.op = "BREAKPOINT" /\ Accepted(c))
  <2>1. bp' = bp
    BY <1>1, <1>5 DEF Execute
  <2>2. \A b \in BpSlot : b \in early /\ b \notin early' => FALSE
    <3>1. c.op = "BREAKPOINT" /\ c.id \in BpSlot /\ c.ctl = "RESET"
            => Accepted(c)
      BY DEF Accepted, BpControls
    <3> QED BY <1>3, <1>5, <3>1
  <2> HIDE DEF c
  <2> QED BY <1>1, <1>2, <1>p, <2>1, <2>2 DEF PauseInv
<1> QED BY <1>4, <1>5

LEMMA PauseStep == Types /\ PauseInv /\ [Next]_vars => PauseInv'
<1> SUFFICES ASSUME Types, PauseInv, [Next]_vars PROVE PauseInv'
  OBVIOUS
<1> USE DEF debugVars, linkVars, ghostVars
<1>1. UNCHANGED <<bp, paused, told, early>> /\ (at' = "spin" => at = "spin")
        => PauseInv'
  BY DEF PauseInv
<1>2. ASSUME NEW b \in BpSlot, UserBreak(b) PROVE PauseInv'
  <2>1. /\ paused = Nothing /\ Nothing \notin BpSlot
        /\ bp[b].enabled /\ paused' = b /\ early' = early
        /\ bp \in [BpSlot -> Breakpoint]
        /\ bp' = [bp EXCEPT ![b].hit_count = (bp[b].hit_count + 1) % HitMod]
    BY <1>2, DebugAssumption DEF UserBreak, Types, DebugTypeOK
  <2>2. \A s \in BpSlot :
          bp'[s].next = bp[s].next /\ bp'[s].enabled = bp[s].enabled
    BY <2>1 DEF Breakpoint
  <2> QED BY <2>1, <2>2 DEF PauseInv
<1>3. CASE PollPacket
  <2>1. CASE Reject(Head(rx))
    BY <1>1, <1>3, <2>1 DEF PollPacket, Reject
  <2> QED BY <1>3, <2>1, PauseHandle DEF PollPacket
<1>4. CASE SpinExit
  <2>1. /\ at = "spin" /\ paused' = Nothing /\ at' = "user"
        /\ UNCHANGED <<bp, told, early>>
    BY <1>4 DEF SpinExit
  <2> QED BY <2>1 DEF PauseInv
<1>5. CASE SpinTest
  <2>1. /\ ~bp[paused].next /\ UNCHANGED <<bp, paused, told, early>>
    BY <1>5 DEF SpinTest
  <2> QED BY <2>1 DEF PauseInv
<1>6. CASE SpinNext
  <2>1. /\ bp \in [BpSlot -> Breakpoint] /\ paused \in BpSlot
        /\ bp' = [bp EXCEPT ![paused].next = FALSE]
        /\ paused' = Nothing /\ at' = "user" /\ early' = early \ {paused}
    BY <1>6 DEF SpinNext, Types, DebugTypeOK
  <2>2. ~bp'[paused].next /\ \A s \in BpSlot \ {paused} : bp'[s] = bp[s]
    BY <2>1 DEF Breakpoint
  <2> QED BY <2>1, <2>2 DEF PauseInv
<1>7. CASE Restart
  <2>1. ~ClearBp.next
    BY DEF ClearBp
  <2> QED BY <1>7, <2>1 DEF Restart, PauseInv
<1>8. CASE PollWatch
  BY <1>1, <1>8 DEF PollWatch
<1>9. CASE \/ PcSend \/ PcGiveUp \/ TxDrain \/ UserWrite \/ UserPoll \/ PollFlush
           \/ PollEmpty \/ SpinPoll \/ UNCHANGED vars
  BY <1>1, <1>9 DEF PcSend, PcGiveUp, TxDrain, UserWrite, UserPoll, PollFlush, PollEmpty,
                    SpinPoll, vars
<1> QED BY <1>2, <1>3, <1>4, <1>5, <1>6, <1>7, <1>8, <1>9 DEF Next, User, MCU

(* The MCU stays at a breakpoint until a command releases it, or one did   *)
(* so in advance, or it restarts.                                          *)
THEOREM PausesHold == Spec => PauseHolds
<1> USE DEF debugVars, linkVars, ghostVars
<1>1. ASSUME Types, PauseInv, [Next]_vars, paused # Nothing, paused' = Nothing
      PROVE  told \/ paused \in early \/ at = "reset"
  <2>0. paused \in BpSlot
    BY <1>1 DEF Types
  <2>1. CASE SpinExit
    BY <1>1, <2>1 DEF SpinExit, PauseInv
  <2>2. CASE SpinNext
    BY <1>1, <2>0, <2>2 DEF SpinNext, PauseInv
  <2>3. CASE Restart
    BY <2>3 DEF Restart
  <2>4. ASSUME NEW b \in BpSlot, UserBreak(b) PROVE FALSE
    BY <1>1, <2>4, DebugAssumption DEF UserBreak
  <2>5. CASE \/ PcSend \/ PcGiveUp \/ TxDrain \/ UserWrite \/ UserPoll
             \/ PollFlush \/ PollPacket \/ PollEmpty \/ PollWatch \/ SpinPoll \/ SpinTest
             \/ UNCHANGED vars
    BY <1>1, <2>5 DEF PcSend, PcGiveUp, TxDrain, UserWrite, UserPoll, PollFlush, PollPacket,
                      PollEmpty, PollWatch, SpinPoll, SpinTest, vars
  <2> QED BY <1>1, <2>1, <2>2, <2>3, <2>4, <2>5 DEF Next, User, MCU
<1>2. Types /\ PauseInv /\ [Next]_vars
        => [paused # Nothing /\ paused' = Nothing
              => told \/ paused \in early \/ at = "reset"]_vars
  BY <1>1
<1>3. Init => PauseInv
  <2>1. ~ClearBp.next
    BY DEF ClearBp
  <2> QED BY <2>1 DEF Init, DebugInit, PauseInv
<1> QED BY <1>2, <1>3, TypesInit, TypesStep, PauseStep, PTL DEF Spec, PauseHolds
-----------------------------------------------------------------------------
(* What the transmit ring holds until a packet is cut off, from the end    *)
(* that leaves first: e halves of an event (none, or one that was sent     *)
(* while the ring was empty), then the n replies to the oldest commands;   *)
(* of the first reply, a half may have left already (e = -1).              *)
Laid(n, e) ==
  /\ Len(tx) = 2 * n + e
  /\ Len(asked) = n + Len(rx)
  /\ \A k \in 1 .. Len(rx) : rx[k] = asked[n + k]
  /\ \A i \in 1 .. e : tx[i].msg.kind = "event" /\ tx[i].part = i + 2 - e
  /\ e = 2 => tx[1].msg = tx[2].msg
  /\ \A k \in 1 .. n : /\ tx[2*k + e].msg.kind = "reply"
                       /\ tx[2*k + e].msg.cmd = asked[k]
                       /\ tx[2*k + e].part = 2
  /\ \A k \in 1 .. n : 2*k + e > 1 => /\ tx[2*k + e - 1].msg = tx[2*k + e].msg
                                      /\ tx[2*k + e - 1].part = 1

LinkTypes == /\ asked \in Seq(Now.command)
             /\ tx \in Seq(Half) /\ Len(tx) <= TxHalves /\ cut \in BOOLEAN
             /\ event \in Event \cup {Nothing}
             /\ at \in {"user", "flush", "drain", "watch", "spin", "test", "reset"}
             /\ told \in BOOLEAN /\ early \subseteq BpSlot /\ quiet \in BOOLEAN

LinkInv == /\ LinkTypes
           /\ ~cut => \E n \in Nat : \E e \in -1 .. 2 : Laid(n, e)

LEMMA HalfFields == \A h \in Half : h = [msg |-> h.msg, part |-> h.part]
                                    /\ h.msg \in Message /\ h.part \in 1 .. 2
BY DEF Half

(* Whatever is sent, the ring holds what fits.                             *)
LEMMA PushTypes ==
  ASSUME tx \in Seq(Half), NEW m \in Message
  PROVE  Push(m) \in Seq(Half) /\ Len(Push(m)) <= TxHalves
<1> DEFINE first  == [msg |-> m, part |-> 1]
           second == [msg |-> m, part |-> 2]
<1>1. first \in Half /\ second \in Half
  BY DEF Half
<1> HIDE DEF first, second
<1> DEFINE all == tx \o <<first, second>>
<1>2. all \in Seq(Half) /\ Len(all) \in Nat
  BY <1>1
<1>3. Push(m) = SubSeq(all, 1, IF Len(all) < TxHalves THEN Len(all) ELSE TxHalves)
  BY DEF Push, Halves, first, second
<1> HIDE DEF all
<1>4. CASE Len(all) < TxHalves
  <2>1. Push(m) = SubSeq(all, 1, Len(all))
    BY <1>3, <1>4
  <2> QED BY <1>2, <1>4, <2>1, PollAssumption, SubSeqFull
<1>5. CASE ~(Len(all) < TxHalves)
  <2>1. Push(m) = SubSeq(all, 1, TxHalves) /\ TxHalves \in 1 .. Len(all)
    BY <1>2, <1>3, <1>5, PollAssumption
  <2>2. \A i \in 1 .. TxHalves : all[i] \in Half
    BY <1>2, <2>1
  <2> QED BY <1>2, <2>1, <2>2, PollAssumption, SubSeqProperties
<1> QED BY <1>4, <1>5

(* A packet that the ring has room for is appended as a whole.             *)
LEMMA PushRoom ==
  ASSUME tx \in Seq(Half), Len(tx) + 2 <= TxHalves, NEW m \in Message
  PROVE  /\ Push(m) \in Seq(Half)
         /\ Len(Push(m)) = Len(tx) + 2
         /\ \A i \in 1 .. Len(tx) : Push(m)[i] = tx[i]
         /\ Push(m)[Len(tx) + 1] = [msg |-> m, part |-> 1]
         /\ Push(m)[Len(tx) + 2] = [msg |-> m, part |-> 2]
<1> DEFINE first == [msg |-> m, part |-> 1]
           second == [msg |-> m, part |-> 2]
<1>1. first \in Half /\ second \in Half
  BY DEF Half
<1> HIDE DEF first, second
<1>2. <<first, second>> \in Seq(Half) /\ Len(<<first, second>>) = 2
  BY <1>1
<1> DEFINE all == tx \o <<first, second>>
<1>3. /\ all \in Seq(Half) /\ Len(all) = Len(tx) + 2
      /\ \A i \in 1 .. Len(tx) : all[i] = tx[i]
      /\ all[Len(tx) + 1] = first /\ all[Len(tx) + 2] = second
  BY <1>1, <1>2
<1>4. (IF Len(all) < TxHalves THEN Len(all) ELSE TxHalves) = Len(all)
  BY <1>3, PollAssumption
<1>5. Push(m) = SubSeq(all, 1, Len(all))
  BY <1>4 DEF Push, Halves, first, second
<1> HIDE DEF all
<1>6. Push(m) = all
  BY <1>3, <1>5, SubSeqFull
<1> QED BY <1>3, <1>6 DEF first, second

LEMMA LaidFrom ==
  ASSUME NEW n \in Nat, NEW e \in -1 .. 2,
         Len(tx') = 2 * n + e,
         Len(asked') = n + Len(rx'),
         \A k \in 1 .. Len(rx') : rx'[k] = asked'[n + k],
         \A i \in 1 .. e : tx'[i].msg.kind = "event" /\ tx'[i].part = i + 2 - e,
         e = 2 => tx'[1].msg = tx'[2].msg,
         \A k \in 1 .. n : /\ tx'[2*k + e].msg.kind = "reply"
                           /\ tx'[2*k + e].msg.cmd = asked'[k]
                           /\ tx'[2*k + e].part = 2
                           /\ 2*k + e > 1 =>
                                /\ tx'[2*k + e - 1].msg = tx'[2*k + e].msg
                                /\ tx'[2*k + e - 1].part = 1
  PROVE  Laid(n, e)'
BY DEF Laid

(* A handled command: its reply goes to the end.                           *)
LEMMA LaidReply ==
  ASSUME LinkTypes, rx \in Seq(Now.command), NEW n \in Nat, NEW e \in -1 .. 2,
         Laid(n, e), rx # <<>>, rx' = Tail(rx), asked' = asked,
         NEW r \in Message, r.kind = "reply", r.cmd = Head(rx),
         Len(tx) + 2 <= TxHalves, tx' = Push(r)
  PROVE  Laid(n + 1, e)'
<1> DEFINE p == Push(r)
<1>1. /\ Len(p) = Len(tx) + 2
      /\ \A i \in 1 .. Len(tx) : p[i] = tx[i]
      /\ p[Len(tx) + 1] = [msg |-> r, part |-> 1]
      /\ p[Len(tx) + 2] = [msg |-> r, part |-> 2]
  BY PushRoom DEF LinkTypes
<1>2. /\ Len(tx) = 2 * n + e /\ Len(asked) = n + Len(rx)
      /\ Len(rx) \in Nat /\ Len(rx) >= 1 /\ Len(Tail(rx)) = Len(rx) - 1
      /\ Head(rx) = rx[1] /\ \A k \in 1 .. Len(rx) - 1 : Tail(rx)[k] = rx[k + 1]
  BY EmptySeq DEF Laid
<1>3. r.cmd = asked[n + 1]
  BY <1>2 DEF Laid
<1> HIDE DEF p
<1>4. Len(tx') = 2 * (n + 1) + e /\ Len(asked') = n + 1 + Len(rx')
  BY <1>1, <1>2 DEF p
<1>5. ASSUME NEW k \in 1 .. Len(rx') PROVE rx'[k] = asked'[n + 1 + k]
  <2>1. k + 1 \in 1 .. Len(rx) /\ rx'[k] = rx[k + 1]
    BY <1>2
  <2>2. rx[k + 1] = asked[n + (k + 1)]
    BY <2>1 DEF Laid
  <2>3. n + (k + 1) = n + 1 + k
    OBVIOUS
  <2> QED BY <2>1, <2>2, <2>3
<1>6. ASSUME NEW i \in 1 .. e
      PROVE  tx'[i].msg.kind = "event" /\ tx'[i].part = i + 2 - e
  <2>1. i \in 1 .. Len(tx)
    BY <1>2
  <2> QED BY <1>1, <2>1 DEF Laid, p
<1>7. e = 2 => tx'[1].msg = tx'[2].msg
  <2>1. e = 2 => 1 \in 1 .. Len(tx) /\ 2 \in 1 .. Len(tx)
    BY <1>2
  <2> QED BY <1>1, <2>1 DEF Laid, p
<1>8. ASSUME NEW k \in 1 .. n + 1
      PROVE  /\ tx'[2*k + e].msg.kind = "reply"
             /\ tx'[2*k + e].msg.cmd = asked'[k]
             /\ tx'[2*k + e].part = 2
             /\ 2*k + e > 1 => /\ tx'[2*k + e - 1].msg = tx'[2*k + e].msg
                               /\ tx'[2*k + e - 1].part = 1
  <2>1. CASE k = n + 1
    <3>1. 2*k + e = Len(tx) + 2 /\ 2*k + e - 1 = Len(tx) + 1
      BY <1>2, <2>1
    <3> DEFINE j == 2*k + e
               h == 2*k + e - 1
    <3>2. tx'[j] = [msg |-> r, part |-> 2] /\ tx'[h] = [msg |-> r, part |-> 1]
      BY <1>1, <3>1 DEF p
    <3> HIDE DEF j, h
    <3>3. tx'[j].msg = r /\ tx'[j].part = 2 /\ tx'[h].msg = r /\ tx'[h].part = 1
      BY <3>2
    <3>4. /\ tx'[j].msg.kind = "reply" /\ tx'[j].msg.cmd = asked'[k]
          /\ tx'[j].part = 2
          /\ tx'[h].msg = tx'[j].msg /\ tx'[h].part = 1
      BY <1>3, <2>1, <3>3
    <3> QED BY <3>4 DEF j, h
  <2>2. CASE k # n + 1
    <3>1. k \in 1 .. n /\ 2*k + e \in 1 .. Len(tx)
      BY <1>2, <2>2
    <3>2. 2*k + e > 1 => 2*k + e - 1 \in 1 .. Len(tx)
      BY <3>1
    <3> DEFINE j == 2*k + e
               h == 2*k + e - 1
    <3>3. tx'[j] = tx[j] /\ (j > 1 => tx'[h] = tx[h])
      BY <1>1, <3>1, <3>2 DEF p
    <3>4. /\ tx[j].msg.kind = "reply"
          /\ tx[j].msg.cmd = asked[k]
          /\ tx[j].part = 2
          /\ j > 1 => tx[h].msg = tx[j].msg /\ tx[h].part = 1
      BY <3>1 DEF Laid
    <3> HIDE DEF j, h
    <3>5. /\ tx'[j].msg.kind = "reply"
          /\ tx'[j].msg.cmd = asked'[k]
          /\ tx'[j].part = 2
          /\ j > 1 => tx'[h].msg = tx'[j].msg /\ tx'[h].part = 1
      BY <3>3, <3>4
    <3> QED BY <3>5 DEF j, h
  <2> QED BY <2>1, <2>2
<1>9. n + 1 \in Nat
  OBVIOUS
<1> QED BY <1>4, <1>5, <1>6, <1>7, <1>8, <1>9, LaidFrom

(* An event is put into an empty ring.                                     *)
LEMMA LaidEvent ==
  ASSUME LinkTypes, NEW n \in Nat, NEW e \in -1 .. 2, Laid(n, e),
         tx = <<>>, UNCHANGED <<rx, asked>>,
         NEW m \in Message, m.kind = "event", tx' = Push(m)
  PROVE  Laid(0, 2)'
<1>0. Len(tx) = 0
  BY EmptySeq
<1>1. n = 0
  BY <1>0 DEF Laid
<1>2. /\ Len(tx') = 2
      /\ tx'[1] = [msg |-> m, part |-> 1] /\ tx'[2] = [msg |-> m, part |-> 2]
  BY <1>0, PollAssumption, PushRoom DEF LinkTypes
<1>3. tx'[1].msg = m /\ tx'[1].part = 1 /\ tx'[2].msg = m /\ tx'[2].part = 2
  BY <1>2
<1>4. \A i \in 1 .. 2 : tx'[i].msg.kind = "event" /\ tx'[i].part = i + 2 - 2
  BY <1>3
<1> QED BY <1>1, <1>2, <1>3, <1>4 DEF Laid

(* A half that leaves is one of the event, or one of the oldest reply.     *)
LEMMA LaidDrain ==
  ASSUME LinkTypes, rx \in Seq(Now.command), NEW n \in Nat, NEW e \in -1 .. 2,
         Laid(n, e), tx # <<>>, rx' = rx, tx' = Tail(tx),
         asked' = IF Head(tx).part = 2 /\ Head(tx).msg.kind = "reply"
                     /\ asked # <<>>
                  THEN Tail(asked) ELSE asked
  PROVE  \E n1 \in Nat : \E e1 \in -1 .. 2 : Laid(n1, e1)'
<1>1. /\ Len(tx) = 2 * n + e /\ Len(asked) = n + Len(rx)
      /\ Len(tx) \in Nat /\ Len(tx) >= 1 /\ Len(tx') = Len(tx) - 1
      /\ Head(tx) = tx[1] /\ \A i \in 1 .. Len(tx') : tx'[i] = tx[i + 1]
      /\ Len(rx) \in Nat
  BY EmptySeq DEF Laid, LinkTypes
<1>2. CASE e = -1
  <2>1. n >= 1
    BY <1>1, <1>2
  <2>2. tx[1].msg.kind = "reply" /\ tx[1].part = 2
    <3>1. 1 \in 1 .. n /\ 2*1 + e = 1
      BY <1>2, <2>1
    <3> QED BY <3>1 DEF Laid
  <2>3. /\ asked' = Tail(asked) /\ asked' \in Seq(Now.command)
        /\ Len(asked') = Len(asked) - 1
        /\ \A k \in 1 .. Len(asked') : asked'[k] = asked[k + 1]
    <3>2. asked \in Seq(Now.command) /\ asked # <<>>
      BY <1>1, <2>1, EmptySeq DEF LinkTypes
    <3>1. asked' = Tail(asked)
      BY <1>1, <2>2, <3>2
    <3>3. /\ Tail(asked) \in Seq(Now.command) /\ Len(Tail(asked)) = Len(asked) - 1
          /\ \A k \in 1 .. Len(Tail(asked)) : Tail(asked)[k] = asked[k + 1]
      BY <3>2
    <3> QED BY <3>1, <3>3
  <2>4. Len(tx') = 2 * (n - 1) + 0 /\ Len(asked') = (n - 1) + Len(rx')
    BY <1>1, <1>2, <2>3
  <2>5. ASSUME NEW k \in 1 .. Len(rx') PROVE rx'[k] = asked'[(n - 1) + k]
    <3>1. (n - 1) + k \in 1 .. Len(asked') /\ ((n - 1) + k) + 1 = n + k
      BY <2>1, <2>4
    <3> QED BY <2>3, <3>1 DEF Laid
  <2>6. ASSUME NEW k \in 1 .. n - 1
        PROVE  /\ tx'[2*k + 0].msg.kind = "reply"
               /\ tx'[2*k + 0].msg.cmd = asked'[k]
               /\ tx'[2*k + 0].part = 2
               /\ 2*k + 0 > 1 => /\ tx'[2*k + 0 - 1].msg = tx'[2*k + 0].msg
                                 /\ tx'[2*k + 0 - 1].part = 1
    <3> DEFINE j == 2*(k + 1) + e
               h == 2*(k + 1) + e - 1
    <3>1. k + 1 \in 1 .. n /\ j = (2*k + 0) + 1 /\ h = (2*k + 0 - 1) + 1 /\ j > 1
      BY <1>2
    <3>2. 2*k + 0 \in 1 .. Len(tx') /\ 2*k + 0 - 1 \in 1 .. Len(tx')
          /\ k \in 1 .. Len(asked')
      BY <1>1, <2>4
    <3>3. tx'[2*k + 0] = tx[j] /\ tx'[2*k + 0 - 1] = tx[h] /\ asked'[k] = asked[k + 1]
      BY <1>1, <2>3, <3>1, <3>2
    <3>4. /\ tx[j].msg.kind = "reply" /\ tx[j].msg.cmd = asked[k + 1]
          /\ tx[j].part = 2 /\ tx[h].msg = tx[j].msg /\ tx[h].part = 1
      BY <3>1 DEF Laid
    <3> HIDE DEF j, h
    <3> QED BY <3>3, <3>4
  <2>7. n - 1 \in Nat /\ 0 \in -1 .. 2
    BY <2>1
  <2>10. \A i \in 1 .. 0 : tx'[i].msg.kind = "event" /\ tx'[i].part = i + 2 - 0
    OBVIOUS
  <2>8. Laid(n - 1, 0)'
    <3> DEFINE k1 == n - 1
               e1 == 0
    <3>1. /\ k1 \in Nat /\ e1 \in -1 .. 2
          /\ Len(tx') = 2 * k1 + e1 /\ Len(asked') = k1 + Len(rx')
          /\ \A k \in 1 .. Len(rx') : rx'[k] = asked'[k1 + k]
      BY <2>4, <2>5, <2>7, Zenon
    <3>2. \A i \in 1 .. e1 : tx'[i].msg.kind = "event" /\ tx'[i].part = i + 2 - e1
      BY <2>10, Zenon
    <3>3. \A k \in 1 .. k1 : /\ tx'[2*k + e1].msg.kind = "reply"
                             /\ tx'[2*k + e1].msg.cmd = asked'[k]
                             /\ tx'[2*k + e1].part = 2
                             /\ 2*k + e1 > 1 =>
                                  /\ tx'[2*k + e1 - 1].msg = tx'[2*k + e1].msg
                                  /\ tx'[2*k + e1 - 1].part = 1
      BY <2>6, Zenon
    <3>4. e1 = 2 => tx'[1].msg = tx'[2].msg
      OBVIOUS
    <3> HIDE DEF k1, e1
    <3> SUFFICES Laid(k1, e1)'
      BY DEF k1, e1
    <3> QED BY <3>1, <3>2, <3>3, <3>4, LaidFrom
  <2> QED BY <2>7, <2>8
<1>3. CASE e \in 0 .. 2
  <2>1. ~(tx[1].part = 2 /\ tx[1].msg.kind = "reply")
    <3>1. CASE e = 0
      <4>1. 1 \in 1 .. n /\ 2*1 + e = 2 /\ 2*1 + e - 1 = 1
        BY <1>1, <3>1
      <4>2. tx[1].part = 1
        BY <4>1 DEF Laid
      <4> QED BY <4>2
    <3>2. CASE e # 0
      <4>1. 1 \in 1 .. e
        BY <1>3, <3>2
      <4> QED BY <4>1 DEF Laid
    <3> QED BY <3>1, <3>2
  <2>2. asked' = asked
    BY <1>1, <2>1
  <2>3. Len(tx') = 2 * n + (e - 1)
    BY <1>1
  <2>4. ASSUME NEW i \in 1 .. e - 1
        PROVE  tx'[i].msg.kind = "event" /\ tx'[i].part = i + 2 - (e - 1)
    <3>1. i + 1 \in 1 .. e /\ i \in 1 .. Len(tx') /\ i + 1 + 2 - e = i + 2 - (e - 1)
      BY <1>1
    <3>2. tx[i + 1].msg.kind = "event" /\ tx[i + 1].part = i + 1 + 2 - e
      BY <3>1 DEF Laid
    <3> QED BY <1>1, <3>1, <3>2
  <2>5. ASSUME NEW k \in 1 .. n
        PROVE  /\ tx'[2*k + (e - 1)].msg.kind = "reply"
               /\ tx'[2*k + (e - 1)].msg.cmd = asked'[k]
               /\ tx'[2*k + (e - 1)].part = 2
               /\ 2*k + (e - 1) > 1 =>
                    /\ tx'[2*k + (e - 1) - 1].msg = tx'[2*k + (e - 1)].msg
                    /\ tx'[2*k + (e - 1) - 1].part = 1
    <3> DEFINE j == 2*k + (e - 1)
               h == 2*k + (e - 1) - 1
    <3>1. /\ j \in 1 .. Len(tx') /\ j + 1 = 2*k + e
          /\ j > 1 => h \in 1 .. Len(tx')
          /\ h + 1 = 2*k + e - 1 /\ 2*k + e > 1
      BY <1>1, <1>3
    <3>2. tx'[j] = tx[2*k + e] /\ (j > 1 => tx'[h] = tx[2*k + e - 1])
      BY <1>1, <3>1
    <3>3. /\ tx[2*k + e].msg.kind = "reply" /\ tx[2*k + e].msg.cmd = asked[k]
          /\ tx[2*k + e].part = 2
          /\ tx[2*k + e - 1].msg = tx[2*k + e].msg /\ tx[2*k + e - 1].part = 1
      BY <3>1 DEF Laid
    <3> HIDE DEF j, h
    <3>4. /\ tx'[j].msg.kind = "reply" /\ tx'[j].msg.cmd = asked'[k] /\ tx'[j].part = 2
          /\ j > 1 => tx'[h].msg = tx'[j].msg /\ tx'[h].part = 1
      BY <2>2, <3>2, <3>3
    <3> QED BY <3>4 DEF j, h
  <2>6. e - 1 \in -1 .. 2
    BY <1>3
  <2>7. /\ e - 1 # 2
        /\ Len(asked') = n + Len(rx')
        /\ \A k \in 1 .. Len(rx') : rx'[k] = asked'[n + k]
    BY <1>1, <2>2 DEF Laid
  <2>8. Laid(n, e - 1)'
    BY <2>3, <2>4, <2>5, <2>6, <2>7, LaidFrom
  <2> QED BY <2>6, <2>8
<1>4. e = -1 \/ e \in 0 .. 2
  OBVIOUS
<1> QED BY <1>2, <1>3, <1>4

LEMMA SameSession ==
  UNCHANGED session => Now' = Now /\ Half' = Half /\ Message' = Message
BY DEF Now, Half, Message

(* Nothing waits and nothing is sent.                                      *)
LEMMA LaidEmpty ==
  ASSUME tx' = <<>>, rx' = <<>>, asked' = <<>>
  PROVE  \E n \in Nat : \E e \in -1 .. 2 : Laid(n, e)'
<1>1. Len(tx') = 0 /\ Len(rx') = 0 /\ Len(asked') = 0
  BY EmptySeq
<1>2. ASSUME NEW k \in 1 .. 0 PROVE FALSE
  OBVIOUS
<1>3. Len(tx') = 2 * 0 + 0 /\ Len(asked') = 0 + Len(rx')
  BY <1>1
<1>4. Laid(0, 0)'
  BY <1>1, <1>2, <1>3 DEF Laid
<1>5. 0 \in Nat /\ 0 \in -1 .. 2
  OBVIOUS
<1> QED BY <1>4, <1>5

LEMMA LinkInit == Init => LinkInv
<1> SUFFICES ASSUME Init PROVE LinkInv
  OBVIOUS
<1>1. Len(tx) = 0 /\ Len(rx) = 0 /\ Len(asked) = 0
  BY EmptySeq DEF Init
<1>2. Laid(0, 0)
  <2>1. ASSUME NEW k \in 1 .. 0 PROVE FALSE
    OBVIOUS
  <2> QED BY <1>1, <2>1 DEF Laid
<1>3. LinkTypes
  <2>1. asked \in Seq(Now.command) /\ tx \in Seq(Half)
    BY EmptySeq DEF Init
  <2>2. Len(tx) <= TxHalves
    BY <1>1, PollAssumption
  <2> QED BY <2>1, <2>2 DEF Init, LinkTypes
<1>4. 0 \in Nat /\ 0 \in -1 .. 2
  OBVIOUS
<1> QED BY <1>2, <1>3, <1>4 DEF LinkInv

(* What one packet does.                                                   *)
LEMMA LinkPacket ==
  ASSUME Types, LinkInv, PollPacket
  PROVE  LinkInv'
<1> USE DEF debugVars, linkVars, ghostVars
<1> DEFINE c == Head(rx)
<1>1. LinkTypes /\ rx \in Seq(Now.command) /\ rx # <<>>
      /\ rx' = Tail(rx) /\ UNCHANGED <<asked, session, paused>> /\ at = "drain"
  BY DEF LinkInv, Types, PollPacket
<1>2. PICK status \in {"ACK", "NACK", "ERROR"} : Send(Reply(c, status))
  BY DEF PollPacket, Reject, Handle
<1> DEFINE r == Reply(c, status)
<1>3. r \in Message /\ r.kind = "reply" /\ r.cmd = Head(rx)
  BY PacketLemma DEF Reply, Message, PollPacket
<1> HIDE DEF r
<1>4. tx' = Push(r) /\ (cut' <=> cut \/ Len(tx) + 2 > TxHalves)
  BY <1>2 DEF r, Send
<1>5. tx' \in Seq(Half) /\ Len(tx') <= TxHalves
  BY <1>1, <1>3, <1>4, PushTypes DEF LinkTypes
<1>6. /\ event' \in Event \cup {Nothing}
      /\ told' \in BOOLEAN /\ early' \subseteq BpSlot /\ quiet' \in BOOLEAN
      /\ at' \in {"drain", "reset"}
  <2>1. CASE Reject(c)
    <3>1. FailedPacket \in Event
      BY DEF FailedPacket, Event
    <3> QED BY <1>1, <2>1, <3>1 DEF Reject, EventSet, LinkTypes
  <2>2. CASE Handle(c)
    <3>1. event' = event /\ told' \in BOOLEAN /\ at' \in {"drain", "reset"}
      BY <1>1, <2>2 DEF Handle, LinkTypes
    <3>2. early' \subseteq BpSlot
      BY <1>1, <2>2 DEF Handle, LinkTypes
    <3>3. quiet' \in BOOLEAN
      BY <2>2, Zenon DEF Handle
    <3> QED BY <1>1, <3>1, <3>2, <3>3 DEF LinkTypes
  <2> QED BY <2>1, <2>2 DEF PollPacket
<1>7. cut' \in BOOLEAN
  BY <1>2, Zenon DEF Send
<1>8. LinkTypes'
  BY <1>1, <1>5, <1>6, <1>7, SameSession DEF LinkTypes
<1>9. ASSUME ~cut' PROVE \E n \in Nat : \E e \in -1 .. 2 : Laid(n, e)'
  <2>1. ~cut /\ Len(tx) + 2 <= TxHalves
    <3>1. Len(tx) \in Nat /\ TxHalves \in Nat
      BY <1>1, PollAssumption DEF LinkTypes
    <3> QED BY <1>4, <1>9, <3>1
  <2>2. PICK n \in Nat : \E e \in -1 .. 2 : Laid(n, e)
    BY <2>1 DEF LinkInv
  <2>3. PICK e \in -1 .. 2 : Laid(n, e)
    BY <2>2
  <2>4. tx' = Push(r)
    BY <1>4
  <2>5. Laid(n + 1, e)'
    BY <1>1, <1>3, <2>1, <2>3, <2>4, LaidReply
  <2>6. n + 1 \in Nat
    OBVIOUS
  <2> QED BY <2>5, <2>6
<1> QED BY <1>8, <1>9 DEF LinkInv

(* A command of the PC: it waits, and its reply is expected last.          *)
LEMMA LaidCommand ==
  ASSUME LinkTypes, rx \in Seq(Now.command), NEW n \in Nat, NEW e \in -1 .. 2,
         Laid(n, e), NEW c \in Now.command, rx' = Append(rx, c),
         asked' = Append(asked, c), tx' = tx
  PROVE  Laid(n, e)'
<1>1. /\ Len(rx') = Len(rx) + 1 /\ Len(asked') = Len(asked) + 1
      /\ \A k \in 1 .. Len(rx) : rx'[k] = rx[k]
      /\ \A k \in 1 .. Len(asked) : asked'[k] = asked[k]
      /\ rx'[Len(rx) + 1] = c /\ asked'[Len(asked) + 1] = c
      /\ Len(rx) \in Nat /\ Len(asked) \in Nat
  BY DEF LinkTypes
<1>2. Len(tx') = 2 * n + e /\ Len(asked) = n + Len(rx) /\ Len(asked') = n + Len(rx')
  BY <1>1 DEF Laid
<1>3. ASSUME NEW k \in 1 .. Len(rx') PROVE rx'[k] = asked'[n + k]
  <2>1. CASE k = Len(rx) + 1
    <3>1. n + k = Len(asked) + 1
      BY <1>1, <1>2, <2>1
    <3> QED BY <1>1, <2>1, <3>1
  <2>2. CASE k # Len(rx) + 1
    <3>1. k \in 1 .. Len(rx) /\ n + k \in 1 .. Len(asked)
      BY <1>1, <1>2, <2>2
    <3>2. rx[k] = asked[n + k]
      BY <3>1 DEF Laid
    <3> QED BY <1>1, <3>1, <3>2
  <2> QED BY <2>1, <2>2
<1>4. \A k \in 1 .. n : asked'[k] = asked[k]
  BY <1>1, <1>2
<1>5. /\ \A i \in 1 .. e : tx'[i].msg.kind = "event" /\ tx'[i].part = i + 2 - e
      /\ e = 2 => tx'[1].msg = tx'[2].msg
  BY DEF Laid
<1>6. \A k \in 1 .. n : /\ tx'[2*k + e].msg.kind = "reply"
                        /\ tx'[2*k + e].msg.cmd = asked'[k]
                        /\ tx'[2*k + e].part = 2
                        /\ 2*k + e > 1 =>
                             /\ tx'[2*k + e - 1].msg = tx'[2*k + e].msg
                             /\ tx'[2*k + e - 1].part = 1
  BY <1>4 DEF Laid
<1>7. Len(tx') = 2 * n + e /\ Len(asked') = n + Len(rx')
  BY <1>2
<1>8. \A k \in 1 .. Len(rx') : rx'[k] = asked'[n + k]
  BY <1>3
<1> QED BY <1>5, <1>6, <1>7, <1>8, Zenon DEF Laid

LEMMA LinkStep == Types /\ LinkInv /\ [Next]_vars => LinkInv'
<1> SUFFICES ASSUME Types, LinkInv, [Next]_vars PROVE LinkInv'
  OBVIOUS
<1> USE DEF debugVars, linkVars, ghostVars
<1>3. LinkTypes /\ rx \in Seq(Now.command)
  BY DEF LinkInv, Types
<1>s. UNCHANGED session
  BY DEF Next, User, MCU, PcSend, PcGiveUp, TxDrain, UserWrite, UserBreak, UserPoll,
         PollFlush, PollPacket, PollEmpty, PollWatch, SpinPoll, SpinExit, SpinTest,
         SpinNext, Restart, vars
<1>n. Now' = Now /\ Half' = Half /\ Message' = Message
  BY <1>s, SameSession
<1>k. UNCHANGED <<rx, tx, asked, cut>> /\ LinkTypes' => LinkInv'
  <2> SUFFICES ASSUME UNCHANGED <<rx, tx, asked, cut>>, LinkTypes' PROVE LinkInv'
    OBVIOUS
  <2>1. ASSUME NEW n \in Nat, NEW e \in -1 .. 2, Laid(n, e) PROVE Laid(n, e)'
    BY <2>1, Zenon DEF Laid
  <2> QED BY <2>1 DEF LinkInv
<1>t. UNCHANGED <<tx, cut, asked, event, at, told, early, quiet>> => LinkTypes'
  BY <1>3, <1>n DEF LinkTypes
<1>4. CASE PcSend
  <2>1. PICK c \in Now.command : rx' = Append(rx, c) /\ asked' = Append(asked, c)
    BY <1>4 DEF PcSend
  <2>2. UNCHANGED <<tx, cut, event, at, told, early, quiet>>
    BY <1>4 DEF PcSend
  <2>3. asked' \in Seq(Now.command)
    BY <1>3, <2>1 DEF LinkTypes
  <2>4. LinkTypes'
    BY <1>3, <1>n, <2>2, <2>3 DEF LinkTypes
  <2>5. tx' = tx
    BY <2>2
  <2>6. ASSUME NEW n \in Nat, NEW e \in -1 .. 2, Laid(n, e) PROVE Laid(n, e)'
    BY <1>3, <2>1, <2>5, <2>6, LaidCommand
  <2> QED BY <2>2, <2>4, <2>6 DEF LinkInv
<1>g. CASE PcGiveUp
  <2>1. /\ cut /\ cut' = cut /\ asked' = <<>>
        /\ UNCHANGED <<tx, event, at, told, early, quiet>>
    BY <1>g DEF PcGiveUp
  <2>2. asked' \in Seq(Now.command)
    BY <2>1, EmptySeq
  <2>3. LinkTypes'
    BY <1>3, <1>n, <2>1, <2>2 DEF LinkTypes
  <2> QED BY <2>1, <2>3 DEF LinkInv
<1>5. CASE TxDrain
  <2>1. /\ tx # <<>> /\ tx' = Tail(tx) /\ rx' = rx /\ cut' = cut
        /\ asked' = IF Head(tx).part = 2 /\ Head(tx).msg.kind = "reply"
                       /\ asked # <<>>
                    THEN Tail(asked) ELSE asked
        /\ UNCHANGED <<event, at, told, early, quiet>>
    BY <1>5 DEF TxDrain
  <2>2. asked' \in Seq(Now.command)
    <3>1. asked \in Seq(Now.command)
      BY <1>3 DEF LinkTypes
    <3>2. asked # <<>> => Tail(asked) \in Seq(Now.command)
      BY <3>1
    <3>3. asked' = asked \/ (asked # <<>> /\ asked' = Tail(asked))
      BY <2>1
    <3> QED BY <3>1, <3>2, <3>3
  <2>3. tx' \in Seq(Half) /\ Len(tx') <= TxHalves
    BY <1>3, <2>1, PollAssumption DEF LinkTypes
  <2>4. LinkTypes'
    BY <1>3, <1>n, <2>1, <2>2, <2>3 DEF LinkTypes
  <2>5. ASSUME NEW n \in Nat, NEW e \in -1 .. 2, Laid(n, e)
        PROVE  \E n1 \in Nat : \E e1 \in -1 .. 2 : Laid(n1, e1)'
    BY <1>3, <2>1, <2>5, LaidDrain
  <2> QED BY <2>1, <2>4, <2>5 DEF LinkInv
<1>6. CASE PollFlush
  <2>1. CASE event # Nothing /\ tx = <<>>
    <3>1. /\ Send(EventPacket(event)) /\ event' = Nothing /\ at' = "drain"
          /\ UNCHANGED <<rx, asked, told, early, quiet>>
      BY <1>6, <2>1 DEF PollFlush
    <3> DEFINE m == EventPacket(event)
    <3>2. m \in Message /\ m.kind = "event"
      BY <1>3, <2>1 DEF LinkTypes, EventPacket, Message
    <3> HIDE DEF m
    <3>3. tx' = Push(m) /\ cut' = (cut \/ Len(tx) + 2 > TxHalves)
      BY <3>1 DEF m, Send
    <3>c. ~(Len(tx) + 2 > TxHalves)
      BY <2>1, PollAssumption, EmptySeq
    <3>4. cut' = cut
      BY <1>3, <3>3, <3>c DEF LinkTypes
    <3>5. ASSUME NEW n \in Nat, NEW e \in -1 .. 2, Laid(n, e) PROVE Laid(0, 2)'
      BY <1>3, <2>1, <3>1, <3>2, <3>3, <3>5, LaidEvent
    <3>6. tx' \in Seq(Half) /\ Len(tx') <= TxHalves
      BY <1>3, <3>2, <3>3, PushTypes DEF LinkTypes
    <3>7. LinkTypes'
      BY <1>3, <1>n, <3>1, <3>4, <3>6 DEF LinkTypes
    <3>8. 0 \in Nat /\ 2 \in -1 .. 2
      OBVIOUS
    <3> QED BY <3>4, <3>5, <3>7, <3>8 DEF LinkInv
  <2>2. CASE ~(event # Nothing /\ tx = <<>>)
    <3>1. UNCHANGED <<event, tx, cut, rx, asked, told, early, quiet>> /\ at' = "drain"
      BY <1>6, <2>2 DEF PollFlush
    <3>2. LinkTypes'
      BY <1>3, <1>n, <3>1 DEF LinkTypes
    <3> QED BY <1>k, <3>1, <3>2
  <2> QED BY <2>1, <2>2
<1>7. CASE PollPacket
  BY <1>7, LinkPacket
<1>8. ASSUME NEW b \in BpSlot, UserBreak(b) PROVE LinkInv'
  <2>1. event' \in Event \cup {Nothing}
    BY <1>3, <1>8, HitsAreEvents DEF UserBreak, EventSet, LinkTypes, Types
  <2>2. UNCHANGED <<rx, tx, cut, asked, early, quiet>> /\ at' = "spin" /\ told' = FALSE
    BY <1>8 DEF UserBreak
  <2>3. LinkTypes'
    BY <1>3, <1>n, <2>1, <2>2 DEF LinkTypes
  <2> QED BY <1>k, <2>2, <2>3
<1>9. CASE PollWatch
  <2>1. event' \in Event \cup {Nothing}
    BY <1>3, <1>9, HitsAreEvents DEF PollWatch, EventSet, LinkTypes, Types
  <2>2. UNCHANGED <<rx, tx, cut, asked, told, early>> /\ at' \in {"user", "test"}
        /\ quiet' = TRUE
    BY <1>9 DEF PollWatch
  <2>3. LinkTypes'
    BY <1>3, <1>n, <2>1, <2>2 DEF LinkTypes
  <2> QED BY <1>k, <2>2, <2>3
<1>10. CASE Restart
  <2>1. /\ tx' = <<>> /\ rx' = <<>> /\ asked' = <<>> /\ event' = Nothing
        /\ at' = "user" /\ told' = FALSE /\ early' = {} /\ quiet' = TRUE
        /\ cut' = FALSE
    BY <1>10 DEF Restart
  <2>2. LinkTypes'
    <3>1. asked' \in Seq(Now'.command) /\ tx' \in Seq(Half') /\ Len(tx') <= TxHalves
      BY <2>1, EmptySeq, PollAssumption
    <3> QED BY <2>1, <3>1 DEF LinkTypes
  <2> QED BY <2>1, <2>2, LaidEmpty DEF LinkInv
<1>11. CASE UserWrite \/ UserPoll \/ PollEmpty \/ SpinPoll \/ SpinExit \/ SpinTest
              \/ SpinNext \/ UNCHANGED vars
  <2>1. UNCHANGED <<rx, tx, cut, asked, event, told>>
    BY <1>11 DEF UserWrite, UserPoll, PollEmpty, SpinPoll, SpinExit, SpinTest,
                 SpinNext, vars
  <2>2. /\ at' \in {"user", "flush", "watch", "spin"} \/ at' = at
        /\ early' \subseteq early /\ (quiet' = quiet \/ quiet' = FALSE)
    BY <1>11 DEF UserWrite, UserPoll, PollEmpty, SpinPoll, SpinExit, SpinTest,
                 SpinNext, vars
  <2>3. LinkTypes'
    BY <1>3, <1>n, <2>1, <2>2 DEF LinkTypes
  <2> QED BY <1>k, <2>1, <2>3
<1> QED BY <1>g, <1>4, <1>5, <1>6, <1>7, <1>8, <1>9, <1>10, <1>11
        DEF Next, User, MCU

(* TypeOK: the variables of the debugger and of the link keep their types, *)
(* the transmit ring its bound, also after a packet was cut off.           *)
THEOREM TypeCorrect == Spec => []TypeOK
<1>1. Types /\ LinkInv => TypeOK
  BY DEF Types, LinkInv, LinkTypes, TypeOK
<1>2. Init => LinkInv
  BY LinkInit
<1>3. Types /\ LinkInv /\ [Next]_vars => LinkInv'
  BY LinkStep
<1> QED BY <1>1, <1>2, <1>3, TypesInit, TypesStep, PTL DEF Spec

LEMMA Halve == ASSUME NEW n \in Nat, NEW j \in 1 .. 2 * n
               PROVE  \E k \in 1 .. n : j = 2 * k \/ j = 2 * k - 1
<1> DEFINE k == (j + 1) \div 2
<1>1. 2 * k <= j + 1 /\ j + 1 < 2 * k + 2 /\ k \in Int
  OBVIOUS
<1> HIDE DEF k
<1>2. k \in 1 .. n /\ (j = 2 * k \/ j = 2 * k - 1)
  BY <1>1
<1> QED BY <1>2

(* Which halves are the last ones of replies.                              *)
LEMMA RepliesLaid ==
  ASSUME LinkTypes, NEW n \in Nat, NEW e \in -1 .. 2, Laid(n, e)
  PROVE  /\ \A k \in 1 .. n : 2*k + e \in Replies
         /\ \A i \in Replies : \E k \in 1 .. n : i = 2*k + e
<1>0. Len(tx) = 2 * n + e /\ DOMAIN tx = 1 .. Len(tx)
  BY DEF Laid, LinkTypes
<1>1. ASSUME NEW k \in 1 .. n PROVE 2*k + e \in Replies
  <2>1. 2*k + e \in DOMAIN tx
    BY <1>0
  <2>2. tx[2*k + e].part = 2 /\ tx[2*k + e].msg.kind = "reply"
    BY DEF Laid
  <2> QED BY <2>1, <2>2 DEF Replies
<1>2. ASSUME NEW i \in Replies PROVE \E k \in 1 .. n : i = 2*k + e
  <2>1. i \in 1 .. 2 * n + e /\ tx[i].part = 2 /\ tx[i].msg.kind = "reply"
    BY <1>0 DEF Replies
  <2>2. ~(i <= e)
    <3>1. SUFFICES ASSUME i \in 1 .. e PROVE FALSE
      BY <2>1
    <3>2. tx[i].msg.kind = "event"
      BY <3>1 DEF Laid
    <3> QED BY <2>1, <3>2
  <2>3. i - e \in 1 .. 2 * n
    BY <2>1, <2>2
  <2>4. PICK k \in 1 .. n : i - e = 2 * k \/ i - e = 2 * k - 1
    BY <2>3, Halve
  <2>5. CASE i - e = 2 * k
    <3>1. i = 2*k + e
      BY <2>1, <2>5
    <3> QED BY <3>1
  <2>6. CASE i - e = 2 * k - 1
    <3>1. i = 2*k + e - 1 /\ 2*k + e > 1
      BY <2>1, <2>6
    <3>2. tx[2*k + e - 1].part = 1
      BY <3>1 DEF Laid
    <3> QED BY <2>1, <3>1, <3>2
  <2> QED BY <2>4, <2>5, <2>6
<1> QED BY <1>1, <1>2

(* The PC reads the replies of mdt_handle_packet in the order of its       *)
(* commands, one for each, until a packet is cut off (AnswersInOrder): with*)
(* any number of slots, any transmit ring and up to the three attempts of  *)
(* the code unanswered.                                                    *)
THEOREM RepliesAnswer == Spec => []AnswersInOrder
<1>1. Types /\ LinkInv => AnswersInOrder
  <2> SUFFICES ASSUME Types, LinkInv, ~cut PROVE AnswersInOrder
    BY DEF AnswersInOrder
  <2>1. PICK n \in Nat : \E e \in -1 .. 2 : Laid(n, e)
    BY DEF LinkInv
  <2>2. PICK e \in -1 .. 2 : Laid(n, e)
    BY <2>1
  <2> DEFINE f == [k \in 1 .. n |-> 2*k + e]
  <2>3. Len(asked) - Len(rx) = n /\ Len(rx) \in Nat /\ DOMAIN rx = 1 .. Len(rx)
    BY <2>2 DEF Laid, Types
  <2>4. \A k \in DOMAIN rx : rx[k] = asked[n + k]
    BY <2>2, <2>3 DEF Laid
  <2>5. /\ \A k \in 1 .. n : 2*k + e \in Replies
        /\ \A i \in Replies : \E k \in 1 .. n : i = 2*k + e
    BY <2>2, RepliesLaid DEF LinkInv
  <2>6. f \in [1 .. n -> Replies]
    BY <2>5
  <2>7. \A i \in Replies : \E k \in 1 .. n : f[k] = i
    BY <2>5
  <2>8. \A k \in 1 .. n : tx[f[k]].msg.cmd = asked[k]
    <3>1. \A k \in 1 .. n : tx[2*k + e].msg.cmd = asked[k]
      BY <2>2 DEF Laid
    <3> QED BY <3>1
  <2>9. \A j, k \in 1 .. n : j < k => f[j] < f[k]
    OBVIOUS
  <2> HIDE DEF f
  <2>10. n >= 0
    OBVIOUS
  <2> QED BY <2>3, <2>4, <2>6, <2>7, <2>8, <2>9, <2>10, Zenon DEF AnswersInOrder
<1>2. Init => LinkInv
  BY LinkInit
<1>3. Types /\ LinkInv /\ [Next]_vars => LinkInv'
  BY LinkStep
<1> QED BY <1>1, <1>2, <1>3, TypesInit, TypesStep, PTL DEF Spec

(* Until then every packet is whole, and the first one that hal_uart_tx_buf*)
(* cuts off did not fit (WholePackets): the replies the PC waits for and   *)
(* one event are longer than the ring.                                     *)
LEMMA LaidWhole == Types /\ LinkInv /\ ~cut => EveryPacketWhole
<1> SUFFICES ASSUME Types, LinkInv, ~cut, NEW i \in DOMAIN tx, tx[i].part = 1
             PROVE  i < Len(tx) /\ tx[i + 1] = [tx[i] EXCEPT !.part = 2]
  BY DEF EveryPacketWhole
<1>1. PICK n \in Nat : \E e \in -1 .. 2 : Laid(n, e)
  BY DEF LinkInv
<1>2. PICK e \in -1 .. 2 : Laid(n, e)
  BY <1>1
<1>3. /\ Len(tx) = 2 * n + e /\ i \in 1 .. Len(tx) /\ i \in Int
      /\ \A j \in 1 .. Len(tx) : tx[j] \in Half
  BY <1>2 DEF Laid, LinkInv, LinkTypes
<1>4. SUFFICES i + 1 <= Len(tx) /\ tx[i + 1].msg = tx[i].msg /\ tx[i + 1].part = 2
  <2>1. i < Len(tx) /\ i + 1 \in 1 .. Len(tx)
    BY <1>3, <1>4
  <2>2. /\ tx[i] = [msg |-> tx[i].msg, part |-> 1]
        /\ tx[i + 1] = [msg |-> tx[i].msg, part |-> 2]
    BY <1>3, <1>4, <2>1, HalfFields
  <2>3. \A m : [[msg |-> m, part |-> 1] EXCEPT !.part = 2] = [msg |-> m, part |-> 2]
    OBVIOUS
  <2> QED BY <2>1, <2>2, <2>3
<1>5. CASE i <= e
  <2>1. i \in 1 .. e
    BY <1>3, <1>5
  <2>2. tx[i].part = i + 2 - e
    BY <1>2, <2>1 DEF Laid
  <2>3. i = 1 /\ e = 2
    BY <1>3, <2>1, <2>2
  <2>4. 2 \in 1 .. e /\ 2 + 2 - e = 2
    BY <2>3
  <2>5. tx[2].part = 2 + 2 - e /\ tx[1].msg = tx[2].msg
    BY <1>2, <2>3, <2>4 DEF Laid
  <2> QED BY <1>3, <2>3, <2>4, <2>5
<1>6. CASE ~(i <= e)
  <2>1. i - e \in 1 .. 2 * n
    BY <1>3, <1>6
  <2>2. PICK k \in 1 .. n : i - e = 2 * k \/ i - e = 2 * k - 1
    BY <2>1, Halve
  <2>3. tx[2*k + e].part = 2
    BY <1>2 DEF Laid
  <2>4. i = 2*k + e - 1
    <3>1. i = 2*k + e \/ i = 2*k + e - 1
      BY <1>3, <2>2
    <3>2. i # 2*k + e
      BY <2>3
    <3> QED BY <3>1, <3>2
  <2>5. 2*k + e > 1 /\ i + 1 = 2*k + e /\ i + 1 <= Len(tx)
    BY <1>3, <2>4
  <2>6. tx[2*k + e - 1].msg = tx[2*k + e].msg
    BY <1>2, <2>5 DEF Laid
  <2> QED BY <2>3, <2>4, <2>5, <2>6
<1> QED BY <1>5, <1>6

(* A packet is cut off only if the ring is too short for what it holds.    *)
LEMMA CutWhenFull ==
  ASSUME Types, LinkInv, [Next]_vars, ~cut, cut'
  PROVE  2 * Len(asked) + (IF EventOnItsWay THEN 2 ELSE 0) > TxHalves
<1> USE DEF debugVars, linkVars, ghostVars
<1>1. PICK n \in Nat : \E e \in -1 .. 2 : Laid(n, e)
  BY DEF LinkInv
<1>2. PICK e \in -1 .. 2 : Laid(n, e)
  BY <1>1
<1>3. Len(tx) = 2 * n + e /\ Len(asked) = n + Len(rx) /\ Len(rx) \in Nat
  BY <1>2 DEF Laid, Types
<1>4. e > 0 => EventOnItsWay
  <2> SUFFICES ASSUME e > 0 PROVE EventOnItsWay
    OBVIOUS
  <2>1. 1 \in 1 .. e /\ 1 \in DOMAIN tx
    BY <1>3 DEF LinkInv, LinkTypes
  <2>2. tx[1].msg.kind = "event"
    BY <1>2, <2>1 DEF Laid
  <2> QED BY <2>1, <2>2 DEF EventOnItsWay
<1>5. CASE PollPacket
  <2>1. rx \in Seq(Now.command) /\ rx # <<>>
    BY <1>5 DEF Types, PollPacket
  <2>2. Len(rx) >= 1
    BY <2>1, EmptySeq
  <2>3. Len(tx) + 2 > TxHalves
    <3>1. PICK r : Send(r)
      BY <1>5 DEF PollPacket, Reject, Handle
    <3> QED BY <3>1 DEF Send
  <2>4. CASE e > 0
    <3>1. 2 * Len(asked) + 2 > TxHalves
      BY <1>3, <2>2, <2>3, <2>4, PollAssumption
    <3> QED BY <1>4, <2>4, <3>1
  <2>5. CASE ~(e > 0)
    <3>1. 2 * Len(asked) > TxHalves
      BY <1>3, <2>2, <2>3, <2>5, PollAssumption
    <3> QED BY <1>3, <3>1, PollAssumption
  <2> QED BY <2>4, <2>5
<1>6. CASE PollFlush
  <2>1. tx = <<>> /\ Len(tx) + 2 > TxHalves
    BY <1>6 DEF PollFlush, Send
  <2> QED BY <2>1, EmptySeq, PollAssumption
<1>7. ASSUME NEW b \in BpSlot, UserBreak(b) PROVE FALSE
  BY <1>7 DEF UserBreak
<1>8. CASE \/ PcSend \/ PcGiveUp \/ TxDrain \/ UserWrite \/ UserPoll \/ PollEmpty
           \/ PollWatch \/ SpinPoll \/ SpinExit \/ SpinTest \/ SpinNext
           \/ Restart \/ UNCHANGED vars
  BY <1>8 DEF PcSend, PcGiveUp, TxDrain, UserWrite, UserPoll, PollEmpty, PollWatch,
              SpinPoll, SpinExit, SpinTest, SpinNext, Restart, vars
<1> QED BY <1>5, <1>6, <1>7, <1>8 DEF Next, User, MCU

THEOREM PacketsStayWhole == Spec => WholePackets
<1>1. Types /\ LinkInv => (~cut => EveryPacketWhole)
  BY LaidWhole
<1>2. Types /\ LinkInv /\ [Next]_vars
        => [~cut /\ cut' => 2 * Len(asked) + (IF EventOnItsWay THEN 2 ELSE 0)
                              > TxHalves]_vars
  BY CutWhenFull
<1>3. Init => LinkInv
  BY LinkInit
<1>4. Types /\ LinkInv /\ [Next]_vars => LinkInv'
  BY LinkStep
<1> QED BY <1>1, <1>2, <1>3, <1>4, TypesInit, TypesStep, PTL DEF Spec, WholePackets
=============================================================================
