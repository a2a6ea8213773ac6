---------------------------- MODULE McuIdleProofs ----------------------------
(***************************************************************************)
(* Proofs about McuIdle, for every number of slots, every word size and    *)
(* every session: events reach the PC whole, and a pause lasts until it is *)
(* released, whatever the user's program had loaded when PendSV came.      *)
(***************************************************************************)
EXTENDS McuIdle, McuDebugProofs, SequenceTheorems

(* The user's program has an event in hand exactly while it is at a        *)
(* breakpoint.                                                             *)
Types == /\ TypeOK
         /\ at = "user" => slot = Nothing
         /\ at \notin {"user", "args"} => own \in Event

(* An event is in one piece: the pending one; the one being set, whose     *)
(* fields are written so far and which no one has raised; those sent.      *)
OneEvent(h, b) == h = b /\ h # Nothing

PendingWhole == pending => OneEvent(head, body)
SettingAlone == Setting => ~pending
SettingSoFar == /\ at \in {"body", "raise"} => head = own
                /\ at = "raise" => body = own
SentWhole    == \A i \in DOMAIN tx : tx[i].kind = "event" => OneEvent(tx[i].head, tx[i].body)
WholeInv     == ~crossed => PendingWhole /\ SettingAlone /\ SettingSoFar /\ SentWhole

(* Who set next, and why a paused slot is still enabled.                   *)
PauseInv == /\ \A b \in BpSlot : bp[b].next => b \in early \/ (b = slot /\ told)
            /\ slot # Nothing /\ ~told => bp[slot].enabled
            /\ at = "clear" => told \/ slot \in early
-----------------------------------------------------------------------------
LEMMA SameSession == UNCHANGED session => Now' = Now /\ Message' = Message
BY DEF Now, Message

LEMMA RepliesAreMessages ==
  ASSUME NEW c \in Now.command, NEW status \in {"ACK", "NACK", "ERROR"}
  PROVE  Reply(c, status) \in Message /\ Reply(c, status).kind = "reply"
BY DEF Reply, Message

(* What one packet handled in PendSV does to the queues.                   *)
LEMMA PacketQueues ==
  ASSUME Types, rx # <<>>, rx' = <<>> \/ rx' = Tail(rx),
         NEW m \in Message, tx' = Append(tx, m), UNCHANGED session
  PROVE  /\ Head(rx) \in Now.command /\ WellFormed(Head(rx))
         /\ rx' \in Seq(Now'.command)
         /\ tx' \in Seq(Message')
         /\ Len(rx') + Len(tx') <= Now'.window
<1>1. Head(rx) \in Now.command /\ Tail(rx) \in Seq(Now.command)
  BY DEF Types, TypeOK
<1>2. rx' \in Seq(Now.command) /\ Len(rx') < Len(rx)
  <2>1. rx \in Seq(Now.command) /\ Len(<<>>) = 0 /\ Len(Tail(rx)) = Len(rx) - 1
        /\ Len(rx) \in Nat /\ Len(rx) >= 1
    BY EmptySeq DEF Types, TypeOK
  <2>2. CASE rx' = Tail(rx)
    BY <1>1, <2>1, <2>2
  <2>3. CASE rx' = <<>>
    BY <2>1, <2>3
  <2> QED BY <2>2, <2>3
<1>3. Len(tx') = Len(tx) + 1 /\ Len(tx) \in Nat
  BY DEF Types, TypeOK
<1>4. Len(rx) + Len(tx) <= Now.window /\ Now.window \in Nat
  BY IdleAssumption DEF Types, TypeOK, Now
<1>5. Len(rx') + Len(tx') <= Now.window
  <2>1. ASSUME NEW r \in Nat, NEW s \in Nat, NEW t \in Nat, NEW w \in Nat,
               s < r, r + t <= w
        PROVE  s + (t + 1) <= w
    BY <2>1
  <2>2. Len(rx') \in Nat /\ Len(rx) \in Nat
    BY <1>2, LenProperties DEF Types, TypeOK
  <2> QED BY <1>2, <1>3, <1>4, <2>1, <2>2
<1>6. tx' \in Seq(Message)
  BY DEF Types, TypeOK
<1>7. WellFormed(Head(rx))
  BY <1>1, IdleAssumption DEF Types, TypeOK, Now
<1> QED BY <1>1, <1>2, <1>5, <1>6, <1>7, SameSession

LEMMA TypesInit == Init => Types
<1> SUFFICES ASSUME Init PROVE Types
  OBVIOUS
<1>1. DebugTypeOK
  BY DebugInitTypes DEF Init
<1>2. Now.window \in Nat
  BY IdleAssumption DEF Init, Now
<1>3. Len(rx) + Len(tx) <= Now.window
  BY <1>2, EmptySeq DEF Init
<1>4. rx \in Seq(Now.command) /\ tx \in Seq(Message)
  BY DEF Init
<1> QED BY <1>1, <1>3, <1>4, ClearTypes DEF Init, Types, TypeOK, Field

LEMMA PendSVTypes == Types /\ PendSV => Types'
<1> SUFFICES ASSUME Types, PendSV PROVE Types'
  OBVIOUS
<1> DEFINE c == Head(rx)
<1> USE DEF debugVars, eventVars, mainVars, ghostVars
<1>0. c \in Now.command /\ WellFormed(c)
  BY IdleAssumption DEF PendSV, Types, TypeOK, Now
<1>q. ASSUME NEW m \in Message, tx' = Append(tx, m)
      PROVE  /\ rx' \in Seq(Now'.command) /\ tx' \in Seq(Message')
             /\ Len(rx') + Len(tx') <= Now'.window
             /\ session' \in DOMAIN Sessions
  BY <1>q, PacketQueues DEF PendSV, Types, TypeOK
<1>f. FailedPacket \in Event /\ FailedPacket \in Field
  BY DEF FailedPacket, Event, Field
<1>1. CASE Poll(c)
  <2>1. DebugTypeOK'
    BY <1>1, SnapshotTypes DEF Poll, Types, TypeOK
  <2>2. head' \in Field /\ body' \in Field
    BY <1>1, HitsAreEvents DEF Poll, Types, TypeOK, Field
  <2>3. EventReply \in Message
    BY <2>2 DEF EventReply, Message
  <2>4. PICK m \in Message : tx' = Append(tx, m)
    BY <1>0, <1>1, <2>3, RepliesAreMessages DEF Poll
  <2>5. crossed' \in BOOLEAN
    BY <1>1 DEF Poll, Types, TypeOK
  <2>6. pending' \in BOOLEAN /\ UNCHANGED <<at, slot, own, reg, told, early>>
    BY <1>1 DEF Poll
  <2> QED BY <1>q, <2>1, <2>2, <2>4, <2>5, <2>6 DEF Types, TypeOK
<1>2. CASE Reject(c)
  <2>1. DebugTypeOK'
    BY <1>2 DEF Reject, Types, TypeOK, DebugTypeOK
  <2>2. head' \in Field /\ body' \in Field /\ pending' \in BOOLEAN
    BY <1>2, <1>f DEF Reject, EventSet, Types, TypeOK
  <2>3. crossed' \in BOOLEAN
    BY <1>2 DEF Reject, EventSet, Types, TypeOK
  <2>4. PICK m \in Message : tx' = Append(tx, m)
    BY <1>0, <1>2, RepliesAreMessages DEF Reject
  <2>5. UNCHANGED <<at, slot, own, reg, told, early>>
    BY <1>2 DEF Reject
  <2> QED BY <1>q, <2>1, <2>2, <2>3, <2>4, <2>5 DEF Types, TypeOK
<1>3. CASE Handle(c)
  <2>1. DebugTypeOK'
    BY <1>0, <1>3, ExecuteTypes DEF Handle, Types, TypeOK
  <2>2. PICK m \in Message : tx' = Append(tx, m)
    BY <1>0, <1>3, RepliesAreMessages DEF Handle
  <2>3. told' \in BOOLEAN
    BY <1>3 DEF Handle, Types, TypeOK
  <2>4. early' \subseteq BpSlot
    BY <1>3 DEF Handle, Types, TypeOK
  <2>5. UNCHANGED <<pending, head, body, at, slot, own, reg, crossed>>
    BY <1>3 DEF Handle
  <2> QED BY <1>q, <2>1, <2>2, <2>3, <2>4, <2>5 DEF Types, TypeOK
<1>4. CASE Restart(c)
  <2>1. DebugTypeOK'
    BY <1>4, ClearTypes DEF Restart, DebugTypeOK
  <2>2. PICK m \in Message : tx' = Append(tx, m)
    BY <1>0, <1>4, RepliesAreMessages DEF Restart
  <2>3. crossed' \in BOOLEAN
    BY <1>4 DEF Restart, Types, TypeOK
  <2>4. /\ pending' = FALSE /\ head' = Nothing /\ body' = Nothing
        /\ at' = "user" /\ slot' = Nothing /\ own' = Nothing
        /\ reg' = ClearBp /\ told' = FALSE /\ early' = {}
    BY <1>4 DEF Restart
  <2> QED BY <1>q, <2>1, <2>2, <2>3, <2>4, ClearTypes DEF Types, TypeOK, Field
<1> QED BY <1>1, <1>2, <1>3, <1>4 DEF PendSV

LEMMA MainTypes == Types /\ Main => Types'
<1> SUFFICES ASSUME Types, Main PROVE Types'
  OBVIOUS
<1> USE DEF debugVars, eventVars, mainVars, ghostVars, otherVars
<1>0. /\ UNCHANGED <<session, rx, tx>> /\ Now' = Now /\ Message' = Message
      /\ UNCHANGED wp
  BY SameSession DEF Main, UserWrite, Hit, Trigger, SetArgs, SetTest, SetHead,
                     SetBody, SetRaise, CountLoad, CountStore, SpinOn, SpinExit, SpinNext,
                     SpinClear
<1>d. UNCHANGED <<bp, mem>> => DebugTypeOK'
  BY <1>0 DEF DebugTypeOK, Types, TypeOK
<1>b. UNCHANGED mem /\ bp' \in [BpSlot -> Breakpoint] => DebugTypeOK'
  BY <1>0 DEF DebugTypeOK, Types, TypeOK
<1>c. at # "user" => slot \in BpSlot /\ bp[slot] \in Breakpoint
  BY DEF DebugTypeOK, Types, TypeOK
<1>1. CASE UserWrite
  <2>1. mem' \in [Addr -> Word]
    BY <1>1, IdleAssumption DEF UserWrite, Types, TypeOK, DebugTypeOK, Now
  <2>2. DebugTypeOK'
    BY <1>0, <1>1, <2>1 DEF UserWrite, Types, TypeOK, DebugTypeOK
  <2> QED BY <1>0, <1>1, <2>2 DEF UserWrite, Types, TypeOK
<1>2. ASSUME NEW b \in BpSlot, Hit(b) PROVE Types'
  BY <1>0, <1>2, <1>d DEF Hit, Types, TypeOK
<1>a. CASE SetArgs
  <2>1. own' \in Event
    BY <1>a, HitsAreEvents DEF SetArgs, Types, TypeOK
  <2> QED BY <1>0, <1>a, <1>d, <2>1 DEF SetArgs, Types, TypeOK, Field
<1>3. CASE SetTest \/ SetHead \/ SetBody \/ SetRaise
  BY <1>0, <1>3, <1>d DEF SetTest, SetHead, SetBody, SetRaise, Types, TypeOK
<1>4. CASE CountLoad
  BY <1>0, <1>4, <1>c, <1>d DEF CountLoad, Types, TypeOK
<1>5. CASE CountStore
  <2> DEFINE n == (reg.hit_count + 1) % HitMod
  <2>1. n \in 0 .. HitMod - 1
    <3>1. reg.hit_count \in Nat
      BY DebugAssumption DEF Types, TypeOK, Breakpoint
    <3> QED BY <3>1, DebugAssumption
  <2> HIDE DEF n
  <2>2. \A b \in BpSlot : [bp[b] EXCEPT !.hit_count = n] \in Breakpoint
    BY <2>1 DEF Types, TypeOK, DebugTypeOK, Breakpoint
  <2>3. bp' = [bp EXCEPT ![slot].hit_count = n]
    BY <1>5 DEF CountStore, n
  <2>4. bp' \in [BpSlot -> Breakpoint]
    BY <2>2, <2>3 DEF Types, TypeOK, DebugTypeOK
  <2> QED BY <1>0, <1>5, <1>b, <2>4, ClearTypes DEF CountStore, Types, TypeOK
<1>6. CASE SpinOn
  BY <1>0, <1>6, <1>d DEF SpinOn, Types, TypeOK
<1>7. CASE SpinExit
  <2>1. early' \subseteq BpSlot
    BY <1>7, <1>c DEF SpinExit, Types, TypeOK
  <2> QED BY <1>0, <1>7, <1>d, <2>1, ClearTypes
          DEF SpinExit, Leave, Types, TypeOK, Field
<1>8. CASE SpinNext
  <2>1. reg' \in Breakpoint
    BY <1>8, <1>c, ClearTypes DEF SpinNext
  <2>2. at' \in {"clear", "next", "deaf", "spin"} /\ UNCHANGED <<slot, own>> /\ at = "next"
    BY <1>8 DEF SpinNext
  <2> QED BY <1>0, <1>8, <1>d, <2>1, <2>2 DEF SpinNext, Types, TypeOK
<1>9. CASE SpinClear
  <2>1. \A b \in BpSlot :
          [bp[b] EXCEPT !.next = FALSE, !.enabled = reg.enabled] \in Breakpoint
    BY DEF Types, TypeOK, DebugTypeOK, Breakpoint
  <2>2. bp' \in [BpSlot -> Breakpoint]
    BY <1>9, <2>1 DEF SpinClear, Types, TypeOK, DebugTypeOK
  <2> QED BY <1>0, <1>9, <1>b, <2>2, ClearTypes
          DEF SpinClear, Leave, Types, TypeOK, Field
<1> QED BY <1>1, <1>2, <1>a, <1>3, <1>4, <1>5, <1>6, <1>7, <1>8, <1>9 DEF Main, Trigger

LEMMA TypesStep == Types /\ [Next]_vars => Types'
<1> SUFFICES ASSUME Types, [Next]_vars PROVE Types'
  OBVIOUS
<1> USE DEF debugVars, eventVars, mainVars, ghostVars
<1>d. UNCHANGED <<bp, wp, mem>> => DebugTypeOK'
  BY DEF DebugTypeOK, Types, TypeOK
<1>w. Now.window \in Nat /\ Len(rx) \in Nat /\ Len(tx) \in Nat
  BY IdleAssumption DEF Types, TypeOK, Now
<1>1. CASE PcSend
  <2>1. rx' \in Seq(Now.command) /\ Len(rx') = Len(rx) + 1
    BY <1>1 DEF PcSend, Types, TypeOK
  <2>2. Len(rx') + Len(tx') <= Now.window
    BY <1>1, <1>w, <2>1 DEF PcSend
  <2> QED BY <1>1, <1>d, <2>1, <2>2, SameSession DEF PcSend, Types, TypeOK
<1>2. CASE PcRead
  <2>1. tx' \in Seq(Message) /\ Len(tx') = Len(tx) - 1
    BY <1>2 DEF PcRead, Types, TypeOK
  <2>2. Len(rx') + Len(tx') <= Now.window
    BY <1>2, <1>w, <2>1 DEF PcRead, Types, TypeOK
  <2> QED BY <1>2, <1>d, <2>1, <2>2, SameSession DEF PcRead, Types, TypeOK
<1>3. CASE UNCHANGED vars
  BY <1>3, <1>d, SameSession DEF vars, Types, TypeOK
<1> QED BY <1>1, <1>2, <1>3, PendSVTypes, MainTypes DEF Next

(* The variables of the debugger, of the event and of the queues keep      *)
(* their types in every session.                                           *)
THEOREM TypeCorrect == Spec => []TypeOK
<1>1. Types => TypeOK
  BY DEF Types
<1> QED BY <1>1, TypesInit, TypesStep, PTL DEF Spec
-----------------------------------------------------------------------------
LEMMA EventIsSomething == \A e \in Event : e # Nothing
BY IdleAssumption

LEMMA EventsInit == Init => WholeInv
<1> SUFFICES ASSUME Init PROVE WholeInv
  OBVIOUS
<1>1. DOMAIN tx = {}
  BY EmptySeq DEF Init
<1> QED BY <1>1 DEF Init, WholeInv, PendingWhole, SettingAlone, Setting,
                    SettingSoFar, SentWhole

(* A reply is no event, and what is sent is added at the end.              *)
LEMMA SentAppend ==
  ASSUME Types, SentWhole, NEW m \in Message, tx' = Append(tx, m),
         m.kind = "event" => OneEvent(m.head, m.body)
  PROVE  SentWhole'
<1>1. tx \in Seq(Message)
  BY DEF Types, TypeOK
<1>2. ASSUME NEW i \in DOMAIN tx'
      PROVE  tx'[i] = m \/ (i \in DOMAIN tx /\ tx'[i] = tx[i])
  BY <1>1, <1>2
<1> QED BY <1>2 DEF SentWhole, OneEvent

LEMMA PendSVEvents == Types /\ WholeInv /\ PendSV => WholeInv'
<1> SUFFICES ASSUME Types, WholeInv, PendSV PROVE WholeInv'
  OBVIOUS
<1> DEFINE c == Head(rx)
<1> USE DEF debugVars, eventVars, mainVars, ghostVars
<1>0. c \in Now.command
  BY DEF PendSV, Types, TypeOK
<1>f. FailedPacket \in Event
  BY DEF FailedPacket, Event
<1>1. CASE Poll(c)
  <2>1. SUFFICES ASSUME ~crossed'
                 PROVE  PendingWhole' /\ SettingAlone' /\ SettingSoFar' /\ SentWhole'
    BY DEF WholeInv
  <2>2. /\ ~crossed /\ ~(Setting /\ ~pending /\ CheckHits # {})
        /\ PendingWhole /\ SettingAlone /\ SettingSoFar /\ SentWhole
    BY <1>1, <2>1 DEF Poll, WholeInv
  <2>3. pending' = FALSE /\ UNCHANGED <<at, own>>
    BY <1>1 DEF Poll
  <2>4. PendingWhole' /\ SettingAlone'
    BY <2>3 DEF PendingWhole, SettingAlone
  <2>5. SettingSoFar'
    <3>1. CASE Setting
      BY <1>1, <2>2, <2>3, <3>1 DEF Poll, SettingAlone, SettingSoFar
    <3>2. CASE ~Setting
      BY <2>3, <3>2 DEF Setting, SettingSoFar
    <3> QED BY <3>1, <3>2
  <2>6. SentWhole'
    <3>1. CASE pending \/ CheckHits # {}
      <4>1. OneEvent(head', body')
        BY <1>1, <2>2, <3>1, HitsAreEvents, EventIsSomething
           DEF Poll, PendingWhole, OneEvent, Types, TypeOK
      <4>2. head' \in Field /\ body' \in Field
        BY <1>1, HitsAreEvents DEF Poll, Types, TypeOK, Field
      <4>3. EventReply \in Message /\ EventReply.head = head' /\ EventReply.body = body'
        BY <4>2 DEF EventReply, Message
      <4>4. tx' = Append(tx, EventReply)
        BY <1>1, <3>1 DEF Poll
      <4> QED BY <2>2, <4>1, <4>3, <4>4, SentAppend
    <3>2. CASE ~(pending \/ CheckHits # {})
      <4>1. tx' = Append(tx, Reply(c, "ACK"))
        BY <1>1, <3>2 DEF Poll
      <4> QED BY <1>0, <2>2, <4>1, SentAppend, RepliesAreMessages
    <3> QED BY <3>1, <3>2
  <2> QED BY <2>4, <2>5, <2>6
<1>2. CASE Reject(c)
  <2>1. SUFFICES ASSUME ~crossed'
                 PROVE  PendingWhole' /\ SettingAlone' /\ SettingSoFar' /\ SentWhole'
    BY DEF WholeInv
  <2>2. /\ ~crossed /\ ~(Setting /\ ~pending)
        /\ PendingWhole /\ SettingAlone /\ SettingSoFar /\ SentWhole
    BY <1>2, <2>1 DEF Reject, EventSet, WholeInv
  <2>3. ~Setting
    BY <2>2 DEF SettingAlone
  <2>4. UNCHANGED <<at, own>>
    BY <1>2 DEF Reject
  <2>5. SettingAlone' /\ SettingSoFar'
    BY <2>3, <2>4 DEF Setting, SettingAlone, SettingSoFar
  <2>6. PendingWhole'
    <3>1. CASE pending
      BY <1>2, <2>2, <3>1 DEF Reject, EventSet, PendingWhole, OneEvent
    <3>2. CASE ~pending
      BY <1>2, <1>f, <3>2, EventIsSomething
         DEF Reject, EventSet, PendingWhole, OneEvent
    <3> QED BY <3>1, <3>2
  <2>7. SentWhole'
    BY <1>0, <1>2, <2>2, SentAppend, RepliesAreMessages DEF Reject
  <2> QED BY <2>5, <2>6, <2>7
<1>3. CASE Handle(c)
  <2>1. UNCHANGED <<pending, head, body, at, own, crossed>>
    BY <1>3 DEF Handle
  <2>2. SentWhole => SentWhole'
    BY <1>0, <1>3, SentAppend, RepliesAreMessages DEF Handle
  <2> QED BY <2>1, <2>2 DEF WholeInv, PendingWhole, SettingAlone, Setting, SettingSoFar
<1>4. CASE Restart(c)
  <2>1. SUFFICES ASSUME ~crossed'
                 PROVE  PendingWhole' /\ SettingAlone' /\ SettingSoFar' /\ SentWhole'
    BY DEF WholeInv
  <2>2. PendingWhole' /\ SettingAlone' /\ SettingSoFar'
    BY <1>4 DEF Restart, PendingWhole, SettingAlone, SettingSoFar
  <2>3. SentWhole
    <3>1. CASE tx = <<>>
      BY <3>1, EmptySeq DEF SentWhole
    <3>2. CASE tx # <<>>
      BY <1>4, <2>1, <3>2 DEF Restart, WholeInv
    <3> QED BY <3>1, <3>2
  <2>4. SentWhole'
    BY <1>0, <1>4, <2>3, SentAppend, RepliesAreMessages DEF Restart
  <2> QED BY <2>2, <2>4
<1> QED BY <1>1, <1>2, <1>3, <1>4 DEF PendSV

LEMMA EventsStep == Types /\ WholeInv /\ [Next]_vars => WholeInv'
<1> SUFFICES ASSUME Types, WholeInv, [Next]_vars, ~crossed'
             PROVE  PendingWhole' /\ SettingAlone' /\ SettingSoFar' /\ SentWhole'
  BY DEF WholeInv
<1> USE DEF debugVars, eventVars, mainVars, ghostVars, otherVars
<1>p. CASE PendSV
  BY <1>p, PendSVEvents DEF WholeInv
<1>0. SUFFICES ASSUME ~PendSV
               PROVE  PendingWhole' /\ SettingAlone' /\ SettingSoFar' /\ SentWhole'
  BY <1>p
<1>1. ~crossed
  BY <1>0 DEF Next, Main, Trigger, PcSend, PcRead, UserWrite, Hit, SetArgs,
              SetTest, SetHead, SetBody, SetRaise, CountLoad, CountStore, SpinOn,
              SpinExit, SpinNext, SpinClear, vars
<1>2. PendingWhole /\ SettingAlone /\ SettingSoFar /\ SentWhole
  BY <1>1 DEF WholeInv
<1>3. tx' = tx \/ PcRead
  BY <1>0 DEF Next, Main, Trigger, PcSend, UserWrite, Hit, SetArgs, SetTest,
              SetHead, SetBody, SetRaise, CountLoad, CountStore, SpinOn, SpinExit,
              SpinNext, SpinClear, vars
<1>4. SentWhole'
  <2>1. CASE tx' = tx
    BY <1>2, <2>1 DEF SentWhole
  <2>2. CASE PcRead
    <3>1. tx \in Seq(Message) /\ tx # <<>> /\ tx' = Tail(tx)
      BY <2>2 DEF PcRead, Types, TypeOK
    <3>2. \A i \in DOMAIN tx' : i + 1 \in DOMAIN tx /\ tx'[i] = tx[i + 1]
      BY <3>1
    <3> QED BY <1>2, <3>2 DEF SentWhole
  <2> QED BY <1>3, <2>1, <2>2
<1>5. UNCHANGED <<pending, head, body, at, own>>
        => PendingWhole' /\ SettingAlone' /\ SettingSoFar'
  BY <1>2 DEF PendingWhole, SettingAlone, Setting, SettingSoFar
<1>6. UNCHANGED <<pending, head, body>> /\ at' \notin {"head", "body", "raise"}
        => PendingWhole' /\ SettingAlone' /\ SettingSoFar'
  BY <1>2 DEF PendingWhole, SettingAlone, Setting, SettingSoFar
<1>7. CASE PcSend \/ PcRead \/ UserWrite \/ UNCHANGED vars
  BY <1>4, <1>5, <1>7 DEF PcSend, PcRead, UserWrite, vars
<1>8. CASE (\E b \in BpSlot : Hit(b)) \/ SetArgs \/ CountLoad \/ CountStore
             \/ SpinOn \/ SpinExit \/ SpinNext \/ SpinClear
  BY <1>4, <1>6, <1>8 DEF Hit, SetArgs, CountLoad, CountStore, SpinOn, SpinExit, SpinNext,
                          SpinClear, Leave
<1>9. CASE SetTest
  BY <1>2, <1>4, <1>9
     DEF SetTest, PendingWhole, SettingAlone, Setting, SettingSoFar
<1>10. CASE SetHead
  BY <1>2, <1>4, <1>10
     DEF SetHead, PendingWhole, SettingAlone, Setting, SettingSoFar
<1>11. CASE SetBody
  BY <1>2, <1>4, <1>11
     DEF SetBody, PendingWhole, SettingAlone, Setting, SettingSoFar
<1>12. CASE SetRaise
  <2>1. head = own /\ body = own /\ own # Nothing
    BY <1>2, <1>12, EventIsSomething DEF SetRaise, SettingSoFar, Types
  <2> QED BY <1>2, <1>4, <1>12, <2>1
          DEF SetRaise, PendingWhole, OneEvent, SettingAlone, Setting, SettingSoFar
<1> QED BY <1>0, <1>7, <1>8, <1>9, <1>10, <1>11, <1>12 DEF Next, Main, Trigger

(* An event that reaches the PC was raised as it is, with any number of    *)
(* slots: no field of it belongs to another event, unless PendSV set one   *)
(* while the program was in mdt_event_set.                                 *)
THEOREM EventsStayWhole == Spec => []EventsWhole
<1>1. WholeInv => EventsWhole
  BY DEF WholeInv, SentWhole, OneEvent, EventsWhole
<1> QED BY <1>1, TypesInit, TypesStep, EventsInit, EventsStep, PTL DEF Spec
-----------------------------------------------------------------------------
LEMMA PauseInit == Init => PauseInv
BY ClearTypes DEF Init, DebugInit, PauseInv

LEMMA PendSVPause == Types /\ PauseInv /\ PendSV => PauseInv'
<1> SUFFICES ASSUME Types, PauseInv, PendSV PROVE PauseInv'
  OBVIOUS
<1> DEFINE c == Head(rx)
<1> USE DEF debugVars, eventVars, mainVars, ghostVars
<1>1. CASE Poll(c)
  BY <1>1 DEF Poll, PauseInv
<1>2. CASE Reject(c)
  BY <1>2 DEF Reject, PauseInv
<1>4. CASE Restart(c)
  BY <1>4, ClearTypes DEF Restart, PauseInv
<1>3. CASE Handle(c)
  <2>0. /\ Execute(c) /\ UNCHANGED <<at, slot>>
        /\ told => told'
        /\ Releases(c) /\ c.id = slot => told'
    BY <1>3 DEF Handle
  <2>1. CASE c.op = "BREAKPOINT" /\ Accepted(c)
    <3>b. PICK b \in BpSlot : b = c.id
      BY <2>1 DEF Accepted
    <3> DEFINE new == BpControl(bp[b], c.ctl)
    <3>1. c.ctl \in BpControls
      BY <2>1 DEF Accepted
    <3>2. bp' = [bp EXCEPT ![b] = new]
      BY <2>0, <2>1, <3>b DEF Execute
    <3>3. bp \in [BpSlot -> Breakpoint]
      BY DEF Types, TypeOK, DebugTypeOK
    <3>4. /\ new.next => (bp[b].next /\ c.ctl # "RESET")
                           \/ (c.ctl = "NEXT" /\ bp[b].enabled)
          /\ bp[b].enabled /\ c.ctl \notin {"DISABLE", "RESET"} => new.enabled
      BY <3>1, <3>3, BpControlType
    <3>5. /\ c.ctl \in {"NEXT", "DISABLE", "RESET"} /\ b = slot => told'
          /\ c.ctl = "NEXT" /\ bp[b].enabled /\ b # slot => b \in early'
          /\ c.ctl # "RESET" => early \subseteq early'
          /\ early \ {b} \subseteq early'
      BY <1>3, <2>1, <3>b DEF Handle, Releases
    <3> HIDE DEF new, c
    <3>6. bp'[b] = new /\ \A s \in BpSlot : s # b => bp'[s] = bp[s]
      BY <3>2, <3>3
    <3>7. ASSUME NEW s \in BpSlot, bp'[s].next
          PROVE  s \in early' \/ (s = slot' /\ told')
      <4>1. CASE s # b
        BY <2>0, <3>5, <3>6, <3>7, <4>1 DEF PauseInv
      <4>2. CASE s = b
        BY <2>0, <3>4, <3>5, <3>6, <3>7, <4>2 DEF PauseInv
      <4> QED BY <4>1, <4>2
    <3>8. slot' # Nothing /\ ~told' => bp'[slot'].enabled
      <4>1. SUFFICES ASSUME slot # Nothing, ~told' PROVE bp'[slot].enabled
        BY <2>0
      <4>2. slot \in BpSlot /\ bp[slot].enabled
        BY <2>0, <4>1 DEF PauseInv, Types, TypeOK
      <4>3. CASE slot # b
        BY <3>6, <4>2, <4>3
      <4>4. CASE slot = b
        BY <3>4, <3>5, <3>6, <4>1, <4>2, <4>4
      <4> QED BY <4>3, <4>4
    <3>9. at' = "clear" => told' \/ slot' \in early'
      <4>1. SUFFICES ASSUME at = "clear", ~told' PROVE slot \in early'
        BY <2>0
      <4>2. slot \in early
        BY <2>0, <4>1 DEF PauseInv
      <4> QED BY <3>5, <4>1, <4>2
    <3> QED BY <3>7, <3>8, <3>9 DEF PauseInv
  <2>2. CASE ~(c.op = "BREAKPOINT" /\ Accepted(c))
    <3>1. bp' = bp
      BY <2>0, <2>2 DEF Execute
    <3>2. early \subseteq early'
      BY <1>3, <2>2 DEF Handle, Accepted, BpControls
    <3> QED BY <2>0, <3>1, <3>2 DEF PauseInv
  <2> QED BY <2>1, <2>2
<1> QED BY <1>1, <1>2, <1>3, <1>4 DEF PendSV

LEMMA PauseStep == Types /\ PauseInv /\ [Next]_vars => PauseInv'
<1> SUFFICES ASSUME Types, PauseInv, [Next]_vars PROVE PauseInv'
  OBVIOUS
<1> USE DEF debugVars, eventVars, mainVars, ghostVars, otherVars
<1>b. bp \in [BpSlot -> Breakpoint]
  BY DEF Types, TypeOK, DebugTypeOK
<1>1. UNCHANGED <<bp, slot, told, early>> /\ (at' # "clear" \/ at' = at) => PauseInv'
  BY DEF PauseInv
<1>2. CASE \/ PcSend \/ PcRead \/ UserWrite \/ SetArgs \/ SetTest \/ SetHead
           \/ SetBody \/ SetRaise \/ CountLoad \/ SpinOn \/ UNCHANGED vars
  BY <1>1, <1>2 DEF PcSend, PcRead, UserWrite, SetArgs, SetTest, SetHead, SetBody, SetRaise,
                    CountLoad, SpinOn, vars
<1>3. ASSUME NEW b \in BpSlot, Hit(b) PROVE PauseInv'
  <2>1. slot = Nothing /\ b # Nothing
    BY <1>3, DebugAssumption DEF Hit, Types
  <2> QED BY <1>3, <2>1, DebugAssumption DEF Hit, PauseInv
<1>4. CASE CountStore
  <2>1. \A b \in BpSlot : bp'[b].next = bp[b].next /\ bp'[b].enabled = bp[b].enabled
    BY <1>4, <1>b DEF CountStore, Breakpoint
  <2>2. slot \in BpSlot \cup {Nothing}
    BY DEF Types, TypeOK
  <2> QED BY <1>4, <2>1, <2>2 DEF CountStore, PauseInv
<1>5. CASE SpinExit
  BY <1>5 DEF SpinExit, Leave, PauseInv
<1>6. CASE SpinNext
  <2>1. slot \in BpSlot
    BY <1>6 DEF SpinNext, Types, TypeOK
  <2>2. UNCHANGED <<bp, slot, told, early>>
    BY <1>6 DEF SpinNext
  <2>3. at' = "clear" => bp[slot].next
    BY <1>6, ClearTypes DEF SpinNext
  <2> QED BY <2>1, <2>2, <2>3 DEF PauseInv
<1>7. CASE SpinClear
  <2>1. slot \in BpSlot
    BY <1>7 DEF SpinClear, Types, TypeOK
  <2>2. ASSUME NEW b \in BpSlot
        PROVE  bp'[b].next => b # slot /\ bp[b].next
    BY <1>7, <1>b, <2>1 DEF SpinClear, Breakpoint
  <2>3. early' = early \ {slot} /\ slot' = Nothing /\ at' = "user"
    BY <1>7 DEF SpinClear, Leave
  <2> QED BY <2>2, <2>3 DEF PauseInv
<1> QED BY <1>2, <1>3, <1>4, <1>5, <1>6, <1>7, PendSVPause DEF Next, Main, Trigger

(* The user's program leaves the spin loop only after a NEXT, a DISABLE or *)
(* a RESET of its slot: not because PendSV came between the test of a flag *)
(* and the store that clears it.                                           *)
THEOREM PausesHold == Spec => PauseHolds
<1>1. Types /\ PauseInv /\ [Next]_vars
        => [Spinning /\ slot' = Nothing
              => told \/ slot \in early
                   \/ (rx # <<>> /\ Head(rx).op = "RESET")]_vars
  <2> SUFFICES ASSUME Types, PauseInv, [Next]_vars, Spinning, slot' = Nothing
               PROVE  told \/ slot \in early
                        \/ (rx # <<>> /\ Head(rx).op = "RESET")
    OBVIOUS
  <2> USE DEF debugVars, eventVars, mainVars, ghostVars, otherVars
  <2>1. slot # Nothing /\ at # "user"
    BY DebugAssumption DEF Spinning, Types, TypeOK
  <2>2. CASE PendSV
    BY <2>1, <2>2 DEF PendSV, Poll, Reject, Handle, Restart
  <2>3. CASE SpinExit
    BY <2>1, <2>3 DEF SpinExit, PauseInv
  <2>4. CASE SpinClear
    BY <2>4 DEF SpinClear, PauseInv
  <2>5. CASE \/ PcSend \/ PcRead \/ UserWrite \/ SetArgs \/ SetTest
             \/ SetHead \/ SetBody \/ SetRaise \/ CountLoad \/ CountStore \/ SpinOn \/ SpinNext
             \/ UNCHANGED vars \/ \E b \in BpSlot : Hit(b)
    BY <2>1, <2>5, DebugAssumption
       DEF PcSend, PcRead, UserWrite, SetArgs, SetTest, SetHead, SetBody, SetRaise,
           CountLoad, CountStore, SpinOn, SpinNext, vars, Hit
  <2> QED BY <2>2, <2>3, <2>4, <2>5 DEF Next, Main, Trigger
<1> QED BY <1>1, TypesInit, TypesStep, PauseInit, PauseStep, PTL
        DEF Spec, PauseHolds
=============================================================================
