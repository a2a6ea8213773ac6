------------------------------- MODULE McuPoll -------------------------------
(***************************************************************************)
(* The firmware in poll mode, one step of mcu_mdt_poll at a time: the      *)
(* user's main loop calls mcu_mdt_poll and runs into MDT_BREAKPOINTs,      *)
(* commands arrive from the PC, replies and events leave through the       *)
(* transmit ring while all this goes on.                                   *)
(*                                                                         *)
(* The receive side delivers whole packets (PacketFraming models the bytes *)
(* below); a packet that fails validation is the command BAD.  At most     *)
(* window packets wait in the receive ring; three fit, as many as the      *)
(* attempts of one command, so mdt_buffer_guard finds no overflow and has  *)
(* no step of its own.  The transmit ring counts half packets, so that a   *)
(* reply cut off by a full ring shows.                                     *)
(***************************************************************************)
EXTENDS McuDebug, Sequences

CONSTANTS Sessions,   (* what the PC and the user's program do: by name,   *)
                      (*   command: the commands the PC may send           *)
                      (*   window: commands it may have unanswered         *)
                      (*   paced: it waits for every reply                 *)
                      (*   writes: what the program stores in watched words*)
          TxHalves    (* half packets the transmit ring holds: a packet    *)

ASSUME PollAssumption ==
  /\ TxHalves \in Nat /\ TxHalves >= 2
  /\ \A n \in DOMAIN Sessions :
       /\ Sessions[n].window \in 1 .. 3
       /\ Sessions[n].paced \in BOOLEAN
       /\ Sessions[n].writes \subseteq Word
       /\ \A c \in Sessions[n].command : WellFormed(c)

VARIABLES event,   \* pending_event, or Nothing
          rx,      \* packets received and not yet handled
          tx,      \* half packets in the transmit ring
          cut,     \* a packet did not fit into the transmit ring as a whole
          session, \* the name of the one there is, from the start to the end
          asked,   \* commands whose reply the PC did not read and may still get
          at,      \* where the firmware is
          paused,  \* the slot mdt_breakpoint_trigger spins on, or Nothing
          told,    \* a command released that slot since it was hit
          early,   \* slots that got NEXT while not paused, still to act
          quiet    \* nothing was written or re-masked since the last check

Now == Sessions[session]

debugVars == <<bp, wp, mem, event>>
linkVars  == <<rx, tx, cut, asked, session>>
ghostVars == <<told, early, quiet>>
vars == <<debugVars, linkVars, at, paused, ghostVars>>

Init == /\ DebugInit
        /\ event = Nothing
        /\ rx = <<>> /\ tx = <<>> /\ asked = <<>> /\ cut = FALSE
        /\ session \in DOMAIN Sessions
        /\ at = "user"
        /\ paused = Nothing
        /\ told = FALSE /\ early = {} /\ quiet = TRUE

(* Fault: the latest event wins.                                            *)
EventSetLatest(e) == event' = e

(* mdt_event_set: a no-op while an event is pending.                       *)
EventSet(e) == event' = IF event = Nothing THEN e ELSE event

(* hal_uart_tx_buf takes what fits and its result is ignored.              *)
Halves(m) == <<[msg |-> m, part |-> 1], [msg |-> m, part |-> 2]>>
Push(m) == LET all == tx \o Halves(m)
           IN  SubSeq(all, 1, IF Len(all) < TxHalves THEN Len(all) ELSE TxHalves)
Send(m) == tx' = Push(m) /\ cut' = (cut \/ Len(tx) + 2 > TxHalves)

Message == [kind : {"reply"}, cmd : Now.command,
            status : {"ACK", "NACK", "ERROR"}]
             \cup [kind : {"event"}, event : Event]
Half    == [msg : Message, part : 1 .. 2]

Reply(c, status) == [kind |-> "reply", cmd |-> c, status |-> status]
EventPacket(e)   == [kind |-> "event", event |-> e]
-----------------------------------------------------------------------------
(* The PC and the wire.                                                    *)
(* A reply takes far longer on the wire than the drain loop takes to end.  *)
PcSend == /\ IF Now.paced THEN asked = <<>> /\ at # "drain"
                       ELSE Len(asked) < Now.window
          /\ \E c \in Now.command : rx' = Append(rx, c) /\ asked' = Append(asked, c)
          /\ UNCHANGED <<debugVars, tx, cut, session, at, paused, ghostVars>>

(* A half packet is transmitted; the PC has read a reply with its last one.*)
TxDrain == /\ tx # <<>>
           /\ tx' = Tail(tx)
           /\ asked' = IF /\ Head(tx).part = 2 /\ Head(tx).msg.kind = "reply"
                          /\ asked # <<>>
                       THEN Tail(asked) ELSE asked
           /\ UNCHANGED <<debugVars, rx, cut, session, at, paused, ghostVars>>

(* An answer that was cut off never comes: the PC stops waiting.            *)
PcGiveUp == /\ cut
            /\ rx = <<>> /\ asked # <<>>
            /\ asked' = <<>>
            /\ UNCHANGED <<debugVars, rx, tx, cut, session, at, paused, ghostVars>>

-----------------------------------------------------------------------------
(* The user's program.                                                     *)
UserWrite == /\ at = "user"
             /\ \E a \in Addr, w \in Now.writes : mem' = [mem EXCEPT ![a] = w]
             /\ quiet' = FALSE
             /\ UNCHANGED <<bp, wp, event, linkVars, at, paused, told, early>>

(* Fault: hit_count is wider than its byte.                                 *)
UserBreakWide(b) == /\ at = "user"
                    /\ bp[b].enabled
                    /\ EventSet(BpHit(b))
                    /\ bp' = [bp EXCEPT ![b].hit_count = @ + 1]
                    /\ at' = "spin"
                    /\ paused' = b
                    /\ told' = FALSE
                    /\ UNCHANGED <<wp, mem, linkVars, early, quiet>>

(* mdt_breakpoint_trigger up to its spin loop.                             *)
UserBreak(b) == /\ at = "user"
                /\ bp[b].enabled
                /\ EventSet(BpHit(b))
                /\ bp' = [bp EXCEPT ![b].hit_count = (@ + 1) % HitMod]
                /\ at' = "spin"
                /\ paused' = b
                /\ told' = FALSE
                /\ UNCHANGED <<wp, mem, linkVars, early, quiet>>

UserPoll == /\ at = "user"
            /\ at' = "flush"
            /\ UNCHANGED <<debugVars, linkVars, paused, ghostVars>>
-----------------------------------------------------------------------------
(* mcu_mdt_poll.                                                           *)
(* Fault: hal_uart_tx_empty is taken the wrong way round.                   *)
PollFlushBusy == /\ at = "flush"
                 /\ at' = "drain"
                 /\ IF event # Nothing /\ tx # <<>>
                    THEN Send(EventPacket(event)) /\ event' = Nothing
                    ELSE UNCHANGED <<event, tx, cut>>
                 /\ UNCHANGED <<bp, wp, mem, rx, asked, session, paused, ghostVars>>

PollFlush == /\ at = "flush"
             /\ at' = "drain"
             /\ IF event # Nothing /\ tx = <<>>
                THEN Send(EventPacket(event)) /\ event' = Nothing
                ELSE UNCHANGED <<event, tx, cut>>
             /\ UNCHANGED <<bp, wp, mem, rx, asked, session, paused, ghostVars>>

(* Fault: a bad packet is not answered.                                     *)
RejectSilent(c) == /\ c.op = "BAD"
                   /\ EventSet(FailedPacket)
                   /\ UNCHANGED <<bp, wp, mem, tx, cut, at, ghostVars>>

(* mdt_handle_packet: a bad packet is answered NACK; a RESET is answered   *)
(* first and takes effect in hal_reset.                                    *)
Reject(c) == /\ c.op = "BAD"
             /\ Send(Reply(c, "NACK"))
             /\ EventSet(FailedPacket)
             /\ UNCHANGED <<bp, wp, mem, at, ghostVars>>

Releases(c) == c.op = "BREAKPOINT" /\ c.ctl \in {"NEXT", "DISABLE", "RESET"}

Handle(c) ==
  /\ c.op # "BAD"
  /\ Execute(c)
  /\ Send(Reply(c, IF Accepted(c) THEN "ACK" ELSE "ERROR"))
  /\ at' = IF c.op = "RESET" THEN "reset" ELSE at
  /\ told' = (told \/ (Releases(c) /\ c.id = paused))
  /\ early' = IF c.op # "BREAKPOINT" \/ c.id \notin BpSlot THEN early
              ELSE IF c.ctl = "RESET" THEN early \ {c.id}
              ELSE IF c.ctl = "NEXT" /\ bp[c.id].enabled /\ c.id # paused
              THEN early \cup {c.id} ELSE early
  /\ quiet' = (quiet /\ c.op # "WRITE_MEM"
                     /\ ~(c.op = "WATCHPOINT" /\ c.ctl = "MASK"))
  /\ UNCHANGED event

PollPacket == /\ at = "drain"
              /\ rx # <<>>
              /\ rx' = Tail(rx)
              /\ Reject(Head(rx)) \/ Handle(Head(rx))
              /\ UNCHANGED <<asked, session, paused>>

PollEmpty == /\ at = "drain"
             /\ rx = <<>>
             /\ at' = "watch"
             /\ UNCHANGED <<debugVars, linkVars, paused, ghostVars>>

PollWatch == /\ at = "watch"
             /\ TakeSnapshots
             /\ \/ \E e \in CheckHits : EventSet(e)
                \/ CheckHits = {} /\ UNCHANGED event
             /\ quiet' = TRUE
             /\ at' = IF paused = Nothing THEN "user" ELSE "test"
             /\ UNCHANGED <<bp, mem, linkVars, paused, told, early>>
-----------------------------------------------------------------------------
(* The spin loop of mdt_breakpoint_trigger.                                *)
SpinPoll == /\ at = "spin"
            /\ bp[paused].enabled
            /\ at' = "flush"
            /\ UNCHANGED <<debugVars, linkVars, paused, ghostVars>>

SpinExit == /\ at = "spin"
            /\ ~bp[paused].enabled
            /\ at' = "user"
            /\ paused' = Nothing
            /\ UNCHANGED <<debugVars, linkVars, ghostVars>>

SpinTest == /\ at = "test"
            /\ ~bp[paused].next
            /\ at' = "spin"
            /\ UNCHANGED <<debugVars, linkVars, paused, ghostVars>>

(* Fault: next stays set.                                                   *)
SpinNextKept == /\ at = "test"
                /\ bp[paused].next
                /\ early' = early \ {paused}
                /\ at' = "user"
                /\ paused' = Nothing
                /\ UNCHANGED <<debugVars, linkVars, told, quiet>>

SpinNext == /\ at = "test"
            /\ bp[paused].next
            /\ bp' = [bp EXCEPT ![paused].next = FALSE]
            /\ early' = early \ {paused}
            /\ at' = "user"
            /\ paused' = Nothing
            /\ UNCHANGED <<wp, event, mem, linkVars, told, quiet>>

(* hal_reset: once the transmit ring has drained everything starts over.   *)
Restart == /\ at = "reset"
           /\ tx = <<>>
           /\ bp' = [b \in BpSlot |-> ClearBp]
           /\ wp' = [s \in WpSlot |-> ClearWp]
           /\ event' = Nothing
           /\ mem' = [a \in Addr |-> {}]
           /\ rx' = <<>> /\ asked' = <<>> /\ cut' = FALSE
           /\ at' = "user"
           /\ paused' = Nothing
           /\ told' = FALSE /\ early' = {} /\ quiet' = TRUE
           /\ UNCHANGED <<tx, session>>
-----------------------------------------------------------------------------
User == UserWrite \/ (\E b \in BpSlot : UserBreak(b)) \/ UserPoll
MCU  == PollFlush \/ PollPacket \/ PollEmpty \/ PollWatch
          \/ SpinPoll \/ SpinExit \/ SpinTest \/ SpinNext \/ Restart

Next == PcSend \/ PcGiveUp \/ TxDrain \/ User \/ MCU

Spec == Init /\ [][Next]_vars

(* The code between two calls of mcu_mdt_poll ends, and the UART sends.    *)
FairSpec == Spec /\ WF_vars(MCU) /\ WF_vars(UserPoll) /\ WF_vars(TxDrain)
-----------------------------------------------------------------------------
TypeOK == /\ DebugTypeOK
          /\ event \in Event \cup {Nothing}
          /\ rx \in Seq(Now.command) /\ asked \in Seq(Now.command)
          /\ cut \in BOOLEAN /\ session \in DOMAIN Sessions
          /\ tx \in Seq(Half) /\ Len(tx) <= TxHalves
          /\ at \in {"user", "flush", "drain", "watch", "spin", "test", "reset"}
          /\ paused \in BpSlot \cup {Nothing}
          /\ at \in {"spin", "test"} => paused # Nothing
          /\ at = "user" => paused = Nothing
          /\ told \in BOOLEAN /\ early \subseteq BpSlot /\ quiet \in BOOLEAN

(* A pending event stays as it is until it is on the wire as a whole, or   *)
(* the MCU restarts: no later hit or failure replaces it.                  *)
EventKept ==
  [][event # Nothing /\ event' # event
       => tx' = Halves(EventPacket(event)) \/ at = "reset"]_vars

(* The MCU stays paused at a breakpoint until a NEXT, a DISABLE or a RESET *)
(* of that slot is handled after the hit.                                  *)
PauseUntilRelease ==
  [][paused # Nothing /\ paused' = Nothing => told \/ at = "reset"]_vars

(* The only exception is a NEXT that the enabled slot took while the MCU   *)
(* was not paused there: it spares one pause and no more.                  *)
PauseHolds ==
  [][paused # Nothing /\ paused' = Nothing
       => told \/ paused \in early \/ at = "reset"]_vars

(* The PC matches replies to commands by order alone: the replies in the   *)
(* transmit ring answer its oldest commands, one each, and the commands    *)
(* not yet handled come after them, until a packet is cut off.             *)
Replies == {i \in DOMAIN tx : tx[i].part = 2 /\ tx[i].msg.kind = "reply"}

AnswersInOrder == ~cut =>
  LET n == Len(asked) - Len(rx) IN
  /\ n >= 0
  /\ \A k \in DOMAIN rx : rx[k] = asked[n + k]
  /\ \E f \in [1 .. n -> Replies] :
       /\ \A i \in Replies : \E k \in 1 .. n : f[k] = i
       /\ \A k \in 1 .. n : tx[f[k]].msg.cmd = asked[k]
       /\ \A j, k \in 1 .. n : j < k => f[j] < f[k]

(* Every packet is followed by the rest of it.                             *)
EveryPacketWhole ==
  \A i \in DOMAIN tx : tx[i].part = 1 =>
    i < Len(tx) /\ tx[i + 1] = [tx[i] EXCEPT !.part = 2]

(* That holds until a packet is cut off, and the first one that is did not *)
(* fit: the replies the PC waits for and one event are longer than the ring*)
EventOnItsWay == \E i \in DOMAIN tx : tx[i].msg.kind = "event"
WholePackets ==
  /\ [](~cut => EveryPacketWhole)
  /\ [][~cut /\ cut' => 2 * Len(asked) + (IF EventOnItsWay THEN 2 ELSE 0)
                          > TxHalves]_vars

(* One change of memory is reported once: a check raises a hit only if     *)
(* something was written, or a mask set, since the check before.           *)
OneHitPerChange ==
  [][quiet /\ event # event' /\ event' # Nothing
       => event'.type # "WATCHPOINT_HIT"]_vars

(* Whoever stops at a breakpoint is announced.                             *)
HitAnnounced ==
  [][paused # paused' /\ paused' # Nothing => event' = BpHit(paused')]_vars

(* A release that reached the MCU takes effect, if the PC waits for every  *)
(* reply: pipelined, a DISABLE could be undone before the loop tests it.   *)
ReleaseWorks ==
  \A b \in BpSlot :
    (Now.paced /\ paused = b /\ \E i \in DOMAIN rx : Releases(rx[i]) /\ rx[i].id = b)
      ~> paused # b

(* Every event is sent, if the PC leaves the link alone for a while.       *)
EventsSent ==
  <>[][~PcSend]_vars => (event # Nothing ~> event = Nothing)
=============================================================================
