------------------------------- MODULE PcLink -------------------------------
(***************************************************************************)
(* The PC side of the link in one session: the startup ping and the drain  *)
(* of stale events, the thread that sends commands and waits for their     *)
(* replies, and the daemon threads of event.py: the receiver, the event    *)
(* listener and, in UART-idle mode, the poll worker.                       *)
(*                                                                         *)
(* A packet is [kind, n].  On the way to the MCU it is a command, a poll,  *)
(* or damaged; on the way back the reply to command n, a NACK, event n, or *)
(* the plain ACK of a poll.  The startup ping is command 1.  What is not   *)
(* yet routed, in the driver or in _rx_buf, is one queue, toPc.  Neither   *)
(* side looks at SEQ and the receiver does not look at the CRC.            *)
(***************************************************************************)
EXTENDS Integers, Sequences, FiniteSetsExt

CONSTANTS Modes,       (* uart_idle of the builds: a subset of BOOLEAN      *)
          MaxRetries,  (* MDT_MAX_RETRIES                                   *)
          MaxPolls,    (* max_polls of drain_stale_events                   *)
          MaxErrors,   (* _RX_MAX_CONSECUTIVE_ERRORS                        *)
          MaxCommands, (* bound: commands of a session, the ping included   *)
          MaxEvents,   (* bound: events the MCU raises                      *)
          MaxFaults,   (* bound: packets lost or damaged                    *)
          MaxLate,     (* bound: answers too many when one may come late    *)
          Backlog      (* bound: packets unread when a poll is sent         *)

ASSUME PcAssumption ==
  /\ Modes \subseteq BOOLEAN
  /\ {MaxRetries, MaxErrors, MaxCommands, MaxEvents} \subseteq Nat \ {0}
  /\ {MaxPolls, MaxFaults, MaxLate, Backlog} \subseteq Nat

VARIABLES uart_idle,   \* the mode of this session
          phase,       \* the command thread: ping, drain, prompt, wait, closed
          cmd,         \* its latest command
          attempt,     \* attempts made at it, or polls made by the drain
          running,     \* MCUSerialLink.running
          threads,     \* the daemon threads alive
          errors,      \* the receiver's consecutive_errors
          toMcu, toPc, \* packets on the line
          responses,   \* response_queue
          events,      \* event_queue
          slot,        \* the MCU's pending event, or 0
          raised,      \* events raised so far
          seen,        \* the latest event printed, or dropped at startup
          hurt,        \* an event was lost or damaged before it was printed
          surplus,     \* answers that came, or will come, unasked or late
          faults       \* packets lost or damaged so far

mainVars  == <<phase, cmd, attempt>>
lineVars  == <<toMcu, toPc>>
queueVars == <<responses, events>>
eventVars == <<slot, raised, seen, hurt>>
vars == <<uart_idle, mainVars, running, threads, errors, lineVars, queueVars,
          eventVars, surplus, faults>>

Packet(k, n) == [kind |-> k, n |-> n]
Poll  == Packet("poll", 0)
Bad   == Packet("bad", 0)
Nack  == Packet("nack", 0)
Clean == Packet("ack", 0)

Requests == {Packet("cmd", c) : c \in 1 .. MaxCommands} \cup {Poll, Bad}
Replies  == {Packet("reply", c) : c \in 0 .. MaxCommands}
Events   == {Packet("event", e) : e \in 0 .. MaxEvents}

(* open() has written the startup ping; an event may be left from before.  *)
Init == /\ uart_idle \in Modes
        /\ phase = "ping" /\ cmd = 1 /\ attempt = 0
        /\ running = TRUE /\ threads = {} /\ errors = 0
        /\ toMcu = <<Packet("cmd", 1)>> /\ toPc = <<>>
        /\ responses = <<>> /\ events = <<>>
        /\ slot \in 0 .. 1 /\ raised = slot /\ seen = 0 /\ hurt = FALSE
        /\ surplus = 0 /\ faults = 0
-----------------------------------------------------------------------------
(* What ends in response_queue unless somebody else reads it first.        *)
IsAnswer(p) == p.kind \in {"reply", "nack", "cmd", "bad"}
Answers(q)  == Cardinality({i \in DOMAIN q : IsAnswer(q[i])})
Outstanding == Answers(toMcu) + Answers(toPc)

(* An event that can be told, and the latest one once q has been read.     *)
IsEvent(p)  == p.kind = "event" /\ p.n # 0
EventsAt(q) == {i \in DOMAIN q : IsEvent(q[i])}
Latest(q)   == IF EventsAt(q) = {} THEN seen ELSE q[Max(EventsAt(q))].n

(* The MCU.  A damaged packet raises FAILED_PACKET beside its NACK.        *)
Raisable == slot = 0 /\ raised < MaxEvents
Raise == /\ Raisable
         /\ slot' = raised + 1 /\ raised' = raised + 1

McuEvent == /\ Raise
            /\ UNCHANGED <<uart_idle, mainVars, running, threads, errors, lineVars,
                           queueVars, seen, hurt, surplus, faults>>

McuFlush == /\ ~uart_idle /\ slot # 0
            /\ toPc' = Append(toPc, Packet("event", slot))
            /\ slot' = 0
            /\ UNCHANGED <<uart_idle, mainVars, running, threads, errors, toMcu,
                           queueVars, raised, seen, hurt, surplus, faults>>

McuAnswer ==
  /\ toMcu # <<>>
  /\ toMcu' = Tail(toMcu)
  /\ LET p == Head(toMcu)
     IN  \/ /\ p.kind = "cmd"
            /\ toPc' = Append(toPc, Packet("reply", p.n))
            /\ UNCHANGED <<slot, raised>>
         \/ /\ p.kind = "bad"
            /\ toPc' = Append(toPc, Nack)
            /\ Raise \/ (~Raisable /\ UNCHANGED <<slot, raised>>)
         \/ /\ p.kind = "poll"
            /\ toPc' = Append(toPc, IF slot = 0 THEN Clean ELSE Packet("event", slot))
            /\ slot' = 0 /\ UNCHANGED raised
  /\ UNCHANGED <<uart_idle, mainVars, running, threads, errors, queueVars, seen, hurt,
                 surplus, faults>>
-----------------------------------------------------------------------------
(* The line.  A packet of which a byte is lost takes the rest of its frame *)
(* from the next one: that one is damaged too, or vanishes.                *)
DamageRequest ==
  /\ toMcu # <<>> /\ faults < MaxFaults
  /\ faults' = faults + 1
  /\ \/ toMcu' = Tail(toMcu) /\ UNCHANGED surplus
     \/ /\ toMcu' = <<Bad>> \o Tail(toMcu)
        /\ surplus' = IF Head(toMcu).kind = "poll" THEN surplus + 1 ELSE surplus
  /\ UNCHANGED <<uart_idle, mainVars, running, threads, errors, toPc, queueVars, eventVars>>

(* What is left of a reply may look like a packet of any kind.             *)
Misread == {Packet("reply", 0), Nack, Packet("event", 0), Clean}

DamageReply ==
  /\ toPc # <<>> /\ faults < MaxFaults
  /\ faults' = faults + 1
  /\ \/ toPc' = Tail(toPc) /\ UNCHANGED surplus
     \/ \E p \in Misread :
          /\ toPc' = <<p>> \o Tail(toPc)
          /\ surplus' = IF IsAnswer(p) /\ ~IsAnswer(Head(toPc))
                        THEN surplus + 1 ELSE surplus
  /\ hurt' = (hurt \/ Head(toPc).kind = "event")
  /\ UNCHANGED <<uart_idle, mainVars, running, threads, errors, toMcu, queueVars,
                 slot, raised, seen>>
-----------------------------------------------------------------------------
(* _synch_with_mcu: whatever fills 18 bytes passes for the echo, and what  *)
(* else has arrived with it is thrown away, the first bytes of the next    *)
(* packet too, whose rest is misread; or five seconds pass.                *)
Echo == /\ phase = "ping"
        /\ \E k \in 0 .. Len(toPc) :
             /\ k = 0 => Outstanding = 0 \/ surplus < MaxLate
             /\ LET rest == SubSeq(toPc, k + 1, Len(toPc))
                IN  \/ toPc' = rest /\ UNCHANGED hurt
                    \/ /\ rest # <<>>
                       /\ \E p \in Misread : toPc' = <<p>> \o Tail(rest)
                       /\ hurt' = (hurt \/ Head(rest).kind = "event")
             /\ seen' = Latest(SubSeq(toPc, 1, k))
             /\ surplus' = Answers(toMcu) + Answers(toPc')
        /\ phase' = "drain"
        /\ UNCHANGED <<uart_idle, cmd, attempt, running, threads, errors, toMcu, queueVars,
                       slot, raised, faults>>

(* start(): the daemon threads.                                             *)
Daemons == {"rx", "listener"} \cup IF uart_idle THEN {"poll"} ELSE {}
StartThreads == phase' = "prompt" /\ attempt' = 0 /\ threads' = Daemons

(* drain_stale_events, one turn: a poll, if the MCU has to be asked, then a *)
(* packet or silence.                                                      *)
DrainPoll == /\ phase = "drain" /\ uart_idle /\ attempt < MaxPolls
             /\ toMcu' = Append(toMcu, Poll)
             /\ phase' = "drained"
             /\ UNCHANGED <<uart_idle, cmd, attempt, running, threads, errors, toPc, queueVars,
                            eventVars, surplus, faults>>

Draining == phase = IF uart_idle THEN "drained" ELSE "drain"

DrainEvent == /\ Draining /\ toPc # <<>> /\ Head(toPc).kind = "event"
              /\ attempt < MaxPolls
              /\ toPc' = Tail(toPc)
              /\ seen' = Latest(<<Head(toPc)>>)
              /\ phase' = "drain" /\ attempt' = attempt + 1
              /\ UNCHANGED <<uart_idle, cmd, running, threads, errors, toMcu, queueVars,
                             slot, raised, hurt, surplus, faults>>

(* A poll ACK, a stray reply, silence, or the last turn.                   *)
DrainEnd == /\ \/ /\ Draining /\ toPc # <<>> /\ Head(toPc).kind # "event"
                  /\ attempt < MaxPolls
                  /\ toPc' = Tail(toPc)
                  /\ surplus' = IF IsAnswer(Head(toPc)) THEN surplus - 1 ELSE surplus
               \/ Draining /\ UNCHANGED <<toPc, surplus>>
               \/ phase = "drain" /\ attempt = MaxPolls /\ UNCHANGED <<toPc, surplus>>
            /\ StartThreads
            /\ UNCHANGED <<uart_idle, cmd, running, errors, toMcu, queueVars, eventVars, faults>>
-----------------------------------------------------------------------------
(* The command thread: ping() and one chunk of execute(), by               *)
(* _send_with_retry.                                                       *)
Type == /\ phase = "prompt" /\ cmd < MaxCommands
        /\ cmd' = cmd + 1
        /\ phase' = "wait" /\ attempt' = 1
        /\ toMcu' = Append(toMcu, Packet("cmd", cmd + 1))
        /\ UNCHANGED <<uart_idle, running, threads, errors, toPc, queueVars, eventVars,
                       surplus, faults>>

(* Fault: one attempt too many.                                             *)
NextAttemptMore == IF attempt <= MaxRetries
                   THEN /\ attempt' = attempt + 1 /\ UNCHANGED phase
                        /\ toMcu' = Append(toMcu, Packet("cmd", cmd))
                   ELSE /\ attempt' = 0 /\ phase' = "prompt" /\ UNCHANGED toMcu

NextAttempt == IF attempt < MaxRetries
               THEN /\ attempt' = attempt + 1 /\ UNCHANGED phase
                    /\ toMcu' = Append(toMcu, Packet("cmd", cmd))
               ELSE /\ attempt' = 0 /\ phase' = "prompt" /\ UNCHANGED toMcu

Nacked == /\ phase = "wait" /\ responses # <<>> /\ Head(responses).kind = "nack"
          /\ responses' = Tail(responses)
          /\ NextAttempt
          /\ UNCHANGED <<uart_idle, cmd, running, threads, errors, toPc, events, eventVars,
                         surplus, faults>>

(* Any other packet in the queue is taken for the ACK.                     *)
Acked == /\ phase = "wait" /\ responses # <<>> /\ Head(responses).kind # "nack"
         /\ responses' = Tail(responses)
         /\ phase' = "prompt" /\ attempt' = 0
         /\ UNCHANGED <<uart_idle, cmd, running, threads, errors, lineVars, events, eventVars,
                        surplus, faults>>

(* Fault: get_response_packet waits without a timeout.                     *)
TimeoutNever == FALSE

(* No packet in time.  If the answer is only late it is one too many; it   *)
(* never comes if the receiver has stopped.                                *)
Timeout == /\ phase = "wait" /\ responses = <<>>
           /\ Outstanding = 0 \/ surplus < MaxLate \/ "rx" \notin threads
           /\ surplus' = IF Outstanding = 0 THEN surplus ELSE surplus + 1
           /\ NextAttempt
           /\ UNCHANGED <<uart_idle, cmd, running, threads, errors, toPc, queueVars, eventVars,
                          faults>>

(* exit_command: the port is closed with what is on the line.              *)
Exit == /\ phase = "prompt"
        /\ phase' = "closed"
        /\ running' = FALSE
        /\ UNCHANGED <<uart_idle, cmd, attempt, threads, errors, lineVars, queueVars, eventVars,
                       surplus, faults>>
-----------------------------------------------------------------------------
Alive(t) == t \in threads /\ running

(* Fault: the ACK is looked for before the event.                          *)
RouteAckFirst(p) ==
  CASE p.kind \in {"ack", "event"} -> UNCHANGED queueVars
    [] OTHER -> responses' = Append(responses, p) /\ UNCHANGED events

(* Fault: the ACK of a poll is not told from a reply.                       *)
RouteAcks(p) ==
  CASE p.kind = "event" -> events' = Append(events, p) /\ UNCHANGED responses
    [] OTHER            -> responses' = Append(responses, p) /\ UNCHANGED events

(* rx_worker on a packet: an event, a clean poll ACK, or anything else.    *)
Route(p) ==
  CASE p.kind = "event" -> events' = Append(events, p) /\ UNCHANGED responses
    [] p.kind = "ack"   -> UNCHANGED queueVars
    [] OTHER            -> responses' = Append(responses, p) /\ UNCHANGED events

RxPacket == /\ Alive("rx") /\ toPc # <<>>
            /\ toPc' = Tail(toPc)
            /\ Route(Head(toPc))
            /\ errors' = 0
            /\ UNCHANGED <<uart_idle, mainVars, running, threads, toMcu, eventVars, surplus,
                           faults>>

RxNothing == /\ Alive("rx") /\ toPc = <<>>
             /\ errors' = 0
             /\ UNCHANGED <<uart_idle, mainVars, running, threads, lineVars, queueVars, eventVars,
                            surplus, faults>>

(* An exception in read_packet: back off, or stop for good.                *)
RxError == /\ Alive("rx")
           /\ errors' = errors + 1
           /\ running' = (errors' < MaxErrors)
           /\ UNCHANGED <<uart_idle, mainVars, threads, lineVars, queueVars, eventVars, surplus,
                          faults>>

(* EIO, the adapter is unplugged: os._exit ends the process, and what is   *)
(* on the line or queued goes with it.                                     *)
Unplugged == /\ Alive("rx")
             /\ running' = FALSE /\ phase' = "closed" /\ threads' = {}
             /\ toMcu' = <<>> /\ toPc' = <<>> /\ responses' = <<>> /\ events' = <<>>
             /\ hurt' = TRUE
             /\ UNCHANGED <<uart_idle, cmd, attempt, errors, slot, raised, seen, surplus, faults>>

(* _event_listener; an event whose type is not known is only logged.       *)
Listen == /\ Alive("listener") /\ events # <<>>
          /\ events' = Tail(events)
          /\ seen' = Latest(<<Head(events)>>)
          /\ UNCHANGED <<uart_idle, mainVars, running, threads, errors, lineVars, responses, slot,
                         raised, hurt, surplus, faults>>

(* Fault: the poll worker has no loop.                                      *)
SendPollOnce == /\ Alive("poll")
                /\ toMcu' = Append(toMcu, Poll)
                /\ threads' = threads \ {"poll"}
                /\ UNCHANGED <<uart_idle, mainVars, running, errors, toPc, queueVars, eventVars,
                               surplus, faults>>

(* _event_poll_worker.  Half a second is long: the last poll has left and  *)
(* most answers are read.                                                  *)
SendPoll == /\ Alive("poll")
            /\ \A i \in DOMAIN toMcu : toMcu[i].kind # "poll"
            /\ Len(toPc) < Backlog
            /\ toMcu' = Append(toMcu, Poll)
            /\ UNCHANGED <<uart_idle, mainVars, running, threads, errors, toPc, queueVars,
                           eventVars, surplus, faults>>

(* A thread sees that running is False.                                    *)
ThreadEnds(t) == /\ t \in threads /\ ~running
                 /\ threads' = threads \ {t}
                 /\ UNCHANGED <<uart_idle, mainVars, running, errors, lineVars, queueVars,
                                eventVars, surplus, faults>>
-----------------------------------------------------------------------------
Mcu     == McuFlush \/ McuAnswer
Line    == DamageRequest \/ DamageReply
Startup == Echo \/ DrainPoll \/ DrainEvent \/ DrainEnd
Await   == Nacked \/ Acked \/ Timeout
Receive == RxPacket \/ RxNothing
Ending  == \E t \in {"rx", "listener", "poll"} : ThreadEnds(t)

Next == McuEvent \/ Mcu \/ Line \/ Startup \/ Type \/ Await \/ Exit
          \/ Receive \/ RxError \/ Unplugged \/ Listen \/ SendPoll \/ Ending

Spec == Init /\ [][Next]_vars

(* Every thread runs, and so does the MCU; nobody has to type.             *)
FairSpec == /\ Spec
            /\ WF_vars(Mcu) /\ WF_vars(Startup) /\ WF_vars(Await)
            /\ WF_vars(Receive) /\ WF_vars(Listen) /\ WF_vars(SendPoll) /\ WF_vars(Ending)
-----------------------------------------------------------------------------
TypeOK ==
  /\ uart_idle \in BOOLEAN /\ running \in BOOLEAN /\ hurt \in BOOLEAN
  /\ phase \in {"ping", "drain", "drained", "prompt", "wait", "closed"}
  /\ cmd \in 1 .. MaxCommands /\ attempt \in 0 .. MaxRetries + MaxPolls
  /\ phase = "wait" => attempt \in 1 .. MaxRetries
  /\ threads \subseteq Daemons /\ errors \in 0 .. MaxErrors
  /\ toMcu \in Seq(Requests) /\ toPc \in Seq(Replies \cup Events \cup {Nack, Clean})
  /\ responses \in Seq(Replies \cup {Nack}) /\ events \in Seq(Events)
  /\ slot \in 0 .. raised /\ raised \in 0 .. MaxEvents /\ seen \in 0 .. raised
  /\ surplus \in Nat /\ faults \in 0 .. MaxFaults

Waiting == IF phase \in {"ping", "wait"} THEN 1 ELSE 0

(* Replies are told apart by their order alone.  The answers on their way  *)
(* are at most the one waited for and those that damaged polls and late    *)
(* answers have added, however commands, polls and retries interleave; and *)
(* as long as nothing was added, a reply is to the command waited for.     *)
RepliesMatch ==
  /\ Outstanding + Len(responses) <= Waiting + surplus
  /\ surplus = 0 => \A q \in {toPc, responses} : \A i \in DOMAIN q :
                      q[i].kind = "reply" /\ q[i].n # 0 => q[i].n = cmd

(* From the slot to the screen events keep their order, none is doubled,   *)
(* and none is lost unless the line damages it.                            *)
Underway == events \o toPc \o IF slot = 0 THEN <<>> ELSE <<Packet("event", slot)>>
EventsKept ==
  /\ \A i \in EventsAt(Underway) :
       /\ Underway[i].n \in seen + 1 .. raised
       /\ \A j \in EventsAt(Underway) : i < j => Underway[i].n < Underway[j].n
  /\ ~hurt => \A e \in seen + 1 .. raised :
                \E i \in EventsAt(Underway) : Underway[i].n = e

(* A command ends, by a reply or by giving up, whatever is lost and even   *)
(* if the receiver has stopped; and EXIT ends every thread.                *)
CommandsEnd == /\ phase = "wait" ~> phase # "wait"
               /\ phase = "closed" ~> threads = {}

(* An event reaches the screen, in UART-idle mode too, where the MCU never *)
(* speaks first: unless it is damaged, or the reader has stopped.          *)
EventsArrive == \A e \in 1 .. MaxEvents : slot = e ~> seen >= e \/ hurt \/ ~running
=============================================================================
