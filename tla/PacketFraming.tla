---------------------------- MODULE PacketFraming ----------------------------
(***************************************************************************)
(* How commands cross the UART in poll mode: the PC sends a fixed-size     *)
(* packet byte by byte and retries it (commander.py), bytes may be lost or *)
(* corrupted on the line or dropped by a full receive ring, the MCU        *)
(* rebuilds frames from what arrives (mcu_mdt.c), and its answers may come *)
(* too late, be lost, or reach the PC as something else.                   *)
(*                                                                         *)
(* A byte is the packet it belongs to and its position.  Position 1 holds  *)
(* MDT_START_BYTE; Alias gives the other positions of a packet whose value *)
(* happens to be the START byte too (an address, a data or a CRC byte      *)
(* 0xAA).  The CRC is taken to accept exactly the frames that are a whole  *)
(* packet the PC can send.  The receive ring is a FIFO (see RingBuffer).   *)
(* What the MCU sends is counted in packets: ACK, NACK or an event.        *)
(***************************************************************************)
EXTENDS Naturals, Sequences

CONSTANTS PacketSize,   (* MDT_PACKET_SIZE                                 *)
          RingSize,     (* bytes the receive ring holds                    *)
          Packet,       (* the packets the PC may send                     *)
          Alias,        (* positions, after the first, that look like START*)
          Noise,        (* the packet a corrupted byte belongs to: none    *)
          MaxRetries,   (* MDT_MAX_RETRIES: attempts per command           *)
          MaxFaults     (* bound on bytes lost or corrupted, on answers    *)
                        (* that come after the PC's timeout and on packets *)
                        (* from the MCU lost or misread, together          *)

ASSUME PacketAssumption ==
  /\ PacketSize \in Nat /\ PacketSize > 1
  /\ RingSize \in Nat
  /\ Noise \notin Packet
  /\ Alias \in [Packet -> SUBSET (2 .. PacketSize)]

VARIABLES
  command, attempt, sent, phase,   \* _send_with_retry on the PC
  rx, rx_overflow,                 \* the receive ring and its overflow flag
  started, frame,                  \* packet_buffer; its idx is Len(frame)
  event,                           \* the pending event, or "none"
  tx,                              \* what the MCU sent and the PC did not read
  at,                              \* where mcu_mdt_poll is
  faults,                          \* bytes lost or corrupted so far
  late,                            \* timeouts before the MCU had answered
  unheard,                         \* packets from the MCU lost or misread
  executed,                        \* how often the MCU ran the command
  dropped                          \* a byte was dropped and not reported

pcVars    == <<command, attempt, sent, phase>>
frameVars == <<started, frame>>
ringVars  == <<rx, rx_overflow, dropped>>
faultVars == <<faults, late, unheard>>
Budget    == faults + late + unheard < MaxFaults
vars == <<pcVars, ringVars, frameVars, event, tx, at, faultVars, executed>>

Position == 1 .. PacketSize
ByteOf(p, i) == [packet |-> p, pos |-> i]
NoiseByte == {ByteOf(Noise, 1), ByteOf(Noise, 2)}   \* START-like or not
Bytes == {ByteOf(p, i) : p \in Packet, i \in Position} \cup NoiseByte

(* Fault: any byte starts a frame.                                          *)
IsStartAlways(b) == TRUE

IsStart(b) == b.pos = 1 \/ (b.packet \in Packet /\ b.pos \in Alias[b.packet])

(* mdt_packet_validate.                                                    *)
Valid(f) == \E p \in Packet : f = [i \in Position |-> ByteOf(p, i)]

Replies == {"ACK", "NACK"}
Events  == {"BUFFER_OVERFLOW", "FAILED_PACKET"}

Init == /\ command \in Packet
        /\ attempt = 1
        /\ sent = 0
        /\ phase = "sending"
        /\ rx = <<>>
        /\ rx_overflow = FALSE
        /\ started = FALSE
        /\ frame = <<>>
        /\ event = "none"
        /\ tx = <<>>
        /\ at = "out"
        /\ faults = 0
        /\ late = 0
        /\ unheard = 0
        /\ executed = 0
        /\ dropped = FALSE
-----------------------------------------------------------------------------
(* The PC: send_packet, then wait for a reply; a NACK or a timeout starts  *)
(* the next attempt, any other reply ends the command.                     *)

(* The receive interrupt: push the byte or raise the overflow flag.        *)
Arrive(b) == IF Len(rx) < RingSize
             THEN rx' = Append(rx, b) /\ UNCHANGED <<rx_overflow, dropped>>
             ELSE rx_overflow' = TRUE /\ dropped' = TRUE /\ UNCHANGED rx

SendByte == /\ phase = "sending"
            /\ sent' = sent + 1
            /\ phase' = IF sent' = PacketSize THEN "waiting" ELSE "sending"
            /\ \/ Arrive(ByteOf(command, sent')) /\ UNCHANGED faults
               \/ /\ Budget
                  /\ faults' = faults + 1
                  /\ \/ \E b \in NoiseByte : Arrive(b)
                     \/ UNCHANGED ringVars
            /\ UNCHANGED <<command, attempt, frameVars, event, tx, at, late,
                           unheard, executed>>

(* Fault: one attempt too few.                                              *)
NextAttemptShort ==
  IF attempt + 1 < MaxRetries
  THEN attempt' = attempt + 1 /\ sent' = 0 /\ phase' = "sending"
  ELSE phase' = "failed" /\ UNCHANGED <<attempt, sent>>

NextAttempt == IF attempt < MaxRetries
               THEN attempt' = attempt + 1 /\ sent' = 0 /\ phase' = "sending"
               ELSE phase' = "failed" /\ UNCHANGED <<attempt, sent>>

(* Fault: any reply counts as success.                                      *)
GetAckAny == /\ phase = "waiting"
             /\ tx # <<>> /\ Head(tx) \in Replies
             /\ tx' = Tail(tx)
             /\ phase' = "done"
             /\ UNCHANGED <<command, attempt, sent, ringVars, frameVars, event,
                            at, faultVars, executed>>

GetAck == /\ phase = "waiting"
          /\ tx # <<>> /\ Head(tx) = "ACK"
          /\ tx' = Tail(tx)
          /\ phase' = "done"
          /\ UNCHANGED <<command, attempt, sent, ringVars, frameVars, event, at,
                         faultVars, executed>>

GetNack == /\ phase = "waiting"
           /\ tx # <<>> /\ Head(tx) = "NACK"
           /\ tx' = Tail(tx)
           /\ NextAttempt
           /\ UNCHANGED <<command, ringVars, frameVars, event, at, faultVars,
                          executed>>

(* rx_worker puts events on a queue of their own, at any time.             *)
GetEvent == /\ tx # <<>> /\ Head(tx) \in Events
            /\ tx' = Tail(tx)
            /\ UNCHANGED <<pcVars, ringVars, frameVars, event, at, faultVars,
                           executed>>

(* read_packet looks for a START byte and takes the 18 bytes from there,   *)
(* whatever they are: a packet of which bytes were lost or corrupted is no *)
(* packet at all, or passes for another reply.                             *)
Mishear == /\ tx # <<>>
           /\ Budget
           /\ unheard' = unheard + 1
           /\ \/ tx' = Tail(tx)
              \/ \E r \in Replies : tx' = <<r>> \o Tail(tx)
           /\ UNCHANGED <<pcVars, ringVars, frameVars, event, at, faults, late,
                          executed>>

(* A timeout is due when the MCU has taken every byte and no answer is on  *)
(* its way: the request or the answer was lost.  One that is not due       *)
(* counts as late.                                                         *)
Timeout == /\ phase = "waiting"
           /\ \/ rx = <<>> /\ tx = <<>> /\ UNCHANGED late
              \/ /\ rx # <<>> \/ tx # <<>>
                 /\ Budget
                 /\ late' = late + 1
           /\ NextAttempt
           /\ UNCHANGED <<command, ringVars, frameVars, event, tx, at, faults,
                          unheard, executed>>

NewCommand == /\ phase \in {"done", "failed"}
              /\ command' \in Packet
              /\ attempt' = 1
              /\ sent' = 0
              /\ phase' = "sending"
              /\ executed' = 0
              /\ UNCHANGED <<ringVars, frameVars, event, tx, at, faultVars>>
-----------------------------------------------------------------------------
(* The MCU: mcu_mdt_poll.  Bytes may arrive between its steps.             *)

EventSet(e) == event' = IF event = "none" THEN e ELSE event

(* Fault: the index is not reset.                                           *)
BufferResetHalf == started' = FALSE /\ UNCHANGED frame

BufferReset == started' = FALSE /\ frame' = <<>>

(* Fault: an event is sent whether or not one is pending.                   *)
PollFlushUnasked == /\ at = "out"
                    /\ at' = "guard"
                    /\ IF tx = <<>>
                       THEN tx' = <<event>> /\ event' = "none"
                       ELSE UNCHANGED <<tx, event>>
                    /\ UNCHANGED <<pcVars, ringVars, frameVars, faultVars,
                                   executed>>

(* Step 1: send the pending event once everything before it has left.      *)
PollFlush == /\ at = "out"
             /\ at' = "guard"
             /\ IF event # "none" /\ tx = <<>>
                THEN /\ tx' = <<event>>
                     /\ event' = "none"
                     /\ dropped' = (dropped /\ event # "BUFFER_OVERFLOW")
                ELSE UNCHANGED <<tx, event, dropped>>
             /\ UNCHANGED <<pcVars, rx, rx_overflow, frameVars, faultVars,
                            executed>>

(* Fault: every poll starts with an empty packet buffer.                    *)
PollGuardResets == /\ at = "guard"
                   /\ BufferReset
                   /\ at' = "drain"
                   /\ UNCHANGED <<pcVars, ringVars, event, tx, faultVars,
                                  executed>>

(* Step 2: mdt_buffer_guard.                                               *)
PollGuard == /\ at = "guard"
             /\ IF rx_overflow
                THEN /\ rx_overflow' = FALSE
                     /\ BufferReset
                     /\ EventSet("BUFFER_OVERFLOW")
                     /\ at' = "out"
                ELSE /\ at' = "drain"
                     /\ UNCHANGED <<rx_overflow, frameVars, event>>
             /\ UNCHANGED <<pcVars, rx, tx, faultVars, executed, dropped>>

(* mdt_handle_packet on the complete frame f.                              *)
HandlePacket(f) ==
  /\ BufferReset
  /\ IF Valid(f)
     THEN /\ tx' = Append(tx, "ACK")
          /\ executed' = executed + 1
          /\ UNCHANGED event
     ELSE /\ tx' = Append(tx, "NACK")
          /\ EventSet("FAILED_PACKET")
          /\ UNCHANGED executed

(* mdt_process_byte.                                                       *)
ProcessByte(b) ==
  IF ~started
  THEN /\ IF IsStart(b) THEN started' = TRUE /\ frame' = <<b>>
                        ELSE UNCHANGED frameVars
       /\ UNCHANGED <<event, tx, executed>>
  ELSE IF Len(frame) >= PacketSize
  THEN /\ EventSet("BUFFER_OVERFLOW")
       /\ BufferReset
       /\ UNCHANGED <<tx, executed>>
  ELSE IF Len(frame) + 1 < PacketSize
  THEN /\ frame' = Append(frame, b)
       /\ UNCHANGED <<started, event, tx, executed>>
  ELSE HandlePacket(Append(frame, b))

(* Step 3: drain the ring.                                                 *)
PollByte == /\ at = "drain"
            /\ rx # <<>>
            /\ rx' = Tail(rx)
            /\ ProcessByte(Head(rx))
            /\ UNCHANGED <<pcVars, rx_overflow, at, faultVars, dropped>>

PollEnd == /\ at = "drain"
           /\ rx = <<>>
           /\ at' = "out"
           /\ UNCHANGED <<pcVars, ringVars, frameVars, event, tx, faultVars,
                          executed>>
-----------------------------------------------------------------------------
PC  == SendByte \/ GetAck \/ GetNack \/ GetEvent \/ Timeout \/ NewCommand
MCU == PollFlush \/ PollGuard \/ PollByte \/ PollEnd

Next == PC \/ Mishear \/ MCU

Spec == Init /\ [][Next]_vars

(* The PC keeps working and the MCU's main loop keeps calling mcu_mdt_poll. *)
FairSpec == Spec /\ WF_vars(PC) /\ WF_vars(MCU)
-----------------------------------------------------------------------------
TypeOK == /\ command \in Packet
          /\ attempt \in Nat
          /\ sent \in 0 .. PacketSize
          /\ phase = "sending" => sent < PacketSize
          /\ phase \in {"sending", "waiting", "done", "failed"}
          /\ rx \in Seq(Bytes) /\ Len(rx) <= RingSize
          /\ rx_overflow \in BOOLEAN
          /\ started \in BOOLEAN
          /\ frame \in Seq(Bytes)
          /\ event \in Events \cup {"none"}
          /\ tx \in Seq(Replies \cup Events)
          /\ at \in {"out", "guard", "drain"}
          /\ faults \in Nat /\ late \in Nat /\ unheard \in Nat
          /\ executed \in Nat
          /\ dropped \in BOOLEAN

(* Between two bytes packet_buffer is either empty and not started, or     *)
(* holds a START-like byte and leaves room for the next byte.  So buf is   *)
(* never written past its end, and the overflow branch of mdt_process_byte *)
(* is unreachable: a full frame is always handled and reset at once.       *)
FrameBounds == IF started
               THEN Len(frame) \in 1 .. PacketSize - 1 /\ IsStart(frame[1])
               ELSE frame = <<>>

(* As long as no request is damaged and the PC never moves on too early,   *)
(* the MCU never drops a byte and never loses sync, whatever the packets   *)
(* contain and however many answers are lost: what it has is the beginning *)
(* of a packet, and a START byte inside a packet is never taken for one.   *)
InSync == faults = 0 /\ late = 0
            => ~dropped /\ \A i \in DOMAIN frame : frame[i].pos = i

(* A retry repeats what was already done only after an answer came late,   *)
(* was lost or was misread: at most one repetition for each of these, and  *)
(* none for any damage to the requests.  Without them the PC knows whether *)
(* its command ran: once if it saw an ACK, not at all if it gave up.       *)
RunOnce == /\ executed <= 1 + late + unheard
           /\ late + unheard = 0 /\ phase = "done" => executed = 1
           /\ late + unheard = 0 /\ phase = "failed" => executed = 0

(* No command so far holds a START-like byte after its first.              *)
Plain == Alias[command] = {}

(* MDT_MAX_RETRIES attempts are enough for a single lost or corrupted byte,*)
(* late answer or damaged answer: no plain command fails before a second   *)
(* fault.                                                                  *)
OneFaultMasked ==
  []Plain => [](phase = "failed" => faults + late + unheard > 1)

(* Resynchronisation: the faults of a behaviour are finitely many, and     *)
(* after the last of them plain commands sooner or later stop failing.     *)
LinkHeals == []Plain => <>[](phase # "failed")

(* The same of all commands: the MCU only has to wait for the START byte.  *)
ResyncAlways == <>[](phase # "failed")
=============================================================================
