------------------------ MODULE PacketFramingProofs ------------------------
(***************************************************************************)
(* Proofs about PacketFraming for every packet size, ring size, set of     *)
(* packets and number of faults: type correctness, the bounds of the       *)
(* packet buffer, the step of MCU and PC, how often a command runs, and    *)
(* that three attempts mask one fault.                                     *)
(***************************************************************************)
EXTENDS PacketFraming, SequenceTheorems, FiniteSetTheorems, TLAPS

USE PacketAssumption

(* Appending keeps a sequence a sequence and leaves its head alone.        *)
LEMMA AppendLemma ==
  ASSUME NEW S, NEW s \in Seq(S), NEW e \in S
  PROVE  /\ Append(s, e) \in Seq(S)
         /\ Len(Append(s, e)) = Len(s) + 1
         /\ Len(s) \in Nat
         /\ Len(s) > 0 => Append(s, e)[1] = s[1]
  OBVIOUS

(* What the PC sends and what noise makes of it are bytes.                  *)
LEMMA ByteLemma == /\ \A x \in Packet, i \in Position : ByteOf(x, i) \in Bytes
                   /\ NoiseByte \subseteq Bytes
  BY DEF Bytes

(* The initial state is well typed and the packet buffer empty.            *)
THEOREM InitIInv == Init => TypeOK /\ FrameBounds
<1>. SUFFICES ASSUME Init PROVE TypeOK /\ FrameBounds
  OBVIOUS
<1>1. /\ <<>> \in Seq(Bytes) /\ Len(<<>>) = 0
      /\ <<>> \in Seq(Replies \cup Events)
  OBVIOUS
<1>2. TypeOK
  <2>1. 1 \in Nat /\ 0 \in Nat /\ 0 \in 0 .. PacketSize /\ 0 < PacketSize
        /\ 0 <= RingSize
    OBVIOUS
  <2>2. /\ rx \in Seq(Bytes) /\ Len(rx) <= RingSize
        /\ frame \in Seq(Bytes) /\ tx \in Seq(Replies \cup Events)
    BY <1>1, <2>1, Zenon DEF Init
  <2>3. sent \in 0 .. PacketSize /\ sent < PacketSize /\ attempt \in Nat
        /\ faults \in Nat /\ late \in Nat /\ unheard \in Nat /\ executed \in Nat
    BY <2>1 DEF Init
  <2>. QED
    BY <2>2, <2>3, Zenon DEF Init, TypeOK
<1>3. FrameBounds
  BY DEF Init, FrameBounds
<1>. QED
  BY <1>2, <1>3

(* One byte taken from the ring: mdt_process_byte keeps the types and the  *)
(* bounds, and does not take the overflow branch.                          *)
LEMMA ProcessByteLemma ==
  ASSUME TypeOK, FrameBounds, NEW b \in Bytes, ProcessByte(b)
  PROVE  /\ started' \in BOOLEAN
         /\ frame' \in Seq(Bytes)
         /\ event' \in Events \cup {"none"}
         /\ tx' \in Seq(Replies \cup Events)
         /\ executed' \in Nat
         /\ FrameBounds'
<1>. DEFINE full == Append(frame, b)
<1>1. /\ <<b>> \in Seq(Bytes) /\ Len(<<b>>) = 1 /\ <<b>>[1] = b
      /\ <<>> \in Seq(Bytes)
  OBVIOUS
<1>2. /\ frame \in Seq(Bytes) /\ started \in BOOLEAN /\ executed \in Nat
      /\ event \in Events \cup {"none"} /\ tx \in Seq(Replies \cup Events)
  BY DEF TypeOK
<1>3. /\ full \in Seq(Bytes) /\ Len(full) = Len(frame) + 1
      /\ Len(frame) \in Nat /\ (Len(frame) > 0 => full[1] = frame[1])
  BY <1>2, AppendLemma
<1>4. /\ Append(tx, "ACK") \in Seq(Replies \cup Events)
      /\ Append(tx, "NACK") \in Seq(Replies \cup Events)
  BY <1>2, AppendLemma DEF Replies
<1>5. CASE ~started
  <2>1. frame = <<>>
    BY <1>5 DEF FrameBounds
  <2>2. event' = event /\ tx' = tx /\ executed' = executed
    BY <1>5 DEF ProcessByte
  <2>3. CASE IsStart(b)
    <3>1. started' = TRUE /\ frame' = <<b>>
      BY <1>5, <2>3 DEF ProcessByte
    <3>2. Len(frame') \in 1 .. PacketSize - 1 /\ frame'[1] = b
      BY <3>1, <1>1
    <3>3. FrameBounds'
      BY <3>1, <3>2, <2>3 DEF FrameBounds, IsStart
    <3>. QED
      BY <3>1, <3>3, <2>2, <1>1, <1>2
  <2>4. CASE ~IsStart(b)
    <3>1. started' = started /\ frame' = frame
      BY <1>5, <2>4 DEF ProcessByte, frameVars
    <3>2. FrameBounds'
      BY <3>1, <2>1, <1>5 DEF FrameBounds
    <3>. QED
      BY <3>1, <3>2, <2>2, <1>2
  <2>. QED
    BY <2>3, <2>4
<1>6. CASE started /\ Len(frame) + 1 < PacketSize
  <2>1. Len(frame) \in 1 .. PacketSize - 1 /\ IsStart(frame[1])
    BY <1>6 DEF FrameBounds
  <2>5. ~(Len(frame) >= PacketSize)
    BY <1>6, <1>3
  <2>2. /\ frame' = full /\ started' = started
        /\ event' = event /\ tx' = tx /\ executed' = executed
    BY <1>6, <2>5, Zenon DEF ProcessByte
  <2>3. Len(frame') \in 1 .. PacketSize - 1 /\ frame'[1] = frame[1]
    BY <2>1, <2>2, <1>3, <1>6
  <2>4. FrameBounds'
    BY <2>1, <2>2, <2>3, <1>6 DEF FrameBounds, IsStart
  <2>. QED
    BY <2>2, <2>4, <1>2, <1>3
<1>7. CASE started /\ ~(Len(frame) + 1 < PacketSize)
  <2>1. Len(frame) \in 1 .. PacketSize - 1
    BY <1>7 DEF FrameBounds
  <2>2. HandlePacket(full)
    BY <1>7, <1>3, <2>1 DEF ProcessByte
  <2>3. started' = FALSE /\ frame' = <<>>
    BY <2>2 DEF HandlePacket, BufferReset
  <2>4. FrameBounds'
    BY <2>3 DEF FrameBounds
  <2>. HIDE DEF full
  <2>5. tx' \in Seq(Replies \cup Events) /\ executed' \in Nat
    BY <2>2, <1>2, <1>4 DEF HandlePacket
  <2>6. event' \in Events \cup {"none"}
    BY <2>2, <1>2 DEF HandlePacket, EventSet, Events
  <2>. QED
    BY <2>3, <2>4, <2>5, <2>6, <1>1
<1>. QED
  BY <1>5, <1>6, <1>7

(* The receive interrupt keeps the types of the ring and its bound.        *)
LEMMA ArriveLemma ==
  ASSUME TypeOK, NEW b \in Bytes, Arrive(b)
  PROVE  /\ rx' \in Seq(Bytes) /\ Len(rx') <= RingSize
         /\ rx_overflow' \in BOOLEAN
         /\ dropped' \in BOOLEAN
<1>1. /\ Append(rx, b) \in Seq(Bytes) /\ Len(Append(rx, b)) = Len(rx) + 1
      /\ Len(rx) \in Nat
  BY AppendLemma DEF TypeOK
<1>2. CASE Len(rx) < RingSize
  <2>1. /\ rx' = Append(rx, b) /\ rx_overflow' = rx_overflow
        /\ dropped' = dropped
    BY <1>2 DEF Arrive
  <2>2. Len(Append(rx, b)) <= RingSize
    BY <1>1, <1>2
  <2>. QED
    BY <1>1, <2>1, <2>2, Zenon DEF TypeOK
<1>3. CASE ~(Len(rx) < RingSize)
  BY <1>3 DEF TypeOK, Arrive
<1>. QED
  BY <1>2, <1>3

(* A packet lost or misread leaves packets on their way.                   *)
LEMMA MishearTypes ==
  ASSUME TypeOK, Mishear
  PROVE  tx' \in Seq(Replies \cup Events)
<1>1. tx \in Seq(Replies \cup Events) /\ tx # <<>>
  BY DEF TypeOK, Mishear
<1>2. Tail(tx) \in Seq(Replies \cup Events)
  BY <1>1, HeadTailProperties
<1>3. ASSUME NEW r \in Replies
      PROVE  <<r>> \o Tail(tx) \in Seq(Replies \cup Events)
  <2>1. <<r>> \in Seq(Replies \cup Events)
    OBVIOUS
  <2>. QED
    BY <1>2, <2>1, ConcatProperties
<1>. QED
  BY <1>2, <1>3 DEF Mishear

(* Every step keeps the types and the bounds of the packet buffer.         *)
THEOREM StepIInv ==
  TypeOK /\ FrameBounds /\ [Next]_vars => TypeOK' /\ FrameBounds'
<1>. SUFFICES ASSUME TypeOK, FrameBounds, [Next]_vars
              PROVE  TypeOK' /\ FrameBounds'
  OBVIOUS
<1>. USE DEF vars, pcVars, ringVars, frameVars, faultVars
<1>0. ASSUME UNCHANGED frameVars PROVE FrameBounds'
  BY <1>0 DEF FrameBounds
<1>1. CASE SendByte
  <2>1. sent' \in 1 .. PacketSize
    <3>1. sent' = sent + 1 /\ sent \in 0 .. PacketSize
      BY <1>1 DEF SendByte, TypeOK
    <3>2. sent # PacketSize
      BY <1>1 DEF SendByte, TypeOK
    <3>. QED
      BY <3>1, <3>2
  <2>2. /\ rx' \in Seq(Bytes) /\ Len(rx') <= RingSize
        /\ rx_overflow' \in BOOLEAN /\ dropped' \in BOOLEAN
    <3>1. CASE Arrive(ByteOf(command, sent'))
      <4>1. ByteOf(command, sent') \in Bytes
        BY <2>1, ByteLemma DEF TypeOK, Position
      <4>. QED
        BY <4>1, <3>1, ArriveLemma
    <3>2. CASE \E b \in NoiseByte : Arrive(b)
      BY <3>2, ByteLemma, ArriveLemma
    <3>3. CASE UNCHANGED ringVars
      BY <3>3 DEF TypeOK
    <3>. QED
      BY <1>1, <3>1, <3>2, <3>3 DEF SendByte
  <2>3. /\ faults' \in Nat /\ phase' \in {"sending", "waiting"}
        /\ phase' = "sending" => sent' < PacketSize
    BY <1>1, <2>1 DEF SendByte, TypeOK
  <2>. QED
    BY <1>0, <1>1, <2>1, <2>2, <2>3 DEF SendByte, TypeOK
<1>2. ASSUME GetAck \/ GetNack \/ GetEvent PROVE TypeOK' /\ FrameBounds'
  <2>1. tx \in Seq(Replies \cup Events) /\ tx # <<>>
    BY <1>2 DEF GetAck, GetNack, GetEvent, TypeOK
  <2>2. tx' \in Seq(Replies \cup Events)
    BY <1>2, <2>1, HeadTailProperties, Zenon DEF GetAck, GetNack, GetEvent
  <2>3. /\ UNCHANGED <<command, ringVars, frameVars, event, at, faultVars, executed>>
        /\ \/ UNCHANGED <<attempt, sent>> /\ phase' \in {phase, "done"}
           \/ NextAttempt
    BY <1>2 DEF GetAck, GetNack, GetEvent
  <2>4. /\ attempt' \in Nat /\ sent' \in 0 .. PacketSize
        /\ phase' = "sending" => sent' < PacketSize
    BY <2>3 DEF NextAttempt, TypeOK
  <2>5. phase' \in {"sending", "waiting", "done", "failed"}
    BY <2>3 DEF NextAttempt, TypeOK
  <2>. QED
    BY <1>0, <2>2, <2>3, <2>4, <2>5 DEF TypeOK
<1>3. CASE Timeout
  <2>1. /\ attempt' \in Nat /\ sent' \in 0 .. PacketSize
        /\ phase' = "sending" => sent' < PacketSize
        /\ phase' \in {"sending", "waiting", "done", "failed"}
    BY <1>3 DEF Timeout, NextAttempt, TypeOK
  <2>2. late' \in Nat
    BY <1>3 DEF Timeout, TypeOK
  <2>3. UNCHANGED <<command, ringVars, frameVars, event, tx, at, faults,
                    unheard, executed>>
    BY <1>3 DEF Timeout
  <2>. QED
    BY <1>0, <2>1, <2>2, <2>3 DEF TypeOK
<1>4. CASE NewCommand
  BY <1>0, <1>4 DEF NewCommand, TypeOK
<1>5. CASE PollFlush
  <2>1. tx' \in Seq(Replies \cup Events) /\ event' \in Events \cup {"none"}
    <3>1. CASE event # "none" /\ tx = <<>>
      <4>1. event \in Replies \cup Events
        BY <3>1 DEF TypeOK
      <4>2. <<event>> \in Seq(Replies \cup Events)
        BY <4>1
      <4>. QED
        BY <1>5, <3>1, <4>2 DEF PollFlush
    <3>2. CASE ~(event # "none" /\ tx = <<>>)
      BY <1>5, <3>2 DEF PollFlush, TypeOK
    <3>. QED
      BY <3>1, <3>2
  <2>2. dropped' \in BOOLEAN
    BY <1>5 DEF PollFlush, TypeOK
  <2>. QED
    BY <1>0, <1>5, <2>1, <2>2 DEF PollFlush, TypeOK
<1>6. CASE PollGuard
  <2>1. FrameBounds'
    BY <1>6 DEF PollGuard, BufferReset, FrameBounds
  <2>2. /\ rx_overflow' \in BOOLEAN /\ started' \in BOOLEAN
        /\ event' \in Events \cup {"none"} /\ at' \in {"out", "guard", "drain"}
    BY <1>6 DEF PollGuard, BufferReset, EventSet, TypeOK, Events
  <2>3. frame' \in Seq(Bytes)
    <3>1. <<>> \in Seq(Bytes)
      OBVIOUS
    <3>. QED
      BY <1>6, <3>1 DEF PollGuard, BufferReset, TypeOK
  <2>4. UNCHANGED <<pcVars, rx, tx, faultVars, executed, dropped>>
    BY <1>6 DEF PollGuard
  <2>. QED
    BY <2>1, <2>2, <2>3, <2>4 DEF TypeOK
<1>7. CASE PollByte
  <2>1. rx \in Seq(Bytes) /\ rx # <<>> /\ Len(rx) <= RingSize
    BY <1>7 DEF PollByte, TypeOK
  <2>2. /\ Head(rx) \in Bytes
        /\ Tail(rx) \in Seq(Bytes)
        /\ Len(Tail(rx)) = Len(rx) - 1
    BY <2>1, HeadTailProperties
  <2>3. Len(Tail(rx)) <= RingSize
    <3>1. Len(rx) \in Nat
      BY <2>1
    <3>. QED
      BY <3>1, <2>1, <2>2
  <2>5. rx' = Tail(rx)
    BY <1>7 DEF PollByte
  <2>4. ProcessByte(Head(rx))
    BY <1>7 DEF PollByte
  <2>. QED
    BY <1>7, <2>2, <2>3, <2>4, <2>5, ProcessByteLemma DEF PollByte, TypeOK
<1>8. CASE PollEnd
  BY <1>0, <1>8 DEF PollEnd, TypeOK
<1>9. CASE UNCHANGED vars
  BY <1>0, <1>9 DEF TypeOK
<1>10. CASE Mishear
  <2>1. tx' \in Seq(Replies \cup Events)
    BY <1>10, MishearTypes
  <2>2. unheard' \in Nat
    BY <1>10 DEF Mishear, TypeOK
  <2>3. UNCHANGED <<pcVars, ringVars, frameVars, event, at, faults, late,
                    executed>>
    BY <1>10 DEF Mishear
  <2>. QED
    BY <1>0, <2>1, <2>2, <2>3 DEF TypeOK
<1>. QED
  BY <1>1, <1>2, <1>3, <1>4, <1>5, <1>6, <1>7, <1>8, <1>9, <1>10
     DEF Next, PC, MCU

(* Type correctness, for every packet size, ring size and number of faults.*)
THEOREM TypeCorrect == Spec => []TypeOK
  BY InitIInv, StepIInv, PTL DEF Spec

(* The packet buffer is never written past its end and always begins with a *)
(* START-like byte, so the overflow branch of mdt_process_byte is dead.     *)
THEOREM FrameAlwaysFits == Spec => []FrameBounds
  BY InitIInv, StepIInv, PTL DEF Spec
-----------------------------------------------------------------------------
(* MCU and PC stay in step while nothing goes wrong.                       *)

(* No request was damaged and no answer late so far: the bytes on their    *)
(* way continue those in the packet buffer, together they are what was     *)
(* sent of this command, and once the MCU has handled all of it there is   *)
(* one answer, unless that was lost.  If the PC heard all of them right,   *)
(* every command has succeeded.                                            *)
Calm == faults = 0 /\ late = 0
Prompt == phase = "waiting" => \/ Len(frame) + Len(rx) = PacketSize
                               \/ tx = <<"ACK">>
Queued == /\ \A i \in 1 .. Len(frame) : frame[i] = ByteOf(command, i)
          /\ \A i \in 1 .. Len(rx) : rx[i] = ByteOf(command, Len(frame) + i)
SyncInv == Calm =>
  /\ ~rx_overflow /\ ~dropped /\ event = "none"
  /\ Queued
  /\ phase = "sending" => Len(frame) + Len(rx) = sent /\ tx = <<>>
  /\ phase = "waiting" => \/ Len(frame) + Len(rx) = PacketSize /\ tx = <<>>
                          \/ /\ frame = <<>> /\ rx = <<>>
                             /\ tx \in {<<>>, <<"ACK">>, <<"NACK">>}
  /\ phase \in {"done", "failed"} => frame = <<>> /\ rx = <<>> /\ tx = <<>>
  /\ unheard = 0 => phase # "failed" /\ Prompt

(* A whole packet is a valid frame.                                        *)
LEMMA WholeIsValid ==
  ASSUME NEW x \in Packet, NEW f \in Seq(Bytes), Len(f) = PacketSize,
         \A i \in 1 .. PacketSize : f[i] = ByteOf(x, i)
  PROVE  Valid(f)
<1>1. f = [i \in Position |-> ByteOf(x, i)]
  BY DEF Position
<1> QED BY <1>1 DEF Valid

(* The PC starts over or gives up with nothing on its way.                 *)
SyncRestart == \/ phase' = "failed" /\ UNCHANGED sent
               \/ phase' = "sending" /\ sent' = 0
LEMMA SyncAgain ==
  ASSUME SyncRestart, Calm', frame' = <<>>, rx' = <<>>, tx' = <<>>,
         ~rx_overflow', ~dropped', event' = "none", unheard' # 0
  PROVE  SyncInv'
<1>1. Len(<<>>) = 0
  OBVIOUS
<1>2. Queued'
  BY <1>1 DEF Queued
<1> QED BY <1>1, <1>2 DEF SyncInv, SyncRestart

LEMMA SyncPc ==
  ASSUME RingSize >= PacketSize, TypeOK, FrameBounds, SyncInv, PC
  PROVE  SyncInv'
<1> USE DEF Calm, pcVars, ringVars, frameVars, faultVars
<1>p. PacketSize \in Nat /\ PacketSize > 1 /\ RingSize \in Nat
  BY PacketAssumption
<1>0. /\ Len(frame) \in Nat /\ Len(rx) \in Nat /\ faults \in Nat /\ late \in Nat
      /\ Len(<<>>) = 0 /\ Len(frame) < PacketSize /\ command \in Packet
      /\ frame \in Seq(Bytes) /\ rx \in Seq(Bytes)
  BY PacketAssumption DEF TypeOK, FrameBounds
<1>1. CASE SendByte
  <2>1. SUFFICES ASSUME Calm' PROVE SyncInv'
    BY DEF SyncInv
  <2>2. Calm /\ faults' = faults
    BY <1>p, <1>0, <1>1, <2>1 DEF SendByte
  <2>3. /\ phase = "sending" /\ sent' = sent + 1 /\ sent \in 0 .. PacketSize - 1
        /\ phase' = IF sent' = PacketSize THEN "waiting" ELSE "sending"
        /\ UNCHANGED <<command, frame, event, tx>>
        /\ Arrive(ByteOf(command, sent'))
    BY <1>p, <1>0, <1>1, <2>1, <2>2 DEF SendByte, TypeOK
  <2>4. Len(frame) + Len(rx) = sent /\ tx = <<>> /\ Queued
        /\ ~rx_overflow /\ ~dropped /\ event = "none"
    BY <2>2, <2>3 DEF SyncInv
  <2>5. Len(rx) < RingSize
    BY <1>p, <1>0, <2>3, <2>4
  <2>6. /\ rx' = Append(rx, ByteOf(command, sent'))
        /\ UNCHANGED <<rx_overflow, dropped>>
    BY <2>3, <2>5 DEF Arrive
  <2>7. /\ Len(rx') = Len(rx) + 1
        /\ \A i \in 1 .. Len(rx) : rx'[i] = rx[i]
        /\ rx'[Len(rx) + 1] = ByteOf(command, sent')
    BY <1>p, <1>0, <2>6
  <2>8. Queued'
    <3>1. ASSUME NEW i \in 1 .. Len(rx')
          PROVE  rx'[i] = ByteOf(command, Len(frame) + i)
      <4>1. CASE i = Len(rx) + 1
        BY <1>p, <1>0, <2>3, <2>4, <2>7, <4>1
      <4>2. CASE i # Len(rx) + 1
        <5>1. i \in 1 .. Len(rx)
          BY <1>p, <1>0, <2>7, <4>2
        <5> QED BY <5>1, <2>4, <2>7 DEF Queued
      <4> QED BY <4>1, <4>2
    <3> QED BY <2>3, <2>4, <3>1 DEF Queued
  <2>9. Len(frame') + Len(rx') = sent'
    BY <1>0, <2>3, <2>4, <2>7
  <2>10. phase' \in {"sending", "waiting"} /\ tx' = <<>>
         /\ (phase' = "waiting" => Len(frame') + Len(rx') = PacketSize)
    BY <2>3, <2>4, <2>9
  <2>11. Prompt'
    BY <2>10 DEF Prompt
  <2> QED BY <2>3, <2>4, <2>6, <2>8, <2>9, <2>10, <2>11 DEF SyncInv
<1>2. CASE GetAck
  <2>1. SUFFICES ASSUME Calm' PROVE SyncInv'
    BY DEF SyncInv
  <2>2. Calm /\ phase = "waiting" /\ tx # <<>>
    BY <1>2, <2>1 DEF GetAck
  <2>3. frame = <<>> /\ rx = <<>> /\ ~rx_overflow /\ ~dropped
        /\ event = "none" /\ (tx = <<"ACK">> \/ tx = <<"NACK">>)
    BY <2>2 DEF SyncInv
  <2>4. tx' = <<>> /\ phase' = "done"
        /\ UNCHANGED <<frame, rx, rx_overflow, dropped, event>>
    BY <1>2, <2>3 DEF GetAck
  <2> QED BY <1>p, <1>0, <2>3, <2>4 DEF SyncInv, Queued, Prompt
<1>3. CASE GetNack
  <2>1. SUFFICES ASSUME Calm' PROVE SyncInv'
    BY DEF SyncInv
  <2>2. Calm /\ phase = "waiting" /\ tx # <<>> /\ Head(tx) = "NACK"
        /\ tx' = Tail(tx) /\ NextAttempt
        /\ UNCHANGED <<command, rx, rx_overflow, dropped, frame, event, unheard>>
    BY <1>3, <2>1 DEF GetNack
  <2>3. frame = <<>> /\ rx = <<>> /\ ~rx_overflow /\ ~dropped
        /\ event = "none" /\ (tx = <<"ACK">> \/ tx = <<"NACK">>)
    BY <2>2 DEF SyncInv
  <2>4. tx' = <<>> /\ unheard' # 0
    <3>1. tx = <<"NACK">>
      BY <2>2, <2>3
    <3>2. Len(frame) + Len(rx) # PacketSize /\ tx # <<"ACK">>
      BY <1>p, <1>0, <2>3, <3>1
    <3>3. unheard # 0
      BY <2>2, <3>2 DEF SyncInv, Prompt
    <3> QED BY <2>2, <3>1, <3>3
  <2>5. SyncRestart
    BY <2>2 DEF NextAttempt, SyncRestart
  <2> QED BY <2>1, <2>2, <2>3, <2>4, <2>5, SyncAgain
<1>4. CASE GetEvent
  <2>1. SUFFICES ASSUME Calm PROVE FALSE
    BY <1>4 DEF SyncInv, GetEvent
  <2>2. tx = <<"ACK">> \/ tx = <<"NACK">>
    BY <1>4, <2>1 DEF SyncInv, GetEvent, TypeOK
  <2> QED BY <1>4, <2>2 DEF GetEvent, Events
<1>5. CASE Timeout
  <2>1. SUFFICES ASSUME Calm' PROVE SyncInv'
    BY DEF SyncInv
  <2>2. Calm /\ phase = "waiting" /\ rx = <<>> /\ tx = <<>> /\ NextAttempt
        /\ UNCHANGED <<command, rx, rx_overflow, dropped, frame, event, tx,
                       unheard>>
    BY <1>p, <1>0, <1>5, <2>1 DEF Timeout
  <2>3. Len(frame) + Len(rx) # PacketSize
    BY <1>p, <1>0, <2>2
  <2>4. frame = <<>> /\ ~rx_overflow /\ ~dropped /\ event = "none" /\ unheard # 0
    BY <2>2, <2>3 DEF SyncInv, Prompt
  <2>5. SyncRestart
    BY <2>2 DEF NextAttempt, SyncRestart
  <2> QED BY <2>1, <2>2, <2>4, <2>5, SyncAgain
<1>6. CASE NewCommand
  <2>1. SUFFICES ASSUME Calm' PROVE SyncInv'
    BY DEF SyncInv
  <2>2. Calm /\ phase \in {"done", "failed"}
    BY <1>6, <2>1 DEF NewCommand
  <2>3. frame = <<>> /\ rx = <<>> /\ tx = <<>> /\ ~rx_overflow /\ ~dropped
        /\ event = "none"
    BY <2>2 DEF SyncInv
  <2>4. phase' = "sending" /\ sent' = 0
        /\ UNCHANGED <<frame, rx, tx, rx_overflow, dropped, event>>
    BY <1>6 DEF NewCommand
  <2> QED BY <1>p, <1>0, <2>3, <2>4 DEF SyncInv, Queued, Prompt
<1> QED BY <1>1, <1>2, <1>3, <1>4, <1>5, <1>6 DEF PC

(* A packet from the MCU is lost or misread.                               *)
LEMMA SyncMishear ==
  ASSUME TypeOK, SyncInv, Mishear
  PROVE  SyncInv'
<1>1. SUFFICES ASSUME Calm PROVE SyncInv'
  BY DEF SyncInv, Calm, Mishear
<1>2. /\ tx # <<>> /\ unheard' = unheard + 1 /\ unheard \in Nat
      /\ UNCHANGED <<command, phase, sent, rx, rx_overflow, dropped, frame,
                     event, faults, late>>
      /\ tx' = Tail(tx) \/ \E r \in Replies : tx' = <<r>> \o Tail(tx)
  BY DEF Mishear, TypeOK, pcVars, ringVars, frameVars
<1>3. /\ phase = "waiting" /\ frame = <<>> /\ rx = <<>>
      /\ tx = <<"ACK">> \/ tx = <<"NACK">>
  BY <1>1, <1>2 DEF SyncInv, TypeOK
<1>4. Tail(tx) = <<>> /\ \A r \in Replies : <<r>> \o <<>> = <<r>>
  <2>1. Tail(tx) = <<>>
    <3>1. Tail(<<"ACK">>) = <<>> /\ Tail(<<"NACK">>) = <<>>
      OBVIOUS
    <3> QED BY <1>3, <3>1
  <2>2. ASSUME NEW r \in Replies PROVE <<r>> \o <<>> = <<r>>
    <3>1. <<r>> \in Seq(Replies)
      OBVIOUS
    <3> QED BY <3>1, ConcatEmptySeq, Zenon
  <2> QED BY <2>1, <2>2
<1>5. tx' \in {<<>>, <<"ACK">>, <<"NACK">>}
  BY <1>2, <1>4 DEF Replies
<1>6. unheard' # 0
  BY <1>2
<1> QED BY <1>1, <1>2, <1>3, <1>5, <1>6 DEF SyncInv, Calm, Queued

(* mdt_process_byte on the byte that comes next in a packet.               *)
LEMMA SyncByte ==
  ASSUME TypeOK, FrameBounds, SyncInv, Calm, PollByte
  PROVE  SyncInv' /\ Prompt'
<1> USE DEF pcVars, faultVars, frameVars
<1>p. PacketSize \in Nat /\ PacketSize > 1
  BY PacketAssumption
<1> DEFINE b == Head(rx)
           full == Append(frame, b)
<1>0. /\ frame \in Seq(Bytes) /\ rx \in Seq(Bytes) /\ rx # <<>>
      /\ Len(frame) \in Nat /\ Len(rx) \in Nat \ {0} /\ command \in Packet
      /\ b = rx[1] /\ b \in Bytes
      /\ rx' = Tail(rx) /\ Len(rx') = Len(rx) - 1
      /\ \A i \in 1 .. Len(rx) - 1 : rx'[i] = rx[i + 1]
  BY DEF TypeOK, PollByte
<1>1. /\ ~rx_overflow /\ ~dropped /\ event = "none" /\ Queued
      /\ UNCHANGED <<command, phase, sent, rx_overflow, dropped, faults, late>>
      /\ ProcessByte(b)
  BY DEF SyncInv, PollByte
<1>2. phase \in {"sending", "waiting"} /\ tx = <<>>
      /\ IF phase = "sending" THEN Len(frame) + Len(rx) = sent
                              ELSE Len(frame) + Len(rx) = PacketSize
  BY <1>0 DEF SyncInv, TypeOK
<1>u. unheard' = unheard
  BY DEF PollByte
<1>3. b = ByteOf(command, Len(frame) + 1)
  BY <1>0, <1>1 DEF Queued
<1>4. /\ full \in Seq(Bytes) /\ Len(full) = Len(frame) + 1
      /\ full[Len(frame) + 1] = b
      /\ \A i \in 1 .. Len(frame) : full[i] = frame[i]
  BY <1>0
<1>5. \A i \in 1 .. Len(full) : full[i] = ByteOf(command, i)
  <2> SUFFICES ASSUME NEW i \in 1 .. Len(full)
               PROVE  full[i] = ByteOf(command, i)
    OBVIOUS
  <2>1. CASE i = Len(frame) + 1
    BY <1>3, <1>4, <2>1
  <2>2. CASE i # Len(frame) + 1
    <3>1. i \in 1 .. Len(frame)
      BY <1>0, <1>4, <2>2
    <3> QED BY <3>1, <1>1, <1>4 DEF Queued
  <2> QED BY <2>1, <2>2
<1>6. ASSUME frame' = full PROVE Queued'
  <2>1. ASSUME NEW i \in 1 .. Len(rx')
        PROVE  rx'[i] = ByteOf(command, Len(full) + i)
    <3>1. i \in 1 .. Len(rx) - 1 /\ i + 1 \in 1 .. Len(rx)
      BY <1>0
    <3>2. /\ rx'[i] = rx[i + 1]
          /\ rx[i + 1] = ByteOf(command, Len(frame) + (i + 1))
      BY <3>1, <1>0, <1>1 DEF Queued
    <3>3. Len(full) + i = Len(frame) + (i + 1)
      BY <3>1, <1>0, <1>4
    <3> QED BY <3>2, <3>3
  <2> QED BY <1>1, <1>5, <1>6, <2>1 DEF Queued
<1>l. /\ Len(frame) \in Nat /\ Len(rx) \in Nat \ {0}
      /\ Len(full) = Len(frame) + 1 /\ Len(rx') = Len(rx) - 1
  BY <1>0, <1>4
<1> HIDE DEF full, b
<1>7. CASE Len(frame) + 1 < PacketSize
  <2>1. frame' = full /\ UNCHANGED <<event, tx>>
    <3>1. CASE started
      <4>1. ~(Len(frame) >= PacketSize)
        BY <1>p, <1>0, <1>7
      <4> QED BY <1>1, <1>7, <3>1, <4>1 DEF ProcessByte, full
    <3>2. CASE ~started
      <4>1. frame = <<>>
        BY <3>2 DEF FrameBounds
      <4>2. IsStart(b) /\ full = <<b>>
        BY <1>3, <4>1 DEF IsStart, ByteOf, full
      <4> QED BY <1>1, <3>2, <4>2 DEF ProcessByte
    <3> QED BY <3>1, <3>2
  <2>2. Len(frame') + Len(rx') = Len(frame) + Len(rx)
    BY <1>l, <2>1
  <2>3. Queued'
    BY <1>6, <2>1
  <2>4. IF phase' = "sending" THEN Len(frame') + Len(rx') = sent'
                             ELSE Len(frame') + Len(rx') = PacketSize
    BY <1>1, <1>2, <2>2
  <2>5. phase' \in {"sending", "waiting"} /\ tx' = <<>> /\ Prompt'
    BY <1>1, <1>2, <2>1, <2>4 DEF Prompt
  <2>6. event' = "none" /\ ~rx_overflow' /\ ~dropped'
    BY <1>1, <2>1
  <2>7. SyncInv'
    BY <2>3, <2>4, <2>5, <2>6 DEF SyncInv
  <2> QED BY <2>5, <2>7
<1>8. CASE ~(Len(frame) + 1 < PacketSize)
  <2>1. started /\ Len(frame) = PacketSize - 1
    BY <1>p, <1>0, <1>8 DEF FrameBounds
  <2>0. phase = "sending" => sent \in Nat /\ sent < PacketSize
    BY DEF TypeOK
  <2>2. phase = "waiting" /\ Len(rx) = 1
    BY <1>p, <1>0, <1>2, <2>0, <2>1
  <2>3. HandlePacket(full)
    <3>1. ~(Len(frame) >= PacketSize)
      BY <1>p, <2>1
    <3> QED BY <1>1, <1>8, <2>1, <3>1 DEF ProcessByte, full
  <2>4. Valid(full)
    <3>1. Len(full) = PacketSize
      BY <1>p, <1>l, <2>1
    <3>2. \A i \in 1 .. PacketSize : full[i] = ByteOf(command, i)
      BY <1>5, <3>1
    <3>3. command \in Packet /\ full \in Seq(Bytes)
      BY <1>4 DEF TypeOK
    <3> QED BY <3>1, <3>2, <3>3, WholeIsValid, Zenon
  <2>5. frame' = <<>> /\ tx' = <<"ACK">> /\ event' = event
    BY <1>2, <2>3, <2>4 DEF HandlePacket, BufferReset
  <2>6. rx' = <<>>
    BY <1>0, <2>2
  <2>7. SyncInv'
    BY <1>1, <2>2, <2>5, <2>6 DEF SyncInv, Queued, Prompt
  <2> QED BY <2>5, <2>7 DEF Prompt
<1> QED BY <1>7, <1>8

LEMMA SyncMcu ==
  ASSUME TypeOK, FrameBounds, SyncInv, MCU
  PROVE  SyncInv' /\ (Calm /\ Prompt => Prompt')
<1> USE DEF pcVars, ringVars, faultVars, frameVars
<1>0. Calm' = Calm
  BY DEF MCU, PollFlush, PollGuard, PollByte, PollEnd, Calm
<1>u. unheard' = unheard
  BY DEF MCU, PollFlush, PollGuard, PollByte, PollEnd
<1>1. SUFFICES ASSUME Calm PROVE SyncInv' /\ (Prompt => Prompt')
  BY <1>0 DEF SyncInv
<1>2. CASE PollFlush
  <2>0. event = "none"
    BY <1>1 DEF SyncInv
  <2>1. UNCHANGED <<tx, event, dropped, command, phase, sent, rx, rx_overflow,
                    frame>>
    BY <1>2, <2>0 DEF PollFlush
  <2> QED BY <1>0, <1>u, <2>1 DEF SyncInv, Queued, Prompt
<1>3. CASE PollGuard
  <2>0. ~rx_overflow
    BY <1>1 DEF SyncInv
  <2>1. UNCHANGED <<tx, event, dropped, command, phase, sent, rx, rx_overflow,
                    frame>>
    BY <1>3, <2>0 DEF PollGuard
  <2> QED BY <1>0, <1>u, <2>1 DEF SyncInv, Queued, Prompt
<1>4. CASE PollByte
  BY <1>1, <1>4, SyncByte
<1>5. CASE PollEnd
  BY <1>0, <1>u, <1>5 DEF PollEnd, SyncInv, Queued, Prompt
<1> QED BY <1>2, <1>3, <1>4, <1>5 DEF MCU

(* MCU and PC are in step in every state of a behaviour, if the receive     *)
(* ring has room for a packet, as MDT_BUFFER_SIZE has.                     *)
LEMMA SyncAlways ==
  ASSUME RingSize >= PacketSize
  PROVE  Spec => []SyncInv
<1>1. Init => SyncInv
  <2> SUFFICES ASSUME Init PROVE SyncInv
    OBVIOUS
  <2>1. Len(<<>>) = 0
    OBVIOUS
  <2> QED BY <2>1 DEF Init, SyncInv, Queued, Prompt
<1>2. TypeOK /\ FrameBounds /\ SyncInv /\ [Next]_vars => SyncInv'
  <2>1. SyncInv /\ UNCHANGED vars => SyncInv'
    BY DEF SyncInv, Queued, Prompt, Calm, vars, pcVars, ringVars, faultVars,
           frameVars
  <2> QED BY <2>1, SyncPc, SyncMishear, SyncMcu DEF Next
<1> QED BY <1>1, <1>2, TypeCorrect, FrameAlwaysFits, PTL DEF Spec

(* As long as no request is damaged and no answer late, the packet buffer  *)
(* holds the beginning of a packet and nothing is dropped (InSync),        *)
(* however many answers are lost or misread.                               *)
THEOREM SyncKept ==
  ASSUME RingSize >= PacketSize
  PROVE  Spec => []InSync
<1>1. TypeOK /\ SyncInv => InSync
  <2> SUFFICES ASSUME TypeOK, SyncInv, Calm
               PROVE  ~dropped /\ \A i \in DOMAIN frame : frame[i].pos = i
    BY DEF InSync, Calm
  <2>1. DOMAIN frame = 1 .. Len(frame)
    BY DEF TypeOK
  <2> QED BY <2>1 DEF SyncInv, Queued, ByteOf
<1> QED BY <1>1, SyncAlways, TypeCorrect, PTL
-----------------------------------------------------------------------------
(* Counting what is on its way.                                            *)

(* How many of the entries of s are in S.                                  *)
Hits(s, S)  == {i \in 1 .. Len(s) : s[i] \in S}
Count(s, S) == Cardinality(Hits(s, S))

LEMMA CountType ==
  ASSUME NEW T, NEW s \in Seq(T), NEW S
  PROVE  IsFiniteSet(Hits(s, S)) /\ Count(s, S) \in Nat
<1>1. Len(s) \in Nat
  OBVIOUS
<1>2. IsFiniteSet(1 .. Len(s))
  BY <1>1, FS_Interval
<1>3. Hits(s, S) \in SUBSET (1 .. Len(s))
  BY DEF Hits
<1>4. IsFiniteSet(Hits(s, S))
  BY <1>2, <1>3, FS_Subset
<1> QED BY <1>4, FS_CardinalityType DEF Count

LEMMA CountEmpty == ASSUME NEW S PROVE Count(<<>>, S) = 0
<1>1. Hits(<<>>, S) = {}
  BY DEF Hits
<1> QED BY <1>1, FS_EmptySet DEF Count

LEMMA CountAppend ==
  ASSUME NEW T, NEW s \in Seq(T), NEW e \in T, NEW S
  PROVE  Count(Append(s, e), S) = Count(s, S) + (IF e \in S THEN 1 ELSE 0)
<1> DEFINE new == Append(s, e)
<1>1. /\ Len(s) \in Nat /\ Len(new) = Len(s) + 1 /\ new[Len(s) + 1] = e
      /\ \A i \in 1 .. Len(s) : new[i] = s[i]
  OBVIOUS
<1>2. Len(s) + 1 \notin Hits(s, S)
  BY <1>1 DEF Hits
<1>3. CASE e \in S
  <2>1. Hits(new, S) = Hits(s, S) \cup {Len(s) + 1}
    BY <1>1, <1>3 DEF Hits
  <2> QED BY <1>2, <1>3, <2>1, CountType, FS_AddElement DEF Count
<1>4. CASE e \notin S
  <2>1. Hits(new, S) = Hits(s, S)
    BY <1>1, <1>4 DEF Hits
  <2> QED BY <1>4, <2>1, CountType DEF Count
<1> QED BY <1>3, <1>4

LEMMA CountTail ==
  ASSUME NEW T, NEW s \in Seq(T), s # <<>>, NEW S
  PROVE  Count(s, S) = Count(Tail(s), S) + (IF Head(s) \in S THEN 1 ELSE 0)
<1> DEFINE old == Hits(s, S) \ {1}
           new == Hits(Tail(s), S)
           f   == [i \in old |-> i - 1]
<1>1. /\ Len(s) \in Nat \ {0} /\ Len(Tail(s)) = Len(s) - 1
      /\ Tail(s) \in Seq(T) /\ Head(s) = s[1]
      /\ \A i \in 1 .. Len(s) - 1 : Tail(s)[i] = s[i + 1]
  OBVIOUS
<1>2. old = {i \in 2 .. Len(s) : s[i] \in S}
  BY <1>1 DEF Hits
<1>3. new = {i \in 1 .. Len(s) - 1 : s[i + 1] \in S}
  BY <1>1 DEF Hits
<1> HIDE DEF old, new
<1>4. f \in [old -> new]
  BY <1>1, <1>2, <1>3
<1>5. \A a, b \in old : f[a] = f[b] => a = b
  BY <1>1, <1>2
<1>6. \A b \in new : \E a \in old : f[a] = b
  <2> SUFFICES ASSUME NEW b \in new PROVE \E a \in old : f[a] = b
    OBVIOUS
  <2>1. b + 1 \in old /\ (b + 1) - 1 = b
    BY <1>1, <1>2, <1>3
  <2> QED BY <2>1
<1>7. ExistsBijection(old, new)
  <2> HIDE DEF f
  <2>1. f \in Bijection(old, new)
    BY <1>4, <1>5, <1>6 DEF Bijection, Injection, Surjection, IsInjective
  <2> QED BY <2>1 DEF ExistsBijection
<1>8. IsFiniteSet(Hits(s, S)) /\ Cardinality(Hits(s, S)) \in Nat
  BY CountType DEF Count
<1>9. /\ IsFiniteSet(old)
      /\ Cardinality(old) = IF 1 \in Hits(s, S) THEN Cardinality(Hits(s, S)) - 1
                                                ELSE Cardinality(Hits(s, S))
  BY <1>8, FS_RemoveElement DEF old
<1>10. Cardinality(new) = Cardinality(old)
  BY <1>7, <1>9, FS_Bijection
<1>11. 1 \in Hits(s, S) <=> Head(s) \in S
  BY <1>1 DEF Hits
<1> QED BY <1>8, <1>9, <1>10, <1>11 DEF Count, new

LEMMA CountSubset ==
  ASSUME NEW T, NEW s \in Seq(T), NEW S, NEW R \in SUBSET S
  PROVE  Count(s, R) <= Count(s, S)
<1>1. Hits(s, R) \in SUBSET Hits(s, S)
  BY DEF Hits
<1> QED BY <1>1, CountType, FS_Subset DEF Count

-----------------------------------------------------------------------------
(* A retry repeats what was done only after an answer came late or was not *)
(* heard.  Each attempt is PacketSize bytes, and every answer takes that   *)
(* many bytes out of the ring.  So the answers on their way, and the runs  *)
(* of the command together with its refusals on their way, are paid for by *)
(* the attempts the PC has not seen the end of: the one it makes now, those*)
(* it gave up too early, and those whose answer it did not hear.           *)
InHand == IF phase \in {"sending", "waiting"} THEN sent ELSE 0
Seen   == IF phase = "done" THEN 1 ELSE 0
Slack  == late + unheard
OnTheirWay == Len(frame) + Len(rx)
Covers(k, h, n, b) == PacketSize * n + b < PacketSize * k + PacketSize + h
Paid(n, k) == Covers(k, InHand, n, OnTheirWay)
Runs  == executed + Count(tx, {"NACK"})
Funds == Slack + Seen
RetryInv == /\ phase = "waiting" => sent = PacketSize
            /\ Paid(Count(tx, Replies), Slack)
            /\ Paid(Runs, Funds)
            /\ executed <= Count(tx, {"ACK"}) + Seen + unheard
            /\ Slack = 0 => executed = Count(tx, {"ACK"}) + Seen

(* What the proof needs of the products in Paid.                           *)
LEMMA ProductArith ==
  ASSUME NEW n \in Nat, NEW a \in Nat, NEW b \in Nat, n > 0
  PROVE  /\ n * a \in Nat /\ n * (a + 1) = n * a + n
         /\ n * (a + b) = n * a + n * b
         /\ n * a < n * b => a < b
         /\ a <= b => n * a <= n * b
<1>1. /\ n * a \in Nat /\ n * b \in Nat /\ n * (a + 1) = n * a + n
      /\ n * (a + b) = n * a + n * b
  OBVIOUS
<1>2. ASSUME n * a < n * b, ~(a < b) PROVE FALSE
  <2>1. PICK d \in Nat : a = b + d
    <3>1. a - b \in Nat /\ a = b + (a - b)
      BY <1>2
    <3> QED BY <3>1
  <2>2. n * a = n * b + n * d /\ n * d \in Nat
    BY <2>1
  <2> QED BY <1>1, <1>2, <2>2
<1>3. ASSUME a <= b PROVE n * a <= n * b
  <2>1. PICK d \in Nat : b = a + d
    <3>1. b - a \in Nat /\ b = a + (b - a)
      BY <1>3
    <3> QED BY <3>1
  <2>2. n * b = n * a + n * d /\ n * d \in Nat
    BY <2>1
  <2> QED BY <1>1, <2>2
<1> QED BY <1>1, <1>2, <1>3

(* A step that asks for m - n more and gets l - k more, c - b of it in      *)
(* bytes and g - h in what the PC is sending; i and j are 1 when a whole   *)
(* attempt, or a whole packet of bytes, is used up.                        *)
Balanced(m, k, i, n, l, j) == m + k + i <= n + l + j
Moved(c, h, j, b, g, i) == c + h + PacketSize * j <= b + g + PacketSize * i
Pays(n, k, m, l, b, h, c, g, i, j) ==
  /\ {n, k, m, l, b, h, c, g} \subseteq Nat /\ i \in {0, 1} /\ j \in {0, 1}
  /\ Balanced(m, k, i, n, l, j) /\ Moved(c, h, j, b, g, i)
  /\ Covers(k, h, n, b)
LEMMA PaidArith ==
  ASSUME NEW n, NEW k, NEW m, NEW l, NEW b, NEW h, NEW c, NEW g, NEW i, NEW j,
         Pays(n, k, m, l, b, h, c, g, i, j)
  PROVE  Covers(l, g, m, c)
<1> DEFINE P == PacketSize
<1>0. /\ P \in Nat /\ P > 0
      /\ n \in Nat /\ k \in Nat /\ m \in Nat /\ l \in Nat
      /\ b \in Nat /\ h \in Nat /\ c \in Nat /\ g \in Nat
      /\ i \in {0, 1} /\ j \in {0, 1}
      /\ Balanced(m, k, i, n, l, j) /\ Moved(c, h, j, b, g, i)
      /\ Covers(k, h, n, b)
  BY PacketAssumption DEF Pays
<1>1. P * (m + k + i) <= P * (n + l + j)
  <2>1. m + k + i \in Nat /\ n + l + j \in Nat
    BY <1>0
  <2> QED BY <1>0, <2>1, ProductArith DEF Balanced
<1>2. /\ P * (m + k + i) = P * (m + k) + P * i /\ P * (m + k) = P * m + P * k
      /\ P * (n + l + j) = P * (n + l) + P * j /\ P * (n + l) = P * n + P * l
  <2>1. m + k \in Nat /\ n + l \in Nat /\ i \in Nat /\ j \in Nat
    BY <1>0
  <2> QED BY <1>0, <2>1, ProductArith
<1> DEFINE pm == P * m  pk == P * k  pn == P * n  pl == P * l
           pi == P * i  pj == P * j
<1>3. /\ pm \in Nat /\ pk \in Nat /\ pn \in Nat /\ pl \in Nat
      /\ pi \in Nat /\ pj \in Nat
  BY <1>0
<1>4. /\ pm + pk + pi <= pn + pl + pj
      /\ c + h + pj <= b + g + pi /\ pn + b < pk + P + h
  BY <1>0, <1>1, <1>2 DEF Moved, Covers
<1> HIDE DEF pm, pk, pn, pl, pi, pj, P
<1>5. pm + c < pl + P + g
  BY <1>0, <1>3, <1>4
<1> QED BY <1>5 DEF pm, pl, P, Covers

LEMMA SumNat == \A a, b \in Nat : a + b \in Nat
  OBVIOUS

LEMMA CountPrime == /\ Count(tx, Replies)' = Count(tx', Replies)
                    /\ Count(tx, {"ACK"})' = Count(tx', {"ACK"})
                    /\ Count(tx, {"NACK"})' = Count(tx', {"NACK"})
  BY DEF Count, Hits, Replies

(* The types of what RetryInv counts, before and after a step.             *)
LEMMA RetryTypes ==
  ASSUME TypeOK
  PROVE  /\ Count(tx, Replies) \in Nat /\ Count(tx, {"ACK"}) \in Nat
         /\ Count(tx, {"NACK"}) \in Nat
         /\ Count(tx, {"ACK"}) <= Count(tx, Replies)
         /\ Count(tx, {"NACK"}) <= Count(tx, Replies)
         /\ Len(frame) \in Nat /\ Len(rx) \in Nat
         /\ InHand \in 0 .. PacketSize /\ Seen \in {0, 1}
         /\ late \in Nat /\ unheard \in Nat /\ Slack \in Nat
         /\ executed \in Nat /\ sent \in 0 .. PacketSize
         /\ OnTheirWay \in Nat /\ Runs \in Nat /\ Funds \in Nat
         /\ PacketSize \in Nat /\ PacketSize > 1
<1>1. /\ tx \in Seq(Replies \cup Events)
      /\ frame \in Seq(Bytes) /\ rx \in Seq(Bytes)
      /\ late \in Nat /\ unheard \in Nat /\ executed \in Nat
      /\ sent \in 0 .. PacketSize
  BY DEF TypeOK
<1>2. PacketSize \in Nat /\ PacketSize > 1
  BY PacketAssumption
<1>3. Count(tx, Replies) \in Nat /\ Count(tx, {"ACK"}) \in Nat
      /\ Count(tx, {"NACK"}) \in Nat
  BY <1>1, CountType
<1>4. Count(tx, {"ACK"}) <= Count(tx, Replies)
      /\ Count(tx, {"NACK"}) <= Count(tx, Replies)
  BY <1>1, CountSubset DEF Replies
<1>5. Len(frame) \in Nat /\ Len(rx) \in Nat
  BY <1>1
<1>6. InHand \in 0 .. PacketSize /\ Seen \in {0, 1}
  BY <1>1, <1>2 DEF InHand, Seen
<1>7. Slack \in Nat
  BY <1>1 DEF Slack
<1>8. OnTheirWay \in Nat /\ Runs \in Nat /\ Funds \in Nat
  BY <1>1, <1>3, <1>5, <1>6, <1>7 DEF OnTheirWay, Runs, Funds
<1> QED BY <1>1, <1>2, <1>3, <1>4, <1>5, <1>6, <1>7, <1>8

LEMMA RetryTypesNext ==
  ASSUME TypeOK'
  PROVE  /\ Count(tx, Replies)' \in Nat /\ Count(tx, {"ACK"})' \in Nat
         /\ Count(tx, {"NACK"})' \in Nat
         /\ Len(frame') \in Nat /\ Len(rx') \in Nat
         /\ InHand' \in Nat /\ Seen' \in Nat /\ Slack' \in Nat
         /\ unheard' \in Nat /\ executed' \in Nat
         /\ OnTheirWay' \in Nat /\ Runs' \in Nat /\ Funds' \in Nat
<1>1. /\ tx' \in Seq(Replies \cup Events)
      /\ frame' \in Seq(Bytes) /\ rx' \in Seq(Bytes)
      /\ late' \in Nat /\ unheard' \in Nat /\ executed' \in Nat /\ sent' \in Nat
  BY PacketAssumption DEF TypeOK, Replies, Events
<1>2. Count(tx', Replies) \in Nat /\ Count(tx', {"ACK"}) \in Nat
      /\ Count(tx', {"NACK"}) \in Nat
  BY <1>1, CountType
<1>3. Len(frame') \in Nat /\ Len(rx') \in Nat
  BY <1>1
<1>4. InHand' \in Nat /\ Seen' \in Nat
  <2>1. InHand' = sent' \/ InHand' = 0
    BY DEF InHand
  <2>2. Seen' = 1 \/ Seen' = 0
    BY DEF Seen
  <2> QED BY <1>1, <2>1, <2>2
<1>5. Slack' \in Nat
  BY <1>1, SumNat, Zenon DEF Slack
<1>6. OnTheirWay' \in Nat /\ Runs' \in Nat /\ Funds' \in Nat
  <2>1. Count(tx, {"NACK"})' \in Nat
    BY <1>2, CountPrime
  <2> QED BY <1>1, <1>3, <1>4, <1>5, <2>1, SumNat, Zenon
          DEF OnTheirWay, Runs, Funds
<1> QED BY <1>1, <1>2, <1>3, <1>4, <1>5, <1>6, CountPrime

(* A step that pays for what it does keeps the invariant.                  *)
LEMMA RetryPaid ==
  ASSUME TypeOK, TypeOK', RetryInv, NEW i \in {0, 1}, NEW j \in {0, 1},
         Balanced(Count(tx, Replies)', Slack, i, Count(tx, Replies), Slack', j),
         Balanced(Runs', Funds, i, Runs, Funds', j),
         Moved(OnTheirWay', InHand, j, OnTheirWay, InHand', i)
  PROVE  Paid(Count(tx, Replies), Slack)' /\ Paid(Runs, Funds)'
<1>1. /\ OnTheirWay \in Nat /\ Runs \in Nat /\ Funds \in Nat
      /\ Count(tx, Replies) \in Nat /\ InHand \in Nat /\ Slack \in Nat
  BY RetryTypes
<1>2. /\ OnTheirWay' \in Nat /\ Runs' \in Nat /\ Funds' \in Nat
      /\ Count(tx, Replies)' \in Nat /\ InHand' \in Nat /\ Slack' \in Nat
  BY RetryTypesNext
<1>3. /\ Covers(Slack, InHand, Count(tx, Replies), OnTheirWay)
      /\ Covers(Funds, InHand, Runs, OnTheirWay)
  BY DEF RetryInv, Paid
<1>4. Pays(Count(tx, Replies), Slack, Count(tx, Replies)', Slack',
           OnTheirWay, InHand, OnTheirWay', InHand', i, j)
  BY <1>1, <1>2, <1>3 DEF Pays
<1>5. Pays(Runs, Funds, Runs', Funds', OnTheirWay, InHand, OnTheirWay', InHand',
           i, j)
  BY <1>1, <1>2, <1>3 DEF Pays
<1>6. /\ Covers(Slack', InHand', Count(tx, Replies)', OnTheirWay')
      /\ Covers(Funds', InHand', Runs', OnTheirWay')
  BY <1>4, <1>5, PaidArith
<1> QED BY <1>6 DEF Paid, Covers

(* What is paid for is within the slack.                                   *)
LEMMA PaidBound ==
  ASSUME TypeOK, NEW n \in Nat, NEW k \in Nat, Paid(n, k)
  PROVE  /\ n <= k + 1
         /\ phase \in {"done", "failed"} => n <= k
<1>1. /\ OnTheirWay \in Nat /\ InHand \in 0 .. PacketSize
      /\ PacketSize \in Nat /\ PacketSize > 1
  BY RetryTypes
<1>2. PacketSize * n \in Nat /\ PacketSize * k \in Nat
      /\ PacketSize * (k + 1) = PacketSize * k + PacketSize
      /\ PacketSize * ((k + 1) + 1) = PacketSize * (k + 1) + PacketSize
  BY <1>1, ProductArith
<1>3. PacketSize * n < PacketSize * ((k + 1) + 1)
  BY <1>1, <1>2 DEF Paid, Covers
<1>4. n < (k + 1) + 1
  <2>1. (k + 1) + 1 \in Nat /\ PacketSize > 0
    BY <1>1
  <2> QED BY <1>1, <1>3, <2>1, ProductArith
<1>5. ASSUME phase \in {"done", "failed"} PROVE n <= k
  <2>1. InHand = 0
    BY <1>5 DEF InHand
  <2>2. PacketSize * n < PacketSize * (k + 1)
    BY <1>1, <1>2, <2>1 DEF Paid, Covers
  <2>3. n < k + 1
    <3>1. k + 1 \in Nat /\ PacketSize > 0
      BY <1>1
    <3> QED BY <1>1, <2>2, <3>1, ProductArith
  <2> QED BY <2>3
<1> QED BY <1>4, <1>5

(* The PC takes the first thing the MCU sent, or it is lost on its way.    *)
LEMMA TakeCounts ==
  ASSUME TypeOK, tx # <<>>, tx' = Tail(tx)
  PROVE  /\ Count(tx, Replies)' \in Nat /\ Count(tx, {"ACK"})' \in Nat
         /\ Count(tx, {"NACK"})' \in Nat
         /\ Count(tx, Replies)' = Count(tx, Replies)
                                    - (IF Head(tx) \in Replies THEN 1 ELSE 0)
         /\ Count(tx, {"ACK"})' = Count(tx, {"ACK"})
                                    - (IF Head(tx) = "ACK" THEN 1 ELSE 0)
         /\ Count(tx, {"NACK"})' = Count(tx, {"NACK"})
                                    - (IF Head(tx) = "NACK" THEN 1 ELSE 0)
<1>1. tx \in Seq(Replies \cup Events)
  BY DEF TypeOK
<1>2. tx' \in Seq(Replies \cup Events)
  BY <1>1
<1>3. /\ Count(tx', Replies) \in Nat /\ Count(tx', {"ACK"}) \in Nat
      /\ Count(tx', {"NACK"}) \in Nat
  BY <1>2, CountType
<1>4. /\ Count(tx, Replies) = Count(tx', Replies)
                                + (IF Head(tx) \in Replies THEN 1 ELSE 0)
      /\ Count(tx, {"ACK"}) = Count(tx', {"ACK"})
                                + (IF Head(tx) \in {"ACK"} THEN 1 ELSE 0)
      /\ Count(tx, {"NACK"}) = Count(tx', {"NACK"})
                                + (IF Head(tx) \in {"NACK"} THEN 1 ELSE 0)
  BY <1>1, CountTail
<1> QED BY <1>3, <1>4, CountPrime

(* The first packet on its way is lost or misread: of no kind there is     *)
(* more than one more, or more than one less.                              *)
LEMMA MishearCounts ==
  ASSUME TypeOK, Mishear, NEW S
  PROVE  /\ Count(tx', S) \in Nat
         /\ Count(tx', S) <= Count(tx, S) + 1
         /\ Count(tx, S) <= Count(tx', S) + 1
<1> DEFINE t == Tail(tx)
<1>1. tx \in Seq(Replies \cup Events) /\ tx # <<>> /\ t \in Seq(Replies \cup Events)
  BY DEF TypeOK, Mishear
<1>2. /\ Count(tx, S) \in Nat /\ Count(t, S) \in Nat
      /\ Count(tx, S) = Count(t, S) + (IF Head(tx) \in S THEN 1 ELSE 0)
  BY <1>1, CountType, CountTail
<1>3. ASSUME NEW r \in Replies, tx' = <<r>> \o t
      PROVE  /\ Count(tx', S) \in Nat
             /\ Count(tx', S) = Count(t, S) + (IF r \in S THEN 1 ELSE 0)
  <2>1. <<r>> \in Seq(Replies \cup Events) /\ Len(<<r>>) = 1 /\ <<r>>[1] = r
    OBVIOUS
  <2> HIDE DEF t
  <2>2. /\ tx' \in Seq(Replies \cup Events) /\ Len(tx') = 1 + Len(t)
        /\ Len(t) \in Nat /\ tx'[1] = r
        /\ \A i \in 1 .. Len(t) : tx'[1 + i] = t[i]
    BY <1>1, <1>3, <2>1, ConcatProperties
  <2>3. tx' # <<>> /\ Head(tx') = r /\ Len(Tail(tx')) = Len(t)
        /\ Tail(tx') \in Seq(Replies \cup Events)
        /\ \A i \in 1 .. Len(t) : Tail(tx')[i] = t[i]
    BY <2>2
  <2>4. Tail(tx') = t
    BY <1>1, <2>3, SeqEqual
  <2>5. /\ Count(tx', S) \in Nat
        /\ Count(tx', S)
             = Count(Tail(tx'), S) + (IF Head(tx') \in S THEN 1 ELSE 0)
    BY <2>2, <2>3, CountType, CountTail
  <2> QED BY <2>3, <2>4, <2>5
<1> HIDE DEF t
<1>4. tx' = t \/ \E r \in Replies : tx' = <<r>> \o t
  BY DEF Mishear, t
<1>5. CASE tx' = t
  BY <1>2, <1>5
<1>6. ASSUME NEW r \in Replies, tx' = <<r>> \o t
      PROVE  /\ Count(tx', S) \in Nat
             /\ Count(tx', S) <= Count(tx, S) + 1
             /\ Count(tx, S) <= Count(tx', S) + 1
  <2>1. /\ Count(tx', S) \in Nat
        /\ Count(tx', S) = Count(t, S) + (IF r \in S THEN 1 ELSE 0)
    BY <1>3, <1>6
  <2> QED BY <1>2, <2>1
<1> QED BY <1>4, <1>5, <1>6

(* The MCU appends an answer.                                              *)
LEMMA AnswerCounts ==
  ASSUME TypeOK, NEW e \in Replies, tx' = Append(tx, e)
  PROVE  /\ Count(tx, Replies)' = Count(tx, Replies) + 1
         /\ Count(tx, {"ACK"})' = Count(tx, {"ACK"})
                                    + (IF e = "ACK" THEN 1 ELSE 0)
         /\ Count(tx, {"NACK"})' = Count(tx, {"NACK"})
                                    + (IF e = "NACK" THEN 1 ELSE 0)
<1>1. tx \in Seq(Replies \cup Events) /\ e \in Replies \cup Events
  BY DEF TypeOK
<1> QED BY <1>1, CountAppend, CountPrime

LEMMA SameCounts ==
  ASSUME UNCHANGED tx
  PROVE  /\ Count(tx, Replies)' = Count(tx, Replies)
         /\ Count(tx, {"ACK"})' = Count(tx, {"ACK"})
         /\ Count(tx, {"NACK"})' = Count(tx, {"NACK"})
  BY CountPrime

LEMMA FrameRoom ==
  ASSUME TypeOK, FrameBounds
  PROVE  Len(frame) \in Nat /\ Len(frame) < PacketSize
<1>1. Len(<<>>) = 0 /\ Len(frame) \in Nat
  BY DEF TypeOK
<1> QED BY <1>1, PacketAssumption DEF FrameBounds

(* A step that neither answers nor receives keeps the invariant.           *)
LEMMA RetryQuiet ==
  ASSUME TypeOK, TypeOK', RetryInv,
         UNCHANGED <<phase, sent, late, unheard, executed>>,
         Count(tx, Replies)' = Count(tx, Replies),
         Count(tx, {"ACK"})' = Count(tx, {"ACK"}),
         Count(tx, {"NACK"})' = Count(tx, {"NACK"}),
         OnTheirWay' <= OnTheirWay
  PROVE  RetryInv'
<1>1. InHand' = InHand /\ Seen' = Seen /\ Slack' = Slack
  BY DEF InHand, Seen, Slack
<1>2. /\ PacketSize \in Nat /\ InHand \in Nat /\ Slack \in Nat
      /\ OnTheirWay \in Nat /\ Runs \in Nat /\ Funds \in Nat
      /\ Count(tx, Replies) \in Nat /\ PacketSize * 0 = 0
  BY RetryTypes
<1>3. OnTheirWay' \in Nat
  BY RetryTypesNext
<1>r. Runs' = Runs /\ Funds' = Funds
  BY <1>1 DEF Runs, Funds
<1>4. Moved(OnTheirWay', InHand, 0, OnTheirWay, InHand', 0)
  <2> DEFINE b == OnTheirWay'
  <2>1. b \in Nat /\ b <= OnTheirWay
    BY <1>3
  <2> HIDE DEF b
  <2>2. Moved(b, InHand, 0, OnTheirWay, InHand, 0)
    BY <1>2, <2>1 DEF Moved
  <2> QED BY <1>1, <2>2 DEF b
<1>5. /\ Balanced(Count(tx, Replies)', Slack, 0, Count(tx, Replies), Slack', 0)
      /\ Balanced(Runs', Funds, 0, Runs, Funds', 0)
  BY <1>1, <1>2, <1>r DEF Balanced
<1>6. /\ Paid(Count(tx, Replies), Slack)'
      /\ Paid(Runs, Funds)'
  BY <1>4, <1>5, RetryPaid
<1> QED BY <1>1, <1>6 DEF RetryInv

(* mdt_handle_packet: the frame makes room for its answer.                 *)
LEMMA RetryAnswer ==
  ASSUME TypeOK, TypeOK', RetryInv, UNCHANGED <<phase, sent, late, unheard>>,
         Len(frame) + 1 = PacketSize, Len(frame') = 0,
         Len(rx') + 1 = Len(rx), Len(rx') \in Nat,
         NEW e \in Replies, tx' = Append(tx, e),
         \/ e = "ACK" /\ executed' = executed + 1
         \/ e = "NACK" /\ executed' = executed
  PROVE  RetryInv'
<1>0. /\ Count(tx, Replies) \in Nat /\ Count(tx, {"ACK"}) \in Nat
      /\ Count(tx, {"NACK"}) \in Nat
      /\ InHand \in Nat /\ Seen \in Nat /\ Slack \in Nat
      /\ unheard \in Nat /\ executed \in Nat
      /\ PacketSize \in Nat /\ PacketSize > 1 /\ Len(frame) \in Nat
      /\ PacketSize * 0 = 0 /\ PacketSize * 1 = PacketSize
      /\ OnTheirWay \in Nat /\ Runs \in Nat /\ Funds \in Nat
  BY RetryTypes
<1>1. InHand' = InHand /\ Seen' = Seen /\ Slack' = Slack /\ Funds' = Funds
  BY DEF InHand, Seen, Slack, Funds
<1>2. /\ Count(tx, Replies)' = Count(tx, Replies) + 1
      /\ \/ /\ Count(tx, {"ACK"})' = Count(tx, {"ACK"}) + 1
            /\ Count(tx, {"NACK"})' = Count(tx, {"NACK"})
            /\ executed' = executed + 1
         \/ /\ Count(tx, {"ACK"})' = Count(tx, {"ACK"})
            /\ Count(tx, {"NACK"})' = Count(tx, {"NACK"}) + 1
            /\ executed' = executed
  BY <1>0, AnswerCounts
<1>3. Runs' = Runs + 1
  <2> DEFINE x == Count(tx, {"NACK"})
             y == Count(tx, {"NACK"})'
             z == executed'
  <2>0. x \in Nat /\ executed \in Nat
    BY <1>0
  <2>1. \/ /\ y = x /\ z = executed + 1
        \/ /\ y = x + 1 /\ z = executed
    BY <1>2, Zenon
  <2> HIDE DEF x, y, z
  <2>2. z + y = executed + x + 1
    BY <2>0, <2>1
  <2> QED BY <2>2 DEF Runs, x, y, z
<1>4. Moved(OnTheirWay', InHand, 1, OnTheirWay, InHand', 0)
  <2>1. OnTheirWay = (PacketSize - 1) + (Len(rx') + 1) /\ OnTheirWay' = 0 + Len(rx')
    BY <1>0 DEF OnTheirWay
  <2> QED BY <1>0, <1>1, <2>1 DEF Moved
<1>5. /\ Balanced(Count(tx, Replies)', Slack, 0, Count(tx, Replies), Slack', 1)
      /\ Balanced(Runs', Funds, 0, Runs, Funds', 1)
  <2>1. Count(tx, Replies)' = Count(tx, Replies) + 1
    BY <1>2
  <2> QED BY <1>0, <1>1, <1>3, <2>1 DEF Balanced
<1>6. /\ Paid(Count(tx, Replies), Slack)'
      /\ Paid(Runs, Funds)'
  BY <1>4, <1>5, RetryPaid
<1>7. /\ executed <= Count(tx, {"ACK"}) + Seen + unheard
      /\ Slack = 0 => executed = Count(tx, {"ACK"}) + Seen
      /\ phase = "waiting" => sent = PacketSize
  BY DEF RetryInv
<1>8. /\ executed' <= Count(tx, {"ACK"})' + Seen' + unheard'
      /\ Slack' = 0 => executed' = Count(tx, {"ACK"})' + Seen'
  <2> DEFINE x == Count(tx, {"ACK"})'
             z == executed'
  <2>1. \/ x = Count(tx, {"ACK"}) + 1 /\ z = executed + 1
        \/ x = Count(tx, {"ACK"}) /\ z = executed
    BY <1>2, Zenon
  <2> HIDE DEF x, z
  <2>2. /\ z <= x + Seen + unheard
        /\ Slack = 0 => z = x + Seen
    BY <1>0, <1>7, <2>1
  <2> QED BY <1>1, <2>2 DEF x, z
<1> QED BY <1>6, <1>7, <1>8 DEF RetryInv

LEMMA RetryPc ==
  ASSUME TypeOK, TypeOK', FrameBounds, RetryInv, PC
  PROVE  RetryInv'
<1> USE DEF pcVars, ringVars, frameVars, faultVars
<1>0. /\ OnTheirWay \in Nat /\ Runs \in Nat /\ Funds \in Nat
      /\ Count(tx, Replies) \in Nat /\ Count(tx, {"ACK"}) \in Nat
      /\ Count(tx, {"NACK"}) \in Nat /\ Count(tx, {"NACK"}) <= Count(tx, Replies)
      /\ Count(tx, {"ACK"}) <= Count(tx, Replies)
      /\ Len(frame) \in Nat /\ Len(rx) \in Nat
      /\ late \in Nat /\ unheard \in Nat /\ Slack \in Nat
      /\ executed \in Nat /\ sent \in 0 .. PacketSize
      /\ PacketSize \in Nat /\ PacketSize > 1
      /\ PacketSize * 0 = 0 /\ PacketSize * 1 = PacketSize
  BY RetryTypes
<1>r. /\ executed <= Count(tx, {"ACK"}) + Seen + unheard
      /\ Slack = 0 => executed = Count(tx, {"ACK"}) + Seen
  BY DEF RetryInv
<1>1. CASE SendByte
  <2>1. /\ phase = "sending" /\ sent' = sent + 1
        /\ phase' = IF sent' = PacketSize THEN "waiting" ELSE "sending"
        /\ UNCHANGED <<tx, frame, late, unheard, executed>>
    BY <1>1 DEF SendByte
  <2>2. Len(rx') \in Nat /\ Len(rx') <= Len(rx) + 1
    <3>1. rx \in Seq(Bytes)
      BY DEF TypeOK
    <3>2. ASSUME NEW b, Arrive(b)
          PROVE  Len(rx') \in Nat /\ Len(rx') <= Len(rx) + 1
      <4>1. rx' = Append(rx, b) \/ rx' = rx
        BY <3>2 DEF Arrive
      <4> QED BY <1>0, <3>1, <4>1
    <3> QED BY <1>0, <1>1, <3>2 DEF SendByte
  <2>3. InHand = sent /\ InHand' = sent + 1 /\ Seen = 0 /\ Seen' = 0
        /\ Slack' = Slack /\ Runs' = Runs /\ Funds' = Funds
    BY <2>1, SameCounts DEF InHand, Seen, Slack, Runs, Funds
  <2>4. Moved(OnTheirWay', InHand, 0, OnTheirWay, InHand', 0)
    <3>1. OnTheirWay' = Len(frame) + Len(rx')
      BY <2>1 DEF OnTheirWay
    <3> QED BY <1>0, <2>2, <2>3, <3>1 DEF OnTheirWay, Moved
  <2>5. /\ Balanced(Count(tx, Replies)', Slack, 0, Count(tx, Replies), Slack', 0)
        /\ Balanced(Runs', Funds, 0, Runs, Funds', 0)
    BY <1>0, <2>1, <2>3, SameCounts DEF Balanced
  <2>6. /\ Paid(Count(tx, Replies), Slack)'
        /\ Paid(Runs, Funds)'
    BY <2>4, <2>5, RetryPaid
  <2> QED BY <1>r, <2>1, <2>3, <2>6, SameCounts DEF RetryInv
<1>2. CASE GetAck
  <2>1. /\ phase = "waiting" /\ phase' = "done" /\ sent = PacketSize
        /\ tx # <<>> /\ Head(tx) = "ACK" /\ tx' = Tail(tx)
        /\ UNCHANGED <<frame, rx, late, unheard, executed>>
    BY <1>2 DEF GetAck, RetryInv
  <2>2. /\ Count(tx, Replies)' = Count(tx, Replies) - 1
        /\ Count(tx, {"ACK"})' = Count(tx, {"ACK"}) - 1
        /\ Count(tx, {"NACK"})' = Count(tx, {"NACK"})
    BY <1>0, <2>1, TakeCounts DEF Replies
  <2>3. InHand = PacketSize /\ InHand' = 0 /\ Seen = 0 /\ Seen' = 1
        /\ Slack' = Slack /\ OnTheirWay' = OnTheirWay /\ Runs' = Runs
    BY <2>1, <2>2 DEF InHand, Seen, Slack, OnTheirWay, Runs
  <2>f. Funds' = Funds + 1
    BY <1>0, <2>3 DEF Funds
  <2>4. Moved(OnTheirWay', InHand, 0, OnTheirWay, InHand', 1)
    BY <1>0, <2>3 DEF Moved
  <2>5. /\ Balanced(Count(tx, Replies)', Slack, 1, Count(tx, Replies), Slack', 0)
        /\ Balanced(Runs', Funds, 1, Runs, Funds', 0)
    BY <1>0, <2>2, <2>3, <2>f DEF Balanced
  <2>6. /\ Paid(Count(tx, Replies), Slack)'
        /\ Paid(Runs, Funds)'
    BY <2>4, <2>5, RetryPaid
  <2>7. /\ executed <= (Count(tx, {"ACK"}) - 1) + 1 + unheard
        /\ Slack = 0 => executed = (Count(tx, {"ACK"}) - 1) + 1
    BY <1>0, <1>r, <2>3
  <2>8. /\ executed' <= Count(tx, {"ACK"})' + Seen' + unheard'
        /\ Slack' = 0 => executed' = Count(tx, {"ACK"})' + Seen'
    BY <2>1, <2>2, <2>3, <2>7
  <2> QED BY <2>1, <2>6, <2>8 DEF RetryInv
<1>3. CASE GetNack
  <2>1. /\ phase = "waiting" /\ phase' \in {"sending", "failed"}
        /\ phase' = "sending" => sent' = 0
        /\ sent = PacketSize
        /\ tx # <<>> /\ Head(tx) = "NACK" /\ tx' = Tail(tx)
        /\ UNCHANGED <<frame, rx, late, unheard, executed>>
    BY <1>3 DEF GetNack, NextAttempt, RetryInv
  <2>2. /\ Count(tx, Replies)' = Count(tx, Replies) - 1
        /\ Count(tx, {"ACK"})' = Count(tx, {"ACK"})
        /\ Count(tx, {"NACK"})' = Count(tx, {"NACK"}) - 1
    BY <1>0, <2>1, TakeCounts DEF Replies
  <2>3. InHand = PacketSize /\ InHand' = 0 /\ Seen = 0 /\ Seen' = 0
        /\ Slack' = Slack /\ OnTheirWay' = OnTheirWay
    BY <2>1 DEF InHand, Seen, Slack, OnTheirWay
  <2>f. Funds' = Funds /\ Runs' = Runs - 1
    BY <1>0, <2>1, <2>2, <2>3 DEF Funds, Runs
  <2>4. Moved(OnTheirWay', InHand, 0, OnTheirWay, InHand', 1)
    BY <1>0, <2>3 DEF Moved
  <2>5. /\ Balanced(Count(tx, Replies)', Slack, 1, Count(tx, Replies), Slack', 0)
        /\ Balanced(Runs', Funds, 1, Runs, Funds', 0)
    BY <1>0, <2>2, <2>3, <2>f DEF Balanced
  <2>6. /\ Paid(Count(tx, Replies), Slack)'
        /\ Paid(Runs, Funds)'
    BY <2>4, <2>5, RetryPaid
  <2> QED BY <1>r, <2>1, <2>2, <2>3, <2>6 DEF RetryInv
<1>4. CASE GetEvent
  <2>1. /\ tx # <<>> /\ Head(tx) \in Events /\ tx' = Tail(tx)
        /\ UNCHANGED <<phase, sent, frame, rx, late, unheard, executed>>
    BY <1>4 DEF GetEvent
  <2>2. /\ Count(tx, Replies)' = Count(tx, Replies)
        /\ Count(tx, {"ACK"})' = Count(tx, {"ACK"})
        /\ Count(tx, {"NACK"})' = Count(tx, {"NACK"})
    BY <1>0, <2>1, TakeCounts DEF Replies, Events
  <2>3. OnTheirWay' <= OnTheirWay
    BY <1>0, <2>1 DEF OnTheirWay
  <2> QED BY <2>1, <2>2, <2>3, RetryQuiet
<1>5. CASE Timeout
  <2>1. /\ phase = "waiting" /\ phase' \in {"sending", "failed"}
        /\ phase' = "sending" => sent' = 0
        /\ sent = PacketSize
        /\ UNCHANGED <<tx, frame, rx, unheard, executed>>
    BY <1>5 DEF Timeout, NextAttempt, RetryInv
  <2>2. InHand = PacketSize /\ InHand' = 0 /\ Seen = 0 /\ Seen' = 0
    BY <2>1 DEF InHand, Seen
  <2>3. CASE rx = <<>> /\ tx = <<>> /\ UNCHANGED late
    <3>1. Len(frame) < PacketSize
      BY FrameRoom
    <3>2. /\ Count(tx, Replies)' = 0 /\ Count(tx, {"NACK"})' = 0
          /\ Count(tx, {"ACK"}) = 0 /\ Len(rx') = 0
      BY <2>1, <2>3, CountEmpty, SameCounts
    <3>3. Slack' = Slack /\ executed <= Slack
      BY <1>0, <1>r, <2>1, <2>2, <2>3, <3>2 DEF Slack
    <3>4. PacketSize * executed <= PacketSize * Slack
          /\ PacketSize * Slack \in Nat /\ PacketSize * executed \in Nat
      BY <1>0, <3>3, ProductArith
    <3>0. OnTheirWay' = Len(frame) /\ OnTheirWay' < PacketSize
      BY <1>0, <2>1, <3>1, <3>2 DEF OnTheirWay
    <3>5. Covers(Slack, 0, 0, OnTheirWay') /\ Covers(Slack, 0, executed, OnTheirWay')
      BY <1>0, <3>0, <3>4 DEF Covers
    <3>6. Paid(Count(tx, Replies), Slack)'
      BY <2>2, <3>2, <3>3, <3>5 DEF Paid
    <3>7. Runs' = executed /\ Funds' = Slack
      BY <1>0, <2>1, <2>2, <3>2, <3>3 DEF Runs, Funds
    <3>8. Paid(Runs, Funds)'
      BY <2>2, <3>5, <3>7 DEF Paid
    <3> QED BY <1>r, <2>1, <2>2, <3>3, <3>6, <3>8, SameCounts DEF RetryInv
  <2>4. CASE late' = late + 1
    <3>1. Slack' = Slack + 1
      BY <1>0, <2>1, <2>4 DEF Slack
    <3>2. /\ Runs' = Runs /\ OnTheirWay' = OnTheirWay
      BY <2>1, SameCounts DEF Runs, OnTheirWay
    <3>3. Funds' = Funds + 1
      BY <1>0, <2>2, <3>1 DEF Funds
    <3>4. Moved(OnTheirWay', InHand, 0, OnTheirWay, InHand', 1)
      BY <1>0, <2>2, <3>2 DEF Moved
    <3>5. /\ Balanced(Count(tx, Replies)', Slack, 1, Count(tx, Replies), Slack', 0)
          /\ Balanced(Runs', Funds, 1, Runs, Funds', 0)
      BY <1>0, <2>1, <3>1, <3>2, <3>3, SameCounts DEF Balanced
    <3>6. /\ Paid(Count(tx, Replies), Slack)'
          /\ Paid(Runs, Funds)'
      BY <3>4, <3>5, RetryPaid
    <3>7. Slack' # 0
      BY <1>0, <3>1
    <3> QED BY <1>r, <2>1, <2>2, <3>6, <3>7, SameCounts DEF RetryInv
  <2> QED BY <1>5, <2>3, <2>4 DEF Timeout
<1>6. CASE NewCommand
  <2>1. /\ phase \in {"done", "failed"} /\ phase' = "sending" /\ sent' = 0
        /\ executed' = 0 /\ UNCHANGED <<tx, frame, rx, late, unheard>>
    BY <1>6 DEF NewCommand
  <2>2. InHand = 0 /\ InHand' = 0 /\ Seen' = 0 /\ Slack' = Slack
        /\ OnTheirWay' = OnTheirWay
    BY <2>1 DEF InHand, Seen, Slack, OnTheirWay
  <2>3. Paid(Count(tx, Replies), Slack)
    BY DEF RetryInv
  <2>4. Paid(Count(tx, Replies), Slack)'
    BY <2>1, <2>2, <2>3, SameCounts DEF Paid
  <2>5. Count(tx, Replies) <= Slack
    BY <1>0, <2>1, <2>3, PaidBound
  <2>6. Slack = 0 => Count(tx, {"ACK"}) = 0
    BY <1>0, <2>5
  <2>7. Paid(Runs, Funds)'
    <3>1. /\ PacketSize * Count(tx, {"NACK"}) <= PacketSize * Count(tx, Replies)
          /\ PacketSize * Count(tx, {"NACK"}) \in Nat
          /\ PacketSize * Count(tx, Replies) \in Nat
          /\ PacketSize * Slack \in Nat
      BY <1>0, ProductArith
    <3>2. Covers(Slack, 0, Count(tx, {"NACK"}), OnTheirWay)
      BY <1>0, <2>2, <2>3, <3>1 DEF Paid, Covers
    <3>3. Runs' = Count(tx, {"NACK"}) /\ Funds' = Slack
      BY <1>0, <2>1, <2>2, SameCounts DEF Runs, Funds
    <3> QED BY <2>2, <3>2, <3>3 DEF Paid
  <2> QED BY <1>0, <2>1, <2>2, <2>4, <2>6, <2>7, SameCounts DEF RetryInv
<1> QED BY <1>1, <1>2, <1>3, <1>4, <1>5, <1>6 DEF PC

(* A packet from the MCU is lost or misread.                               *)
LEMMA RetryMishear ==
  ASSUME TypeOK, TypeOK', RetryInv, Mishear
  PROVE  RetryInv'
<1>0. /\ Count(tx, Replies) \in Nat /\ Count(tx, {"ACK"}) \in Nat
      /\ Count(tx, {"NACK"}) \in Nat
      /\ Len(frame) \in Nat /\ Len(rx) \in Nat /\ InHand \in Nat /\ Seen \in Nat
      /\ late \in Nat /\ unheard \in Nat /\ Slack \in Nat /\ executed \in Nat
      /\ PacketSize \in Nat
  BY RetryTypes
<1>1. /\ unheard' = unheard + 1
      /\ UNCHANGED <<phase, sent, frame, rx, late, executed>>
  BY DEF Mishear, pcVars, ringVars, frameVars
<1>2. InHand' = InHand /\ Seen' = Seen /\ Slack' = Slack + 1
  BY <1>0, <1>1 DEF InHand, Seen, Slack
<1>3. /\ Count(tx, Replies)' \in Nat /\ Count(tx, {"ACK"})' \in Nat
      /\ Count(tx, {"NACK"})' \in Nat
      /\ Count(tx, Replies)' <= Count(tx, Replies) + 1
      /\ Count(tx, {"NACK"})' <= Count(tx, {"NACK"}) + 1
      /\ Count(tx, {"ACK"}) <= Count(tx, {"ACK"})' + 1
  BY MishearCounts, CountPrime
<1>m. /\ OnTheirWay' = OnTheirWay /\ Funds' = Funds + 1
      /\ OnTheirWay \in Nat /\ Runs \in Nat /\ Funds \in Nat /\ Runs' \in Nat
      /\ PacketSize * 0 = 0
  <2>1. OnTheirWay' = OnTheirWay
    BY <1>1 DEF OnTheirWay
  <2>2. Funds' = Funds + 1
    BY <1>0, <1>2 DEF Funds
  <2> QED BY <2>1, <2>2, RetryTypes, RetryTypesNext
<1>r. Runs' <= Runs + 1
  <2> DEFINE x == Count(tx, {"NACK"})
             y == Count(tx, {"NACK"})'
  <2>1. /\ x \in Nat /\ y \in Nat /\ y <= x + 1 /\ executed \in Nat
    BY <1>0, <1>3
  <2> HIDE DEF x, y
  <2>2. executed + y <= executed + x + 1
    BY <2>1
  <2> QED BY <1>1, <2>2 DEF Runs, x, y
<1>4. Moved(OnTheirWay', InHand, 0, OnTheirWay, InHand', 0)
  BY <1>0, <1>2, <1>m DEF Moved
<1>5. /\ Balanced(Count(tx, Replies)', Slack, 0, Count(tx, Replies), Slack', 0)
      /\ Balanced(Runs', Funds, 0, Runs, Funds', 0)
  <2> DEFINE x == Count(tx, Replies)'
             y == Runs'
  <2>1. x \in Nat /\ y \in Nat /\ x <= Count(tx, Replies) + 1 /\ y <= Runs + 1
    BY <1>3, <1>m, <1>r
  <2> HIDE DEF x, y
  <2>2. /\ Balanced(x, Slack, 0, Count(tx, Replies), Slack + 1, 0)
        /\ Balanced(y, Funds, 0, Runs, Funds + 1, 0)
    BY <1>0, <1>m, <2>1 DEF Balanced
  <2> QED BY <1>2, <1>m, <2>2 DEF x, y
<1>6. /\ Paid(Count(tx, Replies), Slack)'
      /\ Paid(Runs, Funds)'
  BY <1>4, <1>5, RetryPaid
<1>7. executed' <= Count(tx, {"ACK"})' + Seen' + unheard' /\ Slack' # 0
  <2>1. executed <= Count(tx, {"ACK"}) + Seen + unheard
    BY DEF RetryInv
  <2> QED BY <1>0, <1>1, <1>2, <1>3, <2>1
<1> QED BY <1>1, <1>6, <1>7 DEF RetryInv

LEMMA RetryByte ==
  ASSUME TypeOK, TypeOK', FrameBounds, RetryInv, PollByte
  PROVE  RetryInv'
<1> USE DEF pcVars, faultVars, frameVars
<1> DEFINE b == Head(rx)
           full == Append(frame, b)
<1>1. /\ frame \in Seq(Bytes) /\ rx \in Seq(Bytes) /\ rx # <<>>
      /\ rx' = Tail(rx) /\ ProcessByte(b)
      /\ UNCHANGED <<phase, sent, late, unheard>>
  BY DEF TypeOK, PollByte
<1>2. /\ Len(frame) \in Nat /\ Len(full) = Len(frame) + 1
      /\ Len(rx) \in Nat /\ Len(rx') \in Nat /\ Len(rx') + 1 = Len(rx)
      /\ Len(<<b>>) = 1 /\ Len(<<>>) = 0
  BY <1>1
<1>3. PacketSize \in Nat /\ PacketSize > 1 /\ Len(frame) < PacketSize
  BY PacketAssumption, FrameRoom
<1>4. ~(Len(frame) >= PacketSize)
  BY <1>2, <1>3
<1> HIDE DEF full, b
<1>5. CASE started => Len(frame) + 1 < PacketSize
  <2>1. UNCHANGED <<tx, executed>>
    BY <1>1, <1>4, <1>5 DEF ProcessByte
  <2>2. frame' = frame \/ frame' = full \/ frame' = <<b>>
    <3>1. CASE started
      BY <1>1, <1>4, <1>5, <3>1 DEF ProcessByte, full
    <3>2. CASE ~started
      BY <1>1, <3>2 DEF ProcessByte, FrameBounds
    <3> QED BY <3>1, <3>2
  <2>3. \/ Len(frame') = Len(frame)
        \/ Len(frame') = Len(frame) + 1
        \/ Len(frame') = 1
    BY <1>2, <2>2
  <2>4. /\ Len(frame') \in Nat
        /\ Len(frame') + Len(rx') <= Len(frame) + Len(rx)
    <3>1. Len(frame) \in Nat /\ Len(rx) \in Nat /\ Len(rx') \in Nat
          /\ Len(rx') + 1 = Len(rx)
      BY <1>2
    <3>2. Len(frame') \in Nat /\ Len(frame') <= Len(frame) + 1
      <4>1. CASE Len(frame') = Len(frame)
        BY <3>1, <4>1
      <4>2. CASE Len(frame') = Len(frame) + 1
        BY <3>1, <4>2
      <4>3. CASE Len(frame') = 1
        BY <3>1, <4>3
      <4> QED BY <2>3, <4>1, <4>2, <4>3
    <3> QED BY <3>1, <3>2
  <2>5. OnTheirWay' <= OnTheirWay
    BY <2>4 DEF OnTheirWay
  <2> QED BY <1>1, <2>1, <2>5, SameCounts, RetryQuiet
<1>6. CASE started /\ ~(Len(frame) + 1 < PacketSize)
  <2>1. HandlePacket(full)
    BY <1>1, <1>4, <1>6 DEF ProcessByte, full
  <2>2. Len(frame) + 1 = PacketSize /\ Len(frame') = 0
    BY <1>2, <1>3, <1>6, <2>1 DEF HandlePacket, BufferReset
  <2>3. executed \in Nat
    BY DEF TypeOK
  <2>4. \E e \in Replies :
          /\ tx' = Append(tx, e)
          /\ \/ e = "ACK" /\ executed' = executed + 1
             \/ e = "NACK" /\ executed' = executed
    BY <2>1, <2>3 DEF HandlePacket, Replies
  <2> QED BY <1>1, <1>2, <2>2, <2>4, RetryAnswer
<1> QED BY <1>5, <1>6

LEMMA RetryMcu ==
  ASSUME TypeOK, TypeOK', FrameBounds, RetryInv, MCU
  PROVE  RetryInv'
<1> USE DEF pcVars, ringVars, faultVars, frameVars
<1>0. Len(frame) \in Nat /\ Len(rx) \in Nat /\ Len(<<>>) = 0
  BY RetryTypes
<1>1. CASE PollFlush
  <2>1. UNCHANGED <<phase, sent, late, unheard, executed, frame, rx>>
    BY <1>1 DEF PollFlush
  <2>2. /\ Count(tx, Replies)' = Count(tx, Replies)
        /\ Count(tx, {"ACK"})' = Count(tx, {"ACK"})
        /\ Count(tx, {"NACK"})' = Count(tx, {"NACK"})
    <3>1. CASE tx' = <<event>> /\ event # "none" /\ tx = <<>>
      <4>1. event \in Events
        BY <3>1 DEF TypeOK
      <4>2. /\ Hits(<<event>>, Replies) = {} /\ Hits(<<event>>, {"ACK"}) = {}
            /\ Hits(<<event>>, {"NACK"}) = {}
        BY <4>1 DEF Hits, Replies, Events
      <4>3. Count(tx', Replies) = 0 /\ Count(tx', {"ACK"}) = 0
            /\ Count(tx', {"NACK"}) = 0
        BY <3>1, <4>2, FS_EmptySet DEF Count
      <4> QED BY <3>1, <4>3, CountEmpty, CountPrime
    <3>2. CASE UNCHANGED tx
      BY <3>2, SameCounts
    <3> QED BY <1>1, <3>1, <3>2 DEF PollFlush
  <2>3. OnTheirWay' <= OnTheirWay
    BY <1>0, <2>1 DEF OnTheirWay
  <2> QED BY <2>1, <2>2, <2>3, RetryQuiet
<1>2. CASE PollGuard
  <2>1. /\ UNCHANGED <<phase, sent, late, unheard, executed, rx, tx>>
        /\ frame' = frame \/ frame' = <<>>
    BY <1>2 DEF PollGuard, BufferReset
  <2>2. OnTheirWay' <= OnTheirWay
    BY <1>0, <2>1 DEF OnTheirWay
  <2> QED BY <2>1, <2>2, SameCounts, RetryQuiet
<1>3. CASE PollByte
  BY <1>3, RetryByte
<1>4. CASE PollEnd
  <2>1. UNCHANGED <<phase, sent, late, unheard, executed, rx, tx, frame>>
    BY <1>4 DEF PollEnd
  <2>2. OnTheirWay' <= OnTheirWay
    BY <1>0, <2>1 DEF OnTheirWay
  <2> QED BY <2>1, <2>2, SameCounts, RetryQuiet
<1> QED BY <1>1, <1>2, <1>3, <1>4 DEF MCU

LEMMA RetryAlways == Spec => []RetryInv
<1>1. Init => RetryInv
  <2> SUFFICES ASSUME Init PROVE RetryInv
    OBVIOUS
  <2>1. /\ phase = "sending" /\ sent = 0 /\ late = 0 /\ unheard = 0
        /\ executed = 0 /\ tx = <<>> /\ frame = <<>> /\ rx = <<>>
    BY DEF Init
  <2>2. /\ Count(tx, Replies) = 0 /\ Count(tx, {"ACK"}) = 0
        /\ Count(tx, {"NACK"}) = 0
        /\ InHand = 0 /\ Seen = 0 /\ Slack = 0 /\ OnTheirWay = 0
    BY <2>1, CountEmpty DEF InHand, Seen, Slack, OnTheirWay
  <2>3. PacketSize \in Nat /\ PacketSize > 1 /\ PacketSize * 0 = 0
    BY PacketAssumption
  <2>4. Paid(0, 0)
    BY <2>2, <2>3 DEF Paid, Covers
  <2>5. Runs = 0 /\ Funds = 0
    BY <2>1, <2>2 DEF Runs, Funds
  <2> QED BY <2>1, <2>2, <2>4, <2>5 DEF RetryInv
<1>2. TypeOK /\ FrameBounds /\ RetryInv /\ [Next]_vars => RetryInv'
  <2> SUFFICES ASSUME TypeOK, FrameBounds, RetryInv, [Next]_vars
               PROVE  RetryInv'
    OBVIOUS
  <2>1. TypeOK'
    BY StepIInv
  <2>2. CASE UNCHANGED vars
    <3>1. UNCHANGED <<phase, sent, late, unheard, executed, rx, tx, frame>>
      BY <2>2 DEF vars, pcVars, ringVars, faultVars, frameVars
    <3>2. Len(frame) \in Nat /\ Len(rx) \in Nat
      BY RetryTypes
    <3>3. OnTheirWay' <= OnTheirWay
      BY <3>1, <3>2 DEF OnTheirWay
    <3> QED BY <2>1, <3>1, <3>3, SameCounts, RetryQuiet
  <2> QED BY <2>1, <2>2, RetryPc, RetryMishear, RetryMcu DEF Next
<1> QED BY <1>1, <1>2, TypeCorrect, FrameAlwaysFits, PTL DEF Spec

(* The command runs once more at most for every answer that came late or   *)
(* was not heard, whatever happened to the requests, and if all answers    *)
(* were heard in time it has run exactly when the PC says so.              *)
THEOREM RepeatsAreAccounted == Spec => []RunOnce
<1>1. TypeOK /\ RetryInv => RunOnce
  <2> SUFFICES ASSUME TypeOK, RetryInv PROVE RunOnce
    OBVIOUS
  <2>1. /\ Count(tx, Replies) \in Nat /\ Count(tx, {"ACK"}) \in Nat
        /\ Count(tx, {"NACK"}) \in Nat
        /\ Count(tx, {"ACK"}) <= Count(tx, Replies)
        /\ late \in Nat /\ unheard \in Nat /\ executed \in Nat
        /\ Slack \in Nat /\ Seen \in {0, 1}
    BY RetryTypes
  <2>2. Runs \in Nat /\ Funds \in Nat /\ executed <= Runs
    BY <2>1 DEF Runs, Funds
  <2>3. Runs <= Funds + 1 /\ (phase \in {"done", "failed"} => Runs <= Funds)
    BY <2>2, PaidBound DEF RetryInv
  <2>4. Count(tx, Replies) <= Slack + 1
        /\ (phase \in {"done", "failed"} => Count(tx, Replies) <= Slack)
    <3>1. Paid(Count(tx, Replies), Slack)
      BY DEF RetryInv
    <3> QED BY <2>1, <3>1, PaidBound
  <2>5. executed <= 1 + Slack
    <3>1. CASE phase = "done"
      <4>1. Runs <= Funds /\ Funds <= Slack + 1
        BY <2>1, <2>3, <3>1 DEF Funds
      <4> QED BY <2>1, <2>2, <4>1
    <3>2. CASE phase # "done"
      <4>1. Runs <= Funds + 1 /\ Funds = Slack
        BY <2>1, <2>3, <3>2 DEF Seen, Funds
      <4> QED BY <2>1, <2>2, <4>1
    <3> QED BY <3>1, <3>2
  <2>6. Slack = 0 => executed = Count(tx, {"ACK"}) + Seen
    BY DEF RetryInv
  <2>7. 1 + late + unheard = 1 + Slack /\ late + unheard = Slack
    BY <2>1 DEF Slack
  <2>8. Slack = 0 /\ phase \in {"done", "failed"} => executed = Seen
    BY <2>1, <2>4, <2>6
  <2> QED BY <2>5, <2>7, <2>8 DEF RunOnce, Seen
<1> QED BY <1>1, RetryAlways, TypeCorrect, PTL
-----------------------------------------------------------------------------
(* Three attempts mask one fault.  The invariant says what one fault can   *)
(* have left behind.                                                       *)

(* What the MCU has not handled yet, and the answers on their way.         *)
Stream  == frame \o rx
Answers == Count(tx, Replies)
Acks    == Count(tx, {"ACK"})

(* After the first n bytes of the stream come k of packet x.               *)
Carries(x, n, k) == \A i \in 1 .. k : Stream[n + i] = ByteOf(x, i)

(* The next frame has begun or begins with the next byte; or no frame has, *)
(* and no byte on its way begins one.                                      *)
Framing == Len(Stream) > 0 /\ IsStart(Stream[1])
Deaf    == frame = <<>> /\ \A i \in 1 .. Len(Stream) : ~IsStart(Stream[i])

(* The current attempt arrives as it was sent, after at most some bytes    *)
(* that the MCU will skip; or it has been answered.                        *)
Intact == /\ phase # "failed" /\ Answers = 0
          /\ \E j \in 0 .. PacketSize - 1 :
               /\ Len(Stream) = j + InHand
               /\ j > 0 => frame = <<>>
               /\ \A i \in 1 .. j : ~IsStart(Stream[i])
               /\ Carries(command, j, InHand)
Answered == phase = "waiting" /\ Len(Stream) = 0 /\ Answers = 1 /\ Acks = 1

(* A byte of the first attempt was corrupted after the frame began; the    *)
(* frame never began; a byte of it was lost, so that the first byte of the *)
(* second attempt ends it; and the MCU has refused what it got.            *)
Garbled == /\ attempt = 1 /\ Answers = 0 /\ Framing /\ Len(Stream) = sent
           /\ \E i \in 1 .. sent : Stream[i].packet = Noise
Missed  == attempt = 1 /\ Answers = 0 /\ Deaf /\ Len(Stream) <= sent /\ sent > 0
Short   == attempt = 1 /\ Answers = 0 /\ Framing /\ Len(Stream) + 1 = sent
Shifted == /\ attempt = 2 /\ Answers = 0 /\ Framing
           /\ Len(Stream) + 1 = PacketSize + sent
           /\ Carries(command, PacketSize - 1, sent)
Refused == /\ attempt \in {1, 2} /\ Answers = 1 /\ Acks = 0
           /\ Deaf /\ Len(Stream) < sent
Broken  == /\ phase \in {"sending", "waiting"}
           /\ Garbled \/ Missed \/ Short \/ Shifted \/ Refused

(* An answer came late: from then on the MCU is a packet behind, or an     *)
(* answer or two ahead.                                                    *)
PacketBehind == /\ Answers = 0
                /\ Len(Stream) = PacketSize + InHand
                /\ \E x \in Packet : Carries(x, 0, PacketSize)
                /\ Carries(command, PacketSize, InHand)
AnswerAhead  == Answers = 1 /\ Len(Stream) = InHand /\ Carries(command, 0, InHand)
AnswersAhead == Answers = 2 /\ Len(Stream) = 0 /\ phase = "waiting"
Behind == /\ phase # "failed" /\ Acks = Answers
          /\ PacketBehind \/ AnswerAhead \/ AnswersAhead

Mended  == Intact \/ Answered \/ Broken
MaskInv == /\ faults + late = 0 => attempt = 1
           /\ faults + late = 1 => /\ ~rx_overflow
                                   /\ IF late = 0 THEN Mended ELSE Behind

(* Two sequences, one after the other.                                     *)
LEMMA Concatenation ==
  ASSUME NEW T, NEW f \in Seq(T), NEW r \in Seq(T)
  PROVE  /\ f \o r \in Seq(T)
         /\ Len(f) \in Nat /\ Len(r) \in Nat
         /\ Len(f \o r) = Len(f) + Len(r)
         /\ \A i \in 1 .. Len(f) : (f \o r)[i] = f[i]
         /\ \A i \in 1 .. Len(r) : (f \o r)[Len(f) + i] = r[i]
         /\ f = <<>> => f \o r = r
<1>1. f = <<>> => f \o r = r
  OBVIOUS
<1> QED BY <1>1

LEMMA StreamType ==
  ASSUME TypeOK
  PROVE  /\ Stream \in Seq(Bytes) /\ Len(Stream) \in Nat
         /\ Len(frame) \in Nat /\ Len(rx) \in Nat
         /\ Len(Stream) = Len(frame) + Len(rx)
         /\ \A i \in 1 .. Len(frame) : Stream[i] = frame[i]
         /\ \A i \in 1 .. Len(rx) : Stream[Len(frame) + i] = rx[i]
<1>1. frame \in Seq(Bytes) /\ rx \in Seq(Bytes)
  BY DEF TypeOK
<1>2. Stream \in Seq(Bytes)
  BY <1>1, Concatenation DEF Stream
<1> QED BY <1>1, <1>2, Concatenation DEF Stream

(* A byte of a command that does not look like START after its first byte. *)
LEMMA PlainBytes ==
  ASSUME TypeOK
  PROVE  /\ \A x \in Packet : IsStart(ByteOf(x, 1))
         /\ Plain => \A i \in Nat : i > 1 => ~IsStart(ByteOf(command, i))
         /\ \A b \in NoiseByte : b.packet = Noise /\ b \in Bytes
<1>1. \A b \in NoiseByte : b.packet = Noise /\ b \in Bytes
  BY ByteLemma DEF NoiseByte, ByteOf
<1> QED BY <1>1 DEF IsStart, ByteOf, Plain

(* A byte arrives in a ring that has room for it.                          *)
LEMMA StreamGrows ==
  ASSUME TypeOK, NEW b \in Bytes, frame' = frame, rx' = Append(rx, b)
  PROVE  /\ Len(Stream') = Len(Stream) + 1
         /\ \A i \in 1 .. Len(Stream) : Stream'[i] = Stream[i]
         /\ Stream'[Len(Stream) + 1] = b
<1>1. Stream' = Append(Stream, b)
  BY DEF TypeOK, Stream
<1>2. Stream \in Seq(Bytes)
  BY StreamType
<1> QED BY <1>1, <1>2

(* The MCU takes the next byte: it skips it, adds it to a frame that is    *)
(* not complete yet, or completes a frame and answers it.                  *)
Skip == /\ frame = <<>> /\ frame' = <<>> /\ ~IsStart(Stream[1])
        /\ Len(Stream') = Len(Stream) - 1
        /\ \A i \in 1 .. Len(Stream) - 1 : Stream'[i] = Stream[i + 1]
        /\ UNCHANGED tx
Take == IsStart(Stream[1]) /\ Stream' = Stream /\ UNCHANGED tx
Complete ==
  /\ IsStart(Stream[1]) /\ frame' = <<>>
  /\ Len(Stream) >= PacketSize /\ Len(Stream') = Len(Stream) - PacketSize
  /\ \A i \in 1 .. Len(Stream') : Stream'[i] = Stream[PacketSize + i]
  /\ \/ tx' = Append(tx, "ACK")  /\ \E x \in Packet : Carries(x, 0, PacketSize)
     \/ tx' = Append(tx, "NACK") /\ ~\E x \in Packet : Carries(x, 0, PacketSize)

LEMMA PollCases ==
  ASSUME TypeOK, FrameBounds, PollByte
  PROVE  Len(Stream) > 0 /\ (Skip \/ Take \/ Complete)
<1> DEFINE b == Head(rx)
           full == Append(frame, b)
<1>p. PacketSize \in Nat /\ PacketSize > 1
  BY PacketAssumption
<1>0. /\ frame \in Seq(Bytes) /\ rx \in Seq(Bytes) /\ rx # <<>>
      /\ rx' = Tail(rx) /\ ProcessByte(b)
  BY DEF TypeOK, PollByte
<1>1. /\ Len(frame) \in Nat /\ Len(rx) \in Nat \ {0} /\ b = rx[1] /\ b \in Bytes
      /\ rx' \in Seq(Bytes) /\ Len(rx') = Len(rx) - 1
      /\ \A i \in 1 .. Len(rx) - 1 : rx'[i] = rx[i + 1]
  BY <1>0
<1>2. /\ full \in Seq(Bytes) /\ Len(full) = Len(frame) + 1
      /\ full[Len(frame) + 1] = b
      /\ \A i \in 1 .. Len(frame) : full[i] = frame[i]
  BY <1>0, <1>1
<1>3. /\ Len(Stream) \in Nat /\ Len(Stream) = Len(frame) + Len(rx)
      /\ \A i \in 1 .. Len(frame) : Stream[i] = frame[i]
      /\ \A i \in 1 .. Len(rx) : Stream[Len(frame) + i] = rx[i]
  BY StreamType
<1>4. Len(Stream) > 0
  BY <1>1, <1>3
<1>5. Stream = full \o rx'
  BY <1>0, <1>1 DEF Stream
<1>6. Len(frame) < PacketSize
  BY FrameRoom
<1> HIDE DEF b, full
<1>7. CASE ~started
  <2>1. frame = <<>> /\ Len(frame) = 0 /\ Stream = rx
    <3>1. frame = <<>>
      BY <1>7 DEF FrameBounds
    <3> QED BY <1>0, <3>1, Concatenation DEF Stream
  <2>2. Stream[1] = b /\ UNCHANGED tx
    BY <1>0, <1>1, <1>7, <2>1 DEF ProcessByte
  <2>3. CASE IsStart(b)
    <3>1. frame' = <<b>>
      BY <1>0, <1>7, <2>3 DEF ProcessByte
    <3>2. full = <<b>>
      BY <2>1 DEF full
    <3>3. Take
      BY <1>5, <2>2, <2>3, <3>1, <3>2 DEF Take, Stream, IsStart
    <3> QED BY <1>4, <3>3
  <2>4. CASE ~IsStart(b)
    <3>1. frame' = frame
      BY <1>0, <1>7, <2>4 DEF ProcessByte, frameVars
    <3>2. Stream' = rx'
      BY <1>1, <2>1, <3>1, Concatenation DEF Stream
    <3>3. Skip
      BY <1>1, <2>1, <2>2, <2>4, <3>1, <3>2 DEF Skip, IsStart
    <3> QED BY <1>4, <3>3
  <2> QED BY <2>3, <2>4
<1>8. CASE started
  <2>1. Len(frame) \in 1 .. PacketSize - 1 /\ IsStart(frame[1])
    BY <1>8 DEF FrameBounds
  <2>2. IsStart(Stream[1])
    <3>1. Stream[1] = frame[1]
      BY <1>p, <1>3, <2>1
    <3> QED BY <2>1, <3>1 DEF IsStart
  <2>3. ~(Len(frame) >= PacketSize)
    BY <1>p, <2>1
  <2>4. CASE Len(frame) + 1 < PacketSize
    <3>1. frame' = full /\ UNCHANGED tx
      BY <1>0, <1>8, <2>3, <2>4 DEF ProcessByte, full
    <3>2. Take
      BY <1>5, <2>2, <3>1 DEF Take, Stream
    <3> QED BY <1>4, <3>2
  <2>5. CASE ~(Len(frame) + 1 < PacketSize)
    <3>1. HandlePacket(full)
      BY <1>0, <1>8, <2>3, <2>5 DEF ProcessByte, full
    <3>2. Len(full) = PacketSize
      BY <1>p, <1>2, <2>1, <2>5
    <3>3. frame' = <<>>
      BY <3>1 DEF HandlePacket, BufferReset
    <3>4. Stream' = rx'
      BY <1>1, <3>3, Concatenation DEF Stream
    <3>5. /\ Len(Stream) = PacketSize + Len(rx')
          /\ \A i \in 1 .. PacketSize : Stream[i] = full[i]
          /\ \A i \in 1 .. Len(rx') : Stream[PacketSize + i] = rx'[i]
          /\ Len(rx') \in Nat
      <4>1. /\ Len(full \o rx') = Len(full) + Len(rx')
            /\ \A i \in 1 .. Len(full) : (full \o rx')[i] = full[i]
            /\ \A i \in 1 .. Len(rx') : (full \o rx')[Len(full) + i] = rx'[i]
            /\ Len(rx') \in Nat
        <5>1. full \in Seq(Bytes) /\ rx' \in Seq(Bytes)
          BY <1>1, <1>2
        <5> QED BY <5>1, Concatenation
      <4> QED BY <1>5, <3>2, <4>1
    <3>6. ASSUME NEW x \in Packet
          PROVE  Carries(x, 0, PacketSize)
                   <=> \A i \in 1 .. PacketSize : full[i] = ByteOf(x, i)
      <4>1. \A i \in 1 .. PacketSize : 0 + i = i
        BY <1>p
      <4> QED BY <3>5, <4>1 DEF Carries
    <3>7. Valid(full) <=> \E x \in Packet : Carries(x, 0, PacketSize)
      <4>1. ASSUME Valid(full) PROVE \E x \in Packet : Carries(x, 0, PacketSize)
        <5>1. PICK x \in Packet : full = [i \in Position |-> ByteOf(x, i)]
          BY <4>1 DEF Valid
        <5>2. \A i \in 1 .. PacketSize : full[i] = ByteOf(x, i)
          BY <5>1 DEF Position
        <5> QED BY <3>6, <5>2
      <4>2. ASSUME NEW x \in Packet, Carries(x, 0, PacketSize) PROVE Valid(full)
        BY <1>2, <3>2, <3>6, <4>2, WholeIsValid
      <4> QED BY <4>1, <4>2
    <3>8. \/ tx' = Append(tx, "ACK")  /\ Valid(full)
          \/ tx' = Append(tx, "NACK") /\ ~Valid(full)
      BY <3>1 DEF HandlePacket
    <3>9. Len(Stream) >= PacketSize /\ Len(Stream') = Len(Stream) - PacketSize
      BY <1>p, <3>4, <3>5
    <3>10. \A i \in 1 .. Len(Stream') : Stream'[i] = Stream[PacketSize + i]
      BY <3>4, <3>5
    <3>11. Complete
      BY <2>2, <3>3, <3>7, <3>8, <3>9, <3>10 DEF Complete
    <3> QED BY <1>4, <3>11
  <2> QED BY <2>4, <2>5
<1> QED BY <1>7, <1>8 DEF TypeOK

(* The answers on their way are counted in Nat, the MCU adds one only when *)
(* it completes a frame, and nothing of the attempt changes then.          *)
LEMMA MaskTypes ==
  ASSUME TypeOK
  PROVE  /\ Answers \in Nat /\ Acks \in Nat /\ Acks <= Answers
         /\ Len(Stream) \in Nat /\ InHand \in 0 .. PacketSize
         /\ sent \in 0 .. PacketSize /\ attempt \in Nat /\ command \in Packet
         /\ faults \in Nat /\ late \in Nat
         /\ PacketSize \in Nat /\ PacketSize > 1
         /\ phase = "sending" => sent < PacketSize
<1>1. /\ sent \in 0 .. PacketSize /\ attempt \in Nat /\ command \in Packet
      /\ faults \in Nat /\ late \in Nat
      /\ phase = "sending" => sent < PacketSize
  BY DEF TypeOK
<1> QED BY <1>1, RetryTypes, StreamType DEF Answers, Acks

LEMMA MaskCounts ==
  ASSUME TypeOK
  PROVE  /\ UNCHANGED tx => Answers' = Answers /\ Acks' = Acks
         /\ tx' = Append(tx, "ACK")  => Answers' = Answers + 1 /\ Acks' = Acks + 1
         /\ tx' = Append(tx, "NACK") => Answers' = Answers + 1 /\ Acks' = Acks
<1>1. ASSUME tx' = Append(tx, "ACK")
      PROVE  Answers' = Answers + 1 /\ Acks' = Acks + 1
  <2>1. "ACK" \in Replies
    BY DEF Replies
  <2> QED BY <1>1, <2>1, AnswerCounts DEF Answers, Acks
<1>2. ASSUME tx' = Append(tx, "NACK")
      PROVE  Answers' = Answers + 1 /\ Acks' = Acks
  <2>1. "NACK" \in Replies /\ "NACK" # "ACK" /\ Acks \in Nat
    BY MaskTypes DEF Replies
  <2> QED BY <1>2, <2>1, AnswerCounts DEF Answers, Acks
<1> QED BY <1>1, <1>2, SameCounts DEF Answers, Acks

(* mdt_process_byte while the current attempt is the only one on its way.  *)
LEMMA ByteIntact ==
  ASSUME TypeOK, FrameBounds, RetryInv, PollByte, Intact
  PROVE  Intact' \/ Answered'
<1>0. /\ UNCHANGED <<command, sent, phase>> /\ InHand' = InHand
  BY DEF PollByte, pcVars, InHand
<1>t. /\ Answers = 0 /\ Acks \in Nat /\ Acks <= Answers /\ Len(Stream) \in Nat
      /\ InHand \in 0 .. PacketSize /\ PacketSize \in Nat /\ PacketSize > 1
      /\ phase # "failed" /\ command \in Packet
      /\ phase = "sending" => sent < PacketSize
  BY MaskTypes DEF Intact
<1>1. PICK j \in 0 .. PacketSize - 1 :
               /\ Len(Stream) = j + InHand
               /\ j > 0 => frame = <<>>
               /\ \A i \in 1 .. j : ~IsStart(Stream[i])
               /\ Carries(command, j, InHand)
  BY DEF Intact
<1>2. Len(Stream) > 0 /\ (Skip \/ Take \/ Complete)
  BY PollCases
<1>3. j = 0 => IsStart(Stream[1])
  <2> SUFFICES ASSUME j = 0 PROVE IsStart(Stream[1])
    OBVIOUS
  <2>1. 1 \in 1 .. InHand /\ j + 1 = 1
    BY <1>t, <1>1, <1>2
  <2>2. Stream[1] = ByteOf(command, 1)
    BY <1>1, <2>1 DEF Carries
  <2> QED BY <1>t, <2>2, PlainBytes
<1>4. j > 0 => ~IsStart(Stream[1])
  BY <1>1
<1>5. CASE Skip
  <2>1. j > 0 /\ j - 1 \in 0 .. PacketSize - 1
    BY <1>t, <1>3, <1>5 DEF Skip
  <2>2. /\ Len(Stream') = (j - 1) + InHand /\ frame' = <<>>
        /\ \A i \in 1 .. Len(Stream) - 1 : Stream'[i] = Stream[i + 1]
        /\ Answers' = 0
    BY <1>t, <1>1, <1>5, <2>1, MaskCounts DEF Skip
  <2>3. \A i \in 1 .. j - 1 : ~IsStart(Stream'[i])
    <3> SUFFICES ASSUME NEW i \in 1 .. j - 1 PROVE ~IsStart(Stream'[i])
      OBVIOUS
    <3>1. i \in 1 .. Len(Stream) - 1 /\ i + 1 \in 1 .. j
      BY <1>t, <1>1, <2>1
    <3> QED BY <1>1, <2>2, <3>1
  <2>4. \A i \in 1 .. InHand : Stream'[(j - 1) + i] = ByteOf(command, i)
    <3> SUFFICES ASSUME NEW i \in 1 .. InHand
                 PROVE  Stream'[(j - 1) + i] = ByteOf(command, i)
      OBVIOUS
    <3>1. (j - 1) + i \in 1 .. Len(Stream) - 1 /\ ((j - 1) + i) + 1 = j + i
      BY <1>t, <1>1, <2>1
    <3>2. Stream[j + i] = ByteOf(command, i)
      BY <1>1 DEF Carries
    <3> QED BY <2>2, <3>1, <3>2
  <2>5. Carries(command, j - 1, InHand)'
    BY <1>0, <2>4 DEF Carries
  <2>6. Intact'
    BY <1>0, <1>t, <2>1, <2>2, <2>3, <2>5 DEF Intact, IsStart
  <2> QED BY <2>6
<1>6. CASE Take
  <2>1. j = 0 /\ Stream' = Stream /\ Answers' = 0
    BY <1>t, <1>1, <1>4, <1>6, MaskCounts DEF Take
  <2>2. Carries(command, 0, InHand)'
    BY <1>0, <1>1, <2>1 DEF Carries
  <2>3. 0 \in 0 .. PacketSize - 1 /\ Len(Stream') = 0 + InHand
    BY <1>t, <1>1, <2>1
  <2>4. \A i \in 1 .. 0 : ~IsStart(Stream'[i])
    OBVIOUS
  <2>5. Intact'
    BY <1>0, <1>t, <2>1, <2>2, <2>3, <2>4 DEF Intact, IsStart
  <2> QED BY <2>5
<1>7. CASE Complete
  <2>1. j = 0 /\ InHand = PacketSize /\ Len(Stream') = 0
    BY <1>t, <1>1, <1>4, <1>7 DEF Complete
  <2>2. phase = "waiting"
    BY <1>t, <2>1 DEF InHand
  <2>3. Carries(command, 0, PacketSize)
    BY <1>1, <2>1
  <2>4. tx' = Append(tx, "ACK")
    BY <1>t, <1>7, <2>3 DEF Complete
  <2>5. Answers' = 1 /\ Acks' = 1
    BY <1>t, <2>4, MaskCounts
  <2>6. Answered'
    BY <1>0, <2>1, <2>2, <2>5 DEF Answered
  <2> QED BY <2>6
<1> QED BY <1>2, <1>5, <1>6, <1>7

(* mdt_process_byte on what is left of an attempt that one fault broke.    *)
LEMMA ByteBroken ==
  ASSUME TypeOK, FrameBounds, RetryInv, PollByte, Plain, Broken
  PROVE  Broken'
<1>0. UNCHANGED <<command, attempt, sent, phase>>
  BY DEF PollByte, pcVars
<1>t. /\ Answers \in Nat /\ Acks \in Nat /\ Acks <= Answers
      /\ Len(Stream) \in Nat /\ sent \in 0 .. PacketSize
      /\ PacketSize \in Nat /\ PacketSize > 1 /\ command \in Packet
  BY MaskTypes
<1>2. Len(Stream) > 0 /\ (Skip \/ Take \/ Complete)
  BY PollCases
<1>3. CASE Skip
  <2>1. ~Framing /\ Deaf /\ (Missed \/ Refused)
    BY <1>3 DEF Skip, Broken, Framing, Garbled, Missed, Short, Shifted, Refused
  <2>2. /\ Len(Stream') = Len(Stream) - 1 /\ frame' = <<>>
        /\ \A i \in 1 .. Len(Stream) - 1 : Stream'[i] = Stream[i + 1]
        /\ Answers' = Answers /\ Acks' = Acks
    BY <1>3, MaskCounts DEF Skip
  <2>3. \A i \in 1 .. Len(Stream') : ~IsStart(Stream'[i])
    <3> SUFFICES ASSUME NEW i \in 1 .. Len(Stream') PROVE ~IsStart(Stream'[i])
      OBVIOUS
    <3>1. i \in 1 .. Len(Stream) - 1 /\ i + 1 \in 1 .. Len(Stream)
      BY <1>t, <2>2
    <3> QED BY <2>1, <2>2, <3>1 DEF Deaf
  <2>4. Deaf'
    BY <2>2, <2>3 DEF Deaf, IsStart
  <2>5. Missed => Missed'
    BY <1>0, <1>t, <2>2, <2>4 DEF Missed
  <2>6. Refused => Refused'
    BY <1>0, <1>t, <2>2, <2>4 DEF Refused
  <2> QED BY <1>0, <2>1, <2>5, <2>6 DEF Broken
<1>4. CASE Take
  <2>1. ~Deaf /\ Stream' = Stream /\ Answers' = Answers /\ Acks' = Acks
    BY <1>t, <1>2, <1>4, MaskCounts DEF Take, Deaf
  <2>2. Garbled \/ Short \/ Shifted
    BY <2>1 DEF Broken, Missed, Refused
  <2>3. Framing'
    BY <2>1, <2>2 DEF Garbled, Short, Shifted, Framing, IsStart
  <2>4. Garbled => Garbled'
    BY <1>0, <2>1, <2>3 DEF Garbled
  <2>5. Short => Short'
    BY <1>0, <2>1, <2>3 DEF Short
  <2>6. Shifted => Shifted'
    BY <1>0, <2>1, <2>3 DEF Shifted, Carries
  <2> QED BY <1>0, <2>2, <2>4, <2>5, <2>6 DEF Broken
<1>5. CASE Complete
  <2>1. ~Deaf /\ Len(Stream) >= PacketSize /\ frame' = <<>>
        /\ Len(Stream') = Len(Stream) - PacketSize
        /\ \A i \in 1 .. Len(Stream') : Stream'[i] = Stream[PacketSize + i]
    BY <1>t, <1>2, <1>5 DEF Complete, Deaf
  <2>2. Garbled \/ Shifted
    BY <1>t, <2>1 DEF Broken, Missed, Refused, Short
  <2>3. ASSUME ~\E x \in Packet : Carries(x, 0, PacketSize)
        PROVE  Answers' = Answers + 1 /\ Acks' = Acks
    <3>1. tx' = Append(tx, "NACK")
      BY <1>5, <2>3 DEF Complete
    <3> QED BY <3>1, MaskCounts
  <2>4. Answers = 0 /\ Acks = 0
    BY <1>t, <2>2 DEF Garbled, Shifted
  <2>5. CASE Garbled
    <3>1. sent = PacketSize /\ Len(Stream') = 0 /\ attempt = 1
      BY <1>t, <2>1, <2>5 DEF Garbled
    <3>2. PICK i \in 1 .. sent : Stream[i].packet = Noise
      BY <2>5 DEF Garbled
    <3>3. ~\E x \in Packet : Carries(x, 0, PacketSize)
      <4>1. SUFFICES ASSUME NEW x \in Packet, Carries(x, 0, PacketSize)
                     PROVE  FALSE
        OBVIOUS
      <4>2. 0 + i = i /\ i \in 1 .. PacketSize
        BY <1>t, <3>1
      <4>3. Stream[i] = ByteOf(x, i)
        BY <4>1, <4>2 DEF Carries
      <4> QED BY <3>2, <4>3, PacketAssumption DEF ByteOf
    <3>4. Answers' = 1 /\ Acks' = 0
      BY <2>3, <2>4, <3>3
    <3>5. Deaf'
      <4>1. \A i_1 \in 1 .. Len(Stream') : FALSE
        BY <3>1
      <4> QED BY <2>1, <4>1 DEF Deaf
    <3>6. Refused'
      BY <1>0, <1>t, <3>1, <3>4, <3>5 DEF Refused
    <3> QED BY <1>0, <3>6 DEF Broken
  <2>6. CASE Shifted
    <3>1. /\ attempt = 2 /\ Len(Stream) + 1 = PacketSize + sent
          /\ Carries(command, PacketSize - 1, sent)
      BY <2>6 DEF Shifted
    <3>2. sent > 0 /\ Len(Stream') + 1 = sent /\ Len(Stream') \in Nat
      BY <1>t, <2>1, <3>1
    <3>3. Stream[PacketSize] = ByteOf(command, 1)
      <4>1. 1 \in 1 .. sent /\ (PacketSize - 1) + 1 = PacketSize
        BY <1>t, <3>2
      <4> QED BY <3>1, <4>1 DEF Carries
    <3>4. ~\E x \in Packet : Carries(x, 0, PacketSize)
      <4>1. SUFFICES ASSUME NEW x \in Packet, Carries(x, 0, PacketSize)
                     PROVE  FALSE
        OBVIOUS
      <4>2. 0 + PacketSize = PacketSize /\ PacketSize \in 1 .. PacketSize
            /\ PacketSize # 1
        BY <1>t
      <4>3. Stream[PacketSize] = ByteOf(x, PacketSize)
        BY <4>1, <4>2 DEF Carries
      <4> QED BY <3>3, <4>2, <4>3 DEF ByteOf
    <3>5. Answers' = 1 /\ Acks' = 0
      BY <2>3, <2>4, <3>4
    <3>6. \A i \in 1 .. Len(Stream') : ~IsStart(Stream'[i])
      <4> SUFFICES ASSUME NEW i \in 1 .. Len(Stream') PROVE ~IsStart(Stream'[i])
        OBVIOUS
      <4>1. /\ i + 1 \in 1 .. sent /\ i + 1 > 1 /\ i + 1 \in Nat
            /\ (PacketSize - 1) + (i + 1) = PacketSize + i
        BY <1>t, <3>2
      <4>2. Stream'[i] = Stream[PacketSize + i]
        BY <2>1
      <4>3. Stream[PacketSize + i] = ByteOf(command, i + 1)
        BY <3>1, <4>1 DEF Carries
      <4>4. ~IsStart(ByteOf(command, i + 1))
        BY <4>1, PlainBytes
      <4> QED BY <4>2, <4>3, <4>4
    <3>7. Deaf'
      BY <2>1, <3>6 DEF Deaf, IsStart
    <3>8. Refused'
      BY <1>0, <1>t, <3>1, <3>2, <3>5, <3>7 DEF Refused
    <3> QED BY <1>0, <3>8 DEF Broken
  <2> QED BY <2>2, <2>5, <2>6
<1> QED BY <1>2, <1>3, <1>4, <1>5

(* mdt_process_byte while the MCU is a packet behind or an answer ahead.   *)
LEMMA ByteBehind ==
  ASSUME TypeOK, FrameBounds, RetryInv, PollByte, Behind
  PROVE  Behind'
<1>0. UNCHANGED <<command, phase>> /\ InHand' = InHand
  BY DEF PollByte, pcVars, InHand
<1>t. /\ Answers \in Nat /\ Acks = Answers /\ phase # "failed"
      /\ Len(Stream) \in Nat /\ InHand \in 0 .. PacketSize
      /\ PacketSize \in Nat /\ PacketSize > 1 /\ command \in Packet
      /\ phase = "sending" => sent < PacketSize
  BY MaskTypes DEF Behind
<1>2. Len(Stream) > 0 /\ (Skip \/ Take \/ Complete)
  BY PollCases
<1>3. CASE PacketBehind
  <2>1. PICK x \in Packet : Carries(x, 0, PacketSize)
    BY <1>3 DEF PacketBehind
  <2>2. /\ Answers = 0 /\ Len(Stream) = PacketSize + InHand
        /\ Carries(command, PacketSize, InHand)
    BY <1>3 DEF PacketBehind
  <2>3. IsStart(Stream[1])
    <3>1. 1 \in 1 .. PacketSize /\ 0 + 1 = 1
      BY <1>t
    <3>2. Stream[1] = ByteOf(x, 1)
      BY <2>1, <3>1 DEF Carries
    <3> QED BY <3>2, PlainBytes
  <2>4. CASE Take
    <3>1. Stream' = Stream /\ Answers' = Answers /\ Acks' = Acks
      BY <2>4, MaskCounts DEF Take
    <3>2. Carries(x, 0, PacketSize)' /\ Carries(command, PacketSize, InHand)'
      BY <1>0, <2>1, <2>2, <3>1 DEF Carries
    <3>3. PacketBehind'
      BY <1>0, <2>2, <3>1, <3>2 DEF PacketBehind
    <3> QED BY <1>0, <1>t, <3>1, <3>3 DEF Behind
  <2>5. CASE Complete
    <3>1. tx' = Append(tx, "ACK")
      BY <2>1, <2>5 DEF Complete
    <3>2. Answers' = 1 /\ Acks' = 1
      BY <1>t, <2>2, <3>1, MaskCounts
    <3>3. Len(Stream') = InHand
      BY <1>t, <2>2, <2>5 DEF Complete
    <3>4. \A i \in 1 .. InHand : Stream'[0 + i] = ByteOf(command, i)
      <4> SUFFICES ASSUME NEW i \in 1 .. InHand
                   PROVE  Stream'[0 + i] = ByteOf(command, i)
        OBVIOUS
      <4>1. 0 + i = i
        BY <1>t
      <4>2. Stream'[i] = Stream[PacketSize + i]
        BY <2>5, <3>3 DEF Complete
      <4> QED BY <2>2, <4>1, <4>2 DEF Carries
    <3>5. Carries(command, 0, InHand)'
      BY <1>0, <3>4 DEF Carries
    <3>6. AnswerAhead'
      BY <1>0, <3>2, <3>3, <3>5 DEF AnswerAhead
    <3> QED BY <1>0, <1>t, <3>2, <3>6 DEF Behind
  <2> QED BY <1>2, <2>3, <2>4, <2>5 DEF Skip
<1>4. CASE AnswerAhead
  <2>1. Answers = 1 /\ Len(Stream) = InHand /\ Carries(command, 0, InHand)
    BY <1>4 DEF AnswerAhead
  <2>2. IsStart(Stream[1])
    <3>1. 1 \in 1 .. InHand /\ 0 + 1 = 1
      BY <1>t, <1>2, <2>1
    <3>2. Stream[1] = ByteOf(command, 1)
      BY <2>1, <3>1 DEF Carries
    <3> QED BY <1>t, <3>2, PlainBytes
  <2>3. CASE Take
    <3>1. Stream' = Stream /\ Answers' = Answers /\ Acks' = Acks
      BY <2>3, MaskCounts DEF Take
    <3>2. Carries(command, 0, InHand)'
      BY <1>0, <2>1, <3>1 DEF Carries
    <3>3. AnswerAhead'
      BY <1>0, <2>1, <3>1, <3>2 DEF AnswerAhead
    <3> QED BY <1>0, <1>t, <3>1, <3>3 DEF Behind
  <2>4. CASE Complete
    <3>1. InHand = PacketSize /\ Len(Stream') = 0
      BY <1>t, <2>1, <2>4 DEF Complete
    <3>2. phase = "waiting"
      BY <1>t, <3>1 DEF InHand
    <3>3. Carries(command, 0, PacketSize)
      BY <2>1, <3>1
    <3>4. tx' = Append(tx, "ACK")
      BY <1>t, <2>4, <3>3 DEF Complete
    <3>5. Answers' = 2 /\ Acks' = 2
      BY <1>t, <2>1, <3>4, MaskCounts
    <3>6. AnswersAhead'
      BY <1>0, <3>1, <3>2, <3>5 DEF AnswersAhead
    <3> QED BY <1>0, <1>t, <3>5, <3>6 DEF Behind
  <2> QED BY <1>2, <2>2, <2>3, <2>4 DEF Skip
<1>5. ~AnswersAhead
  BY <1>2 DEF AnswersAhead
<1> QED BY <1>3, <1>4, <1>5 DEF Behind

(* A step that leaves the bytes and the answers on their way as they are.  *)
LEMMA MaskSame ==
  ASSUME TypeOK, MaskInv, Answers' = Answers, Acks' = Acks,
         UNCHANGED <<command, attempt, sent, phase, frame, rx, rx_overflow,
                     faults, late>>
  PROVE  MaskInv'
<1>1. Stream' = Stream /\ InHand' = InHand
  BY DEF Stream, InHand
<1>2. /\ Carries(command, PacketSize - 1, sent)' = Carries(command, PacketSize - 1, sent)
      /\ Carries(command, PacketSize, InHand)' = Carries(command, PacketSize, InHand)
      /\ Carries(command, 0, InHand)' = Carries(command, 0, InHand)
      /\ \A x \in Packet : Carries(x, 0, PacketSize)' = Carries(x, 0, PacketSize)
      /\ \A j \in 0 .. PacketSize - 1 :
           Carries(command, j, InHand)' = Carries(command, j, InHand)
  BY <1>1 DEF Carries
<1>3. Framing' = Framing /\ Deaf' = Deaf
  BY <1>1 DEF Framing, Deaf, IsStart
<1>4. Intact => Intact'
  BY <1>1, <1>2 DEF Intact, IsStart
<1>5. Answered => Answered'
  BY <1>1 DEF Answered
<1>6. Broken => Broken'
  <2>1. Garbled => Garbled'
    BY <1>1, <1>3 DEF Garbled
  <2>2. Missed => Missed'
    BY <1>1, <1>3 DEF Missed
  <2>3. Short => Short'
    BY <1>1, <1>3 DEF Short
  <2>4. Shifted => Shifted'
    BY <1>1, <1>2, <1>3 DEF Shifted
  <2>5. Refused => Refused'
    BY <1>1, <1>3 DEF Refused
  <2> QED BY <2>1, <2>2, <2>3, <2>4, <2>5 DEF Broken
<1>7. Behind => Behind'
  <2>1. PacketBehind => PacketBehind'
    BY <1>1, <1>2 DEF PacketBehind
  <2>2. AnswerAhead => AnswerAhead'
    BY <1>1, <1>2 DEF AnswerAhead
  <2>3. AnswersAhead => AnswersAhead'
    BY <1>1 DEF AnswersAhead
  <2> QED BY <2>1, <2>2, <2>3 DEF Behind
<1> QED BY <1>4, <1>5, <1>6, <1>7 DEF MaskInv, Mended

LEMMA MaskMcu ==
  ASSUME TypeOK, FrameBounds, SyncInv, RetryInv, Plain, MaskInv, MCU
  PROVE  MaskInv'
<1> USE DEF pcVars, ringVars, faultVars, frameVars
<1>0. SUFFICES ASSUME faults + late \in {0, 1} PROVE MaskInv'
  <2>1. faults \in Nat /\ late \in Nat /\ UNCHANGED <<faults, late, attempt>>
    BY DEF TypeOK, MCU, PollFlush, PollGuard, PollByte, PollEnd
  <2> QED BY <2>1, <1>0 DEF MaskInv
<1>t. faults \in Nat /\ late \in Nat
  BY DEF TypeOK
<1>o. ~rx_overflow
  BY <1>0, <1>t DEF MaskInv, SyncInv, Calm
<1>1. CASE PollFlush
  <2>1. UNCHANGED <<command, attempt, sent, phase, frame, rx, rx_overflow,
                    faults, late>>
    BY <1>1 DEF PollFlush
  <2>2. Answers' = Answers /\ Acks' = Acks
    <3>1. CASE tx' = <<event>> /\ event # "none" /\ tx = <<>>
      <4>1. event \in Events
        BY <3>1 DEF TypeOK
      <4>2. /\ Hits(<<event>>, Replies) = {} /\ Hits(<<event>>, {"ACK"}) = {}
        BY <4>1 DEF Hits, Replies, Events
      <4>3. Count(tx', Replies) = 0 /\ Count(tx', {"ACK"}) = 0
        BY <3>1, <4>2, FS_EmptySet DEF Count
      <4> QED BY <3>1, <4>3, CountEmpty, CountPrime DEF Answers, Acks
    <3>2. CASE UNCHANGED tx
      BY <3>2, MaskCounts
    <3> QED BY <1>1, <3>1, <3>2 DEF PollFlush
  <2> QED BY <2>1, <2>2, MaskSame
<1>2. CASE PollGuard
  <2>1. /\ UNCHANGED <<command, attempt, sent, phase, frame, rx, rx_overflow,
                       faults, late>>
        /\ UNCHANGED tx
    BY <1>2, <1>o DEF PollGuard
  <2> QED BY <2>1, MaskCounts, MaskSame
<1>3. CASE PollByte
  <2>1. UNCHANGED <<attempt, rx_overflow, faults, late>>
    BY <1>3 DEF PollByte
  <2>2. CASE faults + late = 0
    BY <2>1, <2>2 DEF MaskInv
  <2>3. CASE faults + late = 1 /\ late = 0
    <3>1. ~Answered
      <4>1. Len(Stream) > 0
        BY <1>3, PollCases
      <4> QED BY <4>1 DEF Answered
    <3>2. Intact \/ Broken
      BY <2>3, <3>1 DEF MaskInv, Mended
    <3>3. Mended'
      BY <1>3, <3>2, ByteIntact, ByteBroken DEF Mended
    <3> QED BY <1>o, <2>1, <2>3, <3>3 DEF MaskInv
  <2>4. CASE faults + late = 1 /\ late # 0
    <3>1. Behind'
      BY <1>3, <2>4, ByteBehind DEF MaskInv
    <3> QED BY <1>o, <2>1, <2>4, <3>1 DEF MaskInv
  <2> QED BY <1>0, <2>2, <2>3, <2>4
<1>4. CASE PollEnd
  <2>1. /\ UNCHANGED <<command, attempt, sent, phase, frame, rx, rx_overflow,
                       faults, late>>
        /\ UNCHANGED tx
    BY <1>4 DEF PollEnd
  <2> QED BY <2>1, MaskCounts, MaskSame
<1> QED BY <1>1, <1>2, <1>3, <1>4 DEF MCU

(* The PC sends one more byte of the current attempt, and it arrives.      *)
LEMMA SendMended ==
  ASSUME TypeOK, Plain, SendByte, Mended, UNCHANGED faults, ~rx_overflow,
         RingSize >= 2 * PacketSize, Arrive(ByteOf(command, sent'))
  PROVE  Mended' /\ ~rx_overflow'
<1> DEFINE b == ByteOf(command, sent + 1)
<1>0. /\ phase = "sending" /\ phase' \in {"sending", "waiting"}
      /\ sent' = sent + 1 /\ InHand = sent /\ InHand' = sent + 1
      /\ UNCHANGED <<command, attempt, frame, tx>>
  BY DEF SendByte, InHand, frameVars
<1>t. /\ Answers \in Nat /\ Acks \in Nat /\ Len(Stream) \in Nat
      /\ PacketSize \in Nat /\ PacketSize > 1 /\ RingSize \in Nat
      /\ command \in Packet /\ sent \in Nat /\ sent + 1 \in Position
      /\ sent + 1 <= PacketSize
  <2>1. sent \in 0 .. PacketSize /\ sent < PacketSize
    BY <1>0, MaskTypes
  <2> QED BY <2>1, MaskTypes, PacketAssumption DEF Position
<1>1. /\ b \in Bytes
      /\ Answers' = Answers /\ Acks' = Acks
  BY <1>0, <1>t, ByteLemma, MaskCounts
<1> HIDE DEF b
<1>2. ~Answered /\ (Intact \/ Broken)
  BY <1>0 DEF Answered, Mended
<1>3. Len(Stream) < RingSize
  <2>1. CASE Intact
    <3>1. PICK j \in 0 .. PacketSize - 1 : Len(Stream) = j + InHand
      BY <2>1 DEF Intact
    <3> QED BY <1>0, <1>t, <3>1
  <2>2. CASE Broken
    <3>1. Len(Stream) < PacketSize + PacketSize
      <4>1. \/ Len(Stream) <= sent \/ Len(Stream) + 1 = sent
            \/ Len(Stream) + 1 = PacketSize + sent \/ Len(Stream) < sent
        BY <1>t, <2>2 DEF Broken, Garbled, Missed, Short, Shifted, Refused
      <4> QED BY <1>t, <4>1
    <3> QED BY <1>t, <3>1
  <2> QED BY <1>2, <2>1, <2>2
<1>4. Len(rx) < RingSize
  <2>1. Len(rx) \in Nat /\ Len(frame) \in Nat /\ Len(Stream) = Len(frame) + Len(rx)
    BY StreamType
  <2> QED BY <1>t, <1>3, <2>1
<1>5. rx' = Append(rx, b) /\ rx_overflow' = rx_overflow
  BY <1>0, <1>4 DEF Arrive, b
<1>6. /\ Len(Stream') = Len(Stream) + 1
      /\ \A i \in 1 .. Len(Stream) : Stream'[i] = Stream[i]
      /\ Stream'[Len(Stream) + 1] = b
  BY <1>0, <1>1, <1>5, StreamGrows
<1>7. sent > 0 => ~IsStart(b)
  BY <1>t, PlainBytes DEF b
<1>8. ASSUME NEW n \in Nat, Len(Stream) = n + sent, Carries(command, n, sent)
      PROVE  Carries(command, n, sent)'
  <2> SUFFICES ASSUME NEW i \in 1 .. sent + 1
               PROVE  Stream'[n + i] = ByteOf(command, i)
    BY <1>0 DEF Carries, ByteOf
  <2>1. CASE i = sent + 1
    <3>1. n + i = Len(Stream) + 1
      BY <1>t, <1>8, <2>1
    <3> QED BY <1>6, <2>1, <3>1 DEF b
  <2>2. CASE i # sent + 1
    <3>1. i \in 1 .. sent /\ n + i \in 1 .. Len(Stream)
      BY <1>t, <1>8, <2>2
    <3> QED BY <1>6, <1>8, <3>1 DEF Carries
  <2> QED BY <2>1, <2>2
<1>9. Framing => Framing'
  BY <1>t, <1>6 DEF Framing, IsStart
<1>10. Deaf /\ sent > 0 => Deaf'
  <2> SUFFICES ASSUME Deaf, sent > 0 PROVE Deaf'
    OBVIOUS
  <2>1. ASSUME NEW i \in 1 .. Len(Stream') PROVE ~IsStart(Stream'[i])
    <3>1. CASE i = Len(Stream) + 1
      BY <1>6, <1>7, <3>1
    <3>2. CASE i # Len(Stream) + 1
      <4>1. i \in 1 .. Len(Stream)
        BY <1>t, <1>6, <3>2
      <4> QED BY <1>6, <4>1 DEF Deaf
    <3> QED BY <3>1, <3>2
  <2> QED BY <1>0, <2>1 DEF Deaf, IsStart
<1>11. CASE Intact
  <2>1. PICK j \in 0 .. PacketSize - 1 :
               /\ Len(Stream) = j + InHand
               /\ j > 0 => frame = <<>>
               /\ \A i \in 1 .. j : ~IsStart(Stream[i])
               /\ Carries(command, j, InHand)
    BY <1>11 DEF Intact
  <2>2. j \in Nat /\ Len(Stream) = j + sent /\ Carries(command, j, sent)
    BY <1>0, <1>t, <2>1
  <2>3. Carries(command, j, sent)' /\ Len(Stream') = j + (sent + 1)
    BY <1>t, <1>6, <1>8, <2>2
  <2>4. \A i \in 1 .. j : ~IsStart(Stream'[i])
    <3> SUFFICES ASSUME NEW i \in 1 .. j PROVE ~IsStart(Stream'[i])
      OBVIOUS
    <3>1. i \in 1 .. Len(Stream)
      BY <1>t, <2>2
    <3> QED BY <1>6, <2>1, <3>1
  <2>5. Carries(command, j, InHand)'
    BY <1>0, <2>3 DEF Carries
  <2>6. Answers' = 0 /\ phase' # "failed"
    BY <1>0, <1>1, <1>11 DEF Intact
  <2>7. Intact'
    BY <1>0, <2>1, <2>3, <2>4, <2>5, <2>6 DEF Intact, IsStart
  <2> QED BY <1>5, <2>7 DEF Mended
<1>12. CASE Broken
  <2>1. CASE Garbled
    <3>1. PICK i \in 1 .. sent : Stream[i].packet = Noise
      BY <2>1 DEF Garbled
    <3>2. Len(Stream) = sent /\ attempt = 1 /\ Answers = 0 /\ Framing
      BY <2>1 DEF Garbled
    <3>3. i \in 1 .. sent' /\ Stream'[i].packet = Noise
      BY <1>0, <1>t, <1>6, <3>1, <3>2
    <3>4. Garbled'
      BY <1>0, <1>1, <1>6, <1>9, <3>2, <3>3 DEF Garbled
    <3> QED BY <1>0, <1>5, <3>4 DEF Mended, Broken
  <2>2. CASE Missed
    <3>1. Missed'
      BY <1>0, <1>t, <1>1, <1>6, <1>10, <2>2 DEF Missed
    <3> QED BY <1>0, <1>5, <3>1 DEF Mended, Broken
  <2>3. CASE Short
    <3>1. Short'
      BY <1>0, <1>t, <1>1, <1>6, <1>9, <2>3 DEF Short
    <3> QED BY <1>0, <1>5, <3>1 DEF Mended, Broken
  <2>4. CASE Shifted
    <3>1. PacketSize - 1 \in Nat /\ Len(Stream) = (PacketSize - 1) + sent
          /\ Carries(command, PacketSize - 1, sent)
      BY <1>t, <2>4 DEF Shifted
    <3>2. Carries(command, PacketSize - 1, sent)'
      BY <1>8, <3>1
    <3>3. Len(Stream') + 1 = PacketSize + sent'
      BY <1>0, <1>t, <1>6, <3>1
    <3>4. Shifted'
      BY <1>0, <1>1, <1>9, <2>4, <3>2, <3>3 DEF Shifted
    <3> QED BY <1>0, <1>5, <3>4 DEF Mended, Broken
  <2>5. CASE Refused
    <3>1. sent > 0 /\ Len(Stream') < sent'
      BY <1>0, <1>t, <1>6, <2>5 DEF Refused
    <3>2. Refused'
      BY <1>0, <1>1, <1>10, <2>5, <3>1 DEF Refused
    <3> QED BY <1>0, <1>5, <3>2 DEF Mended, Broken
  <2> QED BY <1>12, <2>1, <2>2, <2>3, <2>4, <2>5 DEF Broken
<1> QED BY <1>2, <1>11, <1>12

LEMMA SendBehind ==
  ASSUME TypeOK, SendByte, Behind, ~rx_overflow,
         RingSize >= 2 * PacketSize, Arrive(ByteOf(command, sent'))
  PROVE  Behind' /\ ~rx_overflow'
<1> DEFINE b == ByteOf(command, sent + 1)
<1>0. /\ phase = "sending" /\ phase' \in {"sending", "waiting"}
      /\ sent' = sent + 1 /\ InHand = sent /\ InHand' = sent + 1
      /\ UNCHANGED <<command, attempt, frame, tx>>
  BY DEF SendByte, InHand, frameVars
<1>t. /\ Answers \in Nat /\ Acks = Answers /\ Len(Stream) \in Nat
      /\ PacketSize \in Nat /\ PacketSize > 1 /\ RingSize \in Nat
      /\ command \in Packet /\ sent \in Nat /\ sent + 1 \in Position
      /\ sent + 1 <= PacketSize
  <2>1. sent \in 0 .. PacketSize /\ sent < PacketSize
    BY <1>0, MaskTypes
  <2> QED BY <2>1, MaskTypes, PacketAssumption DEF Position, Behind
<1>1. b \in Bytes /\ Answers' = Answers /\ Acks' = Acks
  BY <1>0, <1>t, ByteLemma, MaskCounts
<1> HIDE DEF b
<1>2. ~AnswersAhead /\ (PacketBehind \/ AnswerAhead)
  BY <1>0 DEF AnswersAhead, Behind
<1>3. Len(Stream) < RingSize
  <2>1. Len(Stream) = PacketSize + sent \/ Len(Stream) = sent
    BY <1>0, <1>2 DEF PacketBehind, AnswerAhead
  <2> QED BY <1>t, <2>1
<1>4. Len(rx) < RingSize
  <2>1. Len(rx) \in Nat /\ Len(frame) \in Nat /\ Len(Stream) = Len(frame) + Len(rx)
    BY StreamType
  <2> QED BY <1>t, <1>3, <2>1
<1>5. rx' = Append(rx, b) /\ rx_overflow' = rx_overflow
  BY <1>0, <1>4 DEF Arrive, b
<1>6. /\ Len(Stream') = Len(Stream) + 1
      /\ \A i \in 1 .. Len(Stream) : Stream'[i] = Stream[i]
      /\ Stream'[Len(Stream) + 1] = b
  BY <1>0, <1>1, <1>5, StreamGrows
<1>8. ASSUME NEW n \in Nat, Len(Stream) = n + sent, Carries(command, n, sent)
      PROVE  \A i \in 1 .. sent + 1 : Stream'[n + i] = ByteOf(command, i)
  <2> SUFFICES ASSUME NEW i \in 1 .. sent + 1
               PROVE  Stream'[n + i] = ByteOf(command, i)
    OBVIOUS
  <2>1. CASE i = sent + 1
    <3>1. n + i = Len(Stream) + 1
      BY <1>t, <1>8, <2>1
    <3> QED BY <1>6, <2>1, <3>1 DEF b
  <2>2. CASE i # sent + 1
    <3>1. i \in 1 .. sent /\ n + i \in 1 .. Len(Stream)
      BY <1>t, <1>8, <2>2
    <3> QED BY <1>6, <1>8, <3>1 DEF Carries
  <2> QED BY <2>1, <2>2
<1>9. CASE PacketBehind
  <2>1. PICK x \in Packet : Carries(x, 0, PacketSize)
    BY <1>9 DEF PacketBehind
  <2>2. /\ Answers = 0 /\ Len(Stream) = PacketSize + sent
        /\ Carries(command, PacketSize, sent)
    BY <1>0, <1>9 DEF PacketBehind
  <2>3. Carries(command, PacketSize, InHand)'
    <3>1. \A i \in 1 .. sent + 1 : Stream'[PacketSize + i] = ByteOf(command, i)
      BY <1>t, <1>8, <2>2
    <3> QED BY <1>0, <3>1 DEF Carries
  <2>4. \A i \in 1 .. PacketSize : Stream'[0 + i] = ByteOf(x, i)
    <3> SUFFICES ASSUME NEW i \in 1 .. PacketSize
                 PROVE  Stream'[0 + i] = ByteOf(x, i)
      OBVIOUS
    <3>1. 0 + i \in 1 .. Len(Stream)
      BY <1>t, <2>2
    <3> QED BY <1>6, <2>1, <3>1 DEF Carries
  <2>5. Carries(x, 0, PacketSize)'
    BY <2>4 DEF Carries
  <2>6. Len(Stream') = PacketSize + InHand'
    BY <1>0, <1>t, <1>6, <2>2
  <2>7. PacketBehind'
    BY <1>1, <2>2, <2>3, <2>5, <2>6 DEF PacketBehind
  <2> QED BY <1>0, <1>1, <1>t, <1>5, <2>7 DEF Behind
<1>10. CASE AnswerAhead
  <2>1. Answers = 1 /\ Len(Stream) = sent /\ Carries(command, 0, sent)
    BY <1>0, <1>10 DEF AnswerAhead
  <2>2. 0 \in Nat /\ Len(Stream) = 0 + sent /\ Len(Stream') = InHand'
    BY <1>0, <1>t, <1>6, <2>1
  <2>3. Carries(command, 0, InHand)'
    <3>1. \A i \in 1 .. sent + 1 : Stream'[0 + i] = ByteOf(command, i)
      BY <1>8, <2>1, <2>2
    <3> QED BY <1>0, <3>1 DEF Carries
  <2>4. AnswerAhead'
    BY <1>1, <2>1, <2>2, <2>3 DEF AnswerAhead
  <2> QED BY <1>0, <1>1, <1>t, <1>5, <2>4 DEF Behind
<1> QED BY <1>2, <1>9, <1>10

(* What SyncInv says of the stream of bytes while every answer was heard.  *)
LEMMA CalmStream ==
  ASSUME TypeOK, SyncInv, Calm, unheard = 0
  PROVE  /\ ~rx_overflow /\ phase # "failed"
         /\ \A i \in 1 .. Len(Stream) : Stream[i] = ByteOf(command, i)
         /\ phase = "sending" => Len(Stream) = sent /\ tx = <<>>
         /\ phase = "waiting" => \/ Len(Stream) = PacketSize /\ tx = <<>>
                                 \/ Len(Stream) = 0 /\ rx = <<>> /\ tx = <<"ACK">>
         /\ phase = "done" => tx = <<>>
<1>1. /\ Len(Stream) \in Nat /\ Len(frame) \in Nat /\ Len(rx) \in Nat
      /\ Len(Stream) = Len(frame) + Len(rx)
      /\ \A i \in 1 .. Len(frame) : Stream[i] = frame[i]
      /\ \A i \in 1 .. Len(rx) : Stream[Len(frame) + i] = rx[i]
  BY StreamType
<1>2. ASSUME NEW i \in 1 .. Len(Stream) PROVE Stream[i] = ByteOf(command, i)
  <2>1. CASE i <= Len(frame)
    <3>1. i \in 1 .. Len(frame)
      BY <1>1, <2>1
    <3> QED BY <1>1, <3>1 DEF SyncInv, Queued
  <2>2. CASE ~(i <= Len(frame))
    <3>1. i - Len(frame) \in 1 .. Len(rx) /\ Len(frame) + (i - Len(frame)) = i
      BY <1>1, <2>2
    <3>2. rx[i - Len(frame)] = ByteOf(command, i)
      BY <3>1 DEF SyncInv, Queued
    <3> QED BY <1>1, <3>1, <3>2
  <2> QED BY <2>1, <2>2
<1>3. Len(<<>>) = 0
  OBVIOUS
<1>4. phase = "sending" => Len(Stream) = sent /\ tx = <<>>
  BY <1>1 DEF SyncInv
<1>5. phase = "waiting" => \/ Len(Stream) = PacketSize /\ tx = <<>>
                           \/ Len(Stream) = 0 /\ rx = <<>> /\ tx = <<"ACK">>
  <2> SUFFICES ASSUME phase = "waiting"
               PROVE  \/ Len(Stream) = PacketSize /\ tx = <<>>
                      \/ Len(Stream) = 0 /\ rx = <<>> /\ tx = <<"ACK">>
    OBVIOUS
  <2>1. CASE Len(frame) + Len(rx) = PacketSize /\ tx = <<>>
    BY <1>1, <2>1
  <2>2. CASE frame = <<>> /\ rx = <<>> /\ tx = <<"ACK">>
    <3>1. Len(frame) = 0 /\ Len(rx) = 0
      BY <1>3, <2>2
    <3> QED BY <1>1, <2>2, <3>1
  <2>3. Len(frame) + Len(rx) = PacketSize \/ tx = <<"ACK">>
    BY DEF SyncInv, Prompt
  <2>4. \/ Len(frame) + Len(rx) = PacketSize /\ tx = <<>>
        \/ /\ frame = <<>> /\ rx = <<>>
           /\ tx \in {<<>>, <<"ACK">>, <<"NACK">>}
    BY DEF SyncInv
  <2>5. frame = <<>> /\ rx = <<>> => Len(frame) + Len(rx) # PacketSize
    BY <1>3, PacketAssumption
  <2>6. tx = <<"ACK">> => tx # <<>>
    OBVIOUS
  <2> QED BY <2>1, <2>2, <2>3, <2>4, <2>5, <2>6
<1> QED BY <1>2, <1>4, <1>5 DEF SyncInv

(* The first fault: a byte is lost or corrupted.                           *)
LEMMA FirstLoss ==
  ASSUME TypeOK, Plain, SyncInv, Calm, unheard = 0, SendByte, attempt = 1,
         RingSize >= PacketSize,
         (\E b \in NoiseByte : Arrive(b)) \/ UNCHANGED ringVars
  PROVE  Broken' /\ ~rx_overflow'
<1>0. /\ phase = "sending" /\ phase' \in {"sending", "waiting"}
      /\ sent' = sent + 1 /\ attempt' = 1
      /\ UNCHANGED <<frame, tx>>
  BY DEF SendByte, frameVars
<1>t. /\ PacketSize \in Nat /\ PacketSize > 1 /\ RingSize \in Nat
      /\ command \in Packet /\ sent \in Nat /\ sent < PacketSize
      /\ Len(Stream) = sent /\ tx = <<>> /\ ~rx_overflow
      /\ \A i \in 1 .. sent : Stream[i] = ByteOf(command, i)
      /\ Len(rx) \in Nat /\ Len(frame) \in Nat /\ Len(rx) <= sent
      /\ sent = 0 => frame = <<>>
  <2>1. sent \in 0 .. PacketSize /\ sent < PacketSize /\ command \in Packet
    BY <1>0, MaskTypes
  <2>2. Len(Stream) = sent /\ tx = <<>> /\ ~rx_overflow
        /\ \A i \in 1 .. Len(Stream) : Stream[i] = ByteOf(command, i)
    BY <1>0, CalmStream
  <2>3. Len(rx) \in Nat /\ Len(frame) \in Nat /\ Len(Stream) = Len(frame) + Len(rx)
    BY StreamType
  <2>4. sent = 0 => frame = <<>>
    <3>1. sent = 0 => Len(frame) = 0
      <4> SUFFICES ASSUME sent = 0 PROVE Len(frame) = 0
        OBVIOUS
      <4>1. Len(frame) + Len(rx) = 0
        BY <2>2, <2>3
      <4> QED BY <2>3, <4>1
    <3>2. frame \in Seq(Bytes)
      BY DEF TypeOK
    <3> QED BY <3>1, <3>2, EmptySeq
  <2> QED BY <2>1, <2>2, <2>3, <2>4, PacketAssumption
<1>1. Answers' = 0
  <2>1. tx' = <<>>
    BY <1>0, <1>t
  <2> QED BY <2>1, CountEmpty, CountPrime DEF Answers
<1>2. sent > 0 => IsStart(Stream[1])
  BY <1>t, PlainBytes
<1>3. CASE UNCHANGED ringVars
  <2>1. Stream' = Stream /\ rx_overflow' = rx_overflow
    BY <1>0, <1>3 DEF Stream, ringVars
  <2>2. CASE sent = 0
    <3>1. \A i \in 1 .. Len(Stream') : FALSE
      BY <1>t, <2>1, <2>2
    <3>2. Deaf'
      BY <1>0, <1>t, <2>2, <3>1 DEF Deaf
    <3>3. Len(Stream') <= sent' /\ sent' > 0
      BY <1>0, <1>t, <2>1, <2>2
    <3>4. Missed'
      BY <1>0, <1>1, <3>2, <3>3 DEF Missed
    <3> QED BY <1>0, <1>t, <2>1, <3>4 DEF Broken
  <2>3. CASE sent # 0
    <3>1. Framing'
      BY <1>t, <1>2, <2>1, <2>3 DEF Framing, IsStart
    <3>2. Len(Stream') + 1 = sent'
      BY <1>0, <1>t, <2>1
    <3>3. Short'
      BY <1>0, <1>1, <3>1, <3>2 DEF Short
    <3> QED BY <1>0, <1>t, <2>1, <3>3 DEF Broken
  <2> QED BY <2>2, <2>3
<1>4. ASSUME NEW b \in NoiseByte, Arrive(b) PROVE Broken' /\ ~rx_overflow'
  <2>1. b \in Bytes /\ b.packet = Noise
    BY PlainBytes
  <2>2. rx' = Append(rx, b) /\ rx_overflow' = rx_overflow
    <3>1. Len(rx) < RingSize
      BY <1>t
    <3> QED BY <1>4, <3>1 DEF Arrive
  <2>3. /\ Len(Stream') = sent + 1
        /\ \A i \in 1 .. sent : Stream'[i] = Stream[i]
        /\ Stream'[sent + 1] = b
    BY <1>0, <1>t, <2>1, <2>2, StreamGrows
  <2>4. CASE sent = 0 /\ ~IsStart(b)
    <3>1. \A i \in 1 .. Len(Stream') : ~IsStart(Stream'[i])
      <4>1. \A i \in 1 .. Len(Stream') : i = sent + 1
        BY <1>t, <2>3, <2>4
      <4> QED BY <2>3, <2>4, <4>1
    <3>2. Deaf'
      BY <1>0, <1>t, <2>4, <3>1 DEF Deaf, IsStart
    <3>3. Len(Stream') <= sent' /\ sent' > 0
      BY <1>0, <1>t, <2>3
    <3>4. Missed'
      BY <1>0, <1>1, <3>2, <3>3 DEF Missed
    <3> QED BY <1>0, <1>t, <2>2, <3>4 DEF Broken
  <2>5. CASE sent # 0 \/ IsStart(b)
    <3>1. IsStart(Stream'[1])
      <4>1. CASE sent = 0
        <5>1. Stream'[1] = b
          BY <2>3, <4>1
        <5> QED BY <2>5, <4>1, <5>1
      <4>2. CASE sent # 0
        <5>1. Stream'[1] = Stream[1] /\ sent > 0
          BY <1>t, <2>3, <4>2
        <5> QED BY <1>2, <5>1
      <4> QED BY <4>1, <4>2
    <3>2. Framing'
      BY <1>t, <2>3, <3>1 DEF Framing, IsStart
    <3>3. sent + 1 \in 1 .. sent' /\ Stream'[sent + 1].packet = Noise
          /\ Len(Stream') = sent'
      BY <1>0, <1>t, <2>1, <2>3
    <3>4. Garbled'
      BY <1>0, <1>1, <3>2, <3>3 DEF Garbled
    <3> QED BY <1>0, <1>t, <2>2, <3>4 DEF Broken
  <2> QED BY <2>4, <2>5
<1> QED BY <1>3, <1>4

(* The PC takes an answer.                                                 *)
LEMMA MaskTaken ==
  ASSUME TypeOK, tx # <<>>, tx' = Tail(tx)
  PROVE  /\ Head(tx) = "ACK"  => Answers' = Answers - 1 /\ Acks' = Acks - 1
         /\ Head(tx) = "NACK" => Answers' = Answers - 1 /\ Acks' = Acks
         /\ Head(tx) \in Events => Answers' = Answers /\ Acks' = Acks
         /\ Answers' \in Nat /\ Acks' \in Nat /\ Acks' <= Answers'
<1>1. tx' \in Seq(Replies \cup Events)
  BY DEF TypeOK
<1>2. Count(tx', {"ACK"}) <= Count(tx', Replies)
  BY <1>1, CountSubset DEF Replies
<1>3. Answers \in Nat /\ Acks \in Nat
  BY MaskTypes
<1>4. /\ Answers' \in Nat /\ Acks' \in Nat
      /\ Answers' = Answers - (IF Head(tx) \in Replies THEN 1 ELSE 0)
      /\ Acks' = Acks - (IF Head(tx) = "ACK" THEN 1 ELSE 0)
  BY TakeCounts DEF Answers, Acks
<1>5. Acks' <= Answers'
  BY <1>2, CountPrime DEF Answers, Acks
<1> QED BY <1>3, <1>4, <1>5 DEF Replies, Events

LEMMA MaskAck ==
  ASSUME TypeOK, RetryInv, MaskInv, GetAck
  PROVE  MaskInv'
<1>0. /\ phase = "waiting" /\ phase' = "done" /\ sent = PacketSize
      /\ tx # <<>> /\ Head(tx) = "ACK" /\ tx' = Tail(tx)
      /\ UNCHANGED <<command, attempt, frame, rx, rx_overflow, faults, late>>
  BY DEF GetAck, RetryInv, ringVars, frameVars, faultVars
<1>1. /\ Stream' = Stream /\ InHand = PacketSize /\ InHand' = 0
  BY <1>0 DEF Stream, InHand
<1>2. /\ Answers' = Answers - 1 /\ Acks' = Acks - 1
      /\ Answers' \in Nat /\ Acks' \in Nat
  BY <1>0, MaskTaken
<1>t. /\ Answers \in Nat /\ Acks \in Nat /\ Acks <= Answers
      /\ PacketSize \in Nat /\ PacketSize > 1 /\ command \in Packet
      /\ faults \in Nat /\ late \in Nat /\ Len(Stream) \in Nat
  BY MaskTypes
<1>3. Answers > 0 /\ Acks > 0
  BY <1>2, <1>t
<1>4. ASSUME Mended PROVE Mended'
  <2>1. ~Intact /\ ~Broken
    BY <1>t, <1>3
       DEF Intact, Broken, Garbled, Missed, Short, Shifted, Refused
  <2>2. Len(Stream) = 0 /\ Answers = 1
    BY <1>4, <2>1 DEF Mended, Answered
  <2>3. /\ 0 \in 0 .. PacketSize - 1 /\ Len(Stream') = 0 + InHand'
        /\ Answers' = 0 /\ ~(0 > 0)
        /\ \A i \in 1 .. 0 : FALSE
        /\ \A i \in 1 .. InHand' : FALSE
    BY <1>1, <1>2, <1>t, <2>2
  <2>4. Carries(command, 0, InHand)'
    BY <2>3, Zenon DEF Carries
  <2>5. Intact'
    BY <1>0, <2>3, <2>4 DEF Intact
  <2> QED BY <2>5 DEF Mended
<1>5. ASSUME Behind PROVE Behind'
  <2>0. Acks' = Answers' /\ phase' # "failed"
    BY <1>0, <1>2, <1>5 DEF Behind
  <2>1. ~PacketBehind
    BY <1>3 DEF PacketBehind
  <2>2. CASE AnswerAhead
    <3>1. Answers' = 0 /\ Len(Stream') = PacketSize + InHand'
      BY <1>1, <1>2, <1>t, <2>2 DEF AnswerAhead
    <3>2. Carries(command, 0, PacketSize)'
      BY <1>0, <1>1, <2>2 DEF AnswerAhead, Carries
    <3>3. Carries(command, PacketSize, InHand)'
      <4>1. \A i \in 1 .. InHand' : FALSE
        BY <1>1
      <4> QED BY <4>1 DEF Carries
    <3>4. \E x \in Packet : Carries(x, 0, PacketSize)'
      <4>1. \A i \in 1 .. PacketSize : Stream'[0 + i] = ByteOf(command, i)
        BY <1>0, <3>2 DEF Carries
      <4> QED BY <1>t, <4>1 DEF Carries
    <3>5. PacketBehind'
      BY <3>1, <3>3, <3>4 DEF PacketBehind
    <3> QED BY <2>0, <3>5 DEF Behind
  <2>3. CASE AnswersAhead
    <3>1. Answers' = 1 /\ Len(Stream') = InHand'
      BY <1>1, <1>2, <1>t, <2>3 DEF AnswersAhead
    <3>2. Carries(command, 0, InHand)'
      <4>1. \A i \in 1 .. InHand' : FALSE
        BY <1>1
      <4> QED BY <4>1 DEF Carries
    <3>3. AnswerAhead'
      BY <3>1, <3>2 DEF AnswerAhead
    <3> QED BY <2>0, <3>3 DEF Behind
  <2> QED BY <1>5, <2>1, <2>2, <2>3 DEF Behind
<1> QED BY <1>0, <1>4, <1>5 DEF MaskInv

LEMMA MaskNack ==
  ASSUME MaxRetries \in Nat, MaxRetries >= 3,
         TypeOK, SyncInv, RetryInv, MaskInv, unheard = 0, GetNack
  PROVE  MaskInv'
<1>0. /\ phase = "waiting" /\ sent = PacketSize
      /\ tx # <<>> /\ Head(tx) = "NACK" /\ tx' = Tail(tx) /\ NextAttempt
      /\ UNCHANGED <<command, frame, rx, rx_overflow, faults, late>>
  BY DEF GetNack, RetryInv, ringVars, frameVars, faultVars
<1>2. /\ Answers' = Answers - 1 /\ Acks' = Acks
      /\ Answers' \in Nat /\ Acks' \in Nat /\ Acks' <= Answers'
  BY <1>0, MaskTaken
<1>t. /\ Answers \in Nat /\ Acks \in Nat
      /\ PacketSize \in Nat /\ PacketSize > 1
      /\ faults \in Nat /\ late \in Nat /\ Len(Stream) \in Nat
  BY MaskTypes
<1>3. Acks < Answers
  BY <1>2, <1>t
<1>4. faults + late # 0
  <2> SUFFICES ASSUME faults + late = 0 PROVE FALSE
    OBVIOUS
  <2>1. Calm
    BY <1>t DEF Calm
  <2>2. tx = <<"ACK">>
    BY <1>0, <2>1, CalmStream
  <2> QED BY <1>0, <2>2
<1>5. ~Behind
  BY <1>t, <1>3 DEF Behind
<1>6. ASSUME Mended PROVE Mended'
  <2>1. ~Intact /\ ~Answered
    BY <1>t, <1>3 DEF Intact, Answered
  <2>2. Refused
    BY <1>t, <1>3, <1>6, <2>1
       DEF Mended, Broken, Garbled, Missed, Short, Shifted
  <2>3. attempt \in {1, 2} /\ Answers = 1 /\ Deaf /\ Len(Stream) < PacketSize
    BY <1>0, <2>2 DEF Refused
  <2>4. phase' = "sending" /\ sent' = 0
    BY <1>0, <2>3 DEF NextAttempt
  <2>5. Stream' = Stream /\ InHand' = 0
    BY <1>0, <2>4 DEF Stream, InHand
  <2> DEFINE j == Len(Stream)
  <2>6. /\ j \in 0 .. PacketSize - 1 /\ Len(Stream') = j + InHand'
        /\ frame' = <<>> /\ Answers' = 0
    BY <1>0, <1>2, <1>t, <2>3, <2>5 DEF Deaf
  <2>7. \A i \in 1 .. j : ~IsStart(Stream'[i])
    BY <2>3, <2>5 DEF Deaf
  <2> HIDE DEF j
  <2>8. \A i \in 1 .. InHand' : Stream'[j + i] = ByteOf(command', i)
    BY <2>5
  <2>9. Intact'
    BY <2>4, <2>6, <2>7, <2>8 DEF Intact, IsStart, Carries
  <2> QED BY <2>9 DEF Mended
<1> QED BY <1>0, <1>t, <1>4, <1>5, <1>6 DEF MaskInv

LEMMA MaskTimeout ==
  ASSUME MaxRetries \in Nat, MaxRetries >= 3,
         TypeOK, FrameBounds, SyncInv, RetryInv, MaskInv, unheard = 0, Timeout
  PROVE  MaskInv'
<1>0. /\ phase = "waiting" /\ sent = PacketSize /\ NextAttempt
      /\ UNCHANGED <<command, tx, frame, rx, rx_overflow, faults>>
  BY DEF Timeout, RetryInv, ringVars, frameVars
<1>t. /\ Answers \in Nat /\ Acks \in Nat /\ attempt \in Nat
      /\ PacketSize \in Nat /\ PacketSize > 1 /\ command \in Packet
      /\ faults \in Nat /\ late \in Nat /\ Len(Stream) \in Nat
  BY MaskTypes
<1>1. Stream' = Stream /\ InHand = PacketSize /\ Answers' = Answers /\ Acks' = Acks
  BY <1>0, MaskCounts DEF Stream, InHand
<1>2. attempt \in {1, 2} => /\ attempt' = attempt + 1 /\ phase' = "sending"
                            /\ sent' = 0 /\ InHand' = 0
  BY <1>0 DEF NextAttempt, InHand
<1>3. CASE rx = <<>> /\ tx = <<>> /\ UNCHANGED late
  <2>1. Len(Stream) < PacketSize /\ frame = <<>> => Len(Stream) = 0
    <3>1. Len(rx) = 0 /\ (frame = <<>> => Len(frame) = 0)
      BY <1>3
    <3> QED BY <3>1, StreamType, FrameRoom
  <2>0. Len(Stream) < PacketSize
    <3>1. Len(rx) = 0
      BY <1>3
    <3> QED BY <3>1, StreamType, FrameRoom
  <2>2. Answers = 0
    BY <1>3, CountEmpty DEF Answers
  <2>3. faults + late # 0
    <3> SUFFICES ASSUME faults + late = 0 PROVE FALSE
      OBVIOUS
    <3>1. Calm
      BY <1>t DEF Calm
    <3>2. Len(Stream) = PacketSize \/ tx = <<"ACK">>
      BY <1>0, <3>1, CalmStream
    <3> QED BY <1>3, <1>t, <2>0, <3>2
  <2>4. ~Behind
    BY <1>1, <1>t, <2>0, <2>2 DEF Behind, PacketBehind, AnswerAhead, AnswersAhead
  <2>5. ASSUME Mended PROVE Mended'
    <3>1. ~Answered /\ ~Intact
      BY <1>1, <1>t, <2>0, <2>2 DEF Answered, Intact
    <3>2. Missed \/ Short
      BY <1>0, <1>t, <2>0, <2>2, <2>5, <3>1
         DEF Mended, Broken, Garbled, Shifted, Refused
    <3>3. attempt = 1
      BY <3>2 DEF Missed, Short
    <3>4. attempt' = 2 /\ phase' = "sending" /\ sent' = 0 /\ InHand' = 0
      BY <1>2, <3>3
    <3>5. CASE Missed
      <4>1. Len(Stream) = 0 /\ frame' = <<>>
        BY <1>0, <2>0, <2>1, <3>5 DEF Missed, Deaf
      <4>2. /\ 0 \in 0 .. PacketSize - 1 /\ Len(Stream') = 0 + InHand'
            /\ \A i \in 1 .. 0 : ~IsStart(Stream'[i])
            /\ \A i \in 1 .. InHand' : Stream'[0 + i] = ByteOf(command', i)
        BY <1>1, <1>t, <3>4, <4>1
      <4>3. Intact'
        BY <1>1, <2>2, <3>4, <4>1, <4>2 DEF Intact, IsStart, Carries
      <4> QED BY <4>3 DEF Mended
    <3>6. CASE Short
      <4>1. Framing'
        BY <1>1, <3>6 DEF Short, Framing, IsStart
      <4>2. Len(Stream') + 1 = PacketSize + sent'
        BY <1>0, <1>1, <1>t, <3>4, <3>6 DEF Short
      <4>3. Carries(command, PacketSize - 1, sent)'
        <5>1. \A i \in 1 .. sent' : FALSE
          BY <3>4
        <5> QED BY <5>1 DEF Carries
      <4>4. Shifted'
        BY <1>1, <2>2, <3>4, <4>1, <4>2, <4>3 DEF Shifted
      <4> QED BY <3>4, <4>4 DEF Mended, Broken
    <3> QED BY <3>2, <3>5, <3>6
  <2> QED BY <1>0, <1>3, <1>t, <2>3, <2>4, <2>5 DEF MaskInv
<1>4. CASE late' = late + 1
  <2>1. CASE faults + late # 0
    <3>1. faults' + late' # 0 /\ faults' + late' # 1
      BY <1>0, <1>4, <1>t, <2>1
    <3> QED BY <3>1 DEF MaskInv
  <2>2. CASE faults + late = 0
    <3>1. Calm /\ attempt = 1 /\ late' = 1 /\ faults' + late' = 1
      BY <1>0, <1>4, <1>t, <2>2 DEF Calm, MaskInv
    <3>2. phase' = "sending" /\ sent' = 0 /\ InHand' = 0 /\ ~rx_overflow'
      BY <1>0, <1>2, <3>1, CalmStream
    <3>3. \A i \in 1 .. InHand' : FALSE
      BY <3>2
    <3>4. CASE Len(Stream) = PacketSize /\ tx = <<>>
      <4>1. Answers = 0 /\ Acks = 0
        BY <3>4, CountEmpty DEF Answers, Acks
      <4>2. \A i \in 1 .. PacketSize : Stream[0 + i] = ByteOf(command, i)
        <5>1. \A i \in 1 .. Len(Stream) : Stream[i] = ByteOf(command, i)
          BY <3>1, CalmStream
        <5>2. \A i \in 1 .. PacketSize : 0 + i = i
          BY <1>t
        <5> QED BY <3>4, <5>1, <5>2
      <4>3. \E x \in Packet : Carries(x, 0, PacketSize)'
        BY <1>1, <1>t, <4>2 DEF Carries
      <4>4. Carries(command, PacketSize, InHand)'
        BY <3>3 DEF Carries
      <4>5. Len(Stream') = PacketSize + InHand'
        BY <1>1, <1>t, <3>2, <3>4
      <4>6. PacketBehind'
        BY <1>1, <4>1, <4>3, <4>4, <4>5 DEF PacketBehind
      <4>7. Behind'
        BY <1>1, <3>2, <4>1, <4>6 DEF Behind
      <4> QED BY <3>1, <3>2, <4>7 DEF MaskInv
    <3>5. CASE Len(Stream) = 0 /\ tx = <<"ACK">>
      <4>1. Answers = 1 /\ Acks = 1
        <5>1. Hits(<<"ACK">>, Replies) = {1} /\ Hits(<<"ACK">>, {"ACK"}) = {1}
          BY DEF Hits, Replies
        <5> QED BY <3>5, <5>1, FS_Singleton DEF Answers, Acks, Count
      <4>2. Carries(command, 0, InHand)'
        BY <3>3 DEF Carries
      <4>3. AnswerAhead'
        BY <1>1, <3>2, <3>5, <4>1, <4>2 DEF AnswerAhead
      <4>4. Behind'
        BY <1>1, <3>2, <4>1, <4>3 DEF Behind
      <4> QED BY <3>1, <3>2, <4>4 DEF MaskInv
    <3> QED BY <1>0, <3>1, <3>4, <3>5, CalmStream
  <2> QED BY <2>1, <2>2
<1> QED BY <1>3, <1>4 DEF Timeout

LEMMA MaskSend ==
  ASSUME RingSize >= 2 * PacketSize,
         TypeOK, SyncInv, MaskInv, unheard = 0, Plain, SendByte
  PROVE  MaskInv'
<1>t. /\ faults \in Nat /\ late \in Nat
      /\ PacketSize \in Nat /\ PacketSize > 1 /\ RingSize \in Nat
  BY MaskTypes, PacketAssumption
<1>1. /\ UNCHANGED <<attempt, late>>
      /\ faults' \in {faults, faults + 1}
      /\ faults' = faults + 1 => \/ \E b \in NoiseByte : Arrive(b)
                                 \/ UNCHANGED ringVars
      /\ faults' = faults => Arrive(ByteOf(command, sent'))
  BY <1>t DEF SendByte
<1>2. CASE faults' = faults /\ faults + late # 1
  BY <1>1, <1>2 DEF MaskInv
<1>3. CASE faults' = faults /\ faults + late = 1
  <2>1. ~rx_overflow /\ IF late = 0 THEN Mended ELSE Behind
    BY <1>3 DEF MaskInv
  <2>2. CASE late = 0
    <3>1. Mended' /\ ~rx_overflow'
      BY <1>1, <1>3, <2>1, <2>2, SendMended
    <3> QED BY <1>1, <1>3, <2>2, <3>1 DEF MaskInv
  <2>3. CASE late # 0
    <3>1. Behind' /\ ~rx_overflow'
      BY <1>1, <1>3, <2>1, <2>3, SendBehind
    <3> QED BY <1>1, <1>3, <2>3, <3>1 DEF MaskInv
  <2> QED BY <2>2, <2>3
<1>4. CASE faults' = faults + 1
  <2>1. CASE faults + late = 0
    <3>1. Calm /\ attempt = 1 /\ RingSize >= PacketSize /\ late = 0
      BY <1>t, <2>1 DEF Calm, MaskInv
    <3>2. Broken' /\ ~rx_overflow'
      BY <1>1, <1>4, <3>1, FirstLoss
    <3>3. late' = 0 /\ faults' + late' = 1
      BY <1>1, <1>4, <1>t, <3>1, <2>1
    <3> QED BY <3>2, <3>3 DEF MaskInv, Mended
  <2>2. CASE faults + late # 0
    <3>1. faults' + late' # 0 /\ faults' + late' # 1
      BY <1>1, <1>4, <1>t, <2>2
    <3> QED BY <3>1 DEF MaskInv
  <2> QED BY <2>1, <2>2
<1> QED BY <1>1, <1>2, <1>3, <1>4

LEMMA MaskNew ==
  ASSUME TypeOK, MaskInv, NewCommand
  PROVE  MaskInv'
<1>0. /\ phase \in {"done", "failed"} /\ phase' = "sending"
      /\ attempt' = 1 /\ sent' = 0
      /\ UNCHANGED <<frame, rx, rx_overflow, tx, faults, late>>
  BY DEF NewCommand, ringVars, frameVars, faultVars
<1>1. /\ Stream' = Stream /\ InHand = 0 /\ InHand' = 0
      /\ Answers' = Answers /\ Acks' = Acks
  BY <1>0, MaskCounts DEF Stream, InHand
<1>2. \A i \in 1 .. InHand' : FALSE
  BY <1>1
<1>3. ASSUME Mended PROVE Mended'
  <2>1. Intact
    BY <1>0, <1>3 DEF Mended, Answered, Broken
  <2>2. PICK j \in 0 .. PacketSize - 1 :
                 /\ Len(Stream) = j + InHand
                 /\ j > 0 => frame = <<>>
                 /\ \A i \in 1 .. j : ~IsStart(Stream[i])
    BY <2>1 DEF Intact
  <2>3. \A i \in 1 .. InHand' : Stream'[j + i] = ByteOf(command', i)
    BY <1>2
  <2>4. Intact'
    BY <1>0, <1>1, <2>1, <2>2, <2>3 DEF Intact, IsStart, Carries
  <2> QED BY <2>4 DEF Mended
<1>4. ASSUME Behind PROVE Behind'
  <2>1. ~AnswersAhead
    BY <1>0 DEF AnswersAhead
  <2>2. /\ Carries(command, PacketSize, InHand)'
        /\ Carries(command, 0, InHand)'
    BY <1>2 DEF Carries
  <2>3. PacketBehind => PacketBehind'
    <3> SUFFICES ASSUME PacketBehind PROVE PacketBehind'
      OBVIOUS
    <3>1. \E x \in Packet : Carries(x, 0, PacketSize)'
      BY <1>1 DEF PacketBehind, Carries
    <3> QED BY <1>1, <2>2, <3>1 DEF PacketBehind
  <2>4. AnswerAhead => AnswerAhead'
    BY <1>1, <2>2 DEF AnswerAhead
  <2> QED BY <1>0, <1>1, <1>4, <2>1, <2>3, <2>4 DEF Behind
<1> QED BY <1>0, <1>3, <1>4 DEF MaskInv

LEMMA MaskPc ==
  ASSUME MaxRetries \in Nat, MaxRetries >= 3, RingSize >= 2 * PacketSize,
         TypeOK, FrameBounds, SyncInv, RetryInv, MaskInv, unheard = 0, Plain, PC
  PROVE  MaskInv'
<1>1. CASE GetEvent
  <2>1. /\ tx # <<>> /\ Head(tx) \in Events /\ tx' = Tail(tx)
        /\ UNCHANGED <<command, attempt, sent, phase, frame, rx, rx_overflow,
                       faults, late>>
    BY <1>1 DEF GetEvent, pcVars, ringVars, frameVars, faultVars
  <2>2. Answers' = Answers /\ Acks' = Acks
    BY <2>1, MaskTaken
  <2> QED BY <2>1, <2>2, MaskSame
<1> QED BY <1>1, MaskSend, MaskAck, MaskNack, MaskTimeout, MaskNew DEF PC

(* After one answer that was lost or misread, and nothing else, the PC has *)
(* at most begun its second attempt, which is answered.                    *)
Repeated == /\ phase # "failed" /\ attempt \in {1, 2}
            /\ attempt = 2 => Prompt
HeardInv == Calm /\ unheard = 1 => Repeated

LEMMA HeardPc ==
  ASSUME MaxRetries \in Nat, MaxRetries >= 3, RingSize >= PacketSize,
         TypeOK, FrameBounds, SyncInv, HeardInv, PC
  PROVE  HeardInv'
<1> USE DEF pcVars, ringVars, frameVars, faultVars
<1>1. SUFFICES ASSUME Calm', unheard' = 1 PROVE Repeated'
  BY DEF HeardInv
<1>2. /\ Calm /\ unheard = 1 /\ faults' = faults /\ late' = late
  BY <1>1 DEF PC, SendByte, GetAck, GetNack, GetEvent, Timeout, NewCommand,
              Calm, TypeOK
<1>3. Repeated
  BY <1>2 DEF HeardInv
<1>4. /\ Len(frame) \in Nat /\ Len(rx) \in Nat /\ Len(<<>>) = 0
      /\ Len(frame) < PacketSize /\ PacketSize \in Nat /\ PacketSize > 1
      /\ RingSize \in Nat /\ rx \in Seq(Bytes) /\ command \in Packet
  BY FrameRoom, StreamType, PacketAssumption DEF TypeOK
<1>5. CASE SendByte
  <2>1. /\ phase = "sending" /\ phase' \in {"sending", "waiting"}
        /\ sent' = sent + 1 /\ UNCHANGED <<attempt, frame, tx>>
        /\ Arrive(ByteOf(command, sent'))
        /\ sent \in 0 .. PacketSize /\ sent < PacketSize
        /\ phase' = "waiting" => sent' = PacketSize
    BY <1>2, <1>5 DEF SendByte, TypeOK
  <2>2. Len(frame) + Len(rx) = sent
    BY <1>2, <2>1 DEF SyncInv
  <2>3. Len(rx) < RingSize
    BY <1>4, <2>1, <2>2
  <2>4. rx' = Append(rx, ByteOf(command, sent'))
    BY <2>1, <2>3 DEF Arrive
  <2>5. Len(rx') = Len(rx) + 1
    BY <1>4, <2>4
  <2>6. Len(frame') + Len(rx') = sent'
    BY <1>4, <2>1, <2>2, <2>5
  <2> QED BY <1>3, <2>1, <2>6 DEF Repeated, Prompt
<1>6. CASE GetAck
  BY <1>3, <1>6 DEF GetAck, Repeated, Prompt
<1>7. ASSUME phase = "waiting", NextAttempt, ~Prompt PROVE Repeated'
  <2>1. attempt = 1
    BY <1>3, <1>7 DEF Repeated
  <2> QED BY <1>7, <2>1 DEF NextAttempt, Repeated, Prompt
<1>8. CASE GetNack
  <2>1. phase = "waiting" /\ tx # <<>> /\ Head(tx) = "NACK" /\ NextAttempt
    BY <1>8 DEF GetNack
  <2>2. frame = <<>> /\ rx = <<>> /\ (tx = <<"ACK">> \/ tx = <<"NACK">>)
    BY <1>2, <2>1 DEF SyncInv
  <2>3. tx # <<"ACK">>
    BY <2>1
  <2>4. ~Prompt
    BY <1>4, <2>1, <2>2, <2>3 DEF Prompt
  <2> QED BY <1>7, <2>1, <2>4
<1>9. CASE GetEvent
  <2>1. tx # <<>> /\ Head(tx) \in Events
    BY <1>9 DEF GetEvent
  <2>2. tx = <<"ACK">> \/ tx = <<"NACK">>
    BY <1>2, <2>1 DEF SyncInv, TypeOK
  <2> QED BY <2>1, <2>2 DEF Events
<1>10. CASE Timeout
  <2>1. phase = "waiting" /\ NextAttempt /\ rx = <<>> /\ tx = <<>>
    BY <1>2, <1>10 DEF Timeout, TypeOK
  <2>2. Len(frame) + Len(rx) # PacketSize
    BY <1>4, <2>1
  <2>3. ~Prompt
    BY <2>1, <2>2 DEF Prompt
  <2> QED BY <1>7, <2>1, <2>3
<1>11. CASE NewCommand
  BY <1>11 DEF NewCommand, Repeated, Prompt
<1> QED BY <1>5, <1>6, <1>8, <1>9, <1>10, <1>11 DEF PC

LEMMA HeardRest ==
  ASSUME TypeOK, FrameBounds, SyncInv, HeardInv, unheard = 0 => MaskInv,
         MCU \/ Mishear
  PROVE  HeardInv'
<1> USE DEF pcVars, ringVars, frameVars, faultVars
<1>1. SUFFICES ASSUME Calm', unheard' = 1 PROVE Repeated'
  BY DEF HeardInv
<1>2. Calm /\ UNCHANGED <<phase, attempt>>
  BY <1>1 DEF MCU, PollFlush, PollGuard, PollByte, PollEnd, Mishear, Calm
<1>3. CASE MCU
  <2>1. unheard = 1
    BY <1>1, <1>3 DEF MCU, PollFlush, PollGuard, PollByte, PollEnd
  <2>2. Repeated
    BY <1>2, <2>1 DEF HeardInv
  <2>3. Prompt => Prompt'
    BY <1>2, <1>3, SyncMcu
  <2> QED BY <1>2, <2>2, <2>3 DEF Repeated
<1>4. CASE Mishear
  <2>1. unheard = 0
    BY <1>1, <1>4 DEF Mishear, TypeOK
  <2>2. faults + late = 0
    BY <1>2 DEF Calm
  <2>3. attempt = 1
    BY <2>1, <2>2 DEF MaskInv
  <2>4. phase # "failed"
    BY <1>2, <2>1 DEF SyncInv
  <2> QED BY <1>2, <2>3, <2>4 DEF Repeated
<1> QED BY <1>3, <1>4

(* One lost or corrupted byte, one late answer or one answer that is lost  *)
(* or misread never makes a plain command fail, if the PC may try three    *)
(* times and the receive ring has room for two packets.                    *)
THEOREM OneFaultIsMasked ==
  ASSUME MaxRetries \in Nat, MaxRetries >= 3, RingSize >= 2 * PacketSize
  PROVE  Spec => OneFaultMasked
<1> DEFINE Masked == unheard = 0 => MaskInv
<1>0. RingSize >= PacketSize
  BY PacketAssumption
<1>1. Init => Masked /\ HeardInv
  BY DEF Init, MaskInv, HeardInv
<1>2. TypeOK /\ FrameBounds /\ SyncInv /\ RetryInv /\ Plain /\ Masked
        /\ HeardInv /\ [Next]_vars => Masked' /\ HeardInv'
  <2> SUFFICES ASSUME TypeOK, FrameBounds, SyncInv, RetryInv, Plain, Masked,
                      HeardInv, [Next]_vars
               PROVE  Masked' /\ HeardInv'
    OBVIOUS
  <2>1. TypeOK /\ MaskInv /\ UNCHANGED vars => MaskInv'
    <3> SUFFICES ASSUME TypeOK, MaskInv, UNCHANGED vars PROVE MaskInv'
      OBVIOUS
    <3>1. /\ UNCHANGED <<command, attempt, sent, phase, frame, rx, rx_overflow,
                         faults, late>>
          /\ UNCHANGED tx
      BY DEF vars, pcVars, ringVars, frameVars, faultVars
    <3> QED BY <3>1, MaskCounts, MaskSame
  <2>2. ASSUME unheard' = 0 PROVE unheard = 0 /\ ~Mishear
    BY <2>2 DEF Next, PC, SendByte, GetAck, GetNack, GetEvent, Timeout,
                NewCommand, Mishear, MCU, PollFlush, PollGuard, PollByte,
                PollEnd, TypeOK, vars, faultVars
  <2>3. Masked'
    BY <2>1, <2>2, MaskPc, MaskMcu DEF Next
  <2>4. UNCHANGED vars => HeardInv'
    BY DEF vars, pcVars, ringVars, frameVars, faultVars, HeardInv, Repeated,
           Calm, Prompt
  <2>5. HeardInv'
    BY <1>0, <2>4, HeardPc, HeardRest DEF Next
  <2> QED BY <2>3, <2>5
<1>3. TypeOK /\ SyncInv /\ Masked /\ HeardInv
        => (phase = "failed" => faults + late + unheard > 1)
  <2> SUFFICES ASSUME TypeOK, Masked, HeardInv, SyncInv, phase = "failed"
               PROVE  faults + late + unheard > 1
    OBVIOUS
  <2>1. faults \in Nat /\ late \in Nat /\ unheard \in Nat
    BY DEF TypeOK
  <2>2. unheard = 0 => faults + late # 0
    BY <2>1 DEF SyncInv, Calm
  <2>3. ~Mended /\ ~Behind
    BY DEF Mended, Intact, Answered, Broken, Behind
  <2>4. unheard = 0 => faults + late # 1
    BY <2>3 DEF MaskInv
  <2>5. unheard = 1 => faults + late # 0
    BY <2>1 DEF HeardInv, Repeated, Calm
  <2> QED BY <2>1, <2>2, <2>4, <2>5
<1> QED BY <1>0, <1>1, <1>2, <1>3, SyncAlways, RetryAlways, TypeCorrect,
           FrameAlwaysFits, PTL DEF Spec, OneFaultMasked
=============================================================================
