------------------------------ MODULE HalProofs ------------------------------
(***************************************************************************)
(* Proofs about the UART of the HAL, in both directions.                   *)
(*                                                                         *)
(* HalTx, for both platforms, every ring size, every length of a call and  *)
(* whether or not the waits of hal_reset may run out; then IdleRx, for     *)
(* both cores, every ring size and every number of bytes.                  *)
(***************************************************************************)
EXTENDS HalTx, IdleRx, SequenceTheorems, TLAPS
-----------------------------------------------------------------------------
(* HalTx.  Type correctness.                                               *)
LEMMA FeedTyped == TxTypeOK /\ Feed => TxTypeOK'
<1> SUFFICES ASSUME TxTypeOK, Feed PROVE TxTypeOK'
  OBVIOUS
<1> USE DEF TxTypeOK, Feed, callerVars
<1>1. CASE ring # <<>>
  <2>1. /\ Head(ring) \in Nat \ {0} /\ Tail(ring) \in Seq(Nat \ {0})
        /\ Len(Tail(ring)) <= Capacity
    BY <1>1, TxAssumption, HeadTailProperties
  <2> QED BY <1>1, <2>1
<1>2. CASE ring = <<>>
  BY <1>2
<1> QED BY <1>1, <1>2

LEMMA TxTypeCorrect == TxSpec => []TxTypeOK
<1>0. <<>> \in Seq(Nat \ {0}) /\ Len(<<>>) = 0 /\ Capacity \in Nat
  BY TxAssumption, EmptySeq
<1>1. TxInit => TxTypeOK
  <2> SUFFICES ASSUME TxInit PROVE TxTypeOK
    OBVIOUS
  <2>1. txeie \in BOOLEAN /\ cut \in BOOLEAN
    BY Zenon DEF TxInit
  <2>2. Len(ring) <= Capacity
    BY <1>0 DEF TxInit
  <2> QED BY <1>0, <2>1, <2>2 DEF TxInit, TxTypeOK, None
<1>2. TxTypeOK /\ [TxNext]_txVars => TxTypeOK'
  <2> SUFFICES ASSUME TxTypeOK, [TxNext]_txVars PROVE TxTypeOK'
    OBVIOUS
  <2> USE TxAssumption DEF TxTypeOK, hwVars, callerVars, None
  <2>1. CASE Call
    BY <2>1 DEF Call
  <2>2. CASE Reset
    BY <2>2 DEF Reset
  <2>3. CASE Boot
    <3>1. txeie' \in BOOLEAN /\ cut' \in BOOLEAN
      BY <2>3, Zenon DEF Boot
    <3>2. Len(ring') <= Capacity
      BY <1>0, <2>3 DEF Boot
    <3> QED BY <1>0, <2>3, <3>1, <3>2 DEF Boot
  <2>4. CASE PushByte
    <3>1. accepted + 1 \in Nat \ {0} /\ left - 1 \in Nat
      BY <2>4 DEF PushByte
    <3>2. ring' \in Seq(Nat \ {0}) /\ Len(ring') = Len(ring) + 1
      BY <2>4, <3>1, AppendProperties DEF PushByte
    <3>3. Len(ring') <= Capacity
      BY <2>4, <3>2, LenProperties DEF PushByte
    <3> QED BY <2>4, <3>1, <3>2, <3>3 DEF PushByte
  <2>5. CASE PushStop
    BY <2>5 DEF PushStop
  <2>6. CASE Enable
    BY <2>6 DEF Enable
  <2>7. CASE Drained
    BY <2>7 DEF Drained
  <2>8. CASE Completed
    BY <2>8 DEF Completed
  <2>9. CASE WaitExpires
    BY <2>9 DEF WaitExpires
  <2>10. CASE TxIsr \/ RxIsr
    BY <2>10, FeedTyped DEF TxIsr, RxIsr
  <2>11. CASE ShiftLoad
    BY <2>11 DEF ShiftLoad
  <2>12. CASE ShiftDone
    BY <2>12 DEF ShiftDone
  <2>13. CASE UNCHANGED txVars
    BY <2>13 DEF txVars
  <2> QED BY <2>1, <2>2, <2>3, <2>4, <2>5, <2>6, <2>7, <2>8, <2>9, <2>10, <2>11, <2>12,
             <2>13 DEF TxNext, Thread
<1> QED BY <1>1, <1>2, PTL DEF TxSpec
-----------------------------------------------------------------------------
(* Only between a push and the enabling that follows it may the ring hold  *)
(* bytes with the interrupt off; the AVR comes to that point later than    *)
(* the STM32.                                                              *)
TxeieInv == /\ ring # <<>> /\ at \notin {"pushed", "enable"} => txeie
            /\ at = "pushed" => platform = "AVR"

(* No byte waits in the ring with its interrupt off (NoStrandedByte),      *)
(* although the handler switches the interrupt off by itself.              *)
THEOREM NothingStranded == TxSpec => []NoStrandedByte
<1>1. TxInit => TxeieInv
  BY DEF TxInit, TxeieInv
<1>2. TxTypeOK /\ TxeieInv /\ [TxNext]_txVars => TxeieInv'
  <2> SUFFICES ASSUME TxTypeOK, TxeieInv, [TxNext]_txVars PROVE TxeieInv'
    OBVIOUS
  <2> USE DEF TxeieInv, hwVars, callerVars
  <2>1. CASE Call \/ Reset \/ Boot
    BY <2>1 DEF Call, Reset, Boot
  <2>2. CASE PushByte
    BY <2>2 DEF PushByte
  <2>3. CASE PushStop \/ Enable
    BY <2>3 DEF PushStop, Enable
  <2>4. CASE Drained \/ Completed \/ WaitExpires
    BY <2>4 DEF Drained, Completed, WaitExpires
  <2>5. CASE TxIsr \/ RxIsr
    BY <2>5 DEF TxIsr, RxIsr, Feed
  <2>6. CASE ShiftLoad \/ ShiftDone
    BY <2>6 DEF ShiftLoad, ShiftDone
  <2>7. CASE UNCHANGED txVars
    BY <2>7 DEF txVars
  <2> QED BY <2>1, <2>2, <2>3, <2>4, <2>5, <2>6, <2>7 DEF TxNext, Thread
<1>3. TxeieInv => NoStrandedByte
  BY DEF TxeieInv, NoStrandedByte, Calling
<1> QED BY <1>1, <1>2, <1>3, TxTypeCorrect, PTL DEF TxSpec
-----------------------------------------------------------------------------
(* The order of the bytes, without concatenation: the shift register, the  *)
(* data register and the ring hold consecutive numbers after sent.         *)
Full(r) == IF r = None THEN 0 ELSE 1

OrderInv == /\ shift # None => shift = sent + 1
            /\ dr # None => dr = sent + Full(shift) + 1
            /\ \A i \in 1 .. Len(ring) : ring[i] = sent + Full(shift) + Full(dr) + i
            /\ accepted = sent + Full(shift) + Full(dr) + Len(ring)

LEMMA OrderKept == TxTypeOK /\ OrderInv /\ [TxNext]_txVars => OrderInv'
<1> SUFFICES ASSUME TxTypeOK, OrderInv, [TxNext]_txVars PROVE OrderInv'
  OBVIOUS
<1>0. /\ ring \in Seq(Nat \ {0}) /\ Len(ring) \in Nat
      /\ accepted \in Nat /\ sent \in Nat /\ dr \in Nat /\ shift \in Nat
  BY LenProperties DEF TxTypeOK
<1>1. CASE UNCHANGED <<ring, dr, shift, sent, accepted>>
  BY <1>1 DEF OrderInv, Full
<1>2. CASE Boot
  BY <1>2, EmptySeq DEF Boot, OrderInv, Full, None
<1>3. CASE PushByte
  <2>1. /\ Len(ring') = Len(ring) + 1
        /\ \A i \in 1 .. Len(ring') : ring'[i] = IF i <= Len(ring) THEN ring[i] ELSE accepted + 1
    <3>1. ring' = Append(ring, accepted + 1) /\ accepted + 1 \in Nat \ {0}
      BY <1>0, <1>3 DEF PushByte
    <3> QED BY <1>0, <3>1, AppendProperties
  <2>2. UNCHANGED <<dr, shift, sent>> /\ accepted' = accepted + 1
    BY <1>3 DEF PushByte, hwVars
  <2>3. Full(shift) \in Nat /\ Full(dr) \in Nat /\ Full(shift)' = Full(shift) /\ Full(dr)' = Full(dr)
    BY <2>2 DEF Full
  <2>4. accepted' = sent + Full(shift) + Full(dr) + Len(ring')
    BY <1>0, <2>1, <2>2, <2>3 DEF OrderInv
  <2>5. \A i \in 1 .. Len(ring') : ring'[i] = sent + Full(shift) + Full(dr) + i
    <3> SUFFICES ASSUME NEW i \in 1 .. Len(ring')
                 PROVE  ring'[i] = sent + Full(shift) + Full(dr) + i
      OBVIOUS
    <3>1. CASE i \in 1 .. Len(ring)
      BY <2>1, <3>1 DEF OrderInv
    <3>2. CASE i = Len(ring) + 1
      <4>1. ring'[i] = accepted + 1
        BY <1>0, <2>1, <3>2
      <4> QED BY <1>0, <2>3, <3>2, <4>1 DEF OrderInv
    <3> QED BY <1>0, <2>1, <3>1, <3>2
  <2> QED BY <2>2, <2>3, <2>4, <2>5 DEF OrderInv
<1>4. CASE TxIsr \/ RxIsr
  <2>1. dr = None /\ UNCHANGED <<shift, sent, accepted>>
    BY <1>4 DEF TxIsr, RxIsr, Feed, callerVars
  <2>2. CASE ring = <<>>
    BY <1>1, <1>4, <2>1, <2>2 DEF TxIsr, RxIsr, Feed
  <2>3. CASE ring # <<>>
    <3>1. dr' = ring[1] /\ ring' = Tail(ring)
      BY <1>0, <1>4, <2>3, HeadTailProperties DEF TxIsr, RxIsr, Feed
    <3>2. /\ Len(ring) # 0 /\ Len(ring') = Len(ring) - 1
          /\ \A i \in 1 .. Len(ring') : ring'[i] = ring[i + 1]
      BY <1>0, <2>3, <3>1, HeadTailProperties, EmptySeq
    <3>3. ring[1] = sent + Full(shift) + 1 /\ dr' # None
      <4>1. ring[1] = sent + Full(shift) + Full(dr) + 1
        BY <1>0, <3>2 DEF OrderInv
      <4> QED BY <1>0, <2>1, <3>1, <4>1 DEF Full, None
    <3>4. Full(dr) = 0 /\ Full(dr') = 1 /\ Full(shift') = Full(shift) /\ Full(shift) \in Nat
      BY <2>1, <3>3 DEF Full
    <3>5. \A i \in 1 .. Len(ring') : ring'[i] = sent + Full(shift) + 1 + i
      <4> SUFFICES ASSUME NEW i \in 1 .. Len(ring')
                   PROVE  ring'[i] = sent + Full(shift) + 1 + i
        OBVIOUS
      <4>1. i + 1 \in 1 .. Len(ring) /\ ring'[i] = ring[i + 1]
        BY <1>0, <3>2
      <4>2. ring[i + 1] = sent + Full(shift) + Full(dr) + (i + 1)
        BY <4>1 DEF OrderInv
      <4>3. i \in Nat
        OBVIOUS
      <4>4. sent + Full(shift) + Full(dr) + (i + 1) = sent + Full(shift) + 1 + i
        BY <1>0, <3>4, <4>3
      <4> QED BY <4>1, <4>2, <4>4
    <3> QED BY <1>0, <2>1, <3>1, <3>2, <3>3, <3>4, <3>5 DEF OrderInv
  <2> QED BY <2>2, <2>3
<1>5. CASE ShiftLoad
  BY <1>0, <1>5 DEF ShiftLoad, OrderInv, Full, None, callerVars
<1>6. CASE ShiftDone
  <2>1. /\ Full(shift) = 1 /\ Full(shift)' = 0 /\ sent' = sent + 1 /\ Full(dr) \in Nat
        /\ Full(dr)' = Full(dr)
    BY <1>6 DEF ShiftDone, OrderInv, Full, None
  <2>2. shift' = None /\ UNCHANGED <<ring, dr, accepted>>
    BY <1>6 DEF ShiftDone, callerVars
  <2>3. \A i \in 1 .. Len(ring) : ring[i] = sent + 1 + 0 + Full(dr) + i
    BY <1>0, <2>1 DEF OrderInv
  <2>4. accepted = sent + 1 + 0 + Full(dr) + Len(ring)
    BY <1>0, <2>1 DEF OrderInv
  <2>5. dr # None => dr = sent + 1 + 0 + 1
    BY <1>0, <2>1 DEF OrderInv
  <2> QED BY <2>1, <2>2, <2>3, <2>4, <2>5 DEF OrderInv
<1>7. CASE Call \/ Reset \/ PushStop \/ Enable \/ Drained \/ Completed \/ WaitExpires \/ UNCHANGED txVars
  BY <1>1, <1>7 DEF Call, Reset, PushStop, Enable, Drained, Completed, WaitExpires, txVars,
                    hwVars, callerVars
<1> QED BY <1>2, <1>3, <1>4, <1>5, <1>6, <1>7 DEF TxNext, Thread

(* The registers and the ring, written as one sequence.                    *)
LEMMA OrderAsSequence == TxTypeOK /\ OrderInv => SentInOrder
<1> SUFFICES ASSUME TxTypeOK, OrderInv PROVE SentInOrder
  OBVIOUS
<1>0. /\ ring \in Seq(Nat) /\ Len(ring) \in Nat
      /\ accepted \in Nat /\ sent \in Nat /\ dr \in Nat /\ shift \in Nat
  BY LenProperties, SeqMonotonic DEF TxTypeOK
<1> DEFINE s == Loaded(shift)
           d == Loaded(dr)
           t == [i \in 1 .. accepted - sent |-> sent + i]
<1>1. /\ s \in Seq(Nat) /\ Len(s) = Full(shift) /\ (Len(s) = 1 => s[1] = shift)
      /\ d \in Seq(Nat) /\ Len(d) = Full(dr) /\ (Len(d) = 1 => d[1] = dr)
  BY <1>0 DEF Loaded, Full
<1>2. /\ s \o d \in Seq(Nat) /\ Len(s \o d) = Len(s) + Len(d)
      /\ \A i \in 1 .. Len(s) + Len(d) :
           (s \o d)[i] = IF i <= Len(s) THEN s[i] ELSE d[i - Len(s)]
  BY <1>1, ConcatProperties
<1>3. /\ InFlight \in Seq(Nat) /\ Len(InFlight) = Len(s) + Len(d) + Len(ring)
      /\ \A i \in 1 .. Len(s) + Len(d) + Len(ring) :
           InFlight[i] = IF i <= Len(s) + Len(d) THEN (s \o d)[i]
                         ELSE ring[i - (Len(s) + Len(d))]
  BY <1>0, <1>2, ConcatProperties DEF InFlight
<1>4. Full(shift) \in 0 .. 1 /\ Full(dr) \in 0 .. 1
  BY DEF Full
<1>5. Len(InFlight) = accepted - sent
  BY <1>0, <1>1, <1>3, <1>4 DEF OrderInv
<1>6. \A i \in 1 .. Len(InFlight) : InFlight[i] = sent + i
  <2> SUFFICES ASSUME NEW i \in 1 .. Len(InFlight) PROVE InFlight[i] = sent + i
    OBVIOUS
  <2> HIDE DEF s, d
  <2>1. CASE i <= Len(s)
    <3>1. InFlight[i] = s[i] /\ i = 1 /\ Len(s) = 1
      BY <1>1, <1>2, <1>3, <1>4, <2>1
    <3> QED BY <1>0, <1>1, <3>1 DEF OrderInv, Full
  <2>2. CASE i > Len(s) /\ i <= Len(s) + Len(d)
    <3>1. InFlight[i] = d[i - Len(s)] /\ i - Len(s) = 1 /\ Len(d) = 1
      BY <1>1, <1>2, <1>3, <1>4, <2>2
    <3>2. InFlight[i] = dr /\ i = Full(shift) + 1 /\ Full(dr) = 1
      BY <1>1, <1>4, <3>1
    <3> QED BY <1>0, <1>4, <3>2 DEF OrderInv, Full
  <2>3. CASE i > Len(s) + Len(d)
    <3> DEFINE j == i - (Len(s) + Len(d))
    <3>1. InFlight[i] = ring[j] /\ j \in 1 .. Len(ring)
      <4>1. Len(s) \in Nat /\ Len(d) \in Nat
        BY <1>1, <1>4
      <4>2. i \in 1 .. Len(s) + Len(d) + Len(ring) /\ ~(i <= Len(s) + Len(d))
        BY <1>0, <1>3, <2>3, <4>1
      <4>3. InFlight[i] = ring[j]
        BY <1>3, <4>2
      <4> QED BY <1>0, <4>1, <4>2, <4>3
    <3>2. ring[j] = sent + Full(shift) + Full(dr) + j
      BY <3>1 DEF OrderInv
    <3> QED BY <1>0, <1>1, <1>4, <3>1, <3>2
  <2> QED BY <1>1, <1>4, <2>1, <2>2, <2>3
<1>7. t \in Seq(Nat) /\ Len(t) = Len(InFlight) /\ \A i \in 1 .. Len(t) : t[i] = sent + i
  BY <1>0, <1>3, <1>5
<1> QED
  <2> HIDE DEF t
  <2>1. InFlight = t
    BY <1>3, <1>6, <1>7, SeqEqual
  <2> QED BY <2>1 DEF t, SentInOrder

(* Bytes leave in the order they were pushed, none lost and none twice     *)
(* (SentInOrder), although two interrupts feed the transmitter.            *)
THEOREM OrderCorrect == TxSpec => []SentInOrder
<1>1. TxInit => OrderInv
  BY EmptySeq DEF TxInit, OrderInv, Full, None
<1> QED BY <1>1, OrderKept, OrderAsSequence, TxTypeCorrect, PTL DEF TxSpec
-----------------------------------------------------------------------------
ResetInv == /\ at = "complete" => cut \/ ring = <<>>
            /\ at = "dead" => cut \/ (ring = <<>> /\ dr = None /\ shift = None)

(* The reset comes after the last byte of the RESET reply has left, unless *)
(* a bounded wait ran out (AckBeforeReset).                                *)
THEOREM ReplyLeavesFirst == TxSpec => []AckBeforeReset
<1>1. TxInit => ResetInv /\ OrderInv
  BY EmptySeq DEF TxInit, ResetInv, OrderInv, Full, None
<1>2. TxTypeOK /\ ResetInv /\ [TxNext]_txVars => ResetInv'
  <2> SUFFICES ASSUME TxTypeOK, ResetInv, [TxNext]_txVars PROVE ResetInv'
    OBVIOUS
  <2> USE DEF ResetInv, hwVars, callerVars
  <2>1. CASE Call \/ Reset \/ Boot
    BY <2>1 DEF Call, Reset, Boot
  <2>2. CASE PushByte \/ PushStop \/ Enable
    BY <2>2 DEF PushByte, PushStop, Enable
  <2>3. CASE Drained \/ Completed \/ WaitExpires
    BY <2>3 DEF Drained, Completed, WaitExpires, TransmissionComplete
  <2>4. CASE TxIsr \/ RxIsr
    BY <2>4 DEF TxIsr, RxIsr, Feed
  <2>5. CASE ShiftLoad \/ ShiftDone
    BY <2>5 DEF ShiftLoad, ShiftDone
  <2>6. CASE UNCHANGED txVars
    BY <2>6 DEF txVars
  <2> QED BY <2>1, <2>2, <2>3, <2>4, <2>5, <2>6 DEF TxNext, Thread
<1>3. TxTypeOK /\ OrderInv /\ ResetInv => AckBeforeReset
  BY EmptySeq DEF TxTypeOK, OrderInv, ResetInv, AckBeforeReset, Full, None
<1> QED BY <1>1, <1>2, <1>3, OrderKept, TxTypeCorrect, PTL DEF TxSpec
-----------------------------------------------------------------------------
(* IdleRx.                                                                 *)
(*                                                                         *)
(* A visit of PendSV that finds pending_flag set is still to come: one is  *)
(* pending, IDLE is up, or a burst is going on and will end in IDLE.       *)
VisitAhead == busy \/ idle \/ (pendsv /\ pending_flag)

(* A byte in the data register is part of a burst, or IDLE follows it.     *)
(* While the handler runs, one that its status word does not show has only *)
(* just arrived.                                                           *)
FreshByte == rdr # NoByte => moved /\ busy

VisitInv ==
  /\ rdr # NoByte => busy \/ idle
  /\ isr = "rxne" => (snap.rxne => rdr # NoByte) /\ (~snap.rxne => FreshByte)
  /\ isr \in {"idle", "ore"} => FreshByte
  /\ isr \in {"rxne", "idle"} /\ snap.idle => idle
  /\ (rx # <<>> \/ rx_overflow) /\ visit = "out" => skipped \/ VisitAhead
  /\ rx_overflow /\ visit = "drain" => VisitAhead

LEMMA VisitIsr == VisitInv /\ Isr => VisitInv'
<1> SUFFICES ASSUME VisitInv, Isr PROVE VisitInv'
  OBVIOUS
<1> USE DEF VisitInv, VisitAhead, FreshByte, lineVars, usartVars, rxRingVars, softVars
<1>1. CASE IsrEnter
  BY <1>1 DEF IsrEnter
<1>2. CASE IsrData
  BY <1>2 DEF IsrData
<1>3. CASE IsrIdle
  BY <1>3 DEF IsrIdle
<1>4. CASE IsrOverrun
  BY <1>4 DEF IsrOverrun
<1> QED BY <1>1, <1>2, <1>3, <1>4 DEF Isr

LEMMA VisitHandler == VisitInv /\ Handler => VisitInv'
<1> SUFFICES ASSUME VisitInv, Handler PROVE VisitInv'
  OBVIOUS
<1> USE DEF VisitInv, VisitAhead, FreshByte, lineVars, usartVars, rxRingVars, softVars, PendSV
<1>1. CASE PendSVEnter
  BY <1>1 DEF PendSVEnter
<1>2. CASE PendSVClear
  BY <1>2 DEF PendSVClear
<1>3. CASE PendSVGuard
  BY <1>3 DEF PendSVGuard
<1>4. CASE PendSVByte
  BY <1>4 DEF PendSVByte
<1>5. CASE PendSVExit
  BY <1>5 DEF PendSVExit
<1> QED BY <1>1, <1>2, <1>3, <1>4, <1>5 DEF Handler

LEMMA VisitLine == VisitInv /\ (Arrive \/ GoIdle) => VisitInv'
<1> SUFFICES ASSUME VisitInv, Arrive \/ GoIdle PROVE VisitInv'
  OBVIOUS
<1> USE DEF VisitInv, VisitAhead, FreshByte, LineEvent, rxRingVars, softVars
<1>1. CASE Arrive
  BY <1>1 DEF Arrive
<1>2. CASE GoIdle
  BY <1>2 DEF GoIdle
<1> QED BY <1>1, <1>2

(* No IDLE is missed (NoIdleMissed): bytes in the ring always have a visit *)
(* of PendSV ahead, unless mdt_process_pending left them on purpose.       *)
THEOREM EveryIdleServed == RxSpec => []NoIdleMissed
<1>1. RxInit => VisitInv
  BY DEF RxInit, VisitInv, FreshByte, Quiet, NoByte
<1>2. VisitInv /\ [RxNext]_rxVars => VisitInv'
  <2>1. VisitInv /\ UNCHANGED rxVars => VisitInv'
    BY DEF VisitInv, VisitAhead, FreshByte, rxVars, lineVars, usartVars, rxRingVars, softVars
  <2> QED BY <2>1, VisitIsr, VisitHandler, VisitLine DEF RxNext
<1>3. VisitInv => NoIdleMissed
  BY DEF VisitInv, VisitAhead, NoIdleMissed, AtRest
<1> QED BY <1>1, <1>2, <1>3, PTL DEF RxSpec
-----------------------------------------------------------------------------
(* The order of the bytes on an M0 that has spared every byte so far: the  *)
(* ring and the data register hold consecutive numbers after done.         *)
Held(b) == IF b = NoByte THEN 0 ELSE 1

RingTyped == /\ rx \in Seq(Nat \ {0})
             /\ arrived \in Nat /\ done \in Nat /\ rdr \in Nat
             /\ isr = "rxne" /\ snap.rxne => rdr # NoByte

ArrivalInv == core = "M0" /\ spared =>
              /\ rdr # NoByte => rdr = arrived
              /\ \A i \in 1 .. Len(rx) : rx[i] = done + i
              /\ arrived = done + Len(rx) + Held(rdr)

LEMMA RingTypedKept == RingTyped /\ [RxNext]_rxVars => RingTyped'
<1> SUFFICES ASSUME RingTyped, [RxNext]_rxVars PROVE RingTyped'
  OBVIOUS
<1> USE DEF RingTyped, lineVars, usartVars, rxRingVars, softVars, NoByte
<1>1. CASE Arrive \/ GoIdle
  BY <1>1 DEF Arrive, GoIdle
<1>2. CASE IsrEnter \/ IsrIdle \/ IsrOverrun
  <2>1. CASE IsrEnter
    BY <2>1 DEF IsrEnter
  <2>2. CASE IsrIdle
    BY <2>2 DEF IsrIdle
  <2>3. CASE IsrOverrun
    BY <2>3 DEF IsrOverrun
  <2> QED BY <1>2, <2>1, <2>2, <2>3
<1>3. CASE IsrData
  <2>1. snap.rxne => Append(rx, rdr) \in Seq(Nat \ {0})
    BY <1>3, AppendProperties DEF IsrData
  <2> QED BY <1>3, <2>1 DEF IsrData
<1>4. CASE PendSVByte
  <2>1. Head(rx) \in Nat \ {0} /\ Tail(rx) \in Seq(Nat \ {0})
    BY <1>4, HeadTailProperties DEF PendSVByte
  <2> QED BY <1>4, <2>1 DEF PendSVByte
<1>5. CASE PendSVEnter \/ PendSVClear \/ PendSVGuard \/ PendSVExit
  BY <1>5 DEF PendSVEnter, PendSVClear, PendSVGuard, PendSVExit
<1>6. CASE UNCHANGED rxVars
  BY <1>6 DEF rxVars
<1> QED BY <1>1, <1>2, <1>3, <1>4, <1>5, <1>6 DEF RxNext, Isr, Handler

(* RxTypeOK: on both cores the ring never holds more than its size, and a  *)
(* handler that is to read the data register finds a byte in it.           *)
THEOREM RxTypeCorrect == RxSpec => [](RxTypeOK /\ RingTyped)
<1>1. RxInit => RxTypeOK /\ RingTyped
  <2> SUFFICES ASSUME RxInit PROVE RxTypeOK /\ RingTyped
    OBVIOUS
  <2>1. rx \in Seq(Nat \ {0}) /\ Len(rx) <= RingSize
    BY EmptySeq, IdleAssumption DEF RxInit
  <2>2. snap \in [rxne : BOOLEAN, idle : BOOLEAN, ore : BOOLEAN]
    BY DEF RxInit, Quiet
  <2>3. busy \in BOOLEAN /\ moved \in BOOLEAN /\ idle \in BOOLEAN /\ ore \in BOOLEAN
        /\ rx_overflow \in BOOLEAN /\ pending_flag \in BOOLEAN /\ pendsv \in BOOLEAN
        /\ skipped \in BOOLEAN /\ spared \in BOOLEAN
    BY Zenon DEF RxInit
  <2> QED BY <2>1, <2>2, <2>3 DEF RxInit, RxTypeOK, RingTyped, NoByte
<1>2. RxTypeOK /\ RingTyped /\ [RxNext]_rxVars => RxTypeOK'
  <2> DEFINE Flags == /\ busy \in BOOLEAN /\ moved \in BOOLEAN /\ idle \in BOOLEAN
                      /\ ore \in BOOLEAN /\ rx_overflow \in BOOLEAN
                      /\ pending_flag \in BOOLEAN /\ pendsv \in BOOLEAN
                      /\ skipped \in BOOLEAN /\ spared \in BOOLEAN
             Status == snap \in [rxne : BOOLEAN, idle : BOOLEAN, ore : BOOLEAN]
             Places == /\ core \in Cores
                       /\ isr \in {"out", "rxne", "idle", "ore"}
                       /\ visit \in {"out", "clear", "guard", "drain"}
             Room == Len(rx) <= RingSize
  <2> SUFFICES ASSUME Flags, Status, Places, Room, RingTyped, [RxNext]_rxVars
               PROVE  Flags' /\ Status' /\ Places' /\ Room'
    BY RingTypedKept, Zenon DEF RxTypeOK, RingTyped
  <2> USE DEF rxVars, lineVars, usartVars, rxRingVars, softVars
  <2>1. Flags'
    <3>1. CASE Arrive \/ GoIdle
      BY <3>1, Zenon DEF Arrive, GoIdle, LineEvent
    <3>2. CASE IsrEnter
      BY <3>2, Zenon DEF IsrEnter
    <3>3. CASE IsrData
      BY <3>3, Zenon DEF IsrData
    <3>4. CASE IsrIdle
      BY <3>4, Zenon DEF IsrIdle
    <3>5. CASE IsrOverrun
      BY <3>5, Zenon DEF IsrOverrun
    <3>6. CASE PendSVEnter \/ PendSVClear \/ PendSVExit
      BY <3>6, Zenon DEF PendSVEnter, PendSVClear, PendSVExit
    <3>7. CASE PendSVGuard
      BY <3>7, Zenon DEF PendSVGuard
    <3>8. CASE PendSVByte
      BY <3>8, Zenon DEF PendSVByte
    <3>9. CASE UNCHANGED rxVars
      BY <3>9, Zenon
    <3> HIDE DEF Flags
    <3> QED BY <3>1, <3>2, <3>3, <3>4, <3>5, <3>6, <3>7, <3>8, <3>9, Zenon
            DEF RxNext, Isr, Handler
  <2> USE DEF RxNext, Arrive, GoIdle, LineEvent, Isr, IsrEnter, IsrData, IsrIdle, IsrOverrun,
              Handler, PendSVEnter, PendSVClear, PendSVGuard, PendSVByte, PendSVExit
  <2>2. Status'
    <3>1. snap' = snap \/ snap' = Quiet
            \/ snap' = [rxne |-> rdr # NoByte, idle |-> idle, ore |-> ore]
      OBVIOUS
    <3>2. \A a, b, c \in BOOLEAN : [rxne |-> a, idle |-> b, ore |-> c]
                                     \in [rxne : BOOLEAN, idle : BOOLEAN, ore : BOOLEAN]
      OBVIOUS
    <3>3. (rdr # NoByte) \in BOOLEAN /\ FALSE \in BOOLEAN
      BY Zenon
    <3> DEFINE Read == [rxne |-> rdr # NoByte, idle |-> idle, ore |-> ore]
    <3>4. Read \in [rxne : BOOLEAN, idle : BOOLEAN, ore : BOOLEAN]
      BY <3>2, <3>3, Zenon
    <3>5. Quiet \in [rxne : BOOLEAN, idle : BOOLEAN, ore : BOOLEAN]
      BY <3>2, <3>3, Zenon DEF Quiet
    <3> HIDE DEF Read, RxNext, rxVars
    <3>6. snap' = snap \/ snap' = Quiet \/ snap' = Read
      BY <3>1 DEF Read
    <3> QED BY <3>4, <3>5, <3>6
  <2>3. Places'
    OBVIOUS
  <2>4. Room'
    <3>1. CASE rx' = rx
      BY <3>1
    <3>2. CASE Len(rx) < RingSize /\ rx' = Append(rx, rdr) /\ rdr \in Nat \ {0}
      <4>1. Len(rx') = Len(rx) + 1 /\ Len(rx) \in Nat
        BY <3>2, AppendProperties, LenProperties DEF RingTyped
      <4> QED BY <3>2, <4>1, IdleAssumption
    <3>3. CASE rx # <<>> /\ rx' = Tail(rx)
      <4>1. Len(Tail(rx)) = Len(rx) - 1 /\ Len(rx) \in Nat
        BY <3>3, HeadTailProperties, LenProperties DEF RingTyped
      <4>2. Len(Tail(rx)) <= RingSize
        BY <4>1, IdleAssumption
      <4> QED BY <3>3, <4>2, Zenon
    <3> HIDE DEF Room
    <3> QED BY <3>1, <3>2, <3>3 DEF RingTyped, NoByte
  <2> QED BY <2>1, <2>2, <2>3, <2>4
<1> QED BY <1>1, <1>2, RingTypedKept, PTL DEF RxSpec

LEMMA ArrivalKept == RingTyped /\ ArrivalInv /\ [RxNext]_rxVars => ArrivalInv'
<1> SUFFICES ASSUME RingTyped, ArrivalInv, [RxNext]_rxVars, core' = "M0", spared'
             PROVE  ArrivalInv'
  BY DEF ArrivalInv
<1>0. /\ rx \in Seq(Nat \ {0}) /\ Len(rx) \in Nat
      /\ arrived \in Nat /\ done \in Nat /\ rdr \in Nat
  BY LenProperties DEF RingTyped
<1>1. core = "M0" /\ spared
  BY DEF RxNext, Arrive, GoIdle, Isr, IsrEnter, IsrData, IsrIdle, IsrOverrun, Handler, PendSVEnter,
         PendSVClear, PendSVGuard, PendSVByte, PendSVExit, lineVars, rxVars
<1>2. /\ rdr # NoByte => rdr = arrived
      /\ \A i \in 1 .. Len(rx) : rx[i] = done + i
      /\ arrived = done + Len(rx) + Held(rdr)
  BY <1>1 DEF ArrivalInv
<1>3. CASE UNCHANGED <<rx, rdr, arrived, done>>
  BY <1>2, <1>3 DEF ArrivalInv, Held
<1>4. CASE Arrive
  <2>1. rdr = NoByte /\ rdr' = arrived + 1 /\ arrived' = arrived + 1 /\ UNCHANGED <<rx, done>>
    BY <1>4 DEF Arrive, rxRingVars, softVars
  <2>2. Held(rdr) = 0 /\ Held(rdr)' = 1
    BY <1>0, <2>1 DEF Held, NoByte
  <2> QED BY <1>0, <1>2, <2>1, <2>2 DEF ArrivalInv
<1>5. CASE IsrData
  <2>1. CASE ~snap.rxne
    BY <1>3, <1>5, <2>1 DEF IsrData, lineVars, softVars, rxRingVars
  <2>2. CASE snap.rxne
    <3>1. /\ rdr # NoByte /\ rdr' = NoByte /\ rx' = Append(rx, rdr)
          /\ UNCHANGED <<arrived, done>>
      BY <1>5, <2>2 DEF IsrData, RingTyped, lineVars, softVars
    <3>2. /\ Len(rx') = Len(rx) + 1
          /\ \A i \in 1 .. Len(rx') : rx'[i] = IF i <= Len(rx) THEN rx[i] ELSE rdr
      BY <1>0, <3>1, AppendProperties DEF NoByte
    <3>3. Held(rdr) = 1 /\ Held(rdr)' = 0
      BY <3>1 DEF Held
    <3>4. rdr = done + Len(rx) + 1
      BY <1>0, <1>2, <3>1, <3>3
    <3>5. \A i \in 1 .. Len(rx') : rx'[i] = done + i
      <4> SUFFICES ASSUME NEW i \in 1 .. Len(rx') PROVE rx'[i] = done + i
        OBVIOUS
      <4>1. CASE i <= Len(rx)
        <5>1. i \in 1 .. Len(rx) /\ rx'[i] = rx[i]
          BY <1>0, <3>2, <4>1
        <5> QED BY <1>2, <5>1
      <4>2. CASE i > Len(rx)
        <5>1. i = Len(rx) + 1 /\ rx'[i] = rdr
          BY <1>0, <3>2, <4>2
        <5> QED BY <1>0, <3>4, <5>1
      <4> QED BY <1>0, <3>2, <4>1, <4>2
    <3> QED BY <1>0, <1>2, <3>1, <3>2, <3>3, <3>5 DEF ArrivalInv
  <2> QED BY <2>1, <2>2
<1>6. CASE PendSVByte
  <2>1. rx # <<>> /\ done' = rx[1] /\ rx' = Tail(rx) /\ UNCHANGED <<arrived, rdr>>
    BY <1>0, <1>6, HeadTailProperties DEF PendSVByte, lineVars, usartVars
  <2>2. /\ Len(rx) # 0 /\ Len(rx') = Len(rx) - 1
        /\ \A i \in 1 .. Len(rx') : rx'[i] = rx[i + 1]
    BY <1>0, <2>1, HeadTailProperties, EmptySeq
  <2>3. done' = done + 1
    BY <1>0, <1>2, <2>1, <2>2
  <2>4. \A i \in 1 .. Len(rx') : rx'[i] = done' + i
    <3> SUFFICES ASSUME NEW i \in 1 .. Len(rx') PROVE rx'[i] = done + 1 + i
      BY <2>3
    <3>1. i + 1 \in 1 .. Len(rx) /\ rx'[i] = rx[i + 1]
      BY <1>0, <2>2
    <3>2. rx[i + 1] = done + (i + 1)
      BY <1>2, <3>1
    <3> QED BY <1>0, <3>1, <3>2
  <2>5. Held(rdr)' = Held(rdr) /\ Held(rdr) \in Nat
    BY <2>1 DEF Held
  <2> QED BY <1>0, <1>2, <2>1, <2>2, <2>3, <2>4, <2>5 DEF ArrivalInv
<1>7. CASE IsrEnter \/ IsrIdle \/ IsrOverrun \/ GoIdle \/ PendSVEnter \/ PendSVClear
             \/ PendSVGuard \/ PendSVExit \/ UNCHANGED rxVars
  BY <1>1, <1>3, <1>7 DEF IsrEnter, IsrIdle, IsrOverrun, GoIdle, PendSVEnter, PendSVClear,
     PendSVGuard, PendSVExit, rxVars, lineVars, usartVars, rxRingVars, softVars
<1> QED BY <1>4, <1>5, <1>6, <1>7 DEF RxNext, Isr, Handler

(* The ring and the data register, written as one sequence.                *)
LEMMA ArrivalAsSequence == RingTyped /\ ArrivalInv => EveryByteKept
<1> SUFFICES ASSUME RingTyped, ArrivalInv, core = "M0", spared
             PROVE  rx \o InRegister(rdr) = [i \in 1 .. arrived - done |-> done + i]
  BY DEF EveryByteKept
<1>0. /\ rx \in Seq(Nat) /\ Len(rx) \in Nat
      /\ arrived \in Nat /\ done \in Nat /\ rdr \in Nat
  BY LenProperties, SeqMonotonic DEF RingTyped
<1> DEFINE d == InRegister(rdr)
           t == [i \in 1 .. arrived - done |-> done + i]
<1>1. d \in Seq(Nat) /\ Len(d) = Held(rdr) /\ (Len(d) = 1 => d[1] = rdr)
  BY <1>0 DEF InRegister, Held
<1>2. Held(rdr) \in 0 .. 1
  BY DEF Held
<1>3. /\ rx \o d \in Seq(Nat) /\ Len(rx \o d) = Len(rx) + Len(d)
      /\ \A i \in 1 .. Len(rx) + Len(d) :
           (rx \o d)[i] = IF i <= Len(rx) THEN rx[i] ELSE d[i - Len(rx)]
  BY <1>0, <1>1, ConcatProperties
<1>4. Len(rx \o d) = arrived - done
  BY <1>0, <1>1, <1>2, <1>3 DEF ArrivalInv
<1>5. \A i \in 1 .. Len(rx \o d) : (rx \o d)[i] = done + i
  <2> SUFFICES ASSUME NEW i \in 1 .. Len(rx \o d) PROVE (rx \o d)[i] = done + i
    OBVIOUS
  <2> HIDE DEF d
  <2>1. CASE i <= Len(rx)
    <3>1. i \in 1 .. Len(rx) /\ (rx \o d)[i] = rx[i]
      BY <1>0, <1>1, <1>2, <1>3, <2>1
    <3> QED BY <3>1 DEF ArrivalInv
  <2>2. CASE i > Len(rx)
    <3>1. i = Len(rx) + 1 /\ Len(d) = 1 /\ Held(rdr) = 1
      BY <1>0, <1>1, <1>2, <1>3, <2>2
    <3>2. (rx \o d)[i] = d[1]
      BY <1>0, <1>3, <3>1
    <3>3. rdr = arrived /\ arrived = done + Len(rx) + 1
      BY <3>1 DEF ArrivalInv, Held
    <3> QED BY <1>0, <1>1, <3>1, <3>2, <3>3
  <2> QED BY <1>0, <1>3, <2>1, <2>2
<1>6. t \in Seq(Nat) /\ Len(t) = Len(rx \o d) /\ \A i \in 1 .. Len(t) : t[i] = done + i
  <2> HIDE DEF d
  <2>1. arrived - done \in Nat
    BY <1>0, <1>1, <1>2, <1>3, <1>4
  <2> QED BY <1>0, <1>4, <2>1
<1> QED
  <2> HIDE DEF t
  <2>1. rx \o d = t
    BY <1>3, <1>5, <1>6, SeqEqual
  <2> QED BY <2>1 DEF t

(* On the M0 bytes are lost only to a full data register or a full ring    *)
(* (EveryByteKept), however the handler and PendSV interleave.             *)
THEOREM BytesKept == RxSpec => []EveryByteKept
<1>1. RxInit => RingTyped /\ ArrivalInv
  BY EmptySeq DEF RxInit, RingTyped, ArrivalInv, Held, NoByte
<1> QED BY <1>1, RingTypedKept, ArrivalKept, ArrivalAsSequence, PTL DEF RxSpec
=============================================================================
