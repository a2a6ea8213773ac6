-------------------------- MODULE RingBufferProofs --------------------------
(***************************************************************************)
(* Proofs about RingBuffer for every buffer size and every set of bytes:   *)
(* the index discipline of rb_push and rb_pop is an inductive invariant,   *)
(* and the buffer implements the bounded FIFO of ByteFifo.                 *)
(***************************************************************************)
EXTENDS RingBuffer, SequenceTheorems, TLAPS

USE ByteAssumption, SizeAssumption

(* The wrap-around of an index stays in the buffer.                        *)
LEMMA SuccLemma == ASSUME NEW i \in Slot
                   PROVE  /\ Succ(i) \in Slot
                          /\ Succ(i) = IF i = N - 1 THEN 0 ELSE i + 1
<1>1. CASE i = N - 1
  BY <1>1 DEF Slot, Succ
<1>2. CASE i # N - 1
  BY <1>2 DEF Slot, Succ
<1>. QED  BY <1>1, <1>2

(* Different indices have different successors.                            *)
LEMMA SuccInjective == ASSUME NEW i \in Slot, NEW j \in Slot, i # j
                       PROVE  Succ(i) # Succ(j)
  BY SuccLemma DEF Slot

(* What a byte being popped or pushed is.                                  *)
AccessStable == /\ popAt = "advance" => loaded = buf[tail]
                /\ pushAt = "publish" => buf[head] = data

(* The inductive invariant: what each side knows at each of its steps.     *)
IInv == /\ TypeOK
        /\ pushAt \in {"test", "store", "publish"} => next_head = Succ(head)
        /\ pushAt \in {"store", "publish"} => next_head # tail
        /\ popAt \in {"load", "advance"} => head # tail
        /\ AccessStable
        /\ DropRemembered

(* The invariant holds at power-on: rb_init leaves an empty buffer and no   *)
(* access is under way.                                                     *)
THEOREM InitIInv == Init => IInv
<1>. SUFFICES ASSUME Init PROVE IInv
  OBVIOUS
<1>1. 0 \in Slot
  BY DEF Slot
<1>2. buf \in [Slot -> Byte]
  BY DEF Init
<1>. QED
  BY <1>1, <1>2 DEF Init, IInv, TypeOK, AccessStable, DropRemembered

(* Every access of rb_push, rb_pop and hal_uart_rx_overflow keeps the       *)
(* invariant, whichever side it interrupts.                                 *)
THEOREM StepIInv == IInv /\ [Next]_vars => IInv'
<1>. SUFFICES ASSUME IInv, [Next]_vars PROVE IInv'
  OBVIOUS
<1>. USE DEF IInv, TypeOK, AccessStable, DropRemembered,
             vars, ringVars, pushVars, popVars
<1>head. Succ(head) \in Slot
  BY SuccLemma
<1>tail. Succ(tail) \in Slot
  BY SuccLemma
<1>1. ASSUME NEW b \in Byte, PushEnter(b) PROVE IInv'
  BY <1>1, <1>head DEF PushEnter, Succ
<1>2. CASE PushFull
  BY <1>2 DEF PushFull, Succ
<1>3. CASE PushRaise
  BY <1>3 DEF PushRaise, Succ
<1>4. CASE PushRoom
  BY <1>4 DEF PushRoom, Succ
<1>5. CASE PushStore
  BY <1>5 DEF PushStore, Succ
<1>6. CASE PushPublish
  BY <1>6 DEF PushPublish, Succ
<1>7. CASE PopEnter
  BY <1>7 DEF PopEnter, Succ
<1>8. CASE PopLoad
  BY <1>8 DEF PopLoad, Succ
<1>9. CASE PopAdvance
  <2>1. head # tail /\ Succ(head) # Succ(tail)
    BY <1>9, SuccInjective DEF PopAdvance
  <2>. QED
    BY <1>9, <1>tail, <2>1 DEF PopAdvance, Succ
<1>10. CASE OverflowSeen
  BY <1>10 DEF OverflowSeen, Succ
<1>11. CASE OverflowClear
  BY <1>11 DEF OverflowClear, Succ
<1>12. CASE UNCHANGED vars
  BY <1>12 DEF Succ
<1>. QED
  BY <1>1, <1>2, <1>3, <1>4, <1>5, <1>6, <1>7, <1>8, <1>9, <1>10, <1>11,
     <1>12 DEF Next, Producer, Consumer

(* The type invariant holds for every buffer size.                         *)
THEOREM TypeCorrect == Spec => []TypeOK
<1>1. IInv => TypeOK
  BY DEF IInv
<1>. QED
  BY InitIInv, StepIInv, <1>1, PTL DEF Spec

(* The producer never writes the slot the consumer is reading, and what    *)
(* either of them holds stays true until it is done with it.               *)
THEOREM IndexDiscipline == Spec => []SlotsDisjoint
<1>1. IInv => SlotsDisjoint
  BY DEF IInv, SlotsDisjoint, AccessStable
<1>. QED
  BY InitIInv, StepIInv, <1>1, PTL DEF Spec

(* A byte dropped on a full receive buffer stays reported or reportable.   *)
THEOREM DropsAreReported == Spec => []DropRemembered
<1>1. IInv => DropRemembered
  BY DEF IInv
<1>. QED
  BY InitIInv, StepIInv, <1>1, PTL DEF Spec
-----------------------------------------------------------------------------
(* The window of published bytes as a sequence.                            *)
LEMMA CountLemma ==
  ASSUME NEW h \in Slot, NEW t \in Slot
  PROVE  /\ Count(h, t) \in 0 .. N - 1
         /\ Count(h, t) = 0 <=> h = t
         /\ Count(h, t) = N - 1 <=> Succ(h) = t
         /\ At(t, Count(h, t) + 1) = h
         /\ At(t, 1) = t
         /\ \A i \in 1 .. Count(h, t) : At(t, i) \in Slot /\ At(t, i) # h
  BY SuccLemma DEF Slot, Count, At

(* The window is a sequence of bytes, as long as the count of published     *)
(* bytes, and changes only with the slots it shows.                         *)
LEMMA WindowLemma ==
  ASSUME NEW b \in [Slot -> Byte], NEW h \in Slot, NEW t \in Slot
  PROVE  /\ Window(b, h, t) \in Seq(Byte)
         /\ Len(Window(b, h, t)) = Count(h, t)
         /\ \A i \in 1 .. Count(h, t) : Window(b, h, t)[i] = b[At(t, i)]
<1>1. Count(h, t) \in Nat /\ \A i \in 1 .. Count(h, t) : b[At(t, i)] \in Byte
  BY CountLemma
<1>2. Window(b, h, t) \in [1 .. Count(h, t) -> Byte]
  BY <1>1 DEF Window
<1>3. Window(b, h, t) \in Seq(Byte)
  BY <1>1, <1>2, SeqDef
<1>. QED
  BY <1>1, <1>2, <1>3 DEF Window

(* Storing into the free slot at head changes nothing that is published.   *)
LEMMA StoreLemma ==
  ASSUME NEW b \in [Slot -> Byte], NEW h \in Slot, NEW t \in Slot,
         NEW d \in Byte
  PROVE  Window([b EXCEPT ![h] = d], h, t) = Window(b, h, t)
<1>1. \A i \in 1 .. Count(h, t) :
        At(t, i) \in Slot /\ [b EXCEPT ![h] = d][At(t, i)] = b[At(t, i)]
  BY CountLemma
<1>. QED
  BY <1>1 DEF Window

(* Publishing appends the byte at head.                                    *)
LEMMA PublishLemma ==
  ASSUME NEW b \in [Slot -> Byte], NEW h \in Slot, NEW t \in Slot,
         Succ(h) # t
  PROVE  Window(b, Succ(h), t) = Append(Window(b, h, t), b[h])
<1>. DEFINE old == Window(b, h, t)
            new == Window(b, Succ(h), t)
<1>1. Succ(h) \in Slot /\ Count(h, t) \in Nat
  BY SuccLemma, CountLemma
<1>2. Count(Succ(h), t) = Count(h, t) + 1
  <2>1. N \in Nat /\ h \in 0 .. N - 1 /\ t \in 0 .. N - 1
    BY DEF Slot
  <2>2. CASE h = N - 1
    <3>1. Succ(h) = 0 /\ t # 0
      BY <2>2, SuccLemma
    <3>. QED
      BY <2>1, <2>2, <3>1 DEF Count
  <2>3. CASE h # N - 1
    <3>1. Succ(h) = h + 1 /\ h + 1 # t
      BY <2>3, SuccLemma
    <3>. QED
      BY <2>1, <2>3, <3>1 DEF Count
  <2>. QED
    BY <2>2, <2>3
<1>3. new \in Seq(Byte) /\ Len(new) = Count(h, t) + 1
  BY <1>1, <1>2, WindowLemma
<1>4. /\ old \in Seq(Byte)
      /\ Len(old) = Count(h, t)
      /\ Append(old, b[h]) \in Seq(Byte)
      /\ Len(Append(old, b[h])) = Count(h, t) + 1
  BY WindowLemma
<1>5. ASSUME NEW i \in 1 .. Count(h, t) + 1
      PROVE  new[i] = Append(old, b[h])[i]
  <2>1. new[i] = b[At(t, i)]
    BY <1>1, <1>2, WindowLemma
  <2>2. CASE i = Count(h, t) + 1
    BY <1>1, <1>4, <2>1, <2>2, CountLemma
  <2>3. CASE i # Count(h, t) + 1
    <3>1. i \in 1 .. Count(h, t)
      BY <1>1, <2>3
    <3>2. old[i] = b[At(t, i)]
      BY <3>1, WindowLemma
    <3>. QED
      BY <1>4, <2>1, <3>1, <3>2
  <2>. QED
    BY <2>2, <2>3
<1>. HIDE DEF old, new
<1>6. new = Append(old, b[h])
  BY <1>3, <1>4, <1>5, SeqEqual
<1>. QED
  BY <1>6 DEF old, new

(* Advancing tail removes the oldest byte.                                 *)
LEMMA AdvanceLemma ==
  ASSUME NEW b \in [Slot -> Byte], NEW h \in Slot, NEW t \in Slot, h # t
  PROVE  /\ Window(b, h, t) # <<>>
         /\ Head(Window(b, h, t)) = b[t]
         /\ Window(b, h, Succ(t)) = Tail(Window(b, h, t))
<1>. DEFINE old == Window(b, h, t)
            new == Window(b, h, Succ(t))
<1>1. Succ(t) \in Slot /\ Count(h, t) \in Nat \ {0}
  BY SuccLemma, CountLemma
<1>0. N \in Nat /\ h \in 0 .. N - 1 /\ t \in 0 .. N - 1
  BY DEF Slot
<1>2. Count(h, Succ(t)) = Count(h, t) - 1
  <2>1. CASE t = N - 1
    <3>1. Succ(t) = 0
      BY <2>1, SuccLemma
    <3>. QED
      BY <1>0, <2>1, <3>1 DEF Count
  <2>2. CASE t # N - 1
    <3>1. Succ(t) = t + 1
      BY <2>2, SuccLemma
    <3>. QED
      BY <1>0, <2>2, <3>1 DEF Count
  <2>. QED
    BY <2>1, <2>2
<1>3. /\ old \in Seq(Byte)
      /\ Len(old) = Count(h, t)
      /\ \A i \in 1 .. Count(h, t) : old[i] = b[At(t, i)]
  BY WindowLemma
<1>4. old # <<>> /\ Head(old) = b[t]
  <2>1. old # <<>>
    BY <1>1, <1>3
  <2>2. Head(old) = old[1] /\ 1 \in 1 .. Count(h, t)
    BY <1>1, <1>3, <2>1
  <2>. QED
    BY <1>3, <2>1, <2>2, CountLemma
<1>5. /\ Tail(old) \in Seq(Byte)
      /\ Len(Tail(old)) = Count(h, t) - 1
      /\ \A i \in 1 .. Count(h, t) - 1 : Tail(old)[i] = old[i + 1]
  BY <1>3, <1>4, HeadTailProperties
<1>6. new \in Seq(Byte) /\ Len(new) = Count(h, t) - 1
  BY <1>1, <1>2, WindowLemma
<1>7. ASSUME NEW i \in 1 .. Count(h, t) - 1
      PROVE  new[i] = Tail(old)[i]
  <2>1. new[i] = b[At(Succ(t), i)]
    BY <1>1, <1>2, WindowLemma
  <2>2. At(Succ(t), i) = At(t, i + 1)
    <3>1. CASE t = N - 1
      <4>1. Succ(t) = 0
        BY <3>1, SuccLemma
      <4>2. i \in Nat /\ i < N
        BY <1>0, <1>1, CountLemma
      <4>. QED
        BY <1>0, <3>1, <4>1, <4>2 DEF At
    <3>2. CASE t # N - 1
      <4>1. Succ(t) = t + 1
        BY <3>2, SuccLemma
      <4>2. i \in Nat
        BY <1>1
      <4>. QED
        BY <1>0, <3>2, <4>1, <4>2 DEF At
    <3>. QED
      BY <3>1, <3>2
  <2>3. Tail(old)[i] = b[At(t, i + 1)]
    BY <1>1, <1>3, <1>5
  <2>. QED
    BY <2>1, <2>2, <2>3
<1>. HIDE DEF old, new
<1>8. new = Tail(old)
  BY <1>5, <1>6, <1>7, SeqEqual
<1>. QED
  BY <1>4, <1>8 DEF old, new
-----------------------------------------------------------------------------
(* The refinement.                                                         *)
(* The empty buffer is the empty FIFO.                                      *)
LEMMA InitFifo == Init => Fifo!Init
<1>. SUFFICES ASSUME Init PROVE Fifo!Init
  OBVIOUS
<1>1. Count(head, tail) = 0
  BY DEF Init, Count
<1>2. Contents = <<>>
  BY <1>1 DEF Contents, Window
<1>. QED
  BY <1>2 DEF Init, Fifo!Init, Offered

(* Every step of the code is a step of the FIFO or leaves it unchanged.     *)
LEMMA StepFifo == IInv /\ [Next]_vars => [Fifo!Next]_(Fifo!fifoVars)
<1>. SUFFICES ASSUME IInv, [Next]_vars
              PROVE  Fifo!Next \/ UNCHANGED Fifo!fifoVars
  OBVIOUS
<1>. USE DEF vars, ringVars, pushVars, popVars
<1>type. /\ buf \in [Slot -> Byte] /\ head \in Slot /\ tail \in Slot
         /\ data \in Byte
  BY DEF IInv, TypeOK
<1>len. /\ Contents \in Seq(Byte)
        /\ Len(Contents) = Count(head, tail)
        /\ Count(head, tail) \in 0 .. N - 1
  <2>1. Count(head, tail) \in 0 .. N - 1
    BY <1>type, CountLemma
  <2>2. Contents \in Seq(Byte) /\ Len(Contents) = Count(head, tail)
    BY <1>type, WindowLemma, Zenon DEF Contents
  <2>. QED
    BY <2>1, <2>2
<1>1. ASSUME NEW b \in Byte, PushEnter(b) PROVE Fifo!Offer(b)
  BY <1>1 DEF PushEnter, Fifo!Offer, Contents, Offered
<1>2. ASSUME PushFull PROVE Fifo!Refuse
  <2>1. Succ(head) = tail
    BY <1>2 DEF PushFull, IInv
  <2>2. Len(Contents) = N - 1
    BY <1>type, <1>len, <2>1, CountLemma
  <2>. QED
    BY <1>2, <1>type, <2>2 DEF PushFull, Fifo!Refuse, Contents, Offered
<1>3. ASSUME PushRaise PROVE UNCHANGED Fifo!fifoVars
  BY <1>3 DEF PushRaise, Fifo!fifoVars, Contents, Offered
<1>4. ASSUME PushRoom PROVE UNCHANGED Fifo!fifoVars
  BY <1>4 DEF PushRoom, Fifo!fifoVars, Contents, Offered
<1>5. ASSUME PushStore PROVE UNCHANGED Fifo!fifoVars
  <2>1. Contents' = Contents
    BY <1>5, <1>type, StoreLemma DEF PushStore, Contents
  <2>. QED
    BY <1>5, <2>1 DEF PushStore, Fifo!fifoVars, Offered
<1>6. ASSUME PushPublish PROVE Fifo!Accept
  <2>1. next_head = Succ(head) /\ next_head # tail /\ buf[head] = data
    BY <1>6 DEF PushPublish, IInv, AccessStable
  <2>2. Contents' = Append(Contents, data)
    BY <1>6, <1>type, <2>1, PublishLemma DEF PushPublish, Contents
  <2>3. Len(Contents) < N - 1
    BY <1>type, <1>len, <2>1, CountLemma
  <2>. QED
    BY <1>6, <1>type, <2>2, <2>3 DEF PushPublish, Fifo!Accept, Offered
<1>7. ASSUME PopEnter PROVE UNCHANGED Fifo!fifoVars
  BY <1>7 DEF PopEnter, Fifo!fifoVars, Contents, Offered
<1>8. ASSUME PopLoad PROVE UNCHANGED Fifo!fifoVars
  BY <1>8 DEF PopLoad, Fifo!fifoVars, Contents, Offered
<1>9. ASSUME PopAdvance PROVE Fifo!Take
  <2>1. head # tail /\ loaded = buf[tail]
    BY <1>9 DEF PopAdvance, IInv, AccessStable
  <2>2. /\ Contents # <<>>
        /\ Head(Contents) = loaded
        /\ Contents' = Tail(Contents)
    BY <1>9, <1>type, <2>1, AdvanceLemma DEF PopAdvance, Contents
  <2>. QED
    BY <1>9, <2>2 DEF PopAdvance, Fifo!Take, Offered
<1>10. ASSUME OverflowSeen PROVE UNCHANGED Fifo!fifoVars
  BY <1>10 DEF OverflowSeen, Fifo!fifoVars, Contents, Offered
<1>11. ASSUME OverflowClear PROVE Fifo!Report \/ UNCHANGED Fifo!fifoVars
  <2>1. refused \in BOOLEAN /\ refused' = FALSE
    BY <1>11 DEF OverflowClear, IInv, TypeOK
  <2>2. UNCHANGED <<Contents, Offered, taken>>
    BY <1>11 DEF OverflowClear, Contents, Offered
  <2>. QED
    BY <2>1, <2>2 DEF Fifo!Report, Fifo!fifoVars
<1>12. ASSUME UNCHANGED vars PROVE UNCHANGED Fifo!fifoVars
  BY <1>12 DEF Fifo!fifoVars, Contents, Offered
<1>. QED
  BY <1>1, <1>2, <1>3, <1>4, <1>5, <1>6, <1>7, <1>8, <1>9, <1>10, <1>11,
     <1>12 DEF Next, Producer, Consumer, Fifo!Next

(* rb_push and rb_pop, interleaved access by access, implement a bounded   *)
(* FIFO of MDT_BUFFER_SIZE - 1 bytes: no byte is lost, duplicated or       *)
(* reordered, and one is refused only when the FIFO is full.               *)
THEOREM RingImplementsFifo == Spec => ImplementsFifo
<1>. QED
  BY InitIInv, StepIInv, InitFifo, StepFifo, PTL
     DEF Spec, ImplementsFifo, Fifo!Spec
=============================================================================
