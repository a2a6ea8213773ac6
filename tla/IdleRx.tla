-------------------------------- MODULE IdleRx --------------------------------
(***************************************************************************)
(* How bytes reach the packet processor in interrupt mode (STM32): the     *)
(* USART interrupt pushes each byte to the receive ring, the IDLE flag     *)
(* raised when the line falls silent sets pending_flag and pends PendSV,   *)
(* and PendSV, the lowest priority, drains the ring.                       *)
(*                                                                         *)
(* The USART interrupt preempts PendSV between any two of its steps, and   *)
(* bytes may arrive between any two steps of either.  A run of the handler *)
(* is shorter than a character on the line, so at most one event of the    *)
(* line falls into it; how long the handler is kept from starting is left  *)
(* open.  Bytes are numbered in the order they arrive.                     *)
(*                                                                         *)
(* MCUart extends this module beside RingBuffer and HalTx, hence the names *)
(* with Rx.                                                                *)
(***************************************************************************)
EXTENDS Naturals, Sequences

CONSTANTS Cores,      (* the cores looked at, "M0" and "M3": they differ   *)
                      (* in how the handler clears IDLE and ORE            *)
          RingSize,   (* bytes the receive ring holds                      *)
          MaxArrived  (* bound on the bytes that arrive                    *)

ASSUME IdleAssumption ==
  /\ Cores \subseteq {"M0", "M3"}
  /\ RingSize \in Nat \ {0} /\ MaxArrived \in Nat

NoByte == 0

VARIABLES core,            \* the core the firmware runs on
          arrived,         \* bytes that arrived so far
          moved,           \* a line event fell into this run of the handler
          busy,            \* the line is in a burst
          rdr, idle, ore,  \* data register (or NoByte), IDLE and ORE flags
          isr, snap,       \* USART1_IRQHandler: step, and status it read
          rx, rx_overflow, \* the receive ring and its overflow flag
          pending_flag,    \* set by the handler, consumed by PendSV
          pendsv,          \* PendSV is pending in the NVIC
          visit,           \* where PendSV is
          done,            \* the last byte processed
          skipped,         \* mdt_process_pending has left bytes in the ring
          spared           \* no byte met a full data register or a full ring

lineVars  == <<core, arrived, busy, moved>>
usartVars == <<rdr, idle, ore>>
rxRingVars  == <<rx, rx_overflow>>
softVars  == <<pending_flag, pendsv, visit, done, skipped>>
rxVars == <<lineVars, usartVars, isr, snap, rxRingVars, softVars, spared>>

Quiet == [rxne |-> FALSE, idle |-> FALSE, ore |-> FALSE]

RxInit == /\ core \in Cores
          /\ arrived = 0 /\ busy = FALSE /\ moved = FALSE
          /\ rdr = NoByte /\ idle = FALSE /\ ore = FALSE
          /\ isr = "out" /\ snap = Quiet
          /\ rx = <<>> /\ rx_overflow = FALSE
          /\ pending_flag = FALSE /\ pendsv = FALSE
          /\ visit = "out" /\ done = 0 /\ skipped = FALSE
          /\ spared = TRUE
-----------------------------------------------------------------------------
(* The line and the USART.  A byte that meets a full data register is lost *)
(* and sets ORE.                                                           *)
LineEvent == /\ isr # "out" => ~moved
             /\ moved' = (isr # "out")

Arrive == /\ arrived < MaxArrived
          /\ LineEvent
          /\ arrived' = arrived + 1
          /\ busy' = TRUE
          /\ IF rdr = NoByte THEN rdr' = arrived + 1 /\ UNCHANGED <<ore, spared>>
                           ELSE ore' = TRUE /\ spared' = FALSE /\ UNCHANGED rdr
          /\ UNCHANGED <<core, idle, isr, snap, rxRingVars, softVars>>

GoIdle == /\ busy
          /\ LineEvent
          /\ busy' = FALSE
          /\ idle' = TRUE
          /\ UNCHANGED <<core, arrived, rdr, ore, isr, snap, rxRingVars, softVars,
                         spared>>
-----------------------------------------------------------------------------
(* USART1_IRQHandler.                                                      *)
IsrEnter == /\ isr = "out"
            /\ rdr # NoByte \/ idle \/ ore
            /\ snap' = [rxne |-> rdr # NoByte, idle |-> idle, ore |-> ore]
            /\ ore' = (ore /\ core = "M3")
            /\ isr' = "rxne"
            /\ moved' = FALSE
            /\ UNCHANGED <<core, arrived, busy, rdr, idle, rxRingVars, softVars, spared>>

(* On the M3, reading SR (as the handler did on entry) and then DR is what *)
(* clears ORE.                                                             *)
IsrData == /\ isr = "rxne"
           /\ isr' = "idle"
           /\ IF snap.rxne
              THEN /\ rdr' = NoByte
                   /\ ore' = (ore /\ ~(core = "M3" /\ snap.ore))
                   /\ IF Len(rx) < RingSize
                      THEN rx' = Append(rx, rdr) /\ UNCHANGED <<rx_overflow, spared>>
                      ELSE rx_overflow' = TRUE /\ spared' = FALSE /\ UNCHANGED rx
              ELSE UNCHANGED <<rdr, ore, rxRingVars, spared>>
           /\ UNCHANGED <<lineVars, idle, snap, softVars>>

(* Fault: every core reads the data register to clear IDLE.                 *)
IsrIdleReads == /\ isr = "idle"
                /\ isr' = "ore"
                /\ IF snap.idle
                   THEN /\ idle' = FALSE /\ rdr' = NoByte /\ ore' = FALSE
                        /\ pending_flag' = TRUE /\ pendsv' = TRUE
                   ELSE UNCHANGED <<usartVars, pending_flag, pendsv>>
                /\ UNCHANGED <<lineVars, snap, rxRingVars, visit, done, skipped, spared>>

(* On the M3, IDLE is cleared by reading SR and DR: a byte that arrived in *)
(* the meantime goes with it, and so does an overrun.                      *)
IsrIdle == /\ isr = "idle"
           /\ isr' = "ore"
           /\ IF snap.idle
              THEN /\ idle' = FALSE
                   /\ IF core = "M3" THEN rdr' = NoByte /\ ore' = FALSE
                                     ELSE UNCHANGED <<rdr, ore>>
                   /\ pending_flag' = TRUE
                   /\ pendsv' = TRUE
              ELSE UNCHANGED <<usartVars, pending_flag, pendsv>>
           /\ UNCHANGED <<lineVars, snap, rxRingVars, visit, done, skipped, spared>>

IsrOverrun == /\ isr = "ore"
              /\ isr' = "out"
              /\ snap' = Quiet
              /\ IF core = "M3" /\ snap.ore /\ ~snap.rxne
                 THEN rdr' = NoByte /\ ore' = FALSE
                 ELSE UNCHANGED <<rdr, ore>>
              /\ UNCHANGED <<lineVars, idle, rxRingVars, softVars, spared>>
-----------------------------------------------------------------------------
(* PendSV_Handler and mdt_process_pending.                                 *)
PendSV == isr = "out"

PendSVEnter == /\ PendSV
               /\ visit = "out" /\ pendsv
               /\ pendsv' = FALSE
               /\ visit' = IF pending_flag THEN "clear" ELSE "out"
               /\ UNCHANGED <<lineVars, usartVars, isr, snap, rxRingVars,
                              pending_flag, done, skipped, spared>>

PendSVClear == /\ PendSV
               /\ visit = "clear"
               /\ pending_flag' = FALSE
               /\ visit' = "guard"
               /\ UNCHANGED <<lineVars, usartVars, isr, snap, rxRingVars, pendsv,
                              done, skipped, spared>>

(* mdt_buffer_guard: after an overflow the ring is left as it is.          *)
PendSVGuard == /\ PendSV
               /\ visit = "guard"
               /\ visit' = IF rx_overflow THEN "out" ELSE "drain"
               /\ rx_overflow' = FALSE
               /\ skipped' = (skipped \/ rx_overflow)
               /\ UNCHANGED <<lineVars, usartVars, isr, snap, rx, pending_flag,
                              pendsv, done, spared>>

(* Fault: one byte per call, an if for the while.                           *)
PendSVByteOnce == /\ PendSV
                  /\ visit = "drain"
                  /\ rx # <<>>
                  /\ done' = Head(rx)
                  /\ rx' = Tail(rx)
                  /\ visit' = "out"
                  /\ UNCHANGED <<lineVars, usartVars, isr, snap, rx_overflow,
                                 pending_flag, pendsv, skipped, spared>>

PendSVByte == /\ PendSV
              /\ visit = "drain"
              /\ rx # <<>>
              /\ done' = Head(rx)
              /\ rx' = Tail(rx)
              /\ UNCHANGED <<lineVars, usartVars, isr, snap, rx_overflow,
                             pending_flag, pendsv, visit, skipped, spared>>

PendSVExit == /\ PendSV
              /\ visit = "drain"
              /\ rx = <<>>
              /\ visit' = "out"
              /\ skipped' = FALSE
              /\ UNCHANGED <<lineVars, usartVars, isr, snap, rxRingVars,
                             pending_flag, pendsv, done, spared>>
-----------------------------------------------------------------------------
Isr     == IsrEnter \/ IsrData \/ IsrIdle \/ IsrOverrun
Handler == PendSVEnter \/ PendSVClear \/ PendSVGuard \/ PendSVByte \/ PendSVExit

RxNext == Arrive \/ GoIdle \/ Isr \/ Handler

RxSpec == RxInit /\ [][RxNext]_rxVars

(* A burst ends, and pending interrupts are taken.                         *)
RxFairness == WF_rxVars(GoIdle) /\ WF_rxVars(Isr) /\ WF_rxVars(Handler)
RxFairSpec == RxSpec /\ RxFairness
-----------------------------------------------------------------------------
RxTypeOK == /\ core \in Cores
            /\ arrived \in Nat /\ done \in Nat
            /\ busy \in BOOLEAN /\ moved \in BOOLEAN /\ idle \in BOOLEAN /\ ore \in BOOLEAN
            /\ rdr \in Nat
            /\ isr \in {"out", "rxne", "idle", "ore"}
            /\ snap \in [rxne : BOOLEAN, idle : BOOLEAN, ore : BOOLEAN]
            /\ rx \in Seq(Nat \ {0}) /\ Len(rx) <= RingSize
            /\ rx_overflow \in BOOLEAN
            /\ pending_flag \in BOOLEAN /\ pendsv \in BOOLEAN
            /\ visit \in {"out", "clear", "guard", "drain"}
            /\ skipped \in BOOLEAN /\ spared \in BOOLEAN

(* Nothing is under way: no burst, no interrupt, PendSV not pending.       *)
AtRest == ~busy /\ ~idle /\ isr = "out" /\ ~pendsv /\ visit = "out"

(* No IDLE is missed, however it falls between the steps of PendSV: when   *)
(* everything is at rest the ring is empty, or an overflow made            *)
(* mdt_process_pending leave it.                                           *)
NoIdleMissed == AtRest => skipped \/ (rx = <<>> /\ ~rx_overflow)

(* On the M0 a byte can only be lost to a full data register or a full     *)
(* ring: until then the bytes that arrived and were not processed yet are  *)
(* in the ring and the data register, in order, none missing.              *)
InRegister(b) == IF b = NoByte THEN <<>> ELSE <<b>>
EveryByteKept ==
  core = "M0" /\ spared
    => rx \o InRegister(rdr) = [i \in 1 .. arrived - done |-> done + i]

(* And then every byte that arrives is processed.                          *)
EveryByteProcessed ==
  \A n \in 1 .. MaxArrived :
    core = "M0" /\ arrived = n ~> done >= n \/ ~spared
=============================================================================
