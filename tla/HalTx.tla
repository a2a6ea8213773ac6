-------------------------------- MODULE HalTx --------------------------------
(***************************************************************************)
(* The transmit path of the HAL: hal_uart_tx_buf fills the transmit ring   *)
(* and enables the "data register empty" interrupt, the interrupt moves    *)
(* bytes from the ring to the UART and disables itself on an empty ring,   *)
(* the UART shifts them out, and hal_reset waits for all of it.            *)
(*                                                                         *)
(* Bytes are numbered in the order the caller pushes them.  The ring is a  *)
(* FIFO whose push and pop are atomic to each other (RingBuffer shows that *)
(* they may be taken so).                                                  *)
(*                                                                         *)
(* MCUart extends this module beside RingBuffer and IdleRx, hence the      *)
(* names with Tx.                                                          *)
(***************************************************************************)
EXTENDS Naturals, Sequences

CONSTANTS Platforms,   (* the platforms looked at: "AVR", "STM32"          *)
          Capacity,    (* bytes the transmit ring holds                    *)
          MaxLen,      (* bound on the length of one call                  *)
          MaxBytes,    (* bound on the bytes pushed between two resets     *)
          MayTimeout   (* the bounded waits of hal_reset may run out       *)

ASSUME TxAssumption ==
  /\ Platforms \subseteq {"AVR", "STM32"}
  /\ Capacity \in Nat \ {0} /\ MaxLen \in Nat /\ MaxBytes \in Nat
  /\ MayTimeout \in BOOLEAN

None == 0

VARIABLES platform,  \* the platform the firmware is built for
          ring,      \* tx_buffer
          txeie,     \* UDRIE0 / TXEIE
          dr,        \* the data register, or None
          shift,     \* the byte being shifted out, or None
          at, left,  \* where the thread is, bytes left to push
          accepted,  \* bytes pushed so far
          sent,      \* bytes that left completely
          cut        \* a wait of hal_reset timed out

hwVars     == <<dr, shift, sent>>
callerVars == <<at, left, accepted, cut>>
txVars == <<platform, ring, txeie, hwVars, callerVars>>

TxInit == /\ platform \in Platforms
          /\ ring = <<>> /\ txeie = FALSE
          /\ dr = None /\ shift = None
          /\ at = "idle" /\ left = 0
          /\ accepted = 0 /\ sent = 0
          /\ cut = FALSE
-----------------------------------------------------------------------------
(* hal_uart_tx_buf.  The AVR enables the interrupt once, after the loop    *)
(* and only if a byte was taken; the STM32 after every byte.               *)
Call == /\ at = "idle"
        /\ \E n \in 1 .. MaxLen : accepted + n <= MaxBytes /\ left' = n
        /\ at' = "push"
        /\ UNCHANGED <<platform, ring, txeie, hwVars, accepted, cut>>

PushByte == /\ at = "push" \/ at = "pushed"
            /\ left > 0 /\ Len(ring) < Capacity
            /\ ring' = Append(ring, accepted + 1)
            /\ accepted' = accepted + 1
            /\ left' = left - 1
            /\ at' = IF platform = "AVR" THEN "pushed" ELSE "enable"
            /\ UNCHANGED <<platform, txeie, hwVars, cut>>

PushStop == /\ at = "push" \/ at = "pushed"
            /\ left = 0 \/ Len(ring) = Capacity
            /\ at' = IF at = "pushed" THEN "enable" ELSE "idle"
            /\ left' = 0
            /\ UNCHANGED <<platform, ring, txeie, hwVars, accepted, cut>>

(* Fault: the interrupt is left as it is.                                   *)
EnableForgotten == /\ at = "enable"
                   /\ at' = IF platform = "AVR" THEN "idle" ELSE "push"
                   /\ UNCHANGED <<platform, ring, txeie, hwVars, left, accepted, cut>>

Enable == /\ at = "enable"
          /\ txeie' = TRUE
          /\ at' = IF platform = "AVR" THEN "idle" ELSE "push"
          /\ UNCHANGED <<platform, ring, hwVars, left, accepted, cut>>
-----------------------------------------------------------------------------
(* Fault: the handler does not look at TXE.                                 *)
FeedBlind == /\ at # "dead"
             /\ IF ring # <<>>
                THEN dr' = Head(ring) /\ ring' = Tail(ring) /\ UNCHANGED txeie
                ELSE txeie' = FALSE /\ UNCHANGED <<ring, dr>>
             /\ UNCHANGED <<platform, shift, sent, callerVars>>

(* The interrupt handler, entered with the data register empty.            *)
Feed == /\ dr = None
        /\ at # "dead"
        /\ IF ring # <<>>
           THEN dr' = Head(ring) /\ ring' = Tail(ring) /\ UNCHANGED txeie
           ELSE txeie' = FALSE /\ UNCHANGED <<ring, dr>>
        /\ UNCHANGED <<platform, shift, sent, callerVars>>

TxIsr == txeie /\ Feed

(* USART1_IRQHandler entered for a received byte feeds the UART as well,   *)
(* whether or not TXEIE is set.                                            *)
RxIsr == platform = "STM32" /\ Feed

(* The UART.                                                               *)
ShiftLoad == /\ at # "dead"
             /\ dr # None /\ shift = None
             /\ shift' = dr /\ dr' = None
             /\ UNCHANGED <<platform, ring, txeie, sent, callerVars>>

ShiftDone == /\ at # "dead"
             /\ shift # None
             /\ sent' = shift /\ shift' = None
             /\ UNCHANGED <<platform, ring, txeie, dr, callerVars>>
-----------------------------------------------------------------------------
(* hal_reset: wait for an empty ring, then for TC (STM32) or for the 15 ms *)
(* of the watchdog to pass (AVR).                                          *)
Reset == /\ at = "idle"
         /\ at' = "drain"
         /\ UNCHANGED <<platform, ring, txeie, hwVars, left, accepted, cut>>

Drained == /\ at = "drain"
           /\ ring = <<>>
           /\ at' = "complete"
           /\ UNCHANGED <<platform, ring, txeie, hwVars, left, accepted, cut>>

TransmissionComplete == dr = None /\ shift = None

(* Fault: the reset does not wait for TC.                                   *)
CompletedEarly == /\ at = "complete"
                  /\ at' = "dead"
                  /\ UNCHANGED <<platform, ring, txeie, hwVars, left, accepted, cut>>

Completed == /\ at = "complete"
             /\ TransmissionComplete
             /\ at' = "dead"
             /\ UNCHANGED <<platform, ring, txeie, hwVars, left, accepted, cut>>

WaitExpires == /\ MayTimeout
               /\ \/ at = "drain" /\ at' = "complete"
                  \/ at = "complete" /\ at' = "dead"
               /\ cut' = TRUE
               /\ UNCHANGED <<platform, ring, txeie, hwVars, left, accepted>>

Boot == /\ at = "dead"
        /\ ring' = <<>> /\ txeie' = FALSE
        /\ dr' = None /\ shift' = None
        /\ at' = "idle" /\ left' = 0
        /\ accepted' = 0 /\ sent' = 0
        /\ cut' = FALSE
        /\ UNCHANGED platform
-----------------------------------------------------------------------------
Thread == PushByte \/ PushStop \/ Enable \/ Drained \/ Completed \/ WaitExpires
TxNext == Call \/ Reset \/ Boot \/ Thread \/ TxIsr \/ RxIsr \/ ShiftLoad \/ ShiftDone

TxSpec == TxInit /\ [][TxNext]_txVars

(* The thread and the enabled interrupt run, the UART shifts.  Calls,      *)
(* resets and received bytes may never come.                               *)
TxFairness == /\ WF_txVars(Thread) /\ WF_txVars(TxIsr)
              /\ WF_txVars(ShiftLoad) /\ WF_txVars(ShiftDone)
TxFairSpec == TxSpec /\ TxFairness
-----------------------------------------------------------------------------
TxTypeOK == /\ platform \in Platforms
            /\ ring \in Seq(Nat \ {0}) /\ Len(ring) <= Capacity
            /\ txeie \in BOOLEAN
            /\ dr \in Nat /\ shift \in Nat
            /\ at \in {"idle", "push", "pushed", "enable", "drain", "complete",
                       "dead"}
            /\ left \in Nat /\ accepted \in Nat /\ sent \in Nat
            /\ cut \in BOOLEAN

(* No byte is stranded: outside hal_uart_tx_buf, a byte in the ring has    *)
(* its interrupt enabled, although the handler disables it on its own.     *)
Calling == at \in {"push", "pushed", "enable"}
NoStrandedByte == ring # <<>> /\ ~Calling => txeie

(* What was pushed and not yet sent is in the shift register, the data     *)
(* register and the ring, in order, nothing lost and nothing twice.        *)
Loaded(r) == IF r = None THEN <<>> ELSE <<r>>
InFlight == Loaded(shift) \o Loaded(dr) \o ring
SentInOrder == InFlight = [i \in 1 .. accepted - sent |-> sent + i]

(* The reset comes after the last byte of the RESET reply has left, unless *)
(* one of the bounded waits ran out.                                       *)
AckBeforeReset == at = "dead" => cut \/ sent = accepted

(* Every byte pushed is sent, or the MCU is reset.                         *)
EverythingSent ==
  \A n \in 1 .. MaxBytes : accepted = n ~> (sent >= n \/ at = "dead")
=============================================================================
