------------------------------- MODULE MCUart -------------------------------
(* A TLC instance of the UART of the HAL: the ring buffer an interrupt     *)
(* shares with the code it interrupts, the transmit path and the receive   *)
(* path in interrupt mode.  The three modules share no variable: a         *)
(* behaviour is one of RingBuffer, of HalTx or of IdleRx, and what belongs *)
(* to the other two stays as it began.                                     *)
EXTENDS RingBuffer, HalTx, IdleRx

VARIABLE side   \* the module whose behaviour this is

uartVars == <<side, vars, txVars, rxVars>>

UartInit == /\ side \in {"ring", "tx", "rx"}
            /\ Init /\ TxInit /\ RxInit
            /\ side = "tx" \/ platform = CHOOSE p \in Platforms : TRUE
            /\ side = "rx" \/ core = CHOOSE c \in Cores : TRUE

RingStep == side = "ring" /\ Next /\ UNCHANGED <<side, txVars, rxVars>>
TxStep   == side = "tx" /\ TxNext /\ UNCHANGED <<side, vars, rxVars>>
RxStep   == side = "rx" /\ RxNext /\ UNCHANGED <<side, vars, txVars>>

(* The bound on arrivals ends a behaviour of IdleRx, and nothing else may. *)
RxEnd == side = "rx" /\ arrived = MaxArrived /\ AtRest /\ UNCHANGED uartVars

(* In a behaviour of another module no action of TxFairness or RxFairness  *)
(* is ever enabled.                                                        *)
UartSpec == /\ UartInit /\ [][RingStep \/ TxStep \/ RxStep \/ RxEnd]_uartVars
            /\ TxFairness /\ RxFairness
=============================================================================
