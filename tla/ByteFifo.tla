------------------------------ MODULE ByteFifo ------------------------------
(***************************************************************************)
(* What one UART ring buffer promises its two users: a bounded FIFO of     *)
(* bytes.  A byte that is offered is either queued whole or refused, it is *)
(* refused only when the FIFO is full, queued bytes come out once and in   *)
(* order, and a refusal on the receive side is remembered until somebody   *)
(* has asked for it.  RingBuffer implements this specification.            *)
(***************************************************************************)
EXTENDS Naturals, Sequences

CONSTANTS Byte,      (* the values a byte can take                         *)
          Nothing,   (* "no byte": not a value a byte can take             *)
          Capacity   (* how many bytes fit                                 *)

VARIABLES queue,     (* the bytes in the FIFO, oldest first                *)
          offered,   (* the byte the producer is trying to put, or Nothing *)
          taken,     (* the byte the consumer took last, or Nothing        *)
          refused    (* a refusal has happened and was not reported yet    *)

fifoVars == <<queue, offered, taken, refused>>

Init == /\ queue = <<>>
        /\ offered = Nothing
        /\ taken = Nothing
        /\ refused = FALSE

Offer(b) == /\ offered = Nothing
            /\ offered' = b
            /\ UNCHANGED <<queue, taken, refused>>

Accept == /\ offered # Nothing
          /\ Len(queue) < Capacity
          /\ queue' = Append(queue, offered)
          /\ offered' = Nothing
          /\ UNCHANGED <<taken, refused>>

Refuse == /\ offered # Nothing
          /\ Len(queue) = Capacity
          /\ offered' = Nothing
          /\ refused' = TRUE
          /\ UNCHANGED <<queue, taken>>

Take == /\ queue # <<>>
        /\ taken' = Head(queue)
        /\ queue' = Tail(queue)
        /\ UNCHANGED <<offered, refused>>

Report == /\ refused
          /\ refused' = FALSE
          /\ UNCHANGED <<queue, offered, taken>>

Next == \/ \E b \in Byte : Offer(b)
        \/ Accept
        \/ Refuse
        \/ Take
        \/ Report

Spec == Init /\ [][Next]_fifoVars
=============================================================================
