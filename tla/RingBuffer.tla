----------------------------- MODULE RingBuffer -----------------------------
(***************************************************************************)
(* The UART ring buffer of inc/ring_buffer.h with the overflow flag of     *)
(* hal_uart_rx_overflow, shared without a lock by one producer and one     *)
(* consumer.  On receive the producer is the USART interrupt and the       *)
(* consumer is whoever drains the buffer; on transmit it is the reverse.   *)
(* rb_push and rb_pop are cut at each access to a shared index or slot     *)
(* and interleave freely.  An interrupt runs to completion over the code   *)
(* it preempts, which is one of these interleavings, so the module covers  *)
(* both directions on every target.                                        *)
(*                                                                         *)
(* head, tail and overflow_flag are volatile and buf is not: the model     *)
(* takes the store to buf to reach memory before the store to head that    *)
(* follows it, as the builds of this repository do.  An index is read in   *)
(* one piece: with MDT_BUFFER_SIZE up to 256 its high byte is always 0.    *)
(***************************************************************************)
EXTENDS Integers, Sequences

CONSTANTS Byte,      (* the values a byte can take                         *)
          Zero,      (* the byte static storage starts with                *)
          Nothing,   (* no byte                                            *)
          N          (* MDT_BUFFER_SIZE                                    *)

ASSUME ByteAssumption == Zero \in Byte /\ Nothing \notin Byte
ASSUME SizeAssumption == N \in Nat \ {0}

VARIABLES
  buf, head, tail,   \* ring_buffer_t
  overflow_flag,     \* ring_buffer_t.overflow_flag, used on receive
  pushAt,            \* where the producer is in rb_push
  data,              \* the argument of the rb_push that is running
  next_head,         \* its local variable
  popAt,             \* where the consumer is in rb_pop / rx_overflow
  loaded,            \* the byte rb_pop has read and not returned yet
  taken,             \* history: the byte the last rb_pop returned
  refused            \* history: a byte was dropped since the last report

ringVars == <<buf, head, tail, overflow_flag>>
pushVars == <<pushAt, data, next_head>>
popVars  == <<popAt, loaded>>
vars     == <<ringVars, pushVars, popVars, taken, refused>>

Slot == 0 .. N - 1

(* Fault: the mask is forgotten.                                            *)
SuccUnmasked(i) == i + 1

(* (i + 1) & (MDT_BUFFER_SIZE - 1), the size being a power of two.         *)
Succ(i) == (i + 1) % N

Init == /\ buf = [i \in Slot |-> Zero]
        /\ head = 0
        /\ tail = 0
        /\ overflow_flag = FALSE
        /\ pushAt = "out"
        /\ data = Zero
        /\ next_head = 0
        /\ popAt = "out"
        /\ loaded = Zero
        /\ taken = Nothing
        /\ refused = FALSE
-----------------------------------------------------------------------------
(* rb_push(rb, b)                                                          *)

PushEnter(b) == /\ pushAt = "out"
                /\ data' = b
                /\ next_head' = Succ(head)
                /\ pushAt' = "test"
                /\ UNCHANGED <<ringVars, popVars, taken, refused>>

(* next_head == tail: full, return 0.  The receive interrupt then raises   *)
(* the overflow flag.                                                      *)
PushFull == /\ pushAt = "test"
            /\ next_head = tail
            /\ pushAt' = "raise"
            /\ refused' = TRUE
            /\ UNCHANGED <<ringVars, data, next_head, popVars, taken>>

(* Fault: rb_push returns 0 and the caller ignores it.                      *)
PushRaiseIgnored == /\ pushAt = "raise"
                    /\ pushAt' = "out"
                    /\ UNCHANGED <<ringVars, data, next_head, popVars, taken,
                                   refused>>

PushRaise == /\ pushAt = "raise"
             /\ overflow_flag' = TRUE
             /\ pushAt' = "out"
             /\ UNCHANGED <<buf, head, tail, data, next_head, popVars,
                            taken, refused>>

(* Fault: the full buffer is not tested for.                                *)
PushRoomUntested == /\ pushAt = "test"
                    /\ pushAt' = "store"
                    /\ UNCHANGED <<ringVars, data, next_head, popVars, taken,
                                   refused>>

PushRoom == /\ pushAt = "test"
            /\ next_head # tail
            /\ pushAt' = "store"
            /\ UNCHANGED <<ringVars, data, next_head, popVars, taken, refused>>

PushStore == /\ pushAt = "store"
             /\ buf' = [buf EXCEPT ![head] = data]
             /\ pushAt' = "publish"
             /\ UNCHANGED <<head, tail, overflow_flag, data, next_head,
                            popVars, taken, refused>>

PushPublish == /\ pushAt = "publish"
               /\ head' = next_head
               /\ pushAt' = "out"
               /\ UNCHANGED <<buf, tail, overflow_flag, data, next_head,
                              popVars, taken, refused>>
-----------------------------------------------------------------------------
(* rb_pop(rb, &b).  An empty buffer returns 0 and changes nothing.         *)

PopEnter == /\ popAt = "out"
            /\ head # tail
            /\ popAt' = "load"
            /\ UNCHANGED <<ringVars, pushVars, loaded, taken, refused>>

(* Fault: tail is advanced before the byte is read.                         *)
PopLoadLate == /\ popAt = "load"
               /\ loaded' = buf[Succ(tail)]
               /\ popAt' = "advance"
               /\ UNCHANGED <<ringVars, pushVars, taken, refused>>

PopLoad == /\ popAt = "load"
           /\ loaded' = buf[tail]
           /\ popAt' = "advance"
           /\ UNCHANGED <<ringVars, pushVars, taken, refused>>

PopAdvance == /\ popAt = "advance"
              /\ tail' = Succ(tail)
              /\ taken' = loaded
              /\ popAt' = "out"
              /\ UNCHANGED <<buf, head, overflow_flag, pushVars, loaded,
                             refused>>

(* hal_uart_rx_overflow: test the flag, then clear it and return 1.        *)

OverflowSeen == /\ popAt = "out"
                /\ overflow_flag
                /\ popAt' = "clear"
                /\ UNCHANGED <<ringVars, pushVars, loaded, taken, refused>>

OverflowClear == /\ popAt = "clear"
                 /\ overflow_flag' = FALSE
                 /\ refused' = FALSE
                 /\ popAt' = "out"
                 /\ UNCHANGED <<buf, head, tail, pushVars, loaded, taken>>
-----------------------------------------------------------------------------
Producer == \/ \E b \in Byte : PushEnter(b)
            \/ PushFull
            \/ PushRaise
            \/ PushRoom
            \/ PushStore
            \/ PushPublish

Consumer == \/ PopEnter
            \/ PopLoad
            \/ PopAdvance
            \/ OverflowSeen
            \/ OverflowClear

Next == Producer \/ Consumer

Spec == Init /\ [][Next]_vars
-----------------------------------------------------------------------------
TypeOK == /\ buf \in [Slot -> Byte]
          /\ head \in Slot
          /\ tail \in Slot
          /\ overflow_flag \in BOOLEAN
          /\ pushAt \in {"out", "test", "raise", "store", "publish"}
          /\ data \in Byte
          /\ next_head \in Slot
          /\ popAt \in {"out", "load", "advance", "clear"}
          /\ loaded \in Byte
          /\ taken \in Byte \cup {Nothing}
          /\ refused \in BOOLEAN

(* The published bytes of a buffer b between tail t and head h: how many,  *)
(* the slot of the i-th of them, and the bytes, oldest first.              *)
Count(h, t)     == IF h >= t THEN h - t ELSE h - t + N
At(t, i)        == IF t + i - 1 < N THEN t + i - 1 ELSE t + i - 1 - N
Window(b, h, t) == [i \in 1 .. Count(h, t) |-> b[At(t, i)]]

Contents == Window(buf, head, tail)
Offered  == IF pushAt \in {"test", "store", "publish"} THEN data ELSE Nothing

(* Each side keeps to its own slot although neither looks at the other's   *)
(* index again after its first test: rb_push never writes the slot rb_pop  *)
(* is reading, its next_head still leaves one slot free when it publishes  *)
(* (a full buffer never looks empty), and what is being popped or pushed   *)
(* does not change under the access.                                       *)
SlotsDisjoint ==
  /\ pushAt \in {"store", "publish"} /\ popAt \in {"load", "advance"} => head # tail
  /\ pushAt \in {"store", "publish"} => next_head = Succ(head) /\ next_head # tail
  /\ popAt = "advance" => loaded = buf[tail]
  /\ pushAt = "publish" => buf[head] = data

(* A dropped byte is never forgotten: until hal_uart_rx_overflow returns 1 *)
(* the flag is up, or about to be raised, or being reported.  Testing the  *)
(* flag and clearing it are separate accesses and a drop may come between. *)
DropRemembered ==
  refused => overflow_flag \/ pushAt = "raise" \/ popAt = "clear"

(* Every step of the code is a step of the bounded FIFO or invisible to    *)
(* its users.                                                              *)
Fifo == INSTANCE ByteFifo WITH Capacity <- N - 1,
                               queue    <- Contents,
                               offered  <- Offered
ImplementsFifo == Fifo!Spec
=============================================================================
