# MCU-MDT in TLA+

MCU-MDT is a debugger for microcontrollers without a debug probe: a small
firmware library (`src/`, `inc/`, `hal/`) that answers fixed-size packets on a
UART, and a PC tool in Python (`pc_tool/`) that sends them. This directory holds
TLA+ models of it, the TLC configurations that check them, and TLAPS proofs of
the properties that do not depend on a small instance. Paths below are relative
to the repository.

    tlc -config Framing.cfg MCPacketFraming      # one run; PROJECT.json has all
    tlapm PacketFramingProofs.tla                # one proof module

`PROJECT.json` maps every definition to the lines it translates, lists the runs,
the theorems, the hazards, and for each property a fault it detects (see
"Faults" below).

## 1. The system

One packet is START (`0xAA`), a command, flags, SEQ, an address, a length, data
and a CRC. PC and MCU exchange only such packets: commands one way; replies
(ACK, NACK, or ERROR status) and unsolicited events the other way.

| component | state | operations | interacts with |
|---|---|---|---|
| UART ring buffer, `inc/ring_buffer.h` | `buf`, `head`, `tail`, `overflow_flag` | `rb_push`, `rb_pop`, `hal_uart_rx_overflow` | shared without a lock by the USART interrupt and the code that drains or fills the ring |
| Packet framing, `src/mcu_mdt.c` | `packet_buffer` (`buf`, `idx`, `started`) | `mdt_process_byte`, `mdt_buffer_guard`, `mdt_handle_packet` | takes bytes from the ring, calls the dispatcher, replies through the HAL |
| Event slot, `src/mcu_mdt_event.c` | one `pending_event` | `mdt_event_set`, `_send`, `_fill_buf` | set by framing, breakpoints and watchpoints; sent by the scheduler |
| Breakpoints, `src/mcu_mdt_breakpoints.c` | `enabled`, `next`, `hit_count` per slot | enable, disable, reset, next, `mdt_breakpoint_trigger` | the user's program spins in `trigger`; commands release it |
| Watchpoints, `src/mcu_mdt_watchpoint.c` | address, snapshot, mask, active per slot | enable, disable, reset, setmask, check | samples memory that program and PC write |
| Dispatch, `src/mcu_mdt_protocol.c` | none | `mdt_dispatch` and a handler per command | everything above |
| Poll-mode scheduler, `mcu_mdt_poll` | none | flush event, drain ring, check watchpoints | called from the user's main loop *and* from the spin loop of a breakpoint |
| Interrupt-mode scheduler, STM32 HAL | `pending_flag`, the pending bit of PendSV | USART interrupt, IDLE, `PendSV_Handler` | preempts the user's program between any two accesses |
| Transmit and reset, HAL | transmit ring, TXEIE/UDRIE0 | `hal_uart_tx_buf`, transmit interrupt, `hal_reset` | main code against its interrupt |
| Memory and flash, HAL | flash, lock, flags and busy bit of each bank | `hal_read_memory`, `hal_write_memory`, the register calls | called by the dispatcher; the flash controller works beside it |
| PC commander and validator, `pc_tool/commander.py`, `validator.py` | attempt, offset | `validate_commands`, `execute` (chunks), `_send_with_retry` | UART, response queue |
| PC link threads, `pc_tool/event.py`, `common/uart_io.py` | response queue, event queue, `running` | startup ping, `drain_stale_events`, receiver, listener, poll thread | share the port and the queues with the command thread |
| Parser, loader, validator, CRC, terminal | files, tables | pure functions and user interface | sequential |

What is hard here, and what each component must therefore guarantee:

* **Lock-free sharing.** Ring indices, `overflow_flag`, TXEIE, `pending_flag`,
  `bp_state` and `pending_event` are shared by code and interrupts with no lock.
  The ring must be a FIFO whatever the interleaving; a dropped byte must be
  reported; a byte accepted for transmission must leave; no IDLE may be lost; an
  event must reach the PC whole.
* **An unreliable line with retries and no MCU timeout.** Lost and corrupted
  bytes shift frames. The frame must stay in its buffer, the link must recover,
  and a command must not run again but for an answer that the PC did not get in time.
* **Order instead of identity.** The PC matches replies to commands by order
  alone, so each command must be answered exactly once, in order.
* **A program that waits.** `mdt_breakpoint_trigger` spins until a command
  releases it: it must stay until then, and must not stay after that.
* **Bounded slots.** One event slot and a transmit ring of 63 bytes decide what
  is dropped.
* **A controller that may fail in the middle.** A flash write is two halfwords, an
  erase a page; either may break off, and the waits for them are bounded. Every
  bank must be locked again, success must mean stored, and no sequence of
  commands, retries and late jobs may touch the running firmware.

`PROJECT.json` lists these as hazards, each at the line where it bites.

## 2. Modules

    ByteFifo  <--implements--  RingBuffer  <-- RingBufferProofs
                                   :  (taken as an atomic FIFO below)
                  PacketFraming   HalTx   IdleRx
    McuDebug  <--extends--  McuPoll   (poll mode)
              <--extends--  McuIdle   (interrupt mode)
    FlashHal  <--extends--  MemCommand   (prompt to flash)
    PcLink    (the PC's threads against an MCU reduced to its answers)
    MC*       TLC instances: commands, aliases, slots as definitions; MCUart is
              one of RingBuffer, HalTx and IdleRx side by side
    *Proofs   the theorems about the module of that name; HalProofs is about
              HalTx and IdleRx; McuPollProofs and McuIdleProofs extend
              McuDebugProofs, the lemmas about what they share

### RingBuffer, ByteFifo

`RingBuffer` cuts `rb_push` and `rb_pop` at every access to a shared index, slot
or flag. The producer goes `PushEnter` (compute `next_head`), `PushFull` or
`PushRoom` (compare with `tail`), `PushStore`, `PushPublish` (store `head`), or
`PushRaise` (the overflow flag, raised by the receive interrupt). The consumer
goes `PopEnter`, `PopLoad`, `PopAdvance`; `hal_uart_rx_overflow` is two steps,
test (`OverflowSeen`) and clear (`OverflowClear`). The two sides interleave freely, which includes an interrupt that
runs to completion, in either direction and on every target. `ByteFifo` is the
promise: a bounded queue of `N - 1` bytes that may refuse a byte only when full.
`ImplementsFifo` is the refinement: a byte counts as queued from the step that
publishes `head` to the step that advances `tail`.

Taken for granted: 16-bit indices are read in one piece (true for
`MDT_BUFFER_SIZE` up to 256 also on an AVR), and the store to the non-volatile
`buf` reaches memory before the store to `head`.

### PacketFraming

The PC's `_send_with_retry` sends a packet byte by byte; a byte may be lost or
replaced by noise; the receive ring drops what does not fit; the MCU's
`mcu_mdt_poll` flushes an event, guards against overflow and drains the ring into
`mdt_process_byte`. A byte is (packet, position); `Alias` says which positions of
a packet hold the value `0xAA` too. The CRC is taken to accept exactly whole
packets. The way back is counted in packets: one of which bytes are lost or corrupted is
no packet to `read_packet`, or passes for any reply, since the PC takes 18 bytes
from a START byte on and a command thread that waits looks at the flags only (`Mishear`,
counted in `unheard`). A timeout is due once the MCU has taken all bytes and nothing
is on its way to the PC; one that fires although the MCU would still have answered is
counted in `late`. Abstracted: SEQ (the PC does not look at it), the time scale.

### McuDebug, McuPoll, McuIdle

`McuDebug` has the state both schedulers share and the operations on it:
`BpControl`, `WpControl`, `Execute` (the dispatcher), `TakeSnapshots` and
`CheckHits` (`mcu_mdt_watchpoint_check`). A memory word is the set of its 1 bits.
`hit_count` wraps at `HitMod` and watchpoint ids are cut to a byte (`IdMod`), as
in the code; breakpoint ids are not.

`McuPoll` is poll mode, one step of `mcu_mdt_poll` at a time: `PollFlush`,
`PollPacket`, `PollEmpty`, `PollWatch`, and around it the main loop (`UserPoll`)
or the spin loop of a breakpoint (`SpinPoll`, `SpinTest`, `SpinNext`,
`SpinExit`). The transmit ring counts half packets, so that a packet cut off by a
full ring is visible; `cut` says that there was one, and a PC that waits for its rest in
vain gives up (`PcGiveUp`). `Restart` is what is left after `hal_reset`. What the PC may
send, how far it runs ahead (up to the three attempts of the code, unanswered) and what
the program writes are those of a *session*, chosen in `Init` from the constant
`Sessions`, in both modules.

`McuIdle` is interrupt mode. `PendSV` handles one packet in one step: the user's
program cannot preempt it, and the USART interrupt only touches the rings. The
user's program is cut at every access to shared memory: the test of `enabled` (`Hit`),
the load of `hit_count` for the event (`SetArgs`), the fields of the event
(`SetTest`, `SetHead`, `SetBody`, `SetRaise`), `hit_count++` (`CountLoad`,
`CountStore`), the spin loop, and the clearing of the bit-field `next`, which
writes back `enabled` as it was read (`SpinNext`, `SpinClear`). `bp_state` is not
volatile and the loop calls nothing, so the compiler may read `enabled`, `next` or
both in the first turn of the loop only; `once`, a part of the session, says which it
does. A program that has read `next` once and not seen it set is `"deaf"` to it from
then on. gcc reads `enabled` once from `-O1` on, and `next` every time.

### HalTx

`hal_uart_tx_buf`, the transmit interrupt, the data and shift registers, and
`hal_reset`, on both platforms (`platform`, chosen in `Init`). They differ in when
the interrupt is enabled (once per call on AVR, after every byte on STM32) and in
that a *receive* interrupt on the STM32 feeds the transmitter as well.

### IdleRx

USART interrupt, IDLE, `pending_flag`, PendSV and the drain loop, one access at a
time, on both cores (`core`, chosen in `Init`): M0 clears IDLE and ORE through
ICR, M3 by reading SR and DR. A run of the handler is taken to be shorter than a
character (about 87 us at 115200 baud), so at most one event of the line falls
into it; how long the handler is kept from *starting* is left open. Without that
assumption an IDLE can be cleared that belongs to a later burst. `HalProofs` extends
this module and `HalTx` together, and `MCUart` both and `RingBuffer`, so the names
they would share begin with Tx and Rx (`TxSpec`, `RxSpec`).

### FlashHal, MemCommand

`FlashHal` is `hal_write_memory` and `hal_read_memory` on an AVR, an M0, an M3 and an
XL M3 with two banks (`part`, chosen in `Init`), one step per phase: `Enter` (the
early returns, `flash_is_erased`), `Unlock`, `Wait` (`flash_wait_busy`, which may
give up), `Start`, `Settle` (wait, EOP, read back), `Lock`. `Controller` is the hardware: a
job takes effect as a whole, up to one of `Cuts`, or not at all, with EOP or
without, at any time, also after the call that started it has returned. `Unlocks` is
where the four paths of `flash_write_word` differ: a word across the bank seam
needs both locks.

`MemCommand` puts the prompt on top: `Type` takes a command the validator accepts
(`Valid`: segments, the firmware's range, the page of an ERASE; a READ of zone ERASE
passes the validator and is refused by the HAL), `Send` and
`Answer` are the loop of `execute` over chunks of four bytes, each tried `Tries`
times; `SendLost` and `AnswerLost` lose a request or a reply. A reply with
STATUS_ERROR does not end the loop, it is only remembered (`refused`). The register
commands are the zone `REG`: one chunk, any register that contains the address,
word-aligned on STM32, one byte on an AVR. The contents of RAM, EEPROM and
registers are left out, so a call on them is one step.

### PcLink

One session of the PC tool: `Echo` (`_synch_with_mcu`), `DrainPoll`, `DrainEvent`,
`DrainEnd` (`drain_stale_events`), the command thread (`Type`, `Nacked`, `Acked`,
`Timeout`, `Exit`), the receiver (`RxPacket`, `RxError`), the listener and the poll
thread, in both modes (`uart_idle`, chosen in `Init`). The startup takes any 18 bytes for
the ping's echo and throws away what came with them, which may be the beginning of
the next packet: what is left of that one is misread (`Misread`). An adapter that is
unplugged ends the process (`Unplugged`, `os._exit`). The MCU is what the other
modules show it to be: it answers packets in order (`McuAnswer`) and has one event
slot. The line damages or loses a packet; a lost byte takes the rest of its frame
from the next packet, which is then damaged or vanishes too. `surplus` counts the
answers nobody asked for or that come after their timeout: they stay in the
response queue for good, because replies are told apart by their order alone and
nothing empties the queue.

Approximations: a write to the serial port is atomic per packet; what is in the
driver or in `_rx_buf` is one queue; CRC and SEQ of replies are not looked at, as in
the code. At this commit `setup()` in `pc_tool/main.py:22-23` prints the page size
and exits before it opens the link; the model starts at the link, as the hardware
tests use it.

## 3. What is checked

Every run finishes within four minutes on two workers (`PcLink` takes the longest, most
others a minute or less).

| run | instance | shows |
|---|---|---|
| `Uart` | ring buffer: 2 byte values, `N = 4`; transmit: both platforms, ring of 3, calls up to 4, 9 bytes; receive: both cores, ring of 2, 5 bytes | each slot has one user at a time, and `head` never reaches `tail` from behind (`SlotsDisjoint`), a drop is never forgotten (`DropRemembered`), and the ring implements `ByteFifo`; no byte is stranded with the transmit interrupt off (`NoStrandedByte`), none is lost or reordered (`SentInOrder`), the reply to RESET leaves first unless a wait ran out (`AckBeforeReset`), everything accepted is sent (`EverythingSent`); an IDLE leads to a drain (`NoIdleMissed`); on the M0 a byte is lost only to an overrun or a full ring (`EveryByteKept`) and is processed (`EveryByteProcessed`) |
| `Framing` | packets of 4 bytes, one plain and one with an inner `0xAA`; ring of 7; 3 attempts; 2 faults of any kind, in either direction | frames fit and are reset at once (`FrameBounds`); no damaged request and no late answer, no loss of sync (`InSync`); a command runs again at most once per answer that was late, lost or misread, and damage to requests never repeats one (`RunOnce`); one fault is masked by the retries (`OneFaultMasked`); the link heals (`LinkHeals`), the last two for packets without an inner `0xAA` |
| `Poll` | five sessions: all breakpoint controls, a wrong id, bad packets and RESET with a PC that waits (`pace`); the same 2 commands ahead (`pipe`); 3 unanswered attempts at an ENABLE (`retry`) and at a command that arrives damaged (`noise`); 2 watchpoints on 1 word, all masks, a wrong control, ids out of range and wrapped (`watch`) | until the ring cuts a packet off every command is answered once and in order (`AnswersInOrder`); packets are whole, and the first to be cut off did not fit beside the replies outstanding and an event (`WholePackets`); pauses last until released (`PauseHolds`) and end then (`ReleaseWorks`); an event in the slot is kept until sent (`EventKept`) and is sent (`EventsSent`); a change is reported at most once (`OneHitPerChange`) |
| `Idle` | five sessions: debugging commands and event polls in the four builds of the spin loop, 2 ahead where `next` is read every time; every command, bad packets, a watchpoint | an event reaches the PC untorn (`EventsWhole`); `PauseHolds`; NEXT releases builds that re-read `next` (`NextReleases`); DISABLE releases builds that re-read `enabled` (`DisableReleasesRead`) |
| `Flash` | all four parts; 3 pages of 8 bytes, the first with 6 bytes of firmware, the last in bank 2; writes and erasures of up to two chunks at page ends and across the seam, reads, registers; 3 attempts | banks are locked between calls and unlocked when used (`LockDiscipline`); acknowledged data is in flash (`SuccessMeansStored`); the firmware is untouched (`FirmwareUntouched`); every command ends, even with a controller that hangs (`CommandEnds`) |
| `PcLink` | both modes, 2 commands with the ping, 2 events, 1 damaged or lost packet, 1 late answer, an adapter that may be unplugged at any time | at most the answer waited for and the counted extra ones are under way, and without extra ones a reply is to the command waited for (`RepliesMatch`); events keep order, none doubled or lost unless damaged (`EventsKept`), and reach the screen (`EventsArrive`); commands end, and EXIT ends the threads (`CommandsEnd`) |
| `FramingAlias` | one packet with an inner `0xAA`, 1 fault | **violation** of `ResyncAlways`: finding 1 |
| `PollSilentPause` | the first session of `Poll` | **violation** of `HitAnnounced`: finding 2 |
| `PollCutReply` | `retry` and `noise` of `Poll` | **violation** of `EveryPacketWhole`: finding 5 |
| `PollEarlyNext` | the first session of `Poll` | **violation** of `PauseUntilRelease`: finding 6 |
| `IdleHoisted` | debugging commands with the hoisted build | **violation** of `DisableReleases`: finding 3 |
| `EraseChunks` | M3; an ERASE of 8 bytes that starts 4 before a page's end | **violation** of `EraseOnlyItsPage`: finding 4 |

### Bounds

* `N = 4`: three bytes in the ring, so empty, partly full, full and both kinds of
  wrap-around occur; the proofs cover every `N`.
* `PacketSize = 4`: start, one middle byte that is handled like all others, the
  last byte before completion and the completing one. `RingSize = 7` is less than
  two packets (the default build holds 63 bytes, three packets of 18 and a half),
  so that one late retry already overflows it, in the middle of a packet. Two faults: a fault while the damage of the first
  one is still being repaired. Three attempts is the code's number.
* `TxHalves = 7`: 63 bytes are three and a half packets of 18. Three commands
  unanswered are what the three attempts at one produce; with an event they need four
  packets, so the ring overflows. The sessions `retry` and `noise` have one command each,
  since what they are about is the length of the replies; all commands interleave in
  `pipe`, two ahead, where the ring is filled but for half a packet. The theorems cover
  every command three ahead.
* `HitMod = 2` makes `hit_count` wrap; `IdMod = 8` makes id 8 alias slot 0.
* Two watchpoints compete for the event slot; one breakpoint suffices because
  slots only interact through that slot as well.
* `Uart`: the three modules share no variable, so `side`, chosen in `Init`, says whose
  behaviour it is and the other two stay as they began. `MaxLen = 4 > Capacity = 3` in
  `HalTx`: a call that does not fit. `IdleRx` bounds the arriving bytes at 5, more than
  twice the ring; when they have arrived and are dealt with the behaviour ends (`RxEnd`),
  and may not stop anywhere else.
* Deadlock is not checked in `PcLink`, which ends with the session. It is checked in all
  other runs.
* `PageSize = 8` is two words, so that a chunk may end at, or reach over, a page's
  end; 6 bytes of firmware leave the rest of its page free but not erasable. `Cuts` at
  0, 5 and 8: a job that does nothing, stops inside the page (and inside a
  halfword), or completes. `Tries = 3` is the code's number.
* `PcLink`: `MaxRetries = 3` is the code's; `MaxPolls = 2` instead of 8 and
  `MaxErrors = 2` instead of 10 only shorten two counting loops. `Backlog = 1`: half a
  second between polls is long enough for most answers to be read. With three
  commands the safety properties hold as well (1.5 million states); the run uses
  two so that liveness is checked in a minute.

### Fairness

Weak fairness, and only of what keeps running by itself: the interrupt handlers
and PendSV (the hardware takes a pending interrupt), the UART shifting a byte out,
the code between two program points, and the main loop reaching its next
`mcu_mdt_poll` (`MCUart` has the fairness of `HalTx` and of `IdleRx`, `TxFairness` and
`RxFairness`). The PC is fair only in `PacketFraming` (the tool keeps working) and
in reading replies in `McuIdle`. Nothing is assumed of the user's program between
breakpoints, nor of the order of actors. In `MemCommand` the code on both sides runs
but the flash controller may hang: the waits are bounded. In `PcLink` every thread and
the MCU run; nobody has to type a command or leave. `LinkHeals` needs no fairness for faults:
`MaxFaults` makes them finite. `EventsSent` says "if the PC stops sending", since a
PC that polls without pause keeps the transmit ring busy. `ReleaseWorks` is stated
for the paced PC: pipelined, an ENABLE may follow a DISABLE before the loop looks.

### Faults

Each property is there to catch something. Next to the definitions it is about
stands a variant marked `Fault:`, a mistake that could be made in that
code (a forgotten mask, an interrupt not enabled, the latest event winning, `next`
left set, a missing `break`, a reply not sent for a bad packet). `PROJECT.json` pairs each property
with such a variant, and with it in place TLC finds the property violated. The
faulty operators are used nowhere else.

## 4. What is proved

The eight proof modules are checked by TLAPS to the last leaf, for every value of
the constants their assumptions allow.

`RingBufferProofs`, for every `N >= 1` and every set of bytes:

* `TypeCorrect`, `IndexDiscipline` (`SlotsDisjoint`), `DropsAreReported`
  (`DropRemembered`), from the inductive invariant `IInv`. That `head` does not
  reach `tail` is not inductive by itself: the producer compares `next_head` with
  `tail` in one step and publishes it two steps later. `IInv` adds what each side
  knows in between: `next_head` is still `Succ(head)`, it still differs from `tail`
  (the consumer only moves `tail` away from it), `head` still differs from `tail`
  while the consumer is inside `rb_pop`, and values read are still current.
* `RingImplementsFifo`: `Spec => ImplementsFifo`. `InitFifo` and `StepFifo` show
  that each step is a step of `ByteFifo` or a stutter; `CountLemma` to
  `AdvanceLemma` say how the window of slots between `tail` and `head` changes when
  a slot outside it is written, when `head` is published and when `tail` advances.
  This is what lets the other modules treat a ring as an atomic FIFO.

`PacketFramingProofs`, for every packet size above 1, every ring size, every
alias table, any number of attempts and faults (`SyncKept` and `OneFaultIsMasked` assume
more):

* `TypeCorrect` and `FrameAlwaysFits` (`FrameBounds`): `packet_buffer` is never
  written past its end and the overflow branch of `mdt_process_byte` is
  unreachable. `TypeOK /\ FrameBounds` is inductive; `TypeOK` carries
  `phase = "sending" => sent < PacketSize`. `ProcessByteLemma` and `ArriveLemma`
  deal with the two parts that several actions share.

* `SyncKept` (`InSync`), for a ring with room for one packet (`MDT_BUFFER_SIZE` is 64,
  a packet 18 bytes). `SyncInv` says where the bytes are: those in `packet_buffer`, then
  those in the ring are the beginning of the current packet, and together they are
  what was sent of it, unless the MCU has handled all of it and answered; the answer may
  have been lost. `InSync` alone is not inductive, because the next byte comes from the
  ring.
* `RepeatsAreAccounted` (`RunOnce`). `Paid` is a budget: an answer on its way stands
  for a packet's worth of bytes the MCU has consumed, and with the bytes in the buffer
  and in the ring there are never more of those than the current attempt has sent, the
  attempts given up too early and those whose answer the PC did not hear have left
  behind (`Slack`), and less than one packet of debris. A second budget pays in the same
  way for the runs of the command and its refusals on their way. So a command runs at
  most `1 + Slack` times, and without slack at most one answer is on its way and none
  when the command is over. `CountAppend` and `CountTail` say how the number of answers
  in a queue changes, `MishearCounts` what a misread packet does to it.
* `OneFaultIsMasked` (`OneFaultMasked`), for at least 3 attempts (`MDT_MAX_RETRIES`) and
  a ring with room for two packets. `MaskInv` lists what one fault can leave
  behind, as a shape of `Stream` (packet buffer and ring, one after the other) together with
  the attempt and the answers on their way. Nothing is wrong any more (`Intact`,
  `Answered`); the frame holds a corrupted byte and will be refused (`Garbled`); it never
  began and the rest is skipped (`Missed`); a byte is missing, so the first byte of
  the second attempt ends the frame (`Short`, `Shifted`); or the MCU has refused it and
  skips the rest (`Refused`). Only `Short` costs two attempts, hence the three. After
  a late answer the MCU is one packet or one answer behind for good (`Behind`), and every
  answer is an ACK. After an answer the PC did not hear the same packet is sent once more
  and nothing else is wrong (`HeardInv`). `PollCases` says what one byte does to the stream: it is skipped,
  taken, or completes a frame. That the rest of a packet is skipped needs `Plain`.

`McuDebugProofs` has the lemmas about `McuDebug` that both modes need: what
`Execute`, `BpControl`, `WpControl`, `TakeSnapshots` and `CheckHits` do to the types,
which operations can set `next` or clear `enabled`, and which raise an event.

`McuPollProofs`, for every number of slots, word size and session of commands whose
addresses and words exist (`WellFormed`):

* `EventsStay` (`EventKept`): an event is sent when the transmit ring is empty, so it is
  whole whatever happens to the replies.
* `PausesHold` (`PauseHolds`, which excepts a NEXT that came early; without the exception
  it is `PauseUntilRelease`, finding 6). `PauseInv` relates `next` and `enabled` to what was sent
  since the hit: a set `next` came early or is the release, the slot stopped at stays
  enabled until something releases it, and right after the hit only an early `next` is set.
* `ChangesReportedOnce` (`OneHitPerChange`). `QuietInv`: when nothing was written and no
  mask set since the last check, no active slot differs from its snapshot.
* `TypeCorrect`, `RepliesAnswer` (`AnswersInOrder`) and `PacketsStayWhole`
  (`WholePackets`), for every transmit ring from one packet on, the one of the code and
  its three attempts included. Both properties speak of the time until a packet is cut
  off, and `WholePackets` says when the first one may be: only if the replies the PC
  waits for and an event on its way are longer than the ring. `LinkInv` says how the
  ring is laid out until then (`Laid`): at most one event, first, since an event is
  sent only when the ring is empty, then the replies to the oldest unanswered commands,
  in their order, perhaps half of the first one gone; the commands without a reply are
  in `rx`. Neither property is inductive alone: that the reply read next is the right
  one depends on all that are queued behind it. What happens after a packet was cut off
  is finding 5, and nothing is claimed of it but types and what does not concern replies.

`McuIdleProofs`, for every number of slots, word size and session, in all four builds:

* `TypeCorrect`.
* `EventsStayWhole` (`EventsWhole`). `WholeInv` follows the fields of an event through
  `mdt_event_set`: an event that is pending is whole; while the program writes the
  fields none is pending, so PendSV sends none; and what is written so far is the
  program's own. The exception, an event raised by PendSV inside `mdt_event_set`,
  is `crossed`.
* `PausesHold` (`PauseHolds`). `PauseInv` is that of poll mode with one case more: at
  the store that clears `next`, which also writes back `enabled` as it was loaded,
  the release is already known.

`HalProofs`, for `HalTx`, every ring size and call length, on both platforms:

* `NothingStranded` (`NoStrandedByte`). `TxeieInv` adds the places where the ring may
  hold a byte with the interrupt off: between a caller's push and its enabling.
* `OrderCorrect` (`SentInOrder`). `OrderInv` numbers the bytes: shift register, data
  register and ring hold consecutive numbers up to the last one accepted;
  `OrderAsSequence` turns this into the property.
* `ReplyLeavesFirst` (`AckBeforeReset`). `ResetInv` says what each wait of `hal_reset`
  has established unless it ran out.

`HalProofs`, for `IdleRx`, every ring size, on both cores:

* `RxTypeCorrect`: the ring is never overfilled, and a handler whose status word
  showed RXNE finds its byte still in the data register.
* `EveryIdleServed` (`NoIdleMissed`). `VisitInv` says that whatever is in the ring has a
  visit of PendSV ahead: the flag of the line, the handler at work, `pending_flag` or
  the pending bit; one of them is always set before the one before it is cleared.
* `BytesKept` (`EveryByteKept`), from `ArrivalInv`: on an M0 that has spared every byte so
  far, ring and data register hold consecutive numbers after the last processed.

`MemCommandProofs`, for every flash layout with the firmware at its start, every
page size, set of commands, `Cuts` and number of attempts:

* `TypeCorrect`, and `LocksHeld` (`LockDiscipline`) from `LockInv`: between `unlock` and
  `lock` exactly the banks of `Unlocks(call)` are open, and the bank a halfword is in
  is one of them (`HereUnlocked`), across the seam too.
* `FirmwareSafe` (`FirmwareUntouched`). `FirmwareInv` says that every command, every
  call and every job *still running* works above the end of the firmware: the last
  part is needed because a job may outlive its call. `ValidAbove`, `ChunkAbove` and
  `EffectAbove` carry the validator's check down to the halfword or the page;
  `PageBaseMonotonic` is why checking the first page is enough for the chunks that follow.
* `AckMeansStored` (`SuccessMeansStored`). `StoreInv` says what is in flash while the
  command is still running: the bytes of the chunks already acknowledged and of the
  halfword already read back (`Done`). `Stored` also speaks of the jobs still running,
  on their way to the same addresses: a job given up by `flash_wait_busy` may take
  effect later, and it must write what is there. That a job stays inside its bank,
  and that a read-back counts only when the bank is free, is in `CallInv`.

`PcLinkProofs`, for every number of retries, polls, errors, commands, events, faults
and late answers, in both modes:

* `TypeCorrect`, with `ReaderInv` and `StartInv`: the receiver runs only below its error
  limit, and before `start()` no thread runs and nothing has been routed.
* `RepliesToTheirCommand` (`RepliesMatch`). `MatchInv` counts answers over all of
  `toMcu`, `toPc` and `response_queue` and, as long as none is too many, says of *all*
  three that they hold nothing for another command; `RepliesMatch` speaks of the last
  two only, and a command still on its way would break it one step later.
* `EventsInOrder` (`EventsKept`). `OrderInv` describes the events by the sets of numbers
  each queue tells (`Told`): those in `event_queue` come before those in `toPc`, all
  after `seen`, and the one in the slot is the latest raised. `SeenStep` and `EchoSplit`
  cover what the startup throws away, a packet swallowed in part included.

The queues are handled by lemmas on their parts: `Joined` says where a concatenation holds
packets of a kind, and `AnswersJoined`, `FitsJoined` and `ToldJoined` what follows for the
count, the addressee and the order; `Appended`, `Begun` and `Parted` are their
cases of one packet. `MaxOf` (a finite set of positions has a largest) is proved by
well-founded induction on sets.

Only model-checked: the liveness properties (`LinkHeals`, `EventsSent`,
`ReleaseWorks`, `NextReleases`, `DisableReleasesRead`, `EverythingSent`,
`EveryByteProcessed`, `CommandEnds`, `CommandsEnd`, `EventsArrive`), because they rest
on fairness and ENABLED, which the prover does not handle. Every invariant, every action
property and every other safety property of a passing run is proved.

## 5. Findings

1. **A START byte inside a packet defeats resynchronisation** (`FramingAlias`).
   `docs/architecture.md:218-219` calls resync trivial: wait for `0xAA`. After one
   lost byte the MCU may lock on an `0xAA` in an address, data or CRC byte; it then
   consumes a whole packet's length from there, and the next attempt of the same
   packet leaves it at the same wrong place. The counterexample is a loop in which
   every command fails. `LinkHeals` shows that packets without such a byte recover.
2. **A pause that is not announced** (`PollSilentPause`). `docs/commands.md:196-197`
   promises a `BREAKPOINT_HIT` for every pause. With an event pending,
   `mdt_event_set` drops the hit and the program pauses silently.
3. **DISABLE need not release a paused program in interrupt mode** (`IdleHoisted`).
   `bp_state` is not volatile and the spin loop calls nothing with
   `MDT_FEATURE_UART_IDLE`; `gcc -Os` reads `enabled` once. `DisableReleasesRead`
   shows that the loop as written is right if the flag is re-read. The same freedom
   extends to `next`: `NextReleases` is stated for builds that re-read it, which gcc's
   are, and in a build that reads both once only a reset ends the pause.
4. **An ERASE may erase more than its page** (`EraseChunks`). `docs/commands.md:84-85`
   and the validator (`pc_tool/validator.py:138-139`) say that the length of an ERASE is
   ignored, so only the page of the address is checked. `execute` sends a chunk per
   four bytes, each erases the page of its own address, and the pages after the
   first are erased without a check. They lie above the firmware (`FirmwareSafe`), but
   may hold the user's data, or nothing, past the end of flash.
5. **A reply may be cut off** (`PollCutReply`). `docs/protocol.md:105` says that the MCU
   "responds to each" packet. The result of `hal_uart_tx_buf` is ignored
   (`src/mcu_mdt.c:149`): three attempts answered in one drain, after an event, are 72
   bytes for a ring of 63, and the last reply loses its end. `WholePackets` and
   `PacketsStayWhole` say that this is the only way.
6. **A NEXT may release a pause that has not begun** (`PollEarlyNext`).
   `docs/commands.md:200` lets NEXT act "if the MCU is currently paused", and
   `docs/troubleshooting.md:148-149` says that after it "the next hit will pause again".
   The code takes NEXT for any enabled slot, keeps it, and the next pause ends at once; a
   retried NEXT is enough. The hit is announced all the same. `PauseHolds` has this as its
   only exception, and `PausesHold` proves that there is no other, in both modes.

Met while modelling, and left out of the properties because the code does not
provide them and no document clearly promises them: an overflow that
happens while an event is pending is not reported; in interrupt mode an event that
PendSV raises while the program is inside `mdt_event_set` may be mixed with its
fields; a DISABLE that PendSV handles while the loop clears `next` may be undone;
on the M3 a byte that arrives inside the handler is lost without ORE; after an
overflow in interrupt mode bytes stay in the ring until the next burst; a FLASH write
whose reply was lost is refused when it is retried, although it was done; an answer
that comes after its timeout shifts every later reply by one (`RepliesMatch` counts
it). `docs/stm32/info.md:254-257` says that the PC never transmits while an ERASE is
outstanding; the poll thread and the retries do.

### What the properties do not catch

* `OneHitPerChange` bounds the hits from above only. A change seen by a watchpoint while
  another event is pending is never reported, although `docs/commands.md:224-225` promises
  a hit "whenever any masked bits" change; and a watchpoint id of 256 acts on slot 0.
  Neither violates it.
* `AckBeforeReset` excepts resets in which a bounded wait of `hal_reset` ran out: whether
  it can depends on clock and baud rate.
* `EveryByteKept` and `EveryByteProcessed` are stated for the M0. The M3 clears IDLE by
  reading DR, and loses a byte that arrives inside the handler.
* `EventsWhole` excepts events that PendSV raises inside `mdt_event_set`. No property
  catches the DISABLE that clearing `next` undoes, nor the RESET that `hit_count++` undoes.
* `RunOnce` counts: it says how often a command may be repeated, for each answer the PC
  did not get, and not that a repetition is harmless.

### Documents that lag behind the code

No property is about these; they were met while reading.

* `docs/commands.md:180` says RESET is not yet implemented; it is (`HalTx`, `Restart`).
* `docs/troubleshooting.md:78` says that the validator rejects unaligned flash writes; it
  has no such check, the MCU refuses them (`Enter` in `FlashHal`).
* `docs/architecture.md:93` says that FLASH writes are rejected by default; the validator
  accepts them wherever they miss the firmware (`ValidMem`).
* `docs/protocol.md:88` says that a NACK echoes `CMD_ID`, and 93-95 that this disagrees
  with the PC; `mdt_send_nack` sends 0 (`src/mcu_mdt.c:91`), as the PC expects.

## 6. Not modelled, and the plan

Left out for good: the text parser, the metadata loader, the terminal, the logger
and the command line (sequential, no state that outlives a call, or user
interface); start-up code and linker scripts (`Restart` has their effect: all
state is cleared); the validator's checks of BREAKPOINT and WATCHPOINT (a range each;
`Poll` sends what they would refuse as well, as another client might).

Left out because the repository's documents disagree or rule it out:

* A main loop that calls `mcu_mdt_poll` in interrupt mode. `docs/stm32/info.md:46` says it
  never does, `docs/architecture.md:133-150` and `examples/stm32/main.c:10` do it. The models
  follow the former. With it both rings have two users on one side, outside what
  `RingBuffer` promises: a preempted `rb_pop` writes back an old `tail`.
* `mcu_mdt_watchpoint_check` in a timer interrupt, which `docs/avr/info.md:99` and
  `docs/commands.md:234` recommend. It may run inside `mdt_event_set`, tearing the event as
  `crossed` in `McuIdle` shows for PendSV, or between the address and the snapshot that
  an ENABLE stores, and compare the one with the other's predecessor.

Done: the ring buffer, framing and retry, both schedulers, transmit, receive, flash
and commands, the PC's threads. To do:

1. Refinement: that `PacketFraming` and `PcLink`, which both model the path of a command,
   implement a common abstract link, and the proof of it.
2. The timer interrupt as a third actor, with ENABLE and `mdt_event_set` cut open.
3. `Crc16` against a bitwise reference over short packets.
