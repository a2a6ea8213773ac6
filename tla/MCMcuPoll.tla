----------------------------- MODULE MCMcuPoll -----------------------------
(* TLC instances of McuPoll.                                               *)
EXTENDS McuPoll

Cmd(op, ctl, id, arg) == [op |-> op, ctl |-> ctl, id |-> id, arg |-> arg]
Bare(op)    == Cmd(op, "-", 0, {})
Bp(ctl, b)  == Cmd("BREAKPOINT", ctl, b, {})
Wp(ctl, s, arg) == Cmd("WATCHPOINT", ctl, s, arg)

(* Breakpoints: every control on slot 0, a slot that does not exist.       *)
BpCommands == {Bp(ctl, 0) : ctl \in BpControls} \cup {Bp("ENABLE", 7)}
(* Watchpoints on one address, with every mask, a control and a slot that  *)
(* do not exist, and a slot whose number is 0 when cut to a byte.          *)
CONSTANT a
WpCommands == {Wp(ctl, 0, {}) : ctl \in {"DISABLE", "RESET", "OTHER"}}
                \cup {Wp("ENABLE", s, a) : s \in WpSlot \cup {7, IdMod}}
                \cup {Wp("MASK", s, w) : s \in WpSlot, w \in Word}
                \cup {Cmd("WRITE_MEM", "-", a, Bit)}
Breaks  == BpCommands \cup {Bare("BAD"), Bare("RESET")}
Watches == WpCommands \cup {Bare("BAD")}

Breaking(paced, window, command) ==
  [command |-> command, window |-> window, paced |-> paced, writes |-> {}]
Watching == [command |-> Watches, window |-> 1, paced |-> TRUE, writes |-> Word]

(* Three attempts at one command, none of them answered yet: one that the  *)
(* MCU carries out, and one that reaches it damaged each time.             *)
Retrying(c) == Breaking(FALSE, 3, {c})

Patient     == [pace |-> Breaking(TRUE, 1, Breaks)]
Hasty       == [retry |-> Retrying(Bp("ENABLE", 0)), noise |-> Retrying(Bare("BAD"))]
AllSessions == [pace |-> Breaking(TRUE, 1, Breaks),
                pipe |-> Breaking(FALSE, 2, Breaks \ {Bp("ENABLE", 7)}),
                retry |-> Retrying(Bp("ENABLE", 0)),
                noise |-> Retrying(Bare("BAD")),
                watch |-> Watching]
=============================================================================
