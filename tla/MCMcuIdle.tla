----------------------------- MODULE MCMcuIdle ------------------------------
(* TLC instances of McuIdle.                                               *)
EXTENDS McuIdle

CONSTANT a

Cmd(op, ctl, id, arg) == [op |-> op, ctl |-> ctl, id |-> id, arg |-> arg]
Bare(op)   == Cmd(op, "-", 0, {})
Bp(ctl, b) == Cmd("BREAKPOINT", ctl, b, {})

(* The commands of a debugging session without failures: no bad packet.    *)
Debug == {Bp(ctl, b) : ctl \in {"ENABLE", "DISABLE", "NEXT"}, b \in BpSlot}
           \cup {Bare("NONE")}
All   == Debug \cup {Bp("RESET", b) : b \in BpSlot}
           \cup {Bare("BAD"), Bare("RESET"),
                 Cmd("WATCHPOINT", "ENABLE", 0, a)}

Session(command, window, writes, once) ==
  [command |-> command, window |-> window, writes |-> writes, once |-> once]

(* What gcc makes of the loop from -O1 on: enabled is read once, next every*)
(* time.  The C standard allows every other choice as well.                *)
Hoisted     == [gcc   |-> Session(Debug, 1, {}, {"enabled"})]
AllSessions == [gcc   |-> Session(Debug, 2, {}, {"enabled"}),
                every |-> Session(Debug, 2, {}, {}),
                next  |-> Session(Debug, 1, {}, {"next"}),
                both  |-> Session(Debug, 1, {}, {"enabled", "next"}),
                all   |-> Session(All, 1, Word, {})]
=============================================================================
