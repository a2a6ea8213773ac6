---------------------------- MODULE MCMemCommand ----------------------------
(* TLC instances of MemCommand: a flash of three pages of eight bytes from *)
(* address 8 on, the first of them holding a firmware of six bytes, the    *)
(* last being bank 2 of an XL part.                                        *)
EXTENDS MemCommand

TheFlash == [start |-> 8, size |-> 24]
TheImage == [start |-> 8, end |-> 14]
TheRam   == [start |-> 40, size |-> 4]
TheEeprom == [start |-> 0, size |-> 4]
TheRegisters == {[start |-> 48, size |-> 4, writable |-> TRUE],
                 [start |-> 52, size |-> 4, writable |-> FALSE]}

(* The bytes of a command are numbered from 1 on.                          *)
Mem(op, zone, address, length) ==
  [op |-> op, zone |-> zone, address |-> address, length |-> length,
   data |-> [i \in 0 .. length - 1 |-> i + 1]]

Writes   == {Mem("WRITE", "FLASH", x[1], x[2]) :
               x \in {<<12, 3>>, <<14, 1>>, <<19, 2>>, <<20, 6>>, <<22, 3>>}}
Erasures == {Mem("WRITE", "ERASE", x[1], x[2]) : x \in {<<15, 4>>, <<18, 4>>, <<24, 0>>, <<26, 4>>}}
Others   == {Mem("READ", "FLASH", 12, 4), Mem("WRITE", "RAM", 40, 4),
             Mem("WRITE", "EEPROM", 0, 3), Mem("READ", "EEPROM", 3, 2),
             Mem("WRITE", "REG", 48, 4), Mem("READ", "REG", 54, 4),
             Mem("WRITE", "REG", 52, 4), Mem("READ", "ERASE", 16, 4)}
Commands == Writes \cup Erasures \cup Others

(* An ERASE given a length that reaches into the next page.                *)
LongErasures == {Mem("WRITE", "ERASE", 20, 8), Mem("WRITE", "FLASH", 24, 2)}
=============================================================================
