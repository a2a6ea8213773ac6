-------------------------- MODULE MCPacketFraming --------------------------
(* TLC instances of PacketFraming.                                         *)
EXTENDS PacketFraming

CONSTANTS p, q

(* The third byte of q is 0xAA; p has no such byte.                        *)
AliasOfQ == [x \in Packet |-> IF x = q THEN {3} ELSE {}]
=============================================================================
