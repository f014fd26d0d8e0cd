---------------------------- MODULE MCSessionPool ----------------------------
(* An instance of SessionPool for TLC: a dial of each class. *)
EXTENDS SessionPool

CONSTANTS d1, d2

MCPriority == [d \in Dials |-> IF d = d2 THEN "Control" ELSE "Ordinary"]
==============================================================================
