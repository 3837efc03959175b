--------------------------- MODULE OrderEventsMC ---------------------------
(* An instance of OrderEvents for TLC. *)
EXTENDS OrderEvents

CONSTANTS w1, w2, paid, canceled

MCMaxMessages == [p \in Partition |-> IF p = paid THEN 2 ELSE 1]
=============================================================================
