------------------------------ MODULE MCHistory -------------------------------
(* Rows with records of two sizes by turns, the one twice the other, so that *)
(* a short record does not cover a long one that was cut off before it.      *)
EXTENDS History

MCLineSize == [row \in 1..MaxRows |-> 2 + 2 * (row % 2)]
===============================================================================
