----------------------------- MODULE MCSupervisor -----------------------------
(* An instance of Supervisor for TLC.                                      *)
EXTENDS Supervisor, TLC

CONSTANTS t1, t2

MCTabs == {t1, t2}
MCNone == {}

Symmetry == Permutations({t1, t2})
=============================================================================
