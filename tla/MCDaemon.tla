------------------------------- MODULE MCDaemon -------------------------------
(* One instance for the parts of a daemon, and for the hub that follows it *)
(* across restarts.  They share no state: a behaviour is a behaviour of    *)
(* the part chosen at the start while the others stand still, so each part *)
(* is explored by itself.                                                  *)
EXTENDS Session, TabSize, Proposals, HubLink

CONSTANTS x, none, c1, v1, v2, a1, g1, g2

VARIABLE part   \* the part that takes steps

MCNames == {x}
MCRenameTo == {x, none}
MCWants == {<<2, 2>>, <<1, 3>>}
MCFirstGrid == <<2, 2>>

Symmetry == Permutations({v1, v2}) \cup Permutations({g1, g2})

DVars == <<part, vars, svars, pvars, lvars>>

DInit ==
  /\ part \in {"session", "size", "proposals", "hub"}
  /\ Init /\ PInit /\ LInit
  /\ SInit /\ (part # "size" => \A v \in Viewers : ~sub[v].on)

SessionNext == part = "session" /\ Next /\ UNCHANGED <<part, svars, pvars, lvars>>
SizeNext == part = "size" /\ SNext /\ UNCHANGED <<part, vars, pvars, lvars>>
ProposalsNext == part = "proposals" /\ PNext /\ UNCHANGED <<part, vars, svars, lvars>>
HubNext == part = "hub" /\ LNext /\ UNCHANGED <<part, vars, svars, pvars>>

DNext == SessionNext \/ SizeNext \/ ProposalsNext \/ HubNext

DSpec == DInit /\ [][DNext]_DVars
===============================================================================
