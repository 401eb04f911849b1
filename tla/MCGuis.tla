-------------------------------- MODULE MCGuis --------------------------------
(* One instance for what clients of one daemon do to each other: the       *)
(* broadcast of its topology to them, and the tab bars their GUIs share.   *)
(* The two share no state: a behaviour is a behaviour of the part chosen   *)
(* at the start while the other stands still.                              *)
EXTENDS Funnel, Layout

CONSTANTS none, c1, c2, g1, g2

VARIABLE part   \* the part that takes steps

MCNoNames == {}
MCClients == {c1, c2}

Scene(bars, twice, once) ==
  [bars |-> bars,
   edits |-> [k \in Kinds |-> IF k \in twice THEN 2 ELSE IF k \in once THEN 1 ELSE 0]]
MCScenes ==
  {Scene(<<>>, {}, {}),
   Scene(<<<<1, 2>>, <<3>>>>, {"slide", "drop"}, {"kill", "shut", "agent"}),
   Scene(<<<<1, 2>>>>, {}, {"tear", "slide", "drop", "press"})}
MCTear == {Scene(<<<<1, 2>>>>, {}, {"tear"})}

Symmetry == Permutations({c1, c2}) \cup Permutations({g1, g2})

UVars == <<part, fvars, gvars>>

UInit ==
  /\ part \in {"funnel", "bars"}
  /\ FInit /\ GInit
  /\ part = "funnel" <=> rec.order = <<>>

FunnelNext == part = "funnel" /\ FNext /\ UNCHANGED <<part, gvars>>
BarsNext == part = "bars" /\ GNext /\ UNCHANGED <<part, fvars>>

USpec == UInit /\ [][FunnelNext \/ BarsNext]_UVars
===============================================================================
