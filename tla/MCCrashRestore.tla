---------------------------- MODULE MCCrashRestore ----------------------------
(* Three instances of CrashRestore in one, chosen at the start: two tabs    *)
(* and two windows over two daemons, by crash or upgrade in place; one      *)
(* labelled tab whose shell may exit over three, by crash or supervised     *)
(* upgrade; and two tabs in one window over three, by crash.                *)
EXTENDS CrashRestore

CONSTANTS x, none, c1

MCNames == {x}
MCRename == {x, none}
MCCallers == {c1}
MCUpgrades == {"inplace", "supervised"}

VARIABLE scale   \* the instance

WideNext ==
  /\ scale = "wide"
  /\ \/ /\ Create \/ Restructure \/ Unreported
        /\ name' = name /\ pending' = {}
     \/ \E t \in TabID : Close(t) \/ SendTab(t) \/ SendTabGone(t)
     \/ SchedulePush \/ TakeState
     \/ \E st \in sending : SendState(st)
     \/ life < 2 /\ (Crash \/ UpgradeInPlace)

\* What the third daemon resumes is all that is asked of it.
LongNext ==
  /\ scale = "long"
  /\ (life < 3 /\ Works) \/ Crash \/ UpgradeSupervised
  /\ nextTabID' <= 2 /\ nextWinID' <= 2
  /\ pending' \subseteq pending \/ nextTabID = 1

\* A tab that the first crash left on no bar, and a second crash.
TwiceNext ==
  /\ scale = "twice"
  /\ \/ Create /\ name' = name /\ pending' = {}
     \/ \E t \in TabID : Close(t) \/ SendTab(t) \/ SendTabGone(t)
     \/ SchedulePush \/ TakeState
     \/ \E st \in sending : SendState(st)
     \/ Crash
  /\ nextWinID' <= 2

ScaledInit == CInit /\ scale \in {"wide", "long", "twice"}

ScaledSpec ==
  /\ ScaledInit
  /\ [][(WideNext \/ LongNext \/ TwiceNext) /\ UNCHANGED scale]_<<scale, cvars>>
=============================================================================
