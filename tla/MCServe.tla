------------------------------- MODULE MCServe -------------------------------
(* One instance for what `xerotty serve' keeps going: the daemon's funnel,  *)
(* which keeps its clients up to date, the scrollback of a terminal, and    *)
(* the supervisor that replaces the daemon.  They share no state: a         *)
(* behaviour is a behaviour of the part chosen at the start while the       *)
(* others stand still.                                                      *)
EXTENDS Funnel, Supervisor, MCHistory

CONSTANTS x, none, c1, agent, t1

MCNames == {x}
MCNoNames == {}
MCCallers == {c1, agent}
MCClients == {c1}
MCTabs == {t1}
MCBoth == {"TERM", "USR2"}

VARIABLE part   \* the part that takes steps

EVars == <<part, fvars, uvars, tvars>>

EInit ==
  /\ part \in {"funnel", "supervisor", "history"}
  /\ FInit /\ TInit
  /\ UInit /\ (part # "supervisor" => plumb = {})

Funnels(A) == part = "funnel" /\ A /\ UNCHANGED <<part, uvars, tvars>>
Keeps(A) == part = "history" /\ A /\ UNCHANGED <<part, fvars, uvars>>
Supervises(A) == part = "supervisor" /\ A /\ UNCHANGED <<part, fvars, tvars>>

\* A terminal may rest at any time, the supervisor once it has ended or started
\* the last daemon a run allows; the funnel never rests.
Rests ==
  /\ \/ part = "supervisor" /\ (run = "done" \/ gen = MaxSpawns)
     \/ part = "history"
  /\ UNCHANGED EVars

ENext ==
  \/ Funnels(FNext) \/ Keeps(TNext) \/ Supervises(UNext)
  \/ Rests

\* With the fairness of FairFSpec and FairUSpec, in the behaviours of their part.
ESpec ==
  /\ EInit /\ [][ENext]_EVars
  /\ \A a \in Callers : WF_fvars(Funnels(Proceed(a)))
  /\ \A c \in Clients : /\ WF_fvars(Funnels(ProceedAttach(c)))
                        /\ WF_fvars(Funnels(Write(c)))
                        /\ WF_fvars(Funnels(Unregister(c)))
  /\ WF_uvars(Supervises(RunStep)) /\ WF_uvars(Supervises(Reaper))
  /\ WF_uvars(Supervises(ReadControl)) /\ WF_uvars(Supervises(TimerKill))
  /\ WF_uvars(Supervises(\E p \in timers : TimerCheck(p)))
  /\ WF_uvars(Supervises(Restore)) /\ WF_uvars(Supervises(told /\ StopCleanly))
===============================================================================
