------------------------------- MODULE MCClient -------------------------------
(* One instance for the parts of a client, of its connection to the daemon *)
(* and of the event log it follows.  They share no state: a behaviour is a *)
(* behaviour of the part chosen at the start while the others stand still, *)
(* so each part is explored by itself.                                     *)
EXTENDS Mirror, EventFollow, Heartbeat, Search, EventRing

CONSTANTS l, k, r1, a, b

MCFilter == [r \in Readers |-> {a}]

VARIABLE part   \* the part that takes steps

CVars == <<part, mvars, fvars, hvars, qvars, rvars>>

CInit ==
  /\ part \in {"mirror", "follow", "heartbeat", "search", "ring"}
  /\ MInit /\ QInit /\ EInit
  /\ HInit /\ (part # "heartbeat" => watch = D)
  /\ XInit /\ (part # "follow" => ~fromNow)

MirrorNext == part = "mirror" /\ MNext /\ UNCHANGED <<part, fvars, hvars, qvars, rvars>>
FollowNext == part = "follow" /\ XNext /\ UNCHANGED <<part, mvars, hvars, qvars, rvars>>
HeartNext == part = "heartbeat" /\ HNext /\ UNCHANGED <<part, mvars, fvars, qvars, rvars>>
SearchNext == part = "search" /\ QNext /\ UNCHANGED <<part, mvars, fvars, hvars, rvars>>
RingNext == part = "ring" /\ ENext /\ UNCHANGED <<part, mvars, fvars, hvars, qvars>>

CNext == MirrorNext \/ FollowNext \/ HeartNext \/ SearchNext \/ RingNext

\* The fairness of HSpec, QSpec and ESpec, in the behaviours of their part.
Beats(A) == part = "heartbeat" /\ A /\ UNCHANGED <<part, mvars, fvars, qvars, rvars>>
Finds(A) == part = "search" /\ A /\ UNCHANGED <<part, mvars, fvars, hvars, rvars>>
Reads(A) == part = "ring" /\ A /\ UNCHANGED <<part, mvars, fvars, hvars, qvars>>

CSpec ==
  /\ CInit /\ [][CNext]_CVars
  /\ WF_CVars(Beats(Tick)) /\ WF_CVars(Beats(WritePing)) /\ WF_CVars(Beats(WritePong))
  /\ \A e \in Ends : WF_CVars(Beats(WriteNext(e))) /\ WF_CVars(Beats(ReadFrame(e)))
  /\ WF_CVars(Finds(Kick \/ Adopt)) /\ WF_CVars(Finds(Works))
  /\ \A r \in Readers : WF_CVars(Reads(Answers(r)))
===============================================================================
