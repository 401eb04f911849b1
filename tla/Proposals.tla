------------------------------ MODULE Proposals ------------------------------
(***************************************************************************)
(* Writes that agents in propose mode queue for approval: the session's    *)
(* bounded queue, the broadcast of it to the approval gate of every GUI,   *)
(* and answers that name a proposal by its index in the list the user saw  *)
(* (internal/daemon/session.go, daemon.go, conn.go; renderProposalGate).   *)
(*                                                                         *)
(* A proposal is a number, in the order they were made; all are for one    *)
(* tab.  An agent or a connection's read loop does one thing at a time.    *)
(***************************************************************************)
EXTENDS Integers, FiniteSets, SequencesExt

CONSTANTS
  Agents, Guis,
  ProposedCap, \* proposedCap
  Waiting,     \* proposals that wait at the start, on every gate
  MaxProposals,\* bound on proposals made
  MaxAnswers   \* bound on answers the users give

ASSUME ProposalConstants ==
  /\ ProposedCap \in Nat \ {0} /\ Waiting \in 0..ProposedCap
  /\ MaxProposals \in Nat /\ Waiting <= MaxProposals /\ MaxAnswers \in Nat

VARIABLES
  proposed, \* Session.proposed
  made,     \* proposals made so far
  tabOpen,  \* the tab the writes are for is open
  task,     \* where each agent's and each connection's handler is
  slot,     \* clientConn.pendingProposals of each connection, as <<list>>
  gate,     \* the list each GUI shows
  answers,  \* the ProposalResolve frames on their way, from each GUI
  given,    \* answers given so far
  typed     \* how often each proposal was written to the tab

pvars == <<proposed, made, tabOpen, task, slot, gate, answers, given, typed>>

Handlers == Agents \cup Guis
Free == [at |-> "free"]
ToNotify == [at |-> "notify"]

PInit ==
  /\ proposed = [i \in 1..Waiting |-> i] /\ made = Waiting /\ tabOpen = TRUE
  /\ task = [h \in Handlers |-> Free]
  /\ slot = [g \in Guis |-> <<>>]
  /\ gate = [g \in Guis |-> proposed]
  /\ answers = [g \in Guis |-> <<>>]
  /\ given = 0
  /\ typed = [p \in 1..MaxProposals |-> 0]

-----------------------------------------------------------------------------
(* QueueProposedInput, QueueProposedPaste; the oldest goes when it is full.  *)

Trimmed(q) == IF Len(q) > ProposedCap THEN SubSeq(q, Len(q) - ProposedCap + 1, Len(q)) ELSE q

Queue(a) ==
  /\ task[a] = Free /\ made < MaxProposals
  /\ made' = made + 1
  /\ proposed' = Trimmed(Append(proposed, made + 1))
  /\ task' = [task EXCEPT ![a] = ToNotify]
  /\ UNCHANGED <<tabOpen, slot, gate, answers, given, typed>>

(* ApproveProposal and DropProposal, on the read loop of a connection.       *)

\* Mutant: the entry is taken out of the queue after it was written.
TakeLate(q, i) == q
Take(q, i) == RemoveAt(q, i)

\* An index beyond the queue answers nothing.
Stale(g) ==
  /\ task[g] = Free /\ answers[g] # <<>> /\ Head(answers[g]).index > Len(proposed)
  /\ answers' = [answers EXCEPT ![g] = Tail(@)]
  /\ UNCHANGED <<proposed, made, tabOpen, task, slot, gate, given, typed>>

\* The write is outside s.mu; a tab that is gone ends the call then and there.
Approve(g) ==
  /\ task[g] = Free /\ answers[g] # <<>>
  /\ LET a == Head(answers[g])
     IN /\ a.ok /\ a.index <= Len(proposed)
        /\ proposed' = Take(proposed, a.index)
        /\ task' = [task EXCEPT ![g] = IF tabOpen
                                       THEN [at |-> "write", p |-> proposed[a.index]]
                                       ELSE Free]
  /\ answers' = [answers EXCEPT ![g] = Tail(@)]
  /\ UNCHANGED <<made, tabOpen, slot, gate, given, typed>>

Write(g) ==
  /\ task[g].at = "write"
  /\ typed' = [typed EXCEPT ![task[g].p] = @ + 1]
  /\ task' = [task EXCEPT ![g] = ToNotify]
  /\ UNCHANGED <<proposed, made, tabOpen, slot, gate, answers, given>>

Discard(g) ==
  /\ task[g] = Free /\ answers[g] # <<>>
  /\ LET a == Head(answers[g])
     IN ~a.ok /\ a.index <= Len(proposed) /\ proposed' = Take(proposed, a.index)
  /\ answers' = [answers EXCEPT ![g] = Tail(@)]
  /\ task' = [task EXCEPT ![g] = ToNotify]
  /\ UNCHANGED <<made, tabOpen, slot, gate, given, typed>>

TabCloses ==
  /\ tabOpen /\ tabOpen' = FALSE
  /\ UNCHANGED <<proposed, made, task, slot, gate, answers, given, typed>>

-----------------------------------------------------------------------------
(* broadcastProposals: the list, then the slot of one connection at a time.  *)

List(h) ==
  /\ task[h] = ToNotify
  /\ task' = [task EXCEPT ![h] = [at |-> "fill", list |-> proposed, todo |-> Guis]]
  /\ UNCHANGED <<proposed, made, tabOpen, slot, gate, answers, given, typed>>

Fill(h, g) ==
  /\ task[h].at = "fill" /\ g \in task[h].todo
  /\ slot' = [slot EXCEPT ![g] = <<task[h].list>>]
  /\ task' = IF task[h].todo = {g} THEN [task EXCEPT ![h] = Free]
             ELSE [task EXCEPT ![h].todo = @ \ {g}]
  /\ UNCHANGED <<proposed, made, tabOpen, gate, answers, given, typed>>

\* flushPriority, and the hub's callback on the other side.
Show(g) ==
  /\ slot[g] # <<>>
  /\ gate' = [gate EXCEPT ![g] = slot[g][1]]
  /\ slot' = [slot EXCEPT ![g] = <<>>]
  /\ UNCHANGED <<proposed, made, tabOpen, task, answers, given, typed>>

\* The user presses a button of the gate.
Answer1(g, i, ok) ==
  /\ i \in DOMAIN gate[g] /\ given < MaxAnswers
  /\ given' = given + 1
  /\ answers' = [answers EXCEPT ![g] = Append(@, [index |-> i, ok |-> ok])]
  /\ UNCHANGED <<proposed, made, tabOpen, task, slot, gate, typed>>

PNext ==
  \/ \E a \in Agents : Queue(a)
  \/ \E g \in Guis : \/ Stale(g) \/ Approve(g) \/ Write(g) \/ Discard(g) \/ Show(g)
                     \/ \E i \in 1..MaxProposals, ok \in BOOLEAN : Answer1(g, i, ok)
  \/ \E h \in Handlers : List(h) \/ \E g \in Guis : Fill(h, g)
  \/ TabCloses

PSpec == PInit /\ [][PNext]_pvars

-----------------------------------------------------------------------------
(* Whoever answers at once, a proposal is typed at most once, one that waits *)
(* was not typed, and no two answers are about to type the same              *)
(* (ApproveProposal takes it out under s.mu before it writes).               *)
TypedOnce ==
  \A p \in 1..MaxProposals :
    /\ typed[p] + Cardinality({i \in DOMAIN proposed : proposed[i] = p}) <= 1
    /\ \A g, h \in Guis :
         (g # h /\ task[g].at = "write" /\ task[h].at = "write") => task[g].p # task[h].p
===============================================================================
