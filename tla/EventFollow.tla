----------------------------- MODULE EventFollow -----------------------------
(***************************************************************************)
(* `xerotty events --follow` (internal/runner/events_cli.go) reading the   *)
(* logs of several daemons, through the GUI's aggregator when a GUI runs   *)
(* (internal/guimcp/events.go) and straight from the local daemon when     *)
(* not.  The rings are those of EventRing, seen from outside: a daemon     *)
(* process has an epoch, numbers its events from 1 and keeps the last Cap. *)
(* A call carries the cursor of every host; the reply's cursor is kept     *)
(* across redials.  Every event matches the filter (EventRing has one).    *)
(***************************************************************************)
EXTENDS Integers, FiniteSets

CONSTANTS
  Hosts, Local, \* the daemons, and the one on this machine
  Cap,          \* capacity of a ring
  MaxEvents,    \* bound on the events of a daemon process
  MaxEpochs,    \* bound on the processes of one daemon
  MaxChanges    \* bound on restarts and reconnections

ASSUME FollowConstants ==
  /\ Local \in Hosts /\ Cap \in Nat \ {0}
  /\ MaxEvents \in Nat /\ MaxEpochs \in Nat /\ MaxChanges \in Nat

VARIABLES
  ring,    \* each daemon's epoch and newest seq
  ended,    \* the events of its earlier processes
  linked,  \* the hosts the GUI's hubs are connected to
  gui,     \* a GUI is running
  changes, \* restarts and reconnections so far
  conn,    \* the socket the command reads: "none", "gui" or "daemon"
  fromNow, \* --new
  cursor,  \* the command's cursor
  started, \* the first read is done
  call,    \* the wait_for_events call in progress (eventsWait)
  printed, \* events printed
  excused, \* events reported missed, or skipped by --new
  again    \* an event was printed twice, or out of its host's order

fvars == <<ring, ended, linked, gui, changes, conn, fromNow, cursor, started, call,
           printed, excused, again>>
world == <<ring, ended, linked, gui, changes>>
output == <<fromNow, cursor, started, printed, excused, again>>

NoCursor == [epoch |-> 0, seq |-> 0, since |-> 0] \* since: the first epoch read
NoCall == [at |-> "none"]
Nothing == [events |-> {}, missed |-> FALSE, next |-> NoCursor]
Failed == [Nothing EXCEPT !.next.epoch = -1]
Unanswered == [Nothing EXCEPT !.next.epoch = -2]

XInit ==
  /\ ring = [h \in Hosts |-> [epoch |-> 1, last |-> 0]]
  /\ ended = {}
  /\ linked = {} /\ gui = FALSE /\ changes = 0
  /\ conn = "none" /\ call = NoCall
  /\ cursor = [h \in Hosts |-> NoCursor]
  /\ fromNow \in BOOLEAN /\ started = FALSE
  /\ printed = {} /\ excused = {}
  /\ again = FALSE

Now(h) == {<<h, ring[h].epoch, s>> : s \in 1..ring[h].last}
Happened == ended \cup UNION {Now(h) : h \in Hosts}

-----------------------------------------------------------------------------
(* The daemons and the GUI. *)

Happen(h) ==
  /\ ring[h].last < MaxEvents
  /\ ring' = [ring EXCEPT ![h].last = @ + 1]
  /\ UNCHANGED <<ended, linked, gui, changes, conn, call, output>>

Link(h) ==
  /\ gui /\ h \notin linked /\ changes < MaxChanges
  /\ linked' = linked \cup {h}
  /\ changes' = changes + 1
  /\ UNCHANGED <<ring, ended, gui, conn, call, output>>

\* WaitEvents fails at once on a host whose connection closed.
Sever(hs) ==
  call' = IF conn = "gui" /\ call.at = "any"
          THEN [call EXCEPT !.box = [h \in Hosts |->
                  IF h \in hs /\ call.box[h] = Unanswered THEN Failed ELSE call.box[h]]]
          ELSE call

\* A connection of the GUI is lost, its daemon lives on.
Unlink(h) ==
  /\ h \in linked
  /\ linked' = linked \ {h}
  /\ Sever({h})
  /\ UNCHANGED <<ring, ended, gui, changes, conn, output>>

\* The command's socket closed: the call fails and is made again after a
\* redial, with the cursor it was made with.
DropSocket == conn' = "none" /\ call' = NoCall

RestartDaemon(h) ==
  /\ ring[h].epoch < MaxEpochs /\ changes < MaxChanges
  /\ ring' = [ring EXCEPT ![h] = [epoch |-> @.epoch + 1, last |-> 0]]
  /\ ended' = ended \cup Now(h)
  /\ linked' = linked \ {h}
  /\ changes' = changes + 1
  /\ IF h = Local /\ conn = "daemon" THEN DropSocket ELSE Sever({h}) /\ UNCHANGED conn
  /\ UNCHANGED <<gui, output>>

StartGui ==
  /\ ~gui /\ changes < MaxChanges
  /\ gui' = TRUE /\ linked' = {Local}
  /\ changes' = changes + 1
  /\ UNCHANGED <<ring, ended, conn, call, output>>

StopGui ==
  /\ gui
  /\ gui' = FALSE /\ linked' = {}
  /\ IF conn = "gui" THEN DropSocket ELSE UNCHANGED <<conn, call>>
  /\ UNCHANGED <<ring, ended, changes, output>>

-----------------------------------------------------------------------------
(* The command: dial, call, print. *)

\* Mutant: a redial forgets the cursor.
DialAfresh ==
  /\ conn = "none"
  /\ conn' = IF gui THEN "gui" ELSE "daemon"
  /\ cursor' = [h \in Hosts |-> NoCursor]
  /\ UNCHANGED <<world, call, fromNow, started, printed, excused, again>>

\* mcpCandidates: the GUI's socket, else the daemon's.
Dial ==
  /\ conn = "none"
  /\ conn' = IF gui THEN "gui" ELSE "daemon"
  /\ UNCHANGED <<world, call, output>>

\* A call on the aggregator reads every connected host first; the daemon's
\* events/wait is one blocking read.
StartCall ==
  /\ conn # "none" /\ call.at = "none"
  /\ LET hs == IF conn = "gui" THEN linked ELSE {Local}
     IN call' = [at |-> IF conn = "gui" THEN "read" ELSE "any", todo |-> hs,
                 live |-> IF conn = "gui" THEN {} ELSE hs,
                 cursor |-> cursor, events |-> {}, missed |-> {},
                 box |-> [h \in Hosts |-> Unanswered]]
  /\ UNCHANGED <<world, conn, output>>

\* Ring.Read on the host's ring, with the call's cursor.
Read(h) ==
  LET c == call.cursor[h]  r == ring[h]
      foreign == c.epoch \notin {0, r.epoch}
      after == IF foreign \/ c.seq > r.last THEN 0 ELSE c.seq
      oldest == IF r.last > Cap THEN r.last - Cap + 1 ELSE 1
  IN [events |-> {<<h, r.epoch, s>> : s \in {n \in oldest..r.last : n > after}},
      missed |-> foreign \/ c.seq > r.last \/ (r.last > 0 /\ after + 1 < oldest),
      next |-> [epoch |-> r.epoch, seq |-> r.last,
                since |-> IF c.since = 0 THEN r.epoch ELSE c.since]]
Tells(res) == res.events # {} \/ res.missed

Reachable(h) == conn = "daemon" \/ h \in linked

\* eventsWait.apply: the host's cursor moves whatever the read found.
Absorb(c, h, res) ==
  [c EXCEPT !.events = @ \cup res.events,
            !.missed = IF res.missed THEN @ \cup {h} ELSE @,
            !.cursor[h] = res.next]

\* readAll, one host: before the wait, or after another host ended it.
ReadOne(h) ==
  /\ call.at \in {"read", "rest"} /\ h \in call.todo
  /\ LET c == [call EXCEPT !.todo = @ \ {h}]
     IN call' = IF Reachable(h)
                THEN [Absorb(c, h, Read(h)) EXCEPT !.live = @ \cup {h}]
                ELSE c
  /\ UNCHANGED <<world, conn, output>>

Found == call.events # {} \/ call.missed # {}

Block ==
  /\ call.at = "read" /\ call.todo = {} /\ ~Found /\ started /\ call.live # {}
  /\ call' = [call EXCEPT !.at = "any", !.todo = call.live,
                          !.box = [h \in Hosts |-> IF h \in call.live /\ h \notin linked
                                                   THEN Failed ELSE Unanswered]]
  /\ UNCHANGED <<world, conn, output>>

\* Mutant: the goroutine that waits on a host moves the call's cursor itself.
AnswerMovesCursor(h) ==
  /\ call.at = "any" /\ h \in call.todo /\ call.box[h] = Unanswered /\ Reachable(h)
  /\ call' = [call EXCEPT !.box[h] = Read(h), !.cursor[h] = Read(h).next]
  /\ UNCHANGED <<world, conn, output>>

\* A host's WaitEvents returns: something to tell, or its timeout.
Answer(h) ==
  /\ call.at = "any" /\ h \in call.todo /\ call.box[h] = Unanswered /\ Reachable(h)
  /\ call' = [call EXCEPT !.box[h] = Read(h)]
  /\ UNCHANGED <<world, conn, output>>

\* waitAny takes the answers one by one; the first that tells something ends
\* the wait, and those not taken by then are dropped.
Take(h) ==
  /\ call.at = "any" /\ h \in call.todo /\ call.box[h] # Unanswered
  /\ LET res == call.box[h]
         c == [call EXCEPT !.todo = @ \ {h}, !.box[h] = Unanswered]
     IN call' = IF res = Failed THEN c
                ELSE IF ~Tells(res) THEN Absorb(c, h, res)
                ELSE [Absorb(c, h, res) EXCEPT !.at = "rest", !.todo = call.live \ {h},
                                                !.box = [g \in Hosts |-> Unanswered]]
  /\ UNCHANGED <<world, conn, output>>

Finished ==
  /\ call.at # "none" /\ call.todo = {}
  /\ call.at = "read" => (Found \/ ~started \/ call.live = {})

\* The reply reaches the command, which keeps its cursor and prints it.
Reply ==
  /\ Finished
  /\ LET shown == IF started \/ ~fromNow THEN call.events ELSE {}
     IN /\ printed' = printed \cup shown
        /\ again' = (again \/ \E e \in shown, p \in printed :
                       e[1] = p[1] /\ (e[2] < p[2] \/ (e[2] = p[2] /\ e[3] <= p[3])))
        /\ excused' = excused \cup (call.events \ shown) \cup
             {e \in Happened : /\ e[1] \in call.missed /\ e \notin printed \cup shown
                               /\ \/ e[2] < call.cursor[e[1]].epoch
                                  \/ /\ e[2] = call.cursor[e[1]].epoch
                                     /\ e[3] <= call.cursor[e[1]].seq}
  /\ cursor' = call.cursor
  /\ started' = TRUE
  /\ call' = NoCall
  /\ UNCHANGED <<world, conn, fromNow>>

XNext ==
  \/ \E h \in Hosts : \/ Happen(h) \/ Link(h) \/ Unlink(h) \/ RestartDaemon(h)
                      \/ ReadOne(h) \/ Answer(h) \/ Take(h)
  \/ StartGui \/ StopGui \/ Dial \/ StartCall \/ Block \/ Reply

XSpec == XInit /\ [][XNext]_fvars

-----------------------------------------------------------------------------
(* Nothing is lost silently: an event behind the cursor of its host was      *)
(* printed, or an events_missed line accounts for it ("a GUI restart loses   *)
(* nothing and a daemon restart is reported", Events).  Epochs from before   *)
(* the command first read the host are not its concern.                      *)
NoSilentLoss ==
  \A e \in Happened :
    LET c == cursor[e[1]]
    IN /\ e[2] >= c.since
       /\ e[2] < c.epoch \/ (e[2] = c.epoch /\ e[3] <= c.seq)
       => e \in printed \cup excused

(* Each event is printed once, and a host's events in the order they         *)
(* happened, whichever socket each of them came through.                     *)
PrintedInOrder == ~again
=============================================================================
