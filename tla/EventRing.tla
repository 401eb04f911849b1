------------------------------ MODULE EventRing ------------------------------
(***************************************************************************)
(* The tab event log of one daemon and its readers                         *)
(* (internal/tabevents).  The log is a ring of Capacity events: Append     *)
(* overwrites the oldest, a reader holds a cursor <<epoch, seq>> and asks  *)
(* for what came after it.  A daemon process has one ring under an epoch   *)
(* of its own; a restart (or serve --upgrade) starts an empty one.         *)
(*                                                                         *)
(* An event is its topic, what a filter selects by: a tab and a kind.      *)
(***************************************************************************)
EXTENDS Integers, Sequences

CONSTANTS
  Capacity,     \* capacity of the ring (DefaultCapacity)
  Readers,
  Topics,
  Filter,       \* the topics each reader's filter matches
  MaxAppends,   \* bound on the events of one daemon process
  MaxProcesses  \* bound on daemon processes

ASSUME RingConstants ==
  /\ Capacity \in Nat \ {0}
  /\ MaxAppends \in Nat
  /\ MaxProcesses \in Nat \ {0}
  /\ Filter \in [Readers -> SUBSET Topics]

VARIABLES
  buf,    \* Ring.buf: what each slot holds, [seq, topic]
  head,   \* index of the oldest event
  count,  \* Ring.n, the events held
  last,   \* seq of the newest event
  wakes,  \* how many wake channels have been closed
  logs,   \* the topics appended by each daemon process so far
  reader, \* each reader's cursor and where its request stands
  got,    \* the events delivered to each reader, as <<epoch, seq>>
  lost    \* the events it was told it missed

rvars == <<buf, head, count, last, wakes, logs, reader, got, lost>>

Epoch == Len(logs)
Empty == [seq |-> 0]
NoEpoch == 0   \* the epoch of a cursor no reply has filled yet
Blank == [at |-> "idle", epoch |-> NoEpoch, after |-> 0, chan |-> 0, since |-> NoEpoch]

EInit ==
  /\ buf = [i \in 0..Capacity-1 |-> Empty]
  /\ head = 0 /\ count = 0 /\ last = 0 /\ wakes = 0
  /\ logs = << <<>> >>
  /\ reader = [r \in Readers |-> Blank]
  /\ got = [r \in Readers |-> {}]
  /\ lost = [r \in Readers |-> {}]

\* Mutants: the head stays when the oldest event is overwritten; a full ring
\* wakes nobody.
HeadStays == head
NextHead == IF count = Capacity THEN (head + 1) % Capacity ELSE head
CloseNotWhenFull == IF count = Capacity THEN wakes ELSE wakes + 1
CloseChanged == wakes + 1   \* close(r.wake)

Append1(t) ==
  /\ last < MaxAppends
  /\ last' = last + 1
  /\ buf' = [buf EXCEPT ![(head + count) % Capacity] = [seq |-> last + 1, topic |-> t]]
  /\ head' = NextHead
  /\ count' = IF count = Capacity THEN count ELSE count + 1
  /\ wakes' = CloseChanged
  /\ logs' = [logs EXCEPT ![Epoch] = Append(@, t)]
  /\ UNCHANGED <<reader, got, lost>>

\* A new daemon process: every request in flight ends with its connection.
NewProcess ==
  /\ Epoch < MaxProcesses
  /\ buf' = [i \in 0..Capacity-1 |-> Empty]
  /\ head' = 0 /\ count' = 0 /\ last' = 0 /\ wakes' = 0
  /\ logs' = Append(logs, <<>>)
  /\ reader' = [r \in Readers |-> [reader[r] EXCEPT !.at = "idle"]]
  /\ UNCHANGED <<got, lost>>

-----------------------------------------------------------------------------
(* sinceLocked, under the ring's mutex. *)

Held == {buf[(head + i) % Capacity] : i \in 0..count-1}
Since(r, after) == {e \in Held : e.seq > after /\ e.topic \in Filter[r]}
\* Mutant: off by one.
OverwrittenLate(after) == count > 0 /\ after + 1 < last - count
Overwritten(after) == count > 0 /\ after + 1 < last - count + 1

\* Read: the cursor of another daemon process starts from nothing, with Missed.
Foreign(r) == reader[r].epoch \notin {NoEpoch, Epoch}
From(r) == IF Foreign(r) \/ reader[r].after > last THEN 0 ELSE reader[r].after
Missed(r) == Foreign(r) \/ reader[r].after > last \/ Overwritten(From(r))

Logged == UNION {{<<p, s>> : s \in 1..Len(logs[p])} : p \in 1..Epoch}
TopicOf(e) == logs[e[1]][e[2]]

\* The result reaches the reader, which keeps Last as its next cursor.
Deliver(r) ==
  LET res == {<<Epoch, e.seq>> : e \in Since(r, From(r))}
      gone == {e \in Logged : TopicOf(e) \in Filter[r]} \ res
  IN /\ got' = [got EXCEPT ![r] = @ \cup res]
     /\ lost' = IF Missed(r) THEN [lost EXCEPT ![r] = @ \cup (gone \ got[r])] ELSE lost
     /\ reader' = [reader EXCEPT ![r] =
                    [at |-> "idle", epoch |-> Epoch, after |-> last, chan |-> 0,
                     since |-> IF @.since = NoEpoch THEN Epoch ELSE @.since]]

Something(r) == Since(r, From(r)) # {} \/ Missed(r)

\* Since, or a Wait that has something to say at once.
ReadNow(r) ==
  /\ reader[r].at = "idle" \/ (reader[r].at = "check" /\ Something(r))
  /\ Deliver(r)
  /\ UNCHANGED <<buf, head, count, last, wakes, logs>>

\* Wait finds nothing and parks on the channel it took under the lock.
Park(r) ==
  /\ reader[r].at \in {"idle", "check"}
  /\ ~Something(r)
  /\ reader' = [reader EXCEPT ![r].at = "parked", ![r].chan = wakes]
  /\ UNCHANGED <<buf, head, count, last, wakes, logs, got, lost>>

Woken(r) ==
  /\ reader[r].at = "parked" /\ reader[r].chan < wakes
  /\ reader' = [reader EXCEPT ![r].at = "check"]
  /\ UNCHANGED <<buf, head, count, last, wakes, logs, got, lost>>

\* The timeout passes: Since, with whatever is there.
Expire(r) ==
  /\ reader[r].at = "parked"
  /\ Deliver(r)
  /\ UNCHANGED <<buf, head, count, last, wakes, logs>>

\* The reader's connection goes; its cursor stays where it was.
HangUp(r) ==
  /\ reader[r].at \in {"parked", "check"}
  /\ reader' = [reader EXCEPT ![r].at = "idle"]
  /\ UNCHANGED <<buf, head, count, last, wakes, logs, got, lost>>

ENext ==
  \/ \E t \in Topics : Append1(t)
  \/ NewProcess
  \/ \E r \in Readers : ReadNow(r) \/ Park(r) \/ Woken(r) \/ Expire(r) \/ HangUp(r)

\* A goroutine whose channel was closed runs, and so does one that has looked;
\* nothing forces a timeout, a hang-up, a first request or an event.
Answers(r) == Woken(r) \/ (reader[r].at = "check" /\ (ReadNow(r) \/ Park(r)))
ESpec == EInit /\ [][ENext]_rvars /\ \A r \in Readers : WF_rvars(Answers(r))

-----------------------------------------------------------------------------
(* The ring holds exactly the newest events, in the slots sinceLocked looks  *)
(* in (Ring.Append's index arithmetic).                                      *)
RingHoldsTail ==
  /\ head \in 0..Capacity-1 /\ count \in 0..Capacity
  /\ last = Len(logs[Epoch])
  /\ count = Capacity \/ count = last
  /\ \A i \in 0..count-1 :
       buf[(head + i) % Capacity] = [seq |-> last - count + 1 + i,
                                topic |-> logs[Epoch][last - count + 1 + i]]

(* No silent gap: everything before a reader's cursor that its filter        *)
(* matches was delivered to it, or it was told it missed something, across   *)
(* overwriting and restarts (Result.Missed).                                 *)
NoSilentGap ==
  \A r \in Readers :
    {e \in Logged : /\ TopicOf(e) \in Filter[r] /\ e[1] >= reader[r].since
                      /\ \/ e[1] < reader[r].epoch
                         \/ e[1] = reader[r].epoch /\ e[2] <= reader[r].after}
      \subseteq got[r] \cup lost[r]

(* A Wait for which a matching event exists ends: the channel it sleeps on   *)
(* was taken under the lock that found nothing (Ring.Wait).                  *)
NoLostWakeup ==
  \A r \in Readers :
    (reader[r].at = "parked" /\ Since(r, From(r)) # {}) ~> reader[r].at = "idle"
=============================================================================
