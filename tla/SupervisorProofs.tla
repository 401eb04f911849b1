--------------------------- MODULE SupervisorProofs ---------------------------
(***************************************************************************)
(* What the supervisor keeps across the deaths of its daemons, for any     *)
(* number of shells, daemons, signals and resumes: the daemon's death      *)
(* reaches Run, and no running shell is left out of the next handoff.      *)
(***************************************************************************)
EXTENDS Supervisor, SequenceTheorems, TLAPS

Steps == {"boot", "write", "files", "start", "record", "wait", "drain", "decide",
          "crashed", "adopt", "reexec", "exec", "done"}

\* The child is there from Start until its status is on its way to Run, and
\* from Record on its pid is the one reapAll compares with.
RunInv ==
  /\ run \in Steps
  /\ dmn \in {"none", "starting", "up", "zombie"}
  /\ dmn = "zombie" => status # NoStatus
  /\ run = "record" => dmn # "none"
  /\ run = "wait" => IF dmn = "none" THEN childExit # NoStatus
                     ELSE childPID = gen /\ childExit = NoStatus
  /\ run # "wait" => childExit = NoStatus
  /\ run \notin {"record", "wait"} => dmn = "none"

Kind == {"tab", "gone"}
Elements(s) == {s[i] : i \in DOMAIN s}
Frames == Elements(toSup)

Alive == {t \in Tab : shell[t] = "alive"}
Spawned == {t \in Tab : shell[t] # "none"}
Ended == Spawned \ Alive

ShellTypes ==
  /\ shell \in [Tab -> {"none", "alive", "zombie", "reaped"}]
  /\ ownedBy \in [Tab -> {"daemon", "sup"}]
  /\ toSup \in Seq(Kind \X Tab)

\* No record of a tab is older than its shell, and nothing that says a shell
\* has ended is about one that runs: no exit can be taken for a later shell's.
NothingStale ==
  /\ plumb \subseteq Spawned /\ handoff \subseteq Spawned /\ dtabs \subseteq Spawned
  /\ \A t \in Tab : /\ <<"tab", t>> \in Frames => t \in Spawned
                    /\ <<"gone", t>> \in Frames => t \in Ended
  /\ marked \subseteq Ended /\ shellExit \subseteq Ended /\ exitNotes \subseteq Ended

\* The supervisor holds the descriptors of every shell that runs, or the frame
\* that brings them is on its way; once the dead child's channel is drained,
\* none is, and what is written to the handoff is all of them.
ShellsKnown ==
  /\ \A t \in Alive : t \in plumb \/ <<"tab", t>> \in Frames
  /\ ~Running => \A t \in Alive : ownedBy[t] = "sup"
  /\ run \notin {"record", "wait", "drain"} => toSup = <<>>
  /\ run \in {"files", "start", "exec"} => Alive \subseteq handoff

ShellInv == ShellTypes /\ NothingStale /\ ShellsKnown
SupInv == RunInv /\ ShellInv

-----------------------------------------------------------------------------
(* The control channel.                                                    *)

LEMMA AppendedFrames ==
  ASSUME NEW S, NEW s \in Seq(S), NEW e \in S
  PROVE  Append(s, e) \in Seq(S) /\ Elements(Append(s, e)) = Elements(s) \cup {e}
<1>1. /\ Append(s, e) \in Seq(S) /\ Len(Append(s, e)) = Len(s) + 1 /\ Len(s) \in Nat
      /\ \A i \in 1..Len(s) : Append(s, e)[i] = s[i]
      /\ Append(s, e)[Len(s) + 1] = e
      /\ DOMAIN s = 1..Len(s) /\ DOMAIN Append(s, e) = 1..(Len(s) + 1)
  BY AppendProperties, LenProperties
<1> DEFINE r == Append(s, e)
<1> HIDE DEF r
<1>2. 1..(Len(s) + 1) = (1..Len(s)) \cup {Len(s) + 1}
  BY <1>1
<1>3. Elements(r) = Elements(s) \cup {e}
  BY <1>1, <1>2 DEF Elements, r
<1> QED BY <1>1, <1>3 DEF r

LEMMA TakenFrames ==
  ASSUME NEW S, NEW s \in Seq(S), s # <<>>
  PROVE  /\ Head(s) \in S /\ Tail(s) \in Seq(S)
         /\ Elements(s) = Elements(Tail(s)) \cup {Head(s)}
<1>1. /\ Head(s) \in S /\ Tail(s) \in Seq(S) /\ Len(s) \in Nat \ {0}
      /\ Len(Tail(s)) = Len(s) - 1 /\ Head(s) = s[1]
      /\ \A i \in 1..(Len(s) - 1) : Tail(s)[i] = s[i + 1]
  BY HeadTailProperties, EmptySeq, LenProperties
<1>2. DOMAIN s = 1..Len(s) /\ DOMAIN Tail(s) = 1..(Len(s) - 1)
  BY <1>1, LenProperties
<1>3. ASSUME NEW i \in 1..Len(s), i # 1
      PROVE  i - 1 \in 1..(Len(s) - 1) /\ s[i] = Tail(s)[i - 1]
  BY <1>1, <1>3
<1>4. ASSUME NEW i \in 1..(Len(s) - 1)
      PROVE  i + 1 \in 1..Len(s) /\ s[i + 1] = Tail(s)[i]
  BY <1>1
<1>5. 1 \in 1..Len(s)
  BY <1>1
<1>6. ASSUME NEW i \in 1..Len(s)
      PROVE  s[i] \in Elements(Tail(s)) \cup {Head(s)}
  <2>1. CASE i = 1
    BY <1>1, <2>1
  <2>2. CASE i # 1
    <3>1. i - 1 \in DOMAIN Tail(s) /\ s[i] = Tail(s)[i - 1]
      BY <1>2, <1>3, <2>2
    <3> QED BY <3>1 DEF Elements
  <2> QED BY <2>1, <2>2
<1>7. Elements(Tail(s)) \cup {Head(s)} \subseteq Elements(s)
  BY <1>1, <1>2, <1>4, <1>5 DEF Elements
<1>8. Elements(s) \subseteq Elements(Tail(s)) \cup {Head(s)}
  BY <1>2, <1>6 DEF Elements
<1> QED BY <1>1, <1>7, <1>8

LEMMA NoFrames == Elements(<<>>) = {}
BY DEF Elements

-----------------------------------------------------------------------------
(* The child and Run.                                                      *)

LEMMA DyingIsSeen ==
  ASSUME RunInv, Running, NEW how \in {"crash", "clean", "handoff"}, Dies(how)
  PROVE  RunInv'
BY DEF RunInv, Running, Dies, NoStatus, supVars

LEMMA NextRun == RunInv /\ [UNext]_uvars => RunInv'
<1> SUFFICES ASSUME RunInv, [UNext]_uvars PROVE RunInv'
  OBVIOUS
<1> USE DEF osVars, childVars, wireVars, supVars, timerVars, startVars, RunAt, RunGoes, Steps
<1>1. CASE RunStep
  <2>1. CASE Notify \/ WriteHandoff \/ ResumeFiles
    BY <2>1 DEF RunInv, Notify, WriteHandoff, ResumeFiles
  <2>2. CASE Start \/ Record
    BY <2>2 DEF RunInv, Start, Record
  <2>3. CASE Exited \/ Drained
    BY <2>3 DEF RunInv, Exited, Drained
  <2>4. CASE Resume \/ Adopt \/ Reexec
    <3>1. run' \in {"write", "reexec", "crashed", "exec"} /\ run \in {"crashed", "adopt", "reexec"}
      BY <2>4 DEF Resume, Adopt, Reexec
    <3>2. UNCHANGED <<dmn, status, childExit>>
      BY <2>4 DEF Resume, Adopt, Reexec
    <3> QED BY <3>1, <3>2 DEF RunInv
  <2>5. CASE ExecSucceeds \/ ExecFails
    BY <2>5 DEF RunInv, ExecSucceeds, ExecFails
  <2>6. CASE Decide
    <3>1. run' = "done" \/ run' = "adopt" \/ run' = "crashed"
      BY <2>6, Zenon DEF Decide
    <3>2. UNCHANGED <<dmn, status, childExit>> /\ run = "decide"
      BY <2>6 DEF Decide
    <3> QED BY <3>1, <3>2 DEF RunInv
  <2>7. CASE GiveUp
    BY <2>7 DEF RunInv, GiveUp
  <2> QED BY <1>1, <2>1, <2>2, <2>3, <2>4, <2>5, <2>6, <2>7 DEF RunStep
<1>2. CASE Reaper
  <2>1. CASE HandleChld \/ ReapNothing \/ HandleTerm \/ HandleUsr2 \/ \E t \in Tab : ReapShell(t)
    BY <2>1 DEF RunInv, HandleChld, ReapNothing, HandleTerm, HandleUsr2, ReapShell
  <2>2. CASE ReapDaemon
    BY <2>2 DEF RunInv, ReapDaemon, ReapMuFree
  <2> QED BY <1>2, <2>1, <2>2 DEF Reaper
<1>3. CASE Helpers
  <2>1. CASE ReadControl \/ (\E p \in Tab \cup {DaemonPid} : Forward(p)) \/ \E p \in timers : TimerCheck(p)
    BY <2>1 DEF RunInv, ReadControl, Forward, TimerCheck
  <2>2. CASE TimerKill
    BY <2>2, DyingIsSeen DEF RunInv, TimerKill
  <2> QED BY <1>3, <2>1, <2>2 DEF Helpers
<1>4. CASE Child
  <2>1. CASE ChildCrashes \/ StopCleanly \/ HandOff
    BY <2>1, DyingIsSeen DEF ChildCrashes, StopCleanly, HandOff, Running
  <2>2. CASE Restore
    BY <2>2 DEF RunInv, Restore
  <2>3. CASE \E t \in Tab : SpawnShell(t) \/ ChildCloses(t) \/ RelayExit(t)
    BY <2>3 DEF RunInv, SpawnShell, ChildCloses, RelayExit
  <2> QED BY <1>4, <2>1, <2>2, <2>3 DEF Child
<1>5. CASE Forget \/ (\E t \in Tab : ShellExit(t)) \/ \E s \in unsent : Request(s)
  BY <1>5 DEF RunInv, Forget, ShellExit, Request
<1>6. CASE UNCHANGED uvars
  BY <1>6 DEF RunInv, uvars
<1> QED BY <1>1, <1>2, <1>3, <1>4, <1>5, <1>6 DEF UNext

LEMMA InitRun == UInit => RunInv
BY DEF UInit, RunInv, Steps, NoStatus

\* A daemon that dies is never mistaken for a shell, even when it dies before
\* spawn has recorded its pid: reapMu keeps reapAll out until then, so Run
\* always gets the status it waits for (spawn, reapAll, supervisor.go).
THEOREM DaemonDeathIsSeen == USpec => []DaemonExitSeen
<1>1. RunInv => DaemonExitSeen
  BY DEF RunInv, DaemonExitSeen
<1> QED BY <1>1, InitRun, NextRun, PTL DEF USpec

-----------------------------------------------------------------------------
(* The shells.                                                             *)

\* A step that changes none of this keeps ShellInv wherever Run goes, if the
\* channel is drained and the handoff written when Run relies on it.
books == <<shell, ownedBy, toSup, plumb, handoff, dtabs, marked, shellExit, exitNotes>>

LEMMA BooksKept ==
  ASSUME ShellInv, UNCHANGED books, ~Running' => ~Running,
         run' \notin {"record", "wait", "drain"} => toSup = <<>>,
         run' \in {"files", "start", "exec"} => Alive \subseteq handoff
  PROVE  ShellInv'
<1>1. /\ Frames' = Frames /\ Alive' = Alive /\ Spawned' = Spawned /\ Ended' = Ended
  BY DEF books, Frames, Elements, Alive, Spawned, Ended
<1>2. ShellTypes' /\ NothingStale'
  BY <1>1 DEF ShellInv, ShellTypes, NothingStale, books
<1>3. ShellsKnown'
  BY <1>1 DEF ShellInv, ShellsKnown, books
<1> QED BY <1>2, <1>3 DEF ShellInv

LEMMA SpawnShellKept ==
  ASSUME RunInv, ShellInv, NEW t \in Tab, SpawnShell(t)
  PROVE  ShellInv'
<1>1. /\ dmn = "up" /\ shell[t] = "none"
      /\ shell' = [shell EXCEPT ![t] = "alive"]
      /\ ownedBy' = [ownedBy EXCEPT ![t] = "daemon"]
      /\ dtabs' = dtabs \cup {t}
      /\ toSup' = Append(toSup, <<"tab", t>>)
      /\ UNCHANGED <<dmn, run, plumb, handoff, marked, shellExit, exitNotes>>
  BY DEF SpawnShell, supVars, startVars
<1>2. toSup' \in Seq(Kind \X Tab) /\ Frames' = Frames \cup {<<"tab", t>>}
  BY <1>1, AppendedFrames DEF ShellInv, ShellTypes, Frames, Kind
<1>3. Alive' = Alive \cup {t} /\ Spawned' = Spawned \cup {t} /\ Ended' = Ended /\ t \notin Spawned
  BY <1>1 DEF ShellInv, ShellTypes, Alive, Spawned, Ended
<1>4. ShellTypes'
  BY <1>1, <1>2 DEF ShellInv, ShellTypes
<1>5. NothingStale'
  BY <1>1, <1>2, <1>3 DEF ShellInv, NothingStale
<1>6. run \in {"record", "wait"}
  BY <1>1 DEF RunInv
<1>7. ShellsKnown'
  BY <1>1, <1>2, <1>3, <1>6 DEF ShellInv, ShellsKnown, Running
<1> QED BY <1>4, <1>5, <1>7 DEF ShellInv

LEMMA GoneFrame ==
  ASSUME ShellTypes, NEW t \in Tab,
         toSup' = toSup \/ toSup' = Append(toSup, <<"gone", t>>)
  PROVE  /\ toSup' \in Seq(Kind \X Tab)
         /\ Frames' = Frames \/ Frames' = Frames \cup {<<"gone", t>>}
<1>1. CASE toSup' = toSup
  BY <1>1 DEF ShellTypes, Frames
<1>2. CASE toSup' = Append(toSup, <<"gone", t>>)
  <2>1. toSup \in Seq(Kind \X Tab) /\ <<"gone", t>> \in Kind \X Tab
    BY DEF ShellTypes, Kind
  <2>2. /\ Append(toSup, <<"gone", t>>) \in Seq(Kind \X Tab)
        /\ Elements(Append(toSup, <<"gone", t>>)) = Elements(toSup) \cup {<<"gone", t>>}
    <3> DEFINE S == Kind \X Tab
               e == <<"gone", t>>
    <3>1. toSup \in Seq(S) /\ e \in S
      BY <2>1
    <3> HIDE DEF S, e
    <3>2. Append(toSup, e) \in Seq(S) /\ Elements(Append(toSup, e)) = Elements(toSup) \cup {e}
      BY <3>1, AppendedFrames
    <3> QED BY <3>2 DEF S, e
  <2>3. Frames' = Elements(toSup')
    BY DEF Frames
  <2> QED BY <1>2, <2>2, <2>3 DEF Frames
<1> QED BY <1>1, <1>2

\* A shell that no longer runs, and at most one frame that says so.
LEMMA ShellGone ==
  ASSUME RunInv, ShellInv, NEW t \in Spawned, NEW s \in {"zombie", "reaped"},
         shell' = [shell EXCEPT ![t] = s],
         \/ toSup' = toSup
         \/ toSup' = Append(toSup, <<"gone", t>>) /\ Running,
         dtabs' = dtabs \/ dtabs' = dtabs \ {t},
         shellExit' = shellExit \/ shellExit' = shellExit \cup {t},
         UNCHANGED <<ownedBy, dmn, run, plumb, handoff, marked, exitNotes>>
  PROVE  ShellInv'
<1>1. t \in Tab /\ Alive' = Alive \ {t} /\ Spawned' = Spawned /\ Ended' = Ended \cup {t}
  BY DEF ShellInv, ShellTypes, Alive, Spawned, Ended
<1>2. toSup' \in Seq(Kind \X Tab) /\ (Frames' = Frames \/ Frames' = Frames \cup {<<"gone", t>>})
  BY <1>1, GoneFrame DEF ShellInv
<1>3. ShellTypes'
  BY <1>1, <1>2 DEF ShellInv, ShellTypes
<1>4. NothingStale'
  BY <1>1, <1>2 DEF ShellInv, NothingStale
<1>5. toSup' # toSup => run \in {"record", "wait"}
  BY DEF RunInv, Running
<1>6. ShellsKnown'
  BY <1>1, <1>2, <1>5 DEF ShellInv, ShellsKnown, Running
<1> QED BY <1>3, <1>4, <1>6 DEF ShellInv

LEMMA ShellExitKept ==
  ASSUME RunInv, ShellInv, NEW t \in Tab, ShellExit(t)
  PROVE  ShellInv'
<1>1. t \in Alive /\ t \in Spawned
  BY DEF ShellExit, Alive, Spawned
<1>2. UNCHANGED <<ownedBy, dmn, run, plumb, handoff, marked, exitNotes, dtabs, shellExit>>
  BY DEF ShellExit, supVars, startVars
<1>3. CASE ownedBy[t] = "daemon"
  <2>1. Running
    BY <1>1, <1>3 DEF ShellInv, ShellsKnown
  <2>2. shell' = [shell EXCEPT ![t] = "reaped"] /\ toSup' = Append(toSup, <<"gone", t>>)
    BY <1>3 DEF ShellExit
  <2> QED BY <1>1, <1>2, <2>1, <2>2, ShellGone
<1>4. CASE ownedBy[t] # "daemon"
  <2>1. shell' = [shell EXCEPT ![t] = "zombie"] /\ toSup' = toSup
    BY <1>4 DEF ShellExit
  <2> QED BY <1>1, <1>2, <2>1, ShellGone
<1> QED BY <1>3, <1>4

LEMMA CloseTabKept ==
  ASSUME RunInv, ShellInv, NEW t \in Tab, ChildCloses(t)
  PROVE  ShellInv'
<1>1. /\ Running /\ dtabs' = dtabs \ {t} /\ toSup' = Append(toSup, <<"gone", t>>)
      /\ UNCHANGED <<ownedBy, dmn, run, plumb, handoff, marked, exitNotes, shellExit>>
  BY DEF ChildCloses, Running, supVars, startVars
<1>2. t \in Spawned
  BY DEF ChildCloses, ShellInv, NothingStale
<1>3. \E s \in {"zombie", "reaped"} : shell' = [shell EXCEPT ![t] = s]
  <2>1. CASE shell[t] # "alive"
    <3>1. shell' = shell /\ shell[t] \in {"zombie", "reaped"}
      BY <1>2, <2>1 DEF ChildCloses, Spawned, ShellInv, ShellTypes
    <3>2. shell' = [shell EXCEPT ![t] = shell[t]]
      BY <3>1 DEF ShellInv, ShellTypes
    <3> QED BY <3>1, <3>2
  <2>2. CASE shell[t] = "alive"
    BY <2>2 DEF ChildCloses
  <2> QED BY <2>1, <2>2
<1> QED BY <1>1, <1>2, <1>3, ShellGone

LEMMA ReapShellKept ==
  ASSUME RunInv, ShellInv, NEW t \in Tab, ReapShell(t)
  PROVE  ShellInv'
<1>1. t \in Spawned
  BY DEF ReapShell, Spawned
<1>2. /\ shell' = [shell EXCEPT ![t] = "reaped"] /\ shellExit' = shellExit \cup {t}
      /\ UNCHANGED <<ownedBy, dmn, run, plumb, handoff, marked, exitNotes, dtabs, toSup>>
  BY DEF ReapShell, childVars, wireVars, startVars
<1> QED BY <1>1, <1>2, ShellGone

LEMMA RestoreKept ==
  ASSUME RunInv, ShellInv, Restore
  PROVE  ShellInv'
<1>1. /\ dmn = "starting" /\ dmn' = "up" /\ dtabs' = handoff
      /\ UNCHANGED <<shell, ownedBy, toSup, run, plumb, handoff, marked, shellExit, exitNotes>>
  BY DEF Restore, wireVars, supVars, startVars
<1>2. Frames' = Frames /\ Alive' = Alive /\ Spawned' = Spawned /\ Ended' = Ended
  BY <1>1 DEF Frames, Elements, Alive, Spawned, Ended
<1>3. ShellTypes' /\ NothingStale'
  BY <1>1, <1>2 DEF ShellInv, ShellTypes, NothingStale
<1>4. ShellsKnown'
  BY <1>1, <1>2 DEF ShellInv, ShellsKnown, Running
<1> QED BY <1>3, <1>4 DEF ShellInv

LEMMA RelayExitKept ==
  ASSUME RunInv, ShellInv, NEW t \in Tab, RelayExit(t)
  PROVE  ShellInv'
<1>1. /\ Running /\ exitNotes' = exitNotes \ {t} /\ t \in exitNotes
      /\ toSup' = toSup \/ toSup' = Append(toSup, <<"gone", t>>)
      /\ UNCHANGED <<shell, ownedBy, dmn, run, plumb, handoff, dtabs, marked, shellExit>>
  BY DEF RelayExit, osVars, supVars, startVars
<1>2. Alive' = Alive /\ Spawned' = Spawned /\ Ended' = Ended /\ t \in Ended
  BY <1>1 DEF Alive, Spawned, Ended, ShellInv, NothingStale
<1>3. toSup' \in Seq(Kind \X Tab) /\ (Frames' = Frames \/ Frames' = Frames \cup {<<"gone", t>>})
  BY <1>1, GoneFrame DEF ShellInv
<1>4. ShellTypes' /\ NothingStale'
  BY <1>1, <1>2, <1>3 DEF ShellInv, ShellTypes, NothingStale
<1>5. run \in {"record", "wait"}
  BY <1>1 DEF RunInv, Running
<1>6. ShellsKnown'
  BY <1>1, <1>2, <1>3, <1>5 DEF ShellInv, ShellsKnown, Running
<1> QED BY <1>4, <1>6 DEF ShellInv

\* The daemon dies: its shells are the supervisor's children from here on.
LEMMA DeathKept ==
  ASSUME RunInv, ShellInv, Running, NEW how, Dies(how)
  PROVE  ShellInv'
<1>1. /\ ownedBy' = [t \in Tab |-> "sup"] /\ dtabs' = {} /\ exitNotes' = {}
      /\ UNCHANGED <<shell, toSup, run, plumb, handoff, marked, shellExit>>
  BY DEF Dies, supVars, startVars
<1>2. Frames' = Frames /\ Alive' = Alive /\ Spawned' = Spawned /\ Ended' = Ended
  BY <1>1 DEF Frames, Elements, Alive, Spawned, Ended
<1>3. ShellTypes' /\ NothingStale'
  BY <1>1, <1>2 DEF ShellInv, ShellTypes, NothingStale
<1>4. \A t \in Alive' : ownedBy'[t] = "sup"
  BY <1>1 DEF Alive
<1>5. ShellsKnown'
  BY <1>1, <1>2, <1>4 DEF ShellInv, ShellsKnown
<1> QED BY <1>3, <1>5 DEF ShellInv

\* A reaped shell is marked, and the child told of it.
LEMMA ForwardKept ==
  ASSUME RunInv, ShellInv, NEW p \in Tab \cup {DaemonPid}, Forward(p)
  PROVE  ShellInv'
<1>1. /\ p \in Ended /\ shellExit' \subseteq shellExit
      /\ marked' \subseteq marked \cup {p} /\ exitNotes' \subseteq exitNotes \cup {p}
      /\ UNCHANGED <<shell, ownedBy, toSup, dmn, run, plumb, handoff, dtabs>>
  BY DEF Forward, ShellInv, NothingStale, osVars, childVars, startVars
<1>2. Frames' = Frames /\ Alive' = Alive /\ Spawned' = Spawned /\ Ended' = Ended
  BY <1>1 DEF Frames, Elements, Alive, Spawned, Ended
<1>3. ShellTypes' /\ NothingStale'
  BY <1>1, <1>2 DEF ShellInv, ShellTypes, NothingStale
<1>4. ShellsKnown'
  BY <1>1, <1>2 DEF ShellInv, ShellsKnown, Running
<1> QED BY <1>3, <1>4 DEF ShellInv

\* A frame is read: the descriptors of a shell that runs stay or arrive.
LEMMA ReadControlKept ==
  ASSUME RunInv, ShellInv, ReadControl
  PROVE  ShellInv'
<1> DEFINE f == Head(toSup)
<1>1. /\ toSup # <<>> /\ toSup' = Tail(toSup)
      /\ plumb' = IF f[1] = "tab" THEN plumb \cup {f[2]} ELSE plumb \ {f[2]}
      /\ marked' = marked \ {f[2]}
      /\ UNCHANGED <<shell, ownedBy, dmn, run, handoff, dtabs, shellExit, exitNotes>>
  BY DEF ReadControl, osVars, childVars, startVars
<1>2. f \in Kind \X Tab /\ toSup' \in Seq(Kind \X Tab) /\ Frames = Frames' \cup {f}
  BY <1>1, TakenFrames DEF ShellInv, ShellTypes, Frames
<1>3. Alive' = Alive /\ Spawned' = Spawned /\ Ended' = Ended /\ Alive \cap Ended = {}
  BY <1>1 DEF Alive, Spawned, Ended
<1> HIDE DEF f
<1>4. PICK k \in Kind, t \in Tab : f = <<k, t>>
  BY <1>2
<1>5. f \in Frames /\ f[1] = k /\ f[2] = t
  BY <1>2, <1>4
<1>6. ShellTypes'
  BY <1>1, <1>2 DEF ShellInv, ShellTypes
<1>7. plumb' \subseteq Spawned
  BY <1>1, <1>4, <1>5 DEF ShellInv, NothingStale
<1>8. NothingStale'
  BY <1>1, <1>2, <1>3, <1>7 DEF ShellInv, NothingStale
<1>9. \A u \in Alive : u \in plumb' \/ <<"tab", u>> \in Frames'
  <2> SUFFICES ASSUME NEW u \in Alive PROVE u \in plumb' \/ <<"tab", u>> \in Frames'
    OBVIOUS
  <2>1. u \in Tab /\ (u \in plumb \/ <<"tab", u>> \in Frames)
    BY DEF ShellInv, ShellsKnown, Alive
  <2>2. CASE k = "tab"
    BY <1>1, <1>2, <1>4, <1>5, <2>1, <2>2
  <2>3. CASE k = "gone"
    <3>1. u # t
      BY <1>3, <1>4, <1>5, <2>3 DEF ShellInv, NothingStale
    <3> QED BY <1>1, <1>2, <1>4, <1>5, <2>1, <2>3, <3>1
  <2> QED BY <2>2, <2>3 DEF Kind
<1>10. run \in {"record", "wait", "drain"}
  BY <1>1 DEF ShellInv, ShellsKnown
<1>11. ShellsKnown'
  BY <1>1, <1>3, <1>9, <1>10 DEF ShellInv, ShellsKnown, Running
<1> QED BY <1>6, <1>8, <1>11 DEF ShellInv

-----------------------------------------------------------------------------
(* What Run writes down and starts from.                                   *)

LEMMA HandoffWritten ==
  ASSUME RunInv, ShellInv, WriteHandoff \/ Reexec
  PROVE  ShellInv'
<1>1. /\ run \in {"write", "reexec"} /\ handoff' = plumb \ marked
      /\ UNCHANGED <<shell, ownedBy, dmn, toSup, plumb, dtabs, marked, shellExit, exitNotes>>
  BY DEF WriteHandoff, Reexec, RunAt, Live, osVars, childVars, wireVars, supVars
<1>2. Frames' = Frames /\ Alive' = Alive /\ Spawned' = Spawned /\ Ended' = Ended
      /\ Alive \cap Ended = {}
  BY <1>1 DEF Frames, Elements, Alive, Spawned, Ended
<1>3. toSup = <<>> /\ Alive \subseteq handoff'
  BY <1>1, <1>2, NoFrames DEF ShellInv, ShellsKnown, NothingStale, Frames
<1>4. ShellTypes' /\ NothingStale'
  BY <1>1, <1>2 DEF ShellInv, ShellTypes, NothingStale
<1>5. ShellsKnown'
  BY <1>1, <1>2, <1>3 DEF ShellInv, ShellsKnown, Running
<1> QED BY <1>4, <1>5 DEF ShellInv

LEMMA StartKept ==
  ASSUME RunInv, ShellInv, Start
  PROVE  ShellInv'
<1>1. /\ run = "start" /\ run' = "record" /\ dmn' = "starting" /\ toSup' = <<>>
      /\ UNCHANGED <<shell, ownedBy, plumb, handoff, dtabs, marked, shellExit, exitNotes>>
  BY DEF Start, RunAt, RunGoes, supVars, startVars
<1>2. toSup = <<>>
  BY <1>1 DEF ShellInv, ShellsKnown
<1>3. Frames' = Frames /\ Alive' = Alive /\ Spawned' = Spawned /\ Ended' = Ended
  BY <1>1, <1>2 DEF Frames, Elements, Alive, Spawned, Ended
<1>4. ShellTypes' /\ NothingStale'
  BY <1>1, <1>2, <1>3 DEF ShellInv, ShellTypes, NothingStale
<1>5. ShellsKnown'
  BY <1>1, <1>2, <1>3 DEF ShellInv, ShellsKnown, Running
<1> QED BY <1>4, <1>5 DEF ShellInv

\* dropAll hangs up every shell the supervisor holds, and those are all.
LEMMA GiveUpKept ==
  ASSUME RunInv, ShellInv, GiveUp
  PROVE  ShellInv'
<1>1. /\ run = "crashed" /\ run' = "files"
      /\ shell' = [t \in Tab |-> IF t \in plumb /\ shell[t] = "alive"
                                 THEN "zombie" ELSE shell[t]]
      /\ plumb' = {} /\ marked' = {} /\ handoff' = {}
      /\ UNCHANGED <<ownedBy, dmn, toSup, dtabs, shellExit, exitNotes>>
  BY DEF GiveUp, RunAt, RunGoes, NoFile, childVars, wireVars
<1>2. toSup = <<>> /\ Frames = {} /\ Frames' = {}
  BY <1>1, NoFrames DEF ShellInv, ShellsKnown, Frames
<1>3. Alive \subseteq plumb
  BY <1>2 DEF ShellInv, ShellsKnown
<1>4. Alive' = {}
  BY <1>1, <1>3 DEF Alive
<1>5. Spawned' = Spawned /\ Ended' = Spawned /\ Ended \subseteq Spawned
  BY <1>1, <1>4 DEF Spawned, Ended, Alive
<1>6. ShellTypes'
  BY <1>1 DEF ShellInv, ShellTypes
<1>7. NothingStale'
  BY <1>1, <1>2, <1>5 DEF ShellInv, NothingStale
<1>8. ShellsKnown'
  BY <1>1, <1>2, <1>4 DEF ShellInv, ShellsKnown
<1> QED BY <1>6, <1>7, <1>8 DEF ShellInv

\* The new image knows the shells in the file and no exit.
LEMMA ExecKept ==
  ASSUME RunInv, ShellInv, ExecSucceeds
  PROVE  ShellInv'
<1>1. /\ run = "exec" /\ run' = "boot" /\ plumb' = handoff /\ marked' = {} /\ shellExit' = {}
      /\ handoff' = {}
      /\ UNCHANGED <<shell, ownedBy, dmn, toSup, dtabs, exitNotes>>
  BY DEF ExecSucceeds, RunAt, RunGoes, NoFile, childVars, wireVars
<1>2. Frames' = Frames /\ Alive' = Alive /\ Spawned' = Spawned /\ Ended' = Ended
  BY <1>1 DEF Frames, Elements, Alive, Spawned, Ended
<1>3. ShellTypes' /\ NothingStale'
  BY <1>1, <1>2 DEF ShellInv, ShellTypes, NothingStale
<1>4. ShellsKnown'
  BY <1>1, <1>2 DEF ShellInv, ShellsKnown, Running
<1> QED BY <1>3, <1>4 DEF ShellInv

\* The steps of Run that only move it on.
LEMMA RunMovesOn ==
  ASSUME RunInv, ShellInv,
         Notify \/ ResumeFiles \/ Record \/ Exited \/ Drained \/ Decide \/ Resume
           \/ Adopt \/ ExecFails
  PROVE  ShellInv'
<1> USE DEF osVars, childVars, wireVars, supVars, startVars, RunAt, RunGoes
<1>1. UNCHANGED <<books, dmn>>
  BY DEF Notify, ResumeFiles, Record, Exited, Drained, Decide, Resume, Adopt, ExecFails, books
<1>2. ~Running' => ~Running
  BY <1>1 DEF Running
<1>3. CASE Notify
  <2>1. run = "boot" /\ run' = IF plumb = {} THEN "files" ELSE "write"
    BY <1>3 DEF Notify
  <2>2. toSup = <<>> /\ Alive \subseteq plumb
    BY <2>1, NoFrames DEF ShellInv, ShellsKnown, Frames
  <2> QED BY <1>1, <1>2, <2>1, <2>2, BooksKept
<1>4. CASE Drained
  BY <1>1, <1>2, <1>4, BooksKept DEF Drained
<1>5. CASE ResumeFiles
  BY <1>1, <1>2, <1>5, BooksKept DEF ResumeFiles, ShellInv, ShellsKnown
<1>6. CASE Record \/ Exited
  BY <1>1, <1>2, <1>6, BooksKept DEF Record, Exited
<1>7. CASE Decide \/ Resume \/ Adopt \/ ExecFails
  <2>1. /\ run \in {"decide", "crashed", "adopt", "exec"}
        /\ run' = "done" \/ run' = "adopt" \/ run' = "crashed" \/ run' = "write" \/ run' = "reexec"
    BY <1>7, Zenon DEF Decide, Resume, Adopt, ExecFails
  <2>2. toSup = <<>>
    BY <2>1 DEF ShellInv, ShellsKnown
  <2> QED BY <1>1, <1>2, <2>1, <2>2, BooksKept
<1> QED BY <1>3, <1>4, <1>5, <1>6, <1>7

\* Signals, timers and the reaping of the daemon touch no shell.
LEMMA OthersKept ==
  ASSUME RunInv, ShellInv,
         \/ HandleChld \/ ReapDaemon \/ ReapNothing \/ HandleTerm \/ HandleUsr2 \/ Forget
         \/ \E p \in timers : TimerCheck(p)
         \/ \E s \in unsent : Request(s)
         \/ UNCHANGED uvars
  PROVE  ShellInv'
<1> USE DEF osVars, childVars, wireVars, supVars, startVars, timerVars
<1>1. CASE ReapDaemon
  <2>1. /\ dmn = "zombie" /\ dmn' = "none" /\ run # "record" /\ run' = run
        /\ UNCHANGED <<shell, ownedBy, toSup, plumb, handoff, dtabs, marked, exitNotes>>
    BY <1>1 DEF ReapDaemon, ReapMuFree
  <2>2. childPID = gen
    BY <2>1 DEF RunInv
  <2>3. UNCHANGED books
    BY <1>1, <2>1, <2>2 DEF ReapDaemon, books
  <2> QED BY <2>1, <2>3, BooksKept DEF Running, ShellInv, ShellsKnown
<1>2. CASE \E s \in unsent : Request(s)
  <2>1. UNCHANGED <<books, dmn>> /\ run' = IF run = "boot" THEN "done" ELSE run
    BY <1>2 DEF Request, books
  <2> QED BY <2>1, BooksKept DEF Running, ShellInv, ShellsKnown
<1>3. CASE \/ HandleChld \/ ReapNothing \/ HandleTerm \/ HandleUsr2 \/ Forget
           \/ \E p \in timers : TimerCheck(p)
           \/ UNCHANGED uvars
  <2>1. UNCHANGED <<books, dmn, run>>
    BY <1>3 DEF HandleChld, ReapNothing, HandleTerm, HandleUsr2, Forget, TimerCheck, uvars, books
  <2> QED BY <2>1, BooksKept DEF Running, ShellInv, ShellsKnown
<1> QED BY <1>1, <1>2, <1>3

LEMMA NextShells == SupInv /\ [UNext]_uvars => ShellInv'
<1> SUFFICES ASSUME SupInv, [UNext]_uvars PROVE ShellInv'
  OBVIOUS
<1>0. RunInv /\ ShellInv
  BY DEF SupInv
<1>1. CASE RunStep
  BY <1>0, <1>1, HandoffWritten, StartKept, GiveUpKept, ExecKept, RunMovesOn DEF RunStep
<1>2. CASE Reaper
  BY <1>0, <1>2, ReapShellKept, OthersKept DEF Reaper
<1>3. CASE Helpers
  <2>1. CASE TimerKill
    <3>1. CASE Running /\ Dies("crash")
      BY <1>0, <3>1, DeathKept
    <3>2. CASE UNCHANGED <<osVars, childVars, wireVars, run, supVars, startVars>>
      <4>1. UNCHANGED <<books, dmn, run>>
        BY <3>2 DEF books, osVars, childVars, wireVars, supVars, startVars
      <4> QED BY <1>0, <4>1, BooksKept DEF Running, ShellInv, ShellsKnown
    <3> QED BY <2>1, <3>1, <3>2 DEF TimerKill
  <2> QED BY <1>0, <1>3, <2>1, ReadControlKept, ForwardKept, OthersKept DEF Helpers
<1>4. CASE Child
  <2>1. CASE ChildCrashes \/ StopCleanly \/ HandOff
    <3>1. Running /\ \E how \in {"crash", "clean", "handoff"} : Dies(how)
      BY <2>1 DEF ChildCrashes, StopCleanly, HandOff, Running
    <3> QED BY <1>0, <3>1, DeathKept
  <2> QED BY <1>0, <1>4, <2>1, RestoreKept, SpawnShellKept, CloseTabKept, RelayExitKept DEF Child
<1>5. CASE \/ Forget \/ (\E t \in Tab : ShellExit(t)) \/ (\E s \in unsent : Request(s))
           \/ UNCHANGED uvars
  BY <1>0, <1>5, ShellExitKept, OthersKept
<1> QED BY <1>1, <1>2, <1>3, <1>4, <1>5 DEF UNext

LEMMA InitShells == UInit => ShellInv
<1> SUFFICES ASSUME UInit PROVE ShellInv
  OBVIOUS
<1>1. /\ plumb \subseteq Tab /\ toSup = <<>> /\ Frames = {} /\ run = "boot" /\ handoff = {}
      /\ shell = [t \in Tab |-> IF t \in plumb THEN "alive" ELSE "none"]
      /\ ownedBy = [t \in Tab |-> IF t \in plumb THEN "sup" ELSE "daemon"]
      /\ dtabs = {} /\ marked = {} /\ shellExit = {} /\ exitNotes = {}
  BY NoFrames, SupervisorConstants DEF UInit, Frames, NoFile
<1>2. Alive = plumb /\ Spawned = plumb
  BY <1>1 DEF Alive, Spawned
<1>3. ShellTypes
  BY <1>1 DEF ShellTypes
<1>4. NothingStale
  BY <1>1, <1>2 DEF NothingStale
<1>5. ShellsKnown
  BY <1>1, <1>2 DEF ShellsKnown
<1> QED BY <1>3, <1>4, <1>5 DEF ShellInv

\* No shell is lost with its daemon: when the next daemon is started, every
\* shell that runs is in the handoff it inherits, however the last one died and
\* whatever it had still not been heard to say (Run draining the control channel,
\* sendTab and forwardShellExits in supervisor.go).
THEOREM ShellsSurvive == USpec => []KnownShellsSurvive
<1>1. UInit => SupInv
  BY InitRun, InitShells DEF SupInv
<1>2. SupInv /\ [UNext]_uvars => SupInv'
  BY NextRun, NextShells DEF SupInv
<1>3. SupInv => KnownShellsSurvive
  BY DEF SupInv, ShellInv, ShellsKnown, KnownShellsSurvive, Alive
<1> QED BY <1>1, <1>2, <1>3, PTL DEF USpec

===============================================================================
