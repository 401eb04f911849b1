------------------------------ MODULE Supervisor ------------------------------
(***************************************************************************)
(* `xerotty serve' on Linux: a supervisor that starts daemon children and  *)
(* keeps the tabs' shells alive across their deaths                        *)
(* (internal/supervise/supervisor.go).  Its goroutines are Run, which      *)
(* spawns, waits and decides; reapLoop, which handles signals one at a     *)
(* time; forwardShellExits; readControl; and the timer of an upgrade.      *)
(* They share s.mu, and reapMu, which spawn holds from Start until it has  *)
(* recorded the pid and reapAll around each wait4.                         *)
(*                                                                         *)
(* The daemon child is seen from outside: it spawns and closes tabs and    *)
(* says so on the control channel, hands off when asked, or dies.  A shell *)
(* is named by its tab and a daemon's pid is its generation.               *)
(*                                                                         *)
(* Left out: macOS (kqueue instead of a subreaper), the contents of the    *)
(* handoff (CrashRestore), the 2 s limit on draining a dead child's        *)
(* channel.                                                                *)
(***************************************************************************)
EXTENDS Naturals, Sequences, FiniteSets

CONSTANTS Tab,         \* tabs, each with its shell
          Adopted,     \* those the first image may find in a handoff
          Requests,    \* signals the user sends: subset of {"TERM", "USR2"}
          resumeBudget,\* resumes allowed in a resumeWindow (3 in the code)
          MaxSpawns    \* bound on the daemons started

ASSUME SupervisorConstants ==
  /\ Adopted \subseteq Tab
  /\ Requests \subseteq {"TERM", "USR2"}
  /\ resumeBudget \in Nat
  /\ MaxSpawns \in Nat \ {0}

VARIABLES
  \* the operating system
  shell,       \* "none", "alive", "zombie" or "reaped", per tab
  ownedBy,     \* parent of each shell: "daemon" or "sup"
  dmn,         \* the child: "none", "starting", "up" or "zombie"
  status,      \* exit status of a dead child
  gen,         \* pid of the last child
  sigs,        \* signals delivered and not yet handled
  unsent,      \* requests the user has not made yet
  \* the daemon child
  dtabs,       \* tabs it shows
  foreign,     \* those it resumed and so cannot wait for
  latched,     \* those whose exit it knows
  told,        \* it was sent SIGTERM
  \* the control channel
  toSup,       \* frames <<"tab" | "gone", t>> on their way up
  exitNotes,   \* exit frames on their way down
  asked,       \* an upgrade frame was sent down
  \* the supervisor
  run,         \* where Run is
  plumb,       \* tabs it holds descriptors of
  marked,      \* those whose shell it saw exit
  childPID, ctl, stopping, upgradeFile,
  childExit,   \* status waiting for Run, NoStatus when none
  shellExit,   \* shells reaped, waiting for forwardShellExits
  reaping,     \* reapLoop is in reapAll
  timers,      \* children an upgrade timer is running for
  firing,      \* child the timer is about to kill, 0 when none
  recent,      \* resumes in the last resumeWindow
  handoff,     \* tabs in the handoff file, NoFile when fresh
  inherited    \* tabs whose descriptors the child inherits

osVars == <<shell, ownedBy, dmn, status, gen, sigs, unsent>>
childVars == <<dtabs, foreign, latched, told>>
wireVars == <<toSup, exitNotes, asked>>
startVars == <<recent, handoff, inherited>>
timerVars == <<timers, firing>>
supVars == <<plumb, marked, childPID, ctl, stopping, upgradeFile, childExit,
             shellExit, reaping>>
uvars == <<osVars, childVars, wireVars, run, supVars, timerVars, startVars>>

NoStatus == "running"
NoFile == {}
DaemonPid == "daemon"        \* the child's own pid, reaped as if a shell

\* A new image starts with nothing, or with the shells an upgrade left it.
UInit ==
  /\ plumb \in SUBSET Adopted
  /\ shell = [t \in Tab |-> IF t \in plumb THEN "alive" ELSE "none"]
  /\ ownedBy = [t \in Tab |-> IF t \in plumb THEN "sup" ELSE "daemon"]
  /\ dmn = "none" /\ status = NoStatus /\ gen = 0 /\ sigs = {}
  /\ unsent = Requests
  /\ dtabs = {} /\ foreign = {} /\ latched = {} /\ told = FALSE
  /\ toSup = <<>> /\ exitNotes = {} /\ asked = FALSE
  /\ run = "boot" /\ marked = {} /\ childPID = 0 /\ ctl = FALSE
  /\ stopping = FALSE /\ upgradeFile = FALSE /\ childExit = NoStatus
  /\ shellExit = {} /\ reaping = FALSE /\ timers = {} /\ firing = 0
  /\ recent = 0 /\ handoff = NoFile /\ inherited = {}

-----------------------------------------------------------------------------
(* The shells and the daemon child.                                        *)

Running == dmn \in {"starting", "up"}

\* A signal reaches reapLoop's channel once Run has called signal.Notify.
Raise(s) == sigs' = IF run = "boot" THEN sigs ELSE sigs \cup {s}

SpawnShell(t) ==
  /\ dmn = "up" /\ shell[t] = "none"
  /\ shell' = [shell EXCEPT ![t] = "alive"]
  /\ ownedBy' = [ownedBy EXCEPT ![t] = "daemon"]
  /\ dtabs' = dtabs \cup {t}
  /\ toSup' = Append(toSup, <<"tab", t>>)
  /\ UNCHANGED <<dmn, status, gen, sigs, unsent, foreign, latched, told,
                 exitNotes, asked, run, supVars, timerVars, startVars>>

\* A shell ends.  The daemon waits for its own, latches the exit and reports
\* the tab gone; one it resumed becomes a zombie of the supervisor.
ShellExit(t) ==
  /\ shell[t] = "alive" /\ run # "done"
  /\ IF ownedBy[t] = "daemon"
     THEN /\ shell' = [shell EXCEPT ![t] = "reaped"]
          /\ latched' = latched \cup {t}
          /\ toSup' = Append(toSup, <<"gone", t>>)
          /\ UNCHANGED sigs
     ELSE /\ shell' = [shell EXCEPT ![t] = "zombie"]
          /\ Raise("CHLD")
          /\ UNCHANGED <<latched, toSup>>
  /\ UNCHANGED <<ownedBy, dmn, status, gen, unsent, dtabs, foreign, told,
                 exitNotes, asked, run, supVars, timerVars, startVars>>

\* A tab is closed: its shell is killed, the supervisor told.
ChildCloses(t) ==
  /\ dmn = "up" /\ t \in dtabs
  /\ dtabs' = dtabs \ {t}
  /\ foreign' = foreign \ {t}
  /\ latched' = latched \ {t}
  /\ toSup' = Append(toSup, <<"gone", t>>)
  /\ IF shell[t] # "alive" THEN UNCHANGED <<shell, sigs>>
     ELSE IF ownedBy[t] = "daemon"
     THEN shell' = [shell EXCEPT ![t] = "reaped"] /\ UNCHANGED sigs
     ELSE shell' = [shell EXCEPT ![t] = "zombie"] /\ Raise("CHLD")
  /\ UNCHANGED <<ownedBy, dmn, status, gen, unsent, told, exitNotes, asked,
                 run, supVars, timerVars, startVars>>

\* A resumed child rebuilds its tabs from the handoff; a fresh one has none.
Restore ==
  /\ dmn = "starting"
  /\ dmn' = "up"
  /\ dtabs' = handoff
  /\ foreign' = handoff
  /\ UNCHANGED <<shell, ownedBy, status, gen, sigs, unsent, latched, told,
                 wireVars, run, supVars, timerVars, startVars>>

\* relaySupervisorExits, running since before Restore: the exit of a tab the
\* daemon resumed is latched and the tab reported gone, any other is dropped.
RelayExit(t) ==
  /\ Running /\ t \in exitNotes
  /\ exitNotes' = exitNotes \ {t}
  /\ IF t \in foreign \ latched
     THEN latched' = latched \cup {t} /\ toSup' = Append(toSup, <<"gone", t>>)
     ELSE UNCHANGED <<latched, toSup>>
  /\ UNCHANGED <<osVars, dtabs, foreign, told, asked, run, supVars, timerVars,
                 startVars>>

\* The child's process ends; its shells re-parent to the supervisor.
Dies(how) ==
  /\ dmn' = "zombie"
  /\ status' = how
  /\ ownedBy' = [t \in Tab |-> "sup"]
  /\ dtabs' = {} /\ foreign' = {} /\ latched' = {}
  /\ exitNotes' = {} /\ asked' = FALSE
  /\ Raise("CHLD")
  /\ UNCHANGED <<shell, gen, unsent, told, toSup, run, supVars, startVars>>

\* The bound: the last child a run allows does not crash.
ChildCrashes == Running /\ gen < MaxSpawns /\ Dies("crash") /\ UNCHANGED timerVars

\* The daemon stops by its own choice or because it was told.
StopCleanly == dmn = "up" /\ Dies("clean") /\ UNCHANGED timerVars

\* UpgradeMsg: quiesce, write the full handoff, exit with ExitUpgrade.
HandOff ==
  dmn = "up" /\ asked /\ gen < MaxSpawns /\ Dies("handoff") /\ UNCHANGED timerVars

-----------------------------------------------------------------------------
(* reapLoop, forwardShellExits, readControl and the upgrade timer.         *)

\* The user signals the supervisor; before signal.Notify SIGTERM kills it.
Request(s) ==
  /\ s \in unsent /\ run # "done"
  /\ unsent' = unsent \ {s}
  /\ Raise(s)
  /\ run' = IF run = "boot" THEN "done" ELSE run
  /\ UNCHANGED <<shell, ownedBy, dmn, status, gen, childVars, wireVars,
                 supVars, timerVars, startVars>>

HandleChld ==
  /\ ~reaping /\ "CHLD" \in sigs
  /\ sigs' = sigs \ {"CHLD"}
  /\ reaping' = TRUE
  /\ UNCHANGED <<shell, ownedBy, dmn, status, gen, unsent, childVars, wireVars,
                 run, plumb, marked, childPID, ctl, stopping, upgradeFile,
                 childExit, shellExit, timerVars, startVars>>

\* Mutant: spawn does not hold reapMu.
NoReapMu == TRUE

ReapMuFree == run # "record"

\* One wait4 in reapAll that returns the daemon child.
ReapDaemon ==
  /\ reaping /\ ReapMuFree /\ dmn = "zombie"
  /\ dmn' = "none"
  /\ IF childPID = gen
     THEN childPID' = 0 /\ childExit' = status /\ UNCHANGED shellExit
     ELSE shellExit' = shellExit \cup {DaemonPid}
          /\ UNCHANGED <<childPID, childExit>>
  /\ UNCHANGED <<shell, ownedBy, status, gen, sigs, unsent, childVars,
                 wireVars, run, plumb, marked, ctl, stopping, upgradeFile,
                 reaping, timerVars, startVars>>

ReapShell(t) ==
  /\ reaping /\ ReapMuFree /\ shell[t] = "zombie"
  /\ shell' = [shell EXCEPT ![t] = "reaped"]
  /\ shellExit' = shellExit \cup {t}
  /\ UNCHANGED <<ownedBy, dmn, status, gen, sigs, unsent, childVars, wireVars,
                 run, plumb, marked, childPID, ctl, stopping, upgradeFile,
                 childExit, reaping, timerVars, startVars>>

ReapNothing ==
  /\ reaping /\ ReapMuFree
  /\ dmn # "zombie" /\ \A t \in Tab : shell[t] # "zombie"
  /\ reaping' = FALSE
  /\ UNCHANGED <<osVars, childVars, wireVars, run, plumb, marked, childPID, ctl,
                 stopping, upgradeFile, childExit, shellExit, timerVars,
                 startVars>>

\* SIGTERM: note it, and pass it to the child there is.
HandleTerm ==
  /\ ~reaping /\ "TERM" \in sigs
  /\ sigs' = sigs \ {"TERM"}
  /\ stopping' = TRUE
  /\ told' = (told \/ (childPID # 0 /\ Running))
  /\ UNCHANGED <<shell, ownedBy, dmn, status, gen, unsent, dtabs, foreign,
                 latched, wireVars, run, plumb, marked, childPID, ctl,
                 upgradeFile, childExit, shellExit, reaping, timerVars,
                 startVars>>

\* SIGUSR2 (requestUpgrade): ignored when busy or between children; else,
\* unless the binary is rejected or the child is dead, ask it to hand off.
HandleUsr2 ==
  /\ ~reaping /\ "USR2" \in sigs
  /\ sigs' = sigs \ {"USR2"}
  /\ \/ UNCHANGED <<upgradeFile, asked, timers>>
     \/ /\ ~upgradeFile /\ ~stopping /\ ctl /\ childPID # 0 /\ Running
        /\ upgradeFile' = TRUE
        /\ asked' = TRUE
        /\ timers' = timers \cup {childPID}
  /\ UNCHANGED <<shell, ownedBy, dmn, status, gen, unsent, childVars, toSup,
                 exitNotes, run, plumb, marked, childPID, ctl, stopping,
                 childExit, shellExit, reaping, firing, startVars>>

\* Mutant: a request that was sent counts as answered.
TimerTrusts(p) ==
  /\ p \in timers /\ firing = 0
  /\ timers' = timers \ {p}
  /\ firing' = IF upgradeFile /\ ~asked /\ childPID = p THEN p ELSE 0
  /\ UNCHANGED <<osVars, childVars, wireVars, run, supVars, startVars>>

\* The timer checks under s.mu that its child is still stuck, and kills it
\* after it has unlocked.
TimerCheck(p) ==
  /\ p \in timers /\ firing = 0
  /\ timers' = timers \ {p}
  /\ firing' = IF upgradeFile /\ childPID = p THEN p ELSE 0
  /\ UNCHANGED <<osVars, childVars, wireVars, run, supVars, startVars>>

TimerKill ==
  /\ firing # 0
  /\ firing' = 0
  /\ UNCHANGED timers
  /\ IF Running /\ gen = firing /\ gen < MaxSpawns THEN Dies("crash")
     ELSE UNCHANGED <<osVars, childVars, wireVars, run, supVars, startVars>>

\* forwardShellExits: mark the tab, tell the child there is.
Forward(p) ==
  /\ p \in shellExit
  /\ shellExit' = shellExit \ {p}
  /\ marked' = IF p \in plumb THEN marked \cup {p} ELSE marked
  /\ exitNotes' = IF ctl /\ Running /\ p \in Tab \ marked
                  THEN exitNotes \cup {p} ELSE exitNotes
  /\ UNCHANGED <<osVars, childVars, toSup, asked, run, plumb, childPID, ctl,
                 stopping, upgradeFile, childExit, reaping, timerVars, startVars>>

\* readControl, one frame; a new plumbing has no exit mark yet.
ReadControl ==
  /\ ctl /\ toSup # <<>>
  /\ LET t == Head(toSup)[2]
     IN /\ plumb' = IF Head(toSup)[1] = "tab" THEN plumb \cup {t} ELSE plumb \ {t}
        /\ marked' = marked \ {t}
  /\ toSup' = Tail(toSup)
  /\ UNCHANGED <<osVars, childVars, exitNotes, asked, run, childPID, ctl,
                 stopping, upgradeFile, childExit, shellExit, reaping,
                 timerVars, startVars>>

-----------------------------------------------------------------------------
(* Run.                                                                    *)

RunAt(step) == run = step
RunGoes(step) == run' = step

\* The tabs whose shell is still running, as far as the supervisor saw
\* (liveTabIDs; always in the same order, so a set here).
Live == plumb \ marked

\* signal.Notify; adopted shells are resumed by the first child.
Notify ==
  /\ RunAt("boot")
  /\ RunGoes(IF plumb = {} THEN "files" ELSE "write")
  /\ UNCHANGED <<osVars, childVars, wireVars, supVars, timerVars, startVars>>

WriteHandoff ==
  /\ RunAt("write")
  /\ handoff' = Live
  /\ RunGoes("files")
  /\ UNCHANGED <<osVars, childVars, wireVars, supVars, timerVars, recent, inherited>>

\* spawn, in three steps: list the files, start the child, record its pid.
ResumeFiles ==
  /\ RunAt("files")
  /\ inherited' = IF handoff = NoFile THEN {} ELSE Live
  /\ RunGoes("start")
  /\ UNCHANGED <<osVars, childVars, wireVars, supVars, timerVars, recent, handoff>>

Start ==
  /\ RunAt("start") /\ gen < MaxSpawns
  /\ dmn' = "starting"
  /\ status' = NoStatus
  /\ gen' = gen + 1
  /\ told' = FALSE
  /\ toSup' = <<>>
  /\ RunGoes("record")
  /\ UNCHANGED <<shell, ownedBy, sigs, unsent, dtabs, foreign, latched,
                 exitNotes, asked, supVars, timerVars, startVars>>

Record ==
  /\ RunAt("record")
  /\ childPID' = gen
  /\ ctl' = TRUE
  /\ RunGoes("wait")
  /\ UNCHANGED <<osVars, childVars, wireVars, plumb, marked, stopping,
                 upgradeFile, childExit, shellExit, reaping, timerVars, startVars>>

Exited ==
  /\ RunAt("wait") /\ childExit # NoStatus
  /\ childExit' = NoStatus
  /\ RunGoes("drain")
  /\ UNCHANGED <<osVars, childVars, wireVars, plumb, marked, childPID, ctl,
                 stopping, upgradeFile, shellExit, reaping, timerVars, startVars>>

\* Mutant: what the dead child still said is not read.
NotDrained ==
  /\ RunAt("drain")
  /\ RunGoes("decide")
  /\ UNCHANGED <<osVars, childVars, wireVars, supVars, timerVars, startVars>>

\* readControl has reached the end of the dead child's channel.
Drained ==
  /\ RunAt("drain") /\ toSup = <<>>
  /\ RunGoes("decide")
  /\ UNCHANGED <<osVars, childVars, wireVars, supVars, timerVars, startVars>>

\* Read and clear what is shared, then decide from the exit status.
Decide ==
  /\ RunAt("decide")
  /\ ctl' = FALSE
  /\ upgradeFile' = FALSE
  /\ RunGoes(IF stopping THEN "done"
             ELSE IF upgradeFile /\ status = "handoff" THEN "adopt"
             ELSE IF status = "clean" THEN "done" ELSE "crashed")
  /\ UNCHANGED <<osVars, childVars, wireVars, plumb, marked, childPID, stopping,
                 childExit, shellExit, reaping, timerVars, startVars>>

\* Resume, or give up on a poisoned state: dropAll closes every descriptor,
\* and a shell whose terminal is gone hangs up.
Resume ==
  /\ RunAt("crashed") /\ recent < resumeBudget
  /\ recent' = recent + 1
  /\ RunGoes("write")
  /\ UNCHANGED <<osVars, childVars, wireVars, supVars, timerVars, handoff, inherited>>

GiveUp ==
  /\ RunAt("crashed") /\ recent = resumeBudget
  /\ shell' = [t \in Tab |-> IF t \in plumb /\ shell[t] = "alive"
                             THEN "zombie" ELSE shell[t]]
  /\ sigs' = sigs \cup {"CHLD"}
  /\ plumb' = {} /\ marked' = {}
  /\ handoff' = NoFile
  /\ recent' = 0
  /\ RunGoes("files")
  /\ UNCHANGED <<ownedBy, dmn, status, gen, unsent, childVars, wireVars,
                 childPID, ctl, stopping, upgradeFile, childExit, shellExit,
                 reaping, timerVars, inherited>>

\* adoptUpgradeHandoff: the file is readable, or it is a crash after all.
Adopt ==
  /\ RunAt("adopt")
  /\ RunGoes("reexec") \/ RunGoes("crashed")
  /\ UNCHANGED <<osVars, childVars, wireVars, supVars, timerVars, startVars>>

\* reexec: write down the live tabs, exec.
Reexec ==
  /\ RunAt("reexec")
  /\ handoff' = Live
  /\ RunGoes("exec")
  /\ UNCHANGED <<osVars, childVars, wireVars, supVars, timerVars, recent, inherited>>

\* The new image adopts the tabs in the file (AdoptHandoff) and nothing else.
ExecSucceeds ==
  /\ RunAt("exec")
  /\ plumb' = handoff /\ marked' = {}
  /\ stopping' = FALSE /\ shellExit' = {} /\ reaping' = FALSE /\ sigs' = {}
  /\ timers' = {} /\ firing' = 0 /\ recent' = 0 /\ handoff' = NoFile
  /\ RunGoes("boot")
  /\ UNCHANGED <<shell, ownedBy, dmn, status, gen, unsent, childVars, wireVars,
                 childPID, ctl, upgradeFile, childExit, inherited>>

\* "resuming the daemon under this supervisor as is", no budget spent.
ExecFails ==
  /\ RunAt("exec")
  /\ RunGoes("write")
  /\ UNCHANGED <<osVars, childVars, wireVars, supVars, timerVars, startVars>>

\* An old resume leaves the window of resumeWindow.
Forget ==
  /\ recent > 0 /\ run # "done"
  /\ recent' = recent - 1
  /\ UNCHANGED <<osVars, childVars, wireVars, run, supVars, timerVars, handoff,
                 inherited>>

-----------------------------------------------------------------------------
RunStep ==
  \/ Notify \/ WriteHandoff \/ ResumeFiles \/ Start \/ Record \/ Exited
  \/ Drained \/ Decide \/ Resume \/ GiveUp \/ Adopt \/ Reexec
  \/ ExecSucceeds \/ ExecFails

Reaper ==
  \/ HandleChld \/ ReapDaemon \/ ReapNothing \/ HandleTerm \/ HandleUsr2
  \/ \E t \in Tab : ReapShell(t)

Helpers ==
  \/ ReadControl \/ TimerKill
  \/ \E p \in Tab \cup {DaemonPid} : Forward(p)
  \/ \E p \in timers : TimerCheck(p)

Child ==
  \/ Restore \/ ChildCrashes \/ StopCleanly \/ HandOff
  \/ \E t \in Tab : SpawnShell(t) \/ ChildCloses(t) \/ RelayExit(t)

UNext ==
  \/ RunStep \/ Reaper \/ Helpers \/ Child \/ Forget
  \/ \E t \in Tab : ShellExit(t)
  \/ \E s \in unsent : Request(s)

USpec == UInit /\ [][UNext]_uvars

-----------------------------------------------------------------------------
(* Properties.                                                             *)

\* A daemon that dies is never mistaken for a shell: Run gets its status, even
\* when it dies before spawn has recorded its pid.
DaemonExitSeen ==
  run = "wait" /\ dmn = "none" => childExit # NoStatus

\* No shell is lost with its daemon: when a child is started, every shell that
\* runs is one it inherits, also a shell whose tab was reported just before
\* the previous daemon died.
KnownShellsSurvive ==
  run = "start" => \A t \in Tab : shell[t] = "alive" => t \in handoff

\* The descriptors a child inherits are those its handoff file numbers: "the
\* handoff file written for a resume must agree with" spawn's ExtraFiles.
LayoutAgrees == run = "record" => inherited = handoff

\* The goroutines run, a started child gets to serve, and one that was told to
\* stop does.
UFairness ==
  /\ WF_uvars(RunStep)
  /\ WF_uvars(Reaper)
  /\ WF_uvars(ReadControl)
  /\ WF_uvars(TimerKill)
  /\ WF_uvars(\E p \in timers : TimerCheck(p))
  /\ WF_uvars(Restore)
  /\ WF_uvars(told /\ StopCleanly)

FairUSpec == USpec /\ UFairness

\* A daemon that has died is replaced, or the supervisor ends: it does not stay
\* without one.
ChildReplaced == []<>(gen = 0 \/ Running \/ run = "done")

\* An upgrade request does not stay in flight, whatever the child does with it
\* (upgradeTimeout).
UpgradeEnds == []<>(~upgradeFile \/ run = "done" \/ gen = MaxSpawns)

=============================================================================
