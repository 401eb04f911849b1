------------------------------ MODULE Heartbeat ------------------------------
(***************************************************************************)
(* One connection between a daemon and a client over a transport without   *)
(* deadlines (ssh stdio), where only a heartbeat notices that the other    *)
(* end hangs (internal/daemon/conn.go, internal/clientproto/client.go).    *)
(* Each end has a bounded FIFO of frames and priority slots its writer     *)
(* empties first.  The daemon reaps a client when neither payload writes   *)
(* nor pongs move, the client a daemon when neither inbound bytes nor      *)
(* pongs do.  The two heartbeats share nothing but the wire, and pings     *)
(* take no room there: a behaviour has one of them, that of `watch`.       *)
(*                                                                         *)
(* A step of Tick is one heartbeat interval.  Between two ticks a link     *)
(* carries at least one payload frame each way, and every ping and pong    *)
(* ahead of it; a process that hangs does nothing any more.                *)
(***************************************************************************)
EXTENDS Integers, FiniteSets, SequencesExt

CONSTANTS
  Window,   \* livenessWindow, in intervals
  Buffer,   \* payload frames the transport holds in one direction
  OutCap    \* outQueueCap

\* A ping and its pong come through two full buffers within the window.
ASSUME HeartbeatConstants ==
  /\ Window \in Nat /\ Buffer \in Nat \ {0} /\ OutCap \in Nat \ {0}
  /\ 2 * Buffer < Window

VARIABLES
  watch,    \* the end whose heartbeat runs
  outCh,    \* the FIFO of each end
  pinging,  \* its pingPending
  ponging,  \* the client's pongPending
  inflight, \* the frames between the ends, by the end that sent them
  proof,    \* the age of lastWriteProgress (daemon) or lastInbound (client)
  pong,     \* the age of lastPong
  moved,    \* a payload frame sent by this end was read since the last tick
  hung,     \* the ends that hang
  reaped    \* watch called shutdown

hvars == <<watch, outCh, pinging, ponging, inflight, proof, pong, moved, hung, reaped>>

D == "daemon"
C == "client"
Ends == {D, C}
Peer(e) == IF e = D THEN C ELSE D

HInit ==
  /\ watch \in Ends
  /\ outCh = [e \in Ends |-> <<>>]
  /\ pinging = FALSE /\ ponging = FALSE
  /\ inflight = [e \in Ends |-> <<>>]
  /\ proof = 0 /\ pong = 0
  /\ moved = [e \in Ends |-> FALSE]
  /\ hung = {} /\ reaped = FALSE

Runs(e) == e \notin hung /\ ~reaped
Payloads(s) == Cardinality({i \in DOMAIN s : s[i] = "payload"})

\* A publish loop, a response or a keystroke.
Enqueue(e) ==
  /\ Runs(e) /\ Len(outCh[e]) < OutCap
  /\ outCh' = [outCh EXCEPT ![e] = Append(@, "payload")]
  /\ UNCHANGED <<watch, pinging, ponging, inflight, proof, pong, moved, hung, reaped>>

-----------------------------------------------------------------------------
(* writeLoop: the slots first (flushPriority), then one frame of the FIFO.   *)
(* The kernel takes a ping or a pong at any time; of several in a row one    *)
(* stands for all, since the clocks do not look at the nonce.                *)

Put(e, f) ==
  inflight' = IF f # "payload" /\ inflight[e] # <<>> /\ Last(inflight[e]) = f
              THEN inflight ELSE [inflight EXCEPT ![e] = Append(@, f)]

\* writeFrameRaw: only a payload counts as the daemon's write progress.
AnyFrameCounts(e, f) == e = D
CountsAsWrite(e, f) == e = D /\ f = "payload"
Progress(e, f) == proof' = IF watch = D /\ CountsAsWrite(e, f) THEN 0 ELSE proof

WritePing ==
  /\ Runs(watch) /\ pinging
  /\ pinging' = FALSE
  /\ Put(watch, "ping")
  /\ Progress(watch, "ping")
  /\ UNCHANGED <<watch, outCh, ponging, pong, moved, hung, reaped>>

WritePong ==
  /\ Runs(C) /\ ponging
  /\ ponging' = FALSE
  /\ Put(C, "pong")
  /\ UNCHANGED <<watch, outCh, pinging, proof, pong, moved, hung, reaped>>

SlotsEmpty(e) == ~(e = watch /\ pinging) /\ ~(e = C /\ ponging)
HasRoom(e) == Payloads(inflight[e]) < Buffer

CanWrite(e) ==
  /\ Runs(e) /\ SlotsEmpty(e) /\ outCh[e] # <<>>
  /\ Head(outCh[e]) = "payload" => HasRoom(e)

WriteNext(e) ==
  /\ CanWrite(e)
  /\ Put(e, Head(outCh[e]))
  /\ outCh' = [outCh EXCEPT ![e] = Tail(@)]
  /\ Progress(e, Head(outCh[e]))
  /\ UNCHANGED <<watch, pinging, ponging, pong, moved, hung, reaped>>

-----------------------------------------------------------------------------
(* The read loops.  The daemon answers a ping through its FIFO, and its read *)
(* loop blocks while that is full; the client's answer waits in a slot.      *)

CanRead(e) ==
  /\ Runs(e) /\ inflight[Peer(e)] # <<>>
  /\ (e = D /\ Head(inflight[C]) = "ping") => Len(outCh[D]) < OutCap

ReadFrame(e) ==
  /\ CanRead(e)
  /\ LET f == Head(inflight[Peer(e)])
     IN /\ outCh' = IF f = "ping" /\ e = D THEN [outCh EXCEPT ![D] = Append(@, "pong")]
                    ELSE outCh
        /\ ponging' = (ponging \/ (f = "ping" /\ e = C))
        /\ pong' = IF f = "pong" THEN 0 ELSE pong
        /\ moved' = IF f = "payload" THEN [moved EXCEPT ![Peer(e)] = TRUE] ELSE moved
  /\ proof' = IF e = C /\ watch = C THEN 0 ELSE proof
  /\ inflight' = [inflight EXCEPT ![Peer(e)] = Tail(@)]
  /\ UNCHANGED <<watch, pinging, hung, reaped>>

-----------------------------------------------------------------------------
(* heartbeatLoop. *)

Aged(a) == IF a > Window THEN a ELSE a + 1
EitherExpired(proofAge, pongAge) == proofAge > Window \/ pongAge > Window
Expired(proofAge, pongAge) == proofAge > Window /\ pongAge > Window
Reaps == watch \notin hung /\ Expired(Aged(proof), Aged(pong))

\* An interval lasts until the link has carried what it can.
Settled(e) ==
  /\ Runs(e) => SlotsEmpty(e) /\ ~CanWrite(e)
  /\ CanRead(Peer(e)) => Head(inflight[e]) = "payload" /\ moved[e]

Tick ==
  /\ ~reaped /\ Settled(D) /\ Settled(C)
  /\ proof' = Aged(proof) /\ pong' = Aged(pong)
  /\ moved' = [e \in Ends |-> FALSE]
  /\ reaped' = Reaps
  /\ pinging' = (watch \notin hung /\ ~Reaps)
  /\ UNCHANGED <<watch, outCh, ponging, inflight, hung>>

\* An end is stopped or deadlocks; its socket stays open.
Hang(e) ==
  /\ hung = {} /\ ~reaped
  /\ hung' = {e}
  /\ UNCHANGED <<watch, outCh, pinging, ponging, inflight, proof, pong, moved, reaped>>

HNext ==
  \/ \E e \in Ends : Enqueue(e) \/ WriteNext(e) \/ ReadFrame(e) \/ Hang(e)
  \/ WritePing \/ WritePong \/ Tick

\* Time passes, and a goroutine that can run does.
HSpec ==
  /\ HInit /\ [][HNext]_hvars
  /\ WF_hvars(Tick) /\ WF_hvars(WritePing) /\ WF_hvars(WritePong)
  /\ \A e \in Ends : WF_hvars(WriteNext(e)) /\ WF_hvars(ReadFrame(e))

-----------------------------------------------------------------------------
(* No end is reaped while it runs, however long its backlog and whatever its *)
(* answers wait behind ("a slow-but-flowing reader draining a backlog is     *)
(* never reaped even if its pong is late", heartbeatLoop).                   *)
LiveNotReaped == reaped => Peer(watch) \in hung

(* An end that hangs is reaped, idle or with a backlog: the pings the kernel *)
(* takes for it keep no clock fresh (writeFrameRaw, heartbeatLoop).          *)
HungIsReaped == (Peer(watch) \in hung) ~> reaped
==============================================================================
