-------------------------------- MODULE Search --------------------------------
(***************************************************************************)
(* The incremental search of a tab whose scrollback the GUI scans itself   *)
(* (internal/scrollback): the overlay's query, one scan per change of      *)
(* query or content on a goroutine of its own, a cancel channel, and one   *)
(* slot the results come back through.  The render loop looks at the       *)
(* search only while the overlay is open and the query is not empty        *)
(* (internal/app/app.go), so closing it tears nothing down.                *)
(*                                                                         *)
(* A set of matches is <<query, content>>: what was searched for, and the  *)
(* render generation it was found in.                                      *)
(***************************************************************************)
EXTENDS Naturals

CONSTANTS
  Queries,    \* what a user may search for, with the options
  MaxContent, \* bound on changes of the tab's content
  MaxEdits    \* bound on what the user does to the overlay

ASSUME SearchConstants == MaxContent \in Nat \ {0} /\ MaxEdits \in Nat

VARIABLES
  content, \* RenderGeneration
  state,   \* scrollback.State; last is lastQuery, None without haveFP
  results, \* searchRes
  scans,   \* the goroutines, with what each has found
  drawn,   \* the query and the matches of the last frame
  edits

qvars == <<content, state, results, scans, drawn, edits>>

None == <<>>
NoQuery == "no query"

QInit ==
  /\ content = 1
  /\ state = [open |-> FALSE, query |-> NoQuery, matches |-> None, pending |-> FALSE,
              id |-> 0, last |-> None, gen |-> 0]
  /\ results = None /\ scans = {}
  /\ drawn = [query |-> NoQuery, matches |-> None]
  /\ edits = 0

NewOutput ==
  /\ content < MaxContent
  /\ content' = content + 1
  /\ UNCHANGED <<state, results, scans, drawn, edits>>

-----------------------------------------------------------------------------
(* The user. *)

Edited(s) ==
  /\ edits < MaxEdits /\ edits' = edits + 1
  /\ state' = s
  /\ UNCHANGED <<content, results, scans, drawn>>

\* OpenSearch, also while it is open, and CloseSearch.
OpenSearch == Edited([state EXCEPT !.open = TRUE, !.query = NoQuery, !.matches = None])
CloseSearch ==
  state.open /\ Edited([state EXCEPT !.open = FALSE, !.query = NoQuery, !.matches = None])

\* The query as the input field leaves it between two frames.
Edit(q) == state.open /\ q # state.query /\ Edited([state EXCEPT !.query = q])

-----------------------------------------------------------------------------
(* The render loop: EnsureSearch, kickSearch, cancelInFlight. *)

Active == state.open /\ state.query # NoQuery
QueryChanged == state.last # <<state.query>>
Due == QueryChanged \/ state.gen # content

Draw(matches) == drawn' = [query |-> state.query, matches |-> matches]

\* A new scan; the old ones are cancelled and a result that landed is dropped.
\* One that lands later in this frame is taken by the next.
Kick ==
  /\ Active /\ Due
  /\ LET kept == IF QueryChanged THEN None ELSE state.matches
     IN /\ state' = [state EXCEPT !.id = @ + 1, !.pending = TRUE, !.matches = kept,
                                  !.last = <<state.query>>, !.gen = content]
        /\ Draw(kept)
  /\ scans' = {[w EXCEPT !.cancelled = TRUE] : w \in scans} \cup
              {[id |-> state.id + 1, query |-> state.query, found |-> None,
                cancelled |-> FALSE]}
  /\ results' = None
  /\ UNCHANGED <<content, edits>>

\* Mutant: whatever comes back is shown.
AnyResult(res) == TRUE
Latest(res) == res.id = state.id

Adopt ==
  /\ Active /\ ~Due /\ results # None
  /\ results' = None
  /\ IF Latest(results)
     THEN state' = [state EXCEPT !.pending = FALSE, !.matches = results.found]
     ELSE UNCHANGED state
  /\ Draw(state'.matches)
  /\ UNCHANGED <<content, scans, edits>>

-----------------------------------------------------------------------------
(* A scan: scanGrid looks at the cancel channel now and then, the send       *)
(* blocks while the slot is taken, and select may pick either.               *)

Scan(w) ==
  /\ w.found = None
  /\ scans' = (scans \ {w}) \cup {[w EXCEPT !.found = <<w.query, content>>]}
  /\ UNCHANGED <<content, state, results, drawn, edits>>

Cancelled(w) ==
  /\ w.cancelled
  /\ scans' = scans \ {w}
  /\ UNCHANGED <<content, state, results, drawn, edits>>

\* Mutant: a send that does not wait for room.
DropWhenFull(w) ==
  /\ w.found # None
  /\ results' = IF results = None THEN [id |-> w.id, found |-> w.found] ELSE results
  /\ scans' = scans \ {w}
  /\ UNCHANGED <<content, state, drawn, edits>>

Send(w) ==
  /\ w.found # None /\ results = None
  /\ results' = [id |-> w.id, found |-> w.found]
  /\ scans' = scans \ {w}
  /\ UNCHANGED <<content, state, drawn, edits>>

QNext ==
  \/ NewOutput \/ OpenSearch \/ CloseSearch \/ (\E q \in Queries \cup {NoQuery} : Edit(q))
  \/ Kick \/ Adopt
  \/ \E w \in scans : Scan(w) \/ Cancelled(w) \/ Send(w)

\* An open overlay is drawn again and again (windowVisuallyDirty), and
\* goroutines run.
Works == \E w \in scans : Scan(w) \/ Cancelled(w) \/ Send(w)
QSpec == QInit /\ [][QNext]_qvars /\ WF_qvars(Kick \/ Adopt) /\ WF_qvars(Works)

-----------------------------------------------------------------------------
(* The highlights of a frame are matches of the query in the field, however  *)
(* late the scan of an earlier query comes back (asyncResult.id).            *)
DrawnIsOfQuery == drawn.matches # None => drawn.matches[1] = drawn.query

(* A search that shows as pending ends, unless the user turns away from it:  *)
(* no result is lost between a cancelled scan and the next (cancelInFlight,  *)
(* the capacity of searchRes).                                               *)
NoStuckSearch == (Active /\ state.pending) ~> (~Active \/ ~state.pending)

(* When nothing is left to do the matches are those of the query in the      *)
(* content ("keeps s.Matches in sync with the query, options, and terminal   *)
(* content", EnsureSearch).                                                  *)
MatchesInSync ==
  (Active /\ ~Due /\ scans = {} /\ results = None) =>
     state.matches = <<state.query, content>>
===============================================================================
