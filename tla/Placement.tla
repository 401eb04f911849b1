------------------------------ MODULE Placement ------------------------------
(***************************************************************************)
(* What a session promises about where tabs live, without tab bars, order, *)
(* focus, labels or revisions: every tab is shown by one window that is    *)
(* open, it leaves its window only to go to another one, and only Close    *)
(* takes it out of the session.  An id is used for one tab, ever.          *)
(***************************************************************************)
CONSTANTS Tab, Win, Nowhere

VARIABLES open,   \* the open windows
          home,   \* window of each tab, Nowhere for one not in the session
          used    \* ids of the tabs created so far

PTypeOK ==
  /\ open \subseteq Win
  /\ home \in [Tab -> Win \cup {Nowhere}]
  /\ used \subseteq Tab

PInit ==
  /\ open = {}
  /\ home = [t \in Tab |-> Nowhere]
  /\ used = {}

Open(w) == w \notin open /\ open' = open \cup {w} /\ UNCHANGED <<home, used>>

\* A new tab in window w, opened for it if no window was open.
Create(t, w) ==
  /\ t \in Tab \ used
  /\ w \in open \/ open = {}
  /\ open' = open \cup {w}
  /\ home' = [home EXCEPT ![t] = w]
  /\ used' = used \cup {t}

Move(t, w) ==
  /\ home[t] # Nowhere
  /\ w \in open
  /\ home' = [home EXCEPT ![t] = w]
  /\ UNCHANGED <<open, used>>

Remove(t) ==
  /\ home[t] # Nowhere
  /\ home' = [home EXCEPT ![t] = Nowhere]
  /\ UNCHANGED <<open, used>>

\* Window w goes; its tabs move together to one heir, a window that stays
\* or, when w was the last one, a new one.
Shut(w) ==
  /\ w \in open
  /\ \/ /\ \A t \in Tab : home[t] # w
        /\ open' = open \ {w}
        /\ UNCHANGED home
     \/ \E heir \in Win \ {w} :
          /\ heir \in open \/ open = {w}
          /\ \E t \in Tab : home[t] = w
          /\ open' = (open \ {w}) \cup {heir}
          /\ home' = [t \in Tab |-> IF home[t] = w THEN heir ELSE home[t]]
  /\ UNCHANGED used

PNext ==
  \/ \E w \in Win : Open(w) \/ Shut(w)
  \/ \E t \in Tab, w \in Win : Create(t, w) \/ Move(t, w)
  \/ \E t \in Tab : Remove(t)

PSpec == PInit /\ [][PNext]_<<open, home, used>>

=============================================================================
