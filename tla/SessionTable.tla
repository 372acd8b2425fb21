---------------------------- MODULE SessionTable ----------------------------
(***************************************************************************)
(* What the tunnel manager may assume of the sessions of the xhttp         *)
(* transport: identifiers are used once, a session that closed never comes *)
(* back, and the active session is replaced only by the session whose      *)
(* stream has just opened, unless it closes or loses its stream itself.    *)
(***************************************************************************)
CONSTANTS Sids, None

VARIABLES
  open,     \* sessions in the table
  gone,     \* sessions that were closed
  active    \* the session new requests go to, or None

vars == <<open, gone, active>>

Init == open = {} /\ gone = {} /\ active = None

\* The active session after those of E closed, T being what is left.
Survivor(E, T) == IF active \in E THEN active' \in T \cup {None}
                                  ELSE active' = active

\* A new session, after the sessions E that stood in its way were closed.
Create(s, E) ==
  /\ s \in Sids \ (open \cup gone)
  /\ E \subseteq open
  /\ open' = (open \ E) \cup {s}
  /\ gone' = gone \cup E
  /\ Survivor(E, open \ E)

Close(E) ==
  /\ E \subseteq open /\ E # {}
  /\ open' = open \ E
  /\ gone' = gone \cup E
  /\ Survivor(E, open \ E)

Attach(s) ==
  /\ s \in open
  /\ active' = s
  /\ UNCHANGED <<open, gone>>

Detach ==
  /\ active # None
  /\ active' \in (open \ {active}) \cup {None}
  /\ UNCHANGED <<open, gone>>

Next ==
  \/ \E s \in Sids, E \in SUBSET open : Create(s, E)
  \/ \E E \in SUBSET open : Close(E)
  \/ \E s \in Sids : Attach(s)
  \/ Detach

Spec == Init /\ [][Next]_vars
=============================================================================
