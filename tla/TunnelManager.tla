---------------------------- MODULE TunnelManager ----------------------------
(***************************************************************************)
(* The request table of the tunnel (src/tunnel/manager.js).                *)
(*                                                                         *)
(* Requests of both directions share one table keyed by reqid.  A REVERSE  *)
(* request is opened by the proxy: the manager numbers it 1, 2, ... and    *)
(* wraps, and hands the proxy a duplex stream.  A FORWARD request is       *)
(* opened by the client, which picks the number from a range of its own;   *)
(* the manager connects a socket to the local proxy for it.                *)
(*                                                                         *)
(* The code keeps two things per request that can part company: the object *)
(* (entry, stream or socket, timers) and the slot of its reqid in the      *)
(* table.  Every handler below finds the object by what the code finds it  *)
(* by: frames and _sendClose look the reqid up, timers and socket events   *)
(* hold the object.  So a request is numbered here in order of creation,   *)
(* and its reqid is one of its attributes.                                 *)
(*                                                                         *)
(* Sessions are those of module SessionTable, which XhttpSessions          *)
(* implements.  A frame sent on a session that is gone or has no stream is *)
(* dropped; frames of the client may come late, repeated or not at all.    *)
(***************************************************************************)
EXTENDS Naturals, FiniteSets

CONSTANTS
  Sids, None,
  MaxReverseId,   \* largest reqid of a reverse request (0x7FFF)
  ForwardIds,     \* reqids a client may pick (0x8000 .. 0xFFFE)
  MaxReverse,     \* _maxReverseConnections (200)
  MaxForward,     \* _maxForwardConnections (200)
  MaxRequests     \* bound of the model: requests made in a behaviour

ASSUME IdsAssumption ==
  /\ MaxReverseId \in Nat \ {0}
  /\ ForwardIds \subseteq Nat \ (0 .. MaxReverseId)
  /\ IsFiniteSet(ForwardIds)
ASSUME NoneAssumption == None \notin Sids
ASSUME LimitsAssumption ==
  MaxReverse \in Nat /\ MaxForward \in Nat /\ MaxRequests \in Nat

ReverseIds == 1 .. MaxReverseId
Ids == ReverseIds \cup ForwardIds
Requests == 1 .. MaxRequests
NoRequest == 0

VARIABLES
  open, gone, active,   \* the session table
  connected,            \* _connected
  table,                \* _activeRequests: reqid -> request
  counter,              \* _reqidCounter
  reverseCount,         \* _reverseCount
  forwardCount,         \* _forwardCount
  issued,               \* requests made so far
  req                   \* the requests, see Blank

sessionVars == <<open, gone, active, connected>>
tableVars == <<table, reverseCount, forwardCount, req>>
vars == <<sessionVars, tableVars, counter, issued>>

Table == INSTANCE SessionTable

\* phase of a reverse request: its stream is "open", got its end of file
\* from the client ("ended"), was ended by the proxy ("finished") or
\* destroyed ("done"); of a forward request: its socket is "open",
\* destroyed with the 'close' event still to come ("closing") or closed.
Phases == {"unused", "open", "ended", "finished", "closing", "done"}

Blank == [kind |-> "none", id |-> 0, session |-> None, phase |-> "unused",
          confirmed |-> FALSE,
          connectTimer |-> FALSE, idleTimer |-> FALSE,
          counted |-> FALSE,   \* it is in its direction's count
          answers |-> 0]       \* CONNECT_OK and CONNECT_FAILED sent for it

Init ==
  /\ Table!Init
  /\ connected = FALSE
  /\ table = [q \in Ids |-> NoRequest]
  /\ counter = 0
  /\ reverseCount = 0 /\ forwardCount = 0
  /\ issued = 0
  /\ req = [r \in Requests |-> Blank]

------------------------------------------------------------------------------
(* Helpers.  Each takes in f the requests as changed so far by the step.   *)

IsReverse(r) == req[r].kind = "reverse"
IsForward(r) == req[r].kind = "forward"

\* An entry leaving the table: its timers are cleared, and a reverse entry
\* gives its place in the count back.
Removed(e) ==
  [e EXCEPT !.connectTimer = FALSE, !.idleTimer = FALSE,
            !.counted = e.counted /\ e.kind = "forward"]

\* Faulty variant: the place in the count is not given back.
ClearUncounted(q, f) ==
  LET r == table[q] IN
  IF r = NoRequest
  THEN req' = f /\ UNCHANGED <<table, reverseCount>>
  ELSE /\ table' = [table EXCEPT ![q] = NoRequest]
       /\ req' = [f EXCEPT ![r] = Removed(f[r])]
       /\ UNCHANGED reverseCount

\* _clearActiveRequest(q): whatever request is under q now.
ClearActiveRequest(q, f) ==
  LET r == table[q] IN
  IF r = NoRequest
  THEN req' = f /\ UNCHANGED <<table, reverseCount>>
  ELSE /\ table' = [table EXCEPT ![q] = NoRequest]
       /\ req' = [f EXCEPT ![r] = Removed(f[r])]
       /\ reverseCount' = IF f[r].kind = "reverse" /\ f[r].counted
                          THEN reverseCount - 1 ELSE reverseCount

\* Faulty variant: nothing is done for a request no longer in the table.
CleanupOfEntry(r, f) ==
  IF req[r].counted /\ table[req[r].id] = r
  THEN /\ forwardCount' = forwardCount - 1
       /\ ClearActiveRequest(req[r].id,
            [f EXCEPT ![r].counted = FALSE, ![r].idleTimer = FALSE])
  ELSE req' = f /\ UNCHANGED <<table, reverseCount, forwardCount>>

\* The cleanup closure of a forward request, run once.
Cleanup(r, f) ==
  IF req[r].counted
  THEN /\ forwardCount' = forwardCount - 1
       /\ ClearActiveRequest(req[r].id,
            [f EXCEPT ![r].counted = FALSE, ![r].idleTimer = FALSE])
  ELSE req' = f /\ UNCHANGED <<table, reverseCount, forwardCount>>

\* stream.destroy(error): _destroy runs _sendClose, the listener of 'error'
\* clears the connect timer.
DestroyStream(r) ==
  /\ ClearActiveRequest(req[r].id,
       [req EXCEPT ![r].phase = "done", ![r].connectTimer = FALSE])
  /\ UNCHANGED forwardCount

SocketDestroyed(e) == IF e.phase = "open" THEN "closing" ELSE e.phase

------------------------------------------------------------------------------
(* The sessions: setConnected *)

\* Faulty variant: forward requests are left to their sockets.
ReverseBoundTo(E) == {r \in Requests : IsReverse(r) /\ req[r].session \in E
                                       /\ table[req[r].id] = r}

\* The entries of the table that belong to a session of E.
BoundTo(E) == {r \in Requests : req[r].session \in E /\ table[req[r].id] = r}

Disconnect(E) ==
  LET bound == BoundTo(E) IN
  /\ req' = [r \in Requests |->
               IF r \notin bound THEN req[r]
               ELSE [Removed(req[r]) EXCEPT
                      !.phase = IF IsForward(r) THEN SocketDestroyed(req[r])
                                                ELSE "done"]]
  /\ table' = [q \in Ids |-> IF table[q] \in bound THEN NoRequest ELSE table[q]]
  /\ reverseCount' = reverseCount
       - Cardinality({r \in bound : IsReverse(r) /\ req[r].counted})
  /\ UNCHANGED <<forwardCount, counter, issued>>

SessionCreated(s, E) ==
  /\ Table!Create(s, E)
  /\ Disconnect(E)
  /\ connected' = TRUE

SessionsClosed(E) ==
  /\ Table!Close(E)
  /\ Disconnect(E)
  /\ connected' = (active' # None)

StreamOpened(s) ==
  /\ Table!Attach(s)
  /\ UNCHANGED <<connected, tableVars, counter, issued>>

StreamLost ==
  /\ Table!Detach
  /\ UNCHANGED <<connected, tableVars, counter, issued>>

------------------------------------------------------------------------------
(* Reverse requests *)

\* forward(host, port, callback): refused unless there is a session for it
\* and a place in the count.
Forward ==
  LET r == issued + 1
      q == IF counter + 1 > MaxReverseId THEN 1 ELSE counter + 1 IN
  /\ issued < MaxRequests
  /\ connected /\ active # None
  /\ reverseCount < MaxReverse
  /\ issued' = r
  /\ counter' = q
  /\ reverseCount' = reverseCount + 1
  /\ table' = [table EXCEPT ![q] = r]
  /\ req' = [req EXCEPT ![r] =
       [Blank EXCEPT !.kind = "reverse", !.id = q, !.session = active,
                     !.phase = "open", !.connectTimer = TRUE,
                     !.counted = TRUE]]
  /\ UNCHANGED <<sessionVars, forwardCount>>

\* The proxy writes: _sendData, on the entry now under the reqid.
StreamWrites(r) ==
  LET e == table[req[r].id] IN
  /\ IsReverse(r) /\ req[r].phase \in {"open", "ended"}
  /\ e # NoRequest /\ IsReverse(e)
  /\ req' = [req EXCEPT ![e].idleTimer = TRUE]
  /\ UNCHANGED <<sessionVars, table, reverseCount, forwardCount, counter, issued>>

\* The proxy ends the stream: _final runs _sendClose.
StreamFinishes(r) ==
  /\ IsReverse(r) /\ req[r].phase \in {"open", "ended"}
  /\ ClearActiveRequest(req[r].id, [req EXCEPT ![r].phase = "finished"])
  /\ UNCHANGED <<sessionVars, forwardCount, counter, issued>>

\* The proxy destroys the stream, with or without an error.
StreamDestroyed(r) ==
  /\ IsReverse(r) /\ req[r].phase \in {"open", "ended", "finished"}
  /\ \/ ClearActiveRequest(req[r].id, [req EXCEPT ![r].phase = "done"])
        /\ UNCHANGED forwardCount
     \/ DestroyStream(r)
  /\ UNCHANGED <<sessionVars, counter, issued>>

ReverseConnectTimeout(r) ==
  /\ IsReverse(r) /\ req[r].connectTimer
  /\ IF table[req[r].id] # NoRequest /\ ~req[r].confirmed
     THEN DestroyStream(r)
     ELSE /\ req' = [req EXCEPT ![r].connectTimer = FALSE]
          /\ UNCHANGED <<table, reverseCount, forwardCount>>
  /\ UNCHANGED <<sessionVars, counter, issued>>

ReverseIdleTimeout(r) ==
  /\ IsReverse(r) /\ req[r].idleTimer
  /\ IF req[r].phase = "done"
     THEN /\ req' = [req EXCEPT ![r].idleTimer = FALSE]
          /\ UNCHANGED <<table, reverseCount, forwardCount>>
     ELSE ClearActiveRequest(req[r].id,
            [req EXCEPT ![r].phase = "done", ![r].connectTimer = FALSE,
                        ![r].idleTimer = FALSE])
          /\ UNCHANGED forwardCount
  /\ UNCHANGED <<sessionVars, counter, issued>>

------------------------------------------------------------------------------
(* Forward requests: _handleForwardConnect and its closures *)

\* CONNECT from the client on session s; the payload in the hands of the
\* consume loop is still handled when its session has just closed.  At the
\* limit the answer is CONNECT_FAILED and nothing changes.  A client skips
\* the reqids it uses (ForwardSessionRegistry.kt, allocateReqid), the manager
\* does not look: all sessions are one process, which remembers its reqids.
ForwardConnect(s, q) ==
  LET r == issued + 1 IN
  /\ issued < MaxRequests
  /\ s \in open \cup gone
  /\ q \in ForwardIds
  /\ \A x \in 1 .. issued : req[x].id = q => req[x].phase = "done"
  /\ forwardCount < MaxForward
  /\ issued' = r
  /\ forwardCount' = forwardCount + 1
  /\ table' = [table EXCEPT ![q] = r]
  /\ req' = [req EXCEPT ![r] =
       [Blank EXCEPT !.kind = "forward", !.id = q, !.session = s,
                     !.phase = "open", !.connectTimer = TRUE,
                     !.counted = TRUE]]
  /\ UNCHANGED <<sessionVars, counter, reverseCount>>

\* Faulty variant: no idle timer is started.
ProxyAcceptsForever(r) ==
  /\ IsForward(r) /\ req[r].phase = "open" /\ ~req[r].confirmed
  /\ req' = [req EXCEPT ![r].confirmed = TRUE, ![r].connectTimer = FALSE,
                        ![r].answers = @ + 1]
  /\ UNCHANGED <<sessionVars, table, reverseCount, forwardCount, counter, issued>>

\* Faulty variant: the connect timer goes on.
ProxyAcceptsTimed(r) ==
  /\ IsForward(r) /\ req[r].phase = "open" /\ ~req[r].confirmed
  /\ req' = [req EXCEPT ![r].confirmed = TRUE, ![r].idleTimer = TRUE,
                        ![r].answers = @ + 1]
  /\ UNCHANGED <<sessionVars, table, reverseCount, forwardCount, counter, issued>>

\* The local proxy answered the CONNECT with a 2xx status, or another one.
ProxyAccepts(r) ==
  /\ IsForward(r) /\ req[r].phase = "open" /\ ~req[r].confirmed
  /\ req' = [req EXCEPT ![r].confirmed = TRUE, ![r].connectTimer = FALSE,
                        ![r].idleTimer = TRUE, ![r].answers = @ + 1]
  /\ UNCHANGED <<sessionVars, table, reverseCount, forwardCount, counter, issued>>

ProxyRefuses(r) ==
  /\ IsForward(r) /\ req[r].phase = "open" /\ ~req[r].confirmed
  /\ Cleanup(r, [req EXCEPT ![r].phase = "closing", ![r].answers = @ + 1])
  /\ UNCHANGED <<sessionVars, counter, issued>>

ProxySends(r) ==
  /\ IsForward(r) /\ req[r].phase = "open" /\ req[r].confirmed
  /\ req' = [req EXCEPT ![r].idleTimer = TRUE]
  /\ UNCHANGED <<sessionVars, table, reverseCount, forwardCount, counter, issued>>

\* The socket's 'error', its 'close' still to come.
SocketFails(r) ==
  /\ IsForward(r) /\ req[r].phase = "open"
  /\ Cleanup(r, [req EXCEPT ![r].phase = "closing",
                            ![r].answers = IF req[r].confirmed THEN @ ELSE @ + 1])
  /\ UNCHANGED <<sessionVars, counter, issued>>

\* The socket's 'close': the far end closed it, or it was destroyed before.
SocketCloses(r) ==
  /\ IsForward(r) /\ req[r].phase \in {"open", "closing"}
  /\ Cleanup(r, [req EXCEPT ![r].phase = "done"])
  /\ UNCHANGED <<sessionVars, counter, issued>>

ForwardConnectTimeout(r) ==
  /\ IsForward(r) /\ req[r].connectTimer
  /\ Cleanup(r, [req EXCEPT ![r].connectTimer = FALSE, ![r].answers = @ + 1,
                            ![r].phase = SocketDestroyed(req[r])])
  /\ UNCHANGED <<sessionVars, counter, issued>>

ForwardIdleTimeout(r) ==
  /\ IsForward(r) /\ req[r].idleTimer
  /\ Cleanup(r, [req EXCEPT ![r].idleTimer = FALSE,
                            ![r].phase = SocketDestroyed(req[r])])
  /\ UNCHANGED <<sessionVars, counter, issued>>

------------------------------------------------------------------------------
(* Frames of the client: handleFrame looks the reqid up *)

ConnectOk(q) ==
  LET r == table[q] IN
  /\ r # NoRequest
  /\ req' = IF IsReverse(r)
            THEN [req EXCEPT ![r].confirmed = TRUE, ![r].idleTimer = TRUE,
                             ![r].connectTimer = FALSE]
            ELSE [req EXCEPT ![r].confirmed = TRUE]
  /\ UNCHANGED <<sessionVars, table, reverseCount, forwardCount, counter, issued>>

Data(q) ==
  LET r == table[q] IN
  /\ r # NoRequest
  /\ IsReverse(r)                 \* forward: written to the socket, no more
  /\ req' = [req EXCEPT ![r].idleTimer = TRUE]
  /\ UNCHANGED <<sessionVars, table, reverseCount, forwardCount, counter, issued>>

\* Faulty variant: the socket of a forward request stays open.
CloseKeepsSocket(q) ==
  LET r == table[q] IN
  /\ r # NoRequest
  /\ ClearActiveRequest(q, [req EXCEPT ![r].phase =
       IF IsForward(r) THEN @ ELSE "ended"])
  /\ UNCHANGED <<sessionVars, forwardCount, counter, issued>>

Close(q) ==
  LET r == table[q] IN
  /\ r # NoRequest
  /\ ClearActiveRequest(q, [req EXCEPT ![r].phase =
       IF IsForward(r) THEN SocketDestroyed(req[r]) ELSE "ended"])
  /\ UNCHANGED <<sessionVars, forwardCount, counter, issued>>

ConnectFailed(q) ==
  LET r == table[q] IN
  /\ r # NoRequest
  /\ ClearActiveRequest(q, [req EXCEPT ![r].phase =
       IF IsForward(r) THEN SocketDestroyed(req[r]) ELSE "done"])
  /\ UNCHANGED <<sessionVars, forwardCount, counter, issued>>

------------------------------------------------------------------------------
SessionEvents ==
  \/ \E s \in Sids, E \in SUBSET open : SessionCreated(s, E)
  \/ \E E \in SUBSET open : SessionsClosed(E)
  \/ \E s \in Sids : StreamOpened(s)
  \/ StreamLost

Timeouts(r) == \/ ReverseConnectTimeout(r) \/ ReverseIdleTimeout(r)
               \/ ForwardConnectTimeout(r) \/ ForwardIdleTimeout(r)

ProxyEvents ==
  \/ Forward
  \/ \E r \in Requests : \/ StreamWrites(r) \/ StreamFinishes(r)
                         \/ StreamDestroyed(r)
                         \/ ProxyAccepts(r) \/ ProxyRefuses(r) \/ ProxySends(r)
                         \/ SocketFails(r) \/ SocketCloses(r)

Frames ==
  \/ \E s \in Sids, q \in ForwardIds : ForwardConnect(s, q)
  \/ \E q \in Ids : ConnectOk(q) \/ Data(q) \/ Close(q) \/ ConnectFailed(q)

Next == \/ SessionEvents \/ ProxyEvents \/ Frames
        \/ \E r \in Requests : Timeouts(r)

Spec == Init /\ [][Next]_vars

------------------------------------------------------------------------------
(* Properties *)

Record == [kind : {"none", "reverse", "forward"}, id : Ids \cup {0},
           session : Sids \cup {None}, phase : Phases, confirmed : BOOLEAN,
           connectTimer : BOOLEAN, idleTimer : BOOLEAN, counted : BOOLEAN,
           answers : 0 .. 1]

(* Types; and the client hears at most one of CONNECT_OK and               *)
(* CONNECT_FAILED for each CONNECT it sent, also when timeout, refusal and *)
(* failure race.                                                           *)
TypeOK ==
  /\ open \subseteq Sids /\ gone \subseteq Sids
  /\ active \in Sids \cup {None}
  /\ connected \in BOOLEAN
  /\ table \in [Ids -> Requests \cup {NoRequest}]
  /\ counter \in 0 .. MaxReverseId
  /\ reverseCount \in 0 .. MaxReverse
  /\ forwardCount \in 0 .. MaxForward
  /\ issued \in 0 .. MaxRequests
  /\ req \in [Requests -> Record]

(* The limits are limits on what lives: whatever order CLOSE, 'error',     *)
(* 'close' and the timeouts come in, each socket is given back exactly     *)
(* once and not before it was destroyed; the reverse count is the number   *)
(* of reverse entries; and a place in a count is held only while its       *)
(* stream or socket is open or its 'close' is still to come.               *)
CountersAreExact ==
  /\ forwardCount = Cardinality({r \in Requests : IsForward(r) /\ req[r].counted})
  /\ reverseCount = Cardinality({q \in Ids : table[q] # NoRequest
                                             /\ IsReverse(table[q])})
  /\ \A r \in Requests :
       /\ IsForward(r) /\ req[r].phase = "open" => req[r].counted
       /\ req[r].counted => req[r].phase \in {"open", "closing"}

(* A request that is still open is found under its own reqid: no frame for *)
(* it is lost or given to another, no end of another request took it out;  *)
(* and every entry has a timer that will end it if nothing else does.      *)
EntriesAreServed ==
  /\ \A r \in Requests : req[r].phase = "open" => table[req[r].id] = r
  /\ \A q \in Ids : table[q] # NoRequest =>
       req[table[q]].connectTimer \/ req[table[q]].idleTimer

(* A session that closes takes its open requests with it, of both          *)
(* directions (setConnected).                                              *)
SessionTakesItsRequests ==
  [][\A r \in Requests :
       req'[r].session \in gone' \ gone => req'[r].phase # "open"]_vars
==============================================================================
