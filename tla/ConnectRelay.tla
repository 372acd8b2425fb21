----------------------------- MODULE ConnectRelay -----------------------------
(***************************************************************************)
(* One CONNECT request of the HTTP proxy (getConnectReqHandler in          *)
(* src/proxy/proxy-core/request-handler.js).                               *)
(*                                                                         *)
(* The handler asks the rules, answers 200, waits for the first bytes of   *)
(* the client, finds the server, lets customConnect make the connection or *)
(* makes it itself, and joins the two sockets by pipes that do not pass on *)
(* the end of their source: 'end' of either side ends the other by hand    *)
(* and starts the drain timers.  A tunnel request is answered only when    *)
(* its connection is ready, and does not wait for bytes.                   *)
(*                                                                         *)
(* A socket is destroyed in one step and emits 'close' in a later one.     *)
(* destroy() drops what the peer has not taken from its write buffer.      *)
(* Bytes are counted in pieces.                                            *)
(***************************************************************************)
EXTENDS Naturals

CONSTANTS
  MaxRelayed,  \* bound of the model: pieces of one direction
  HighWater    \* pieces a write buffer takes before pipe() pauses the source

ASSUME BoundsAssumption == MaxRelayed \in Nat /\ HighWater \in Nat \ {0}

VARIABLES
  tunnel,      \* isTunnelConnect
  phase,       \* how far the promise chain is
  kind,        \* how the connection is made
  answered,    \* connectResponseSent
  clt,         \* cltSocket
  conn,        \* the upstream socket or stream
  watched,     \* the 'close' listener of cltSocket was added in time
  joined,      \* the pipes are set up
  cleaned,     \* relayCleaned
  timers,      \* drain timers that are armed
  ended,       \* sides whose 'end' handler has run
  broken,      \* an error, a reset or a timer cut the relay
  toServer,    \* pieces of the client in requestStream, written, taken
  toClient,    \* pieces of the server written to cltSocket, taken
  eof,         \* requestStream was given its end
  paused       \* pipes that wait for the 'drain' of their destination

chainVars == <<tunnel, phase, kind, answered, joined, watched>>
relayVars == <<cleaned, timers, ended, broken>>
dataVars == <<toServer, toClient, eof, paused>>
connectVars == <<chainVars, clt, conn, relayVars, dataVars>>

Sides == {"client", "upstream"}

\* conn is "new" until it is connected.
Alive(s) == s \in {"new", "open"}

Destroy(s) == IF Alive(s) THEN "closing" ELSE s

ConnectInit ==
  /\ tunnel \in BOOLEAN /\ phase = "rule" /\ kind = "none" /\ answered = FALSE
  /\ clt = "open" /\ conn = "none" /\ watched = FALSE /\ joined = FALSE
  /\ cleaned = FALSE /\ timers = {} /\ ended = {} /\ broken = FALSE
  /\ toServer = [buffered |-> 0, written |-> 0, taken |-> 0]
  /\ toClient = [written |-> 0, taken |-> 0]
  /\ eof = FALSE /\ paused = {}

------------------------------------------------------------------------------
(* The promise chain up to the connection.                                 *)

\* The catch handler.  A request that was answered is cut off; one that was
\* not gets a 502, and its socket is left open.
Catch ==
  /\ phase' = "failed"
  /\ clt' = IF answered THEN Destroy(clt) ELSE clt

Step(from, to) == phase = from /\ phase' = to
ChainUnchanged == UNCHANGED <<tunnel, conn, relayVars, dataVars>>

\* beforeDealHttpsRequest answers; the 200 of a plain request is written.
\* A rule that refused the client (407) destroys its socket.
RuleAnswers ==
  /\ Step("rule", IF tunnel THEN "first" ELSE "write")
  /\ answered' = ~tunnel
  /\ clt' \in {clt, Destroy(clt)}
  /\ UNCHANGED <<kind, joined, watched>> /\ ChainUnchanged

\* A write that fails because the client has reset its connection counts as
\* done.
Writable == clt = "open" \/ broken

ResponseWritten ==
  /\ Writable /\ Step("write", "first")
  /\ UNCHANGED <<kind, answered, joined, watched, clt>> /\ ChainUnchanged

\* A plain request goes on with the first bytes, those that came with the
\* CONNECT or the next; one of a tunnel at once, with or without such bytes.
FirstBytes ==
  /\ Step("first", "target")
  /\ \E n \in IF tunnel THEN {0, 1} ELSE {1} : toServer' = [toServer EXCEPT !.buffered = n]
  /\ UNCHANGED <<tunnel, kind, answered, joined, watched, clt, conn, relayVars,
                 toClient, eof, paused>>

\* ECLIENTCLOSEDNODATA, which the catch handler passes over.
EndsBeforeData ==
  /\ ~tunnel /\ clt = "open"
  /\ Step("first", "failed")
  /\ clt' = "closing"
  /\ UNCHANGED <<kind, answered, joined, watched>> /\ ChainUnchanged

\* The server is known: the origin, this proxy (WebSocket) or the shared
\* HTTPS server.  'close' of a socket that has closed already is not heard.
StartRelay ==
  /\ Step("target", "custom")
  /\ kind' \in {"direct", "chain"} \cup (IF tunnel THEN {"tunnel"} ELSE {})
  /\ watched' = (clt # "closed")
  /\ UNCHANGED <<answered, joined, clt>> /\ ChainUnchanged

\* A rule throws, the 200 can not be written, the shared HTTPS server does
\* not start, or customConnect throws or rejects.
ChainFails ==
  /\ \/ phase \in {"rule", "target"}
     \/ phase \in {"write", "answer"} /\ clt # "open"
     \/ phase = "custom" /\ conn = "none"
  /\ Catch
  /\ UNCHANGED <<kind, answered, joined, watched>> /\ ChainUnchanged

\* The chained proxy ends its connection before it has answered: no 'error'
\* and no response, and the promise is never settled.
ChainHangsUp ==
  /\ kind = "chain" /\ conn = "none"
  /\ Step("custom", "silent")
  /\ UNCHANGED <<kind, answered, joined, watched, clt>> /\ ChainUnchanged

\* setupPipe: the pipes are joined once the 200 is out.
SetupPipe ==
  /\ answered' = TRUE
  /\ joined' = answered
  /\ phase' = IF answered THEN "relay" ELSE "answer"

\* Faulty variant: attachConnection does not look at the client again.
AttachAlways(s, isReady) ==
  /\ conn' = s
  /\ IF isReady THEN SetupPipe ELSE UNCHANGED <<answered, joined, phase>>

\* attachConnection: a connection that comes after the client has gone is
\* destroyed, and nothing listens to it.
Attach(s, isReady) ==
  /\ conn' = IF clt = "open" THEN s ELSE Destroy(s)
  /\ IF clt # "open" THEN phase' = "gone" /\ UNCHANGED <<answered, joined>>
     ELSE IF isReady THEN SetupPipe
     ELSE UNCHANGED <<answered, joined, phase>>

\* customConnect resolves to null (then net.connect), to a stream of the
\* tunnel, or to a connection through the chained proxy, which is ready.
CustomResolves ==
  /\ phase = "custom" /\ conn = "none"
  /\ IF kind = "chain" THEN Attach("open", TRUE) ELSE Attach("new", FALSE)
  /\ UNCHANGED <<tunnel, kind, watched, clt, relayVars, dataVars>>

\* markReady by 'connect' of the socket or by CONNECT_OK of the tunnel.
ConnReady ==
  /\ conn = "new"
  /\ conn' = "open"
  /\ SetupPipe
  /\ UNCHANGED <<tunnel, kind, watched, clt, relayVars, dataVars>>

AnswerWritten ==
  /\ Writable /\ Step("answer", "relay")
  /\ joined' = TRUE
  /\ UNCHANGED <<kind, answered, watched, clt>> /\ ChainUnchanged

------------------------------------------------------------------------------
(* The relay.                                                              *)

\* Faulty variant: clearDrainTimers is forgotten.
CleanupKeepsTimers(c, u) ==
  /\ cleaned' = TRUE
  /\ UNCHANGED timers
  /\ clt' = IF cleaned THEN c ELSE Destroy(c)
  /\ conn' = IF cleaned THEN u ELSE Destroy(u)

\* cleanupRelay: once; both sockets are destroyed, the timers cleared.  c and
\* u are the states in which the caller leaves the sockets.
CleanupRelay(c, u) ==
  /\ cleaned' = TRUE
  /\ timers' = {}
  /\ clt' = IF cleaned THEN c ELSE Destroy(c)
  /\ conn' = IF cleaned THEN u ELSE Destroy(u)

\* Faulty variant: no timer bounds the half-closed relay.
DrainForever(side) ==
  /\ ended' = ended \cup {side}
  /\ IF ended' = Sides
     THEN CleanupRelay(clt, conn)
     ELSE UNCHANGED <<clt, conn, cleaned, timers>>

\* Faulty variant: the first end is taken for the last.
DrainNothing(side) ==
  /\ ended' = ended \cup {side}
  /\ CleanupRelay(clt, conn)

\* startDrain after the end of one more side.
StartDrain(side) ==
  /\ ended' = ended \cup {side}
  /\ IF ended' = Sides
     THEN CleanupRelay(clt, conn)
     ELSE timers' = {"idle", "max"} /\ UNCHANGED <<clt, conn, cleaned>>

\* The listeners of cltSocket fill requestStream, whether or not it is full.
Listening == clt = "open" /\ phase \notin {"rule", "write", "first"} /\ ~eof

RequestData ==
  /\ Listening /\ toServer.buffered < MaxRelayed
  /\ toServer' = [toServer EXCEPT !.buffered = @ + 1]
  /\ UNCHANGED <<chainVars, clt, conn, relayVars, toClient, eof, paused>>

RequestEnd ==
  /\ Listening
  /\ eof' = TRUE
  /\ UNCHANGED <<chainVars, clt, conn, relayVars, toServer, toClient, paused>>

Pause(pipe, gap) == paused' = IF gap >= HighWater THEN paused \cup {pipe} ELSE paused
Drain(pipe, gap) == paused' = IF gap = 0 THEN paused \ {pipe} ELSE paused

\* A socket of net.connect() ends its own side with the other's.
PipeUp ==
  /\ joined /\ conn = "open" /\ "up" \notin paused
  /\ "upstream" \in ended => kind = "tunnel"
  /\ toServer.written < toServer.buffered
  /\ toServer' = [toServer EXCEPT !.written = @ + 1]
  /\ Pause("up", toServer'.written - toServer.taken)
  /\ UNCHANGED <<chainVars, clt, conn, relayVars, toClient, eof>>

PipeDown ==
  /\ joined /\ conn = "open" /\ clt = "open" /\ "down" \notin paused
  /\ "upstream" \notin ended /\ toClient.written < MaxRelayed
  /\ toClient' = [toClient EXCEPT !.written = @ + 1]
  /\ Pause("down", toClient'.written - toClient.taken)
  /\ UNCHANGED <<chainVars, clt, conn, relayVars, toServer, eof>>

ServerTakes ==
  /\ conn = "open" /\ toServer.taken < toServer.written
  /\ toServer' = [toServer EXCEPT !.taken = @ + 1]
  /\ Drain("up", toServer.written - toServer'.taken)
  /\ UNCHANGED <<chainVars, clt, conn, relayVars, toClient, eof>>

ClientTakes ==
  /\ clt = "open" /\ toClient.taken < toClient.written
  /\ toClient' = [toClient EXCEPT !.taken = @ + 1]
  /\ Drain("down", toClient.written - toClient'.taken)
  /\ UNCHANGED <<chainVars, clt, conn, relayVars, toServer, eof>>

EndUnchanged == UNCHANGED <<chainVars, broken, dataVars>>

\* onClientEnd: all of requestStream was piped.
ClientEnds ==
  /\ joined /\ conn = "open" /\ clt = "open" /\ "up" \notin paused
  /\ "client" \notin ended /\ eof /\ toServer.written = toServer.buffered
  /\ StartDrain("client") /\ EndUnchanged

\* onUpstreamEnd: all the server sent was piped.
UpstreamEnds ==
  /\ joined /\ conn = "open" /\ clt = "open" /\ "down" \notin paused
  /\ "upstream" \notin ended
  /\ StartDrain("upstream") /\ EndUnchanged

\* A socket of net.connect() has no half-open state: ended by the server and
\* flushed, it closes by itself.  So does cltSocket when both sides ended.
ConnFinishes ==
  /\ conn = "open" /\ kind # "tunnel"
  /\ "upstream" \in ended /\ toServer.taken = toServer.written
  /\ CleanupRelay(clt, "closed")
  /\ UNCHANGED ended /\ EndUnchanged

CltFinishes ==
  /\ clt = "open" /\ eof
  /\ "upstream" \in ended /\ toClient.taken = toClient.written
  /\ CleanupRelay("closed", conn)
  /\ UNCHANGED ended /\ EndUnchanged

\* The 'close' events, and who hears them.
CltCloses ==
  /\ clt = "closing"
  /\ IF watched
     THEN CleanupRelay("closed", conn)
     ELSE clt' = "closed" /\ UNCHANGED <<conn, cleaned, timers>>
  /\ UNCHANGED ended /\ EndUnchanged

ConnCloses ==
  /\ conn = "closing"
  /\ IF phase = "gone"
     THEN conn' = "closed" /\ UNCHANGED <<clt, cleaned, timers>>
     ELSE CleanupRelay(clt, "closed")
  /\ UNCHANGED ended /\ EndUnchanged

\* Data restarts the timer "idle", never "max".
DrainTimeout(t) ==
  /\ t \in timers
  /\ CleanupRelay(clt, conn)
  /\ broken' = TRUE
  /\ UNCHANGED <<chainVars, ended, dataVars>>

\* The client resets its connection, or the proxy that is closed destroys it.
ClientResets ==
  /\ clt = "open"
  /\ clt' = "closing" /\ broken' = TRUE
  /\ UNCHANGED <<chainVars, conn, cleaned, timers, ended, dataVars>>

\* 'error' of the connection; the rejection counts until the relay is up.
ConnFails ==
  /\ Alive(conn)
  /\ CleanupRelay(clt, "closing")
  /\ broken' = TRUE
  /\ phase' = IF phase = "relay" THEN phase ELSE "failed"
  /\ UNCHANGED <<tunnel, kind, answered, joined, watched, ended, dataVars>>

------------------------------------------------------------------------------

ConnectNext ==
  \/ RuleAnswers \/ ResponseWritten \/ FirstBytes \/ EndsBeforeData \/ StartRelay
  \/ ChainFails \/ ChainHangsUp \/ CustomResolves \/ ConnReady \/ AnswerWritten
  \/ RequestData \/ RequestEnd \/ PipeUp \/ PipeDown \/ ServerTakes \/ ClientTakes
  \/ ClientEnds \/ UpstreamEnds \/ ConnFinishes \/ CltFinishes
  \/ CltCloses \/ ConnCloses \/ ClientResets \/ ConnFails
  \/ \E t \in {"idle", "max"} : DrainTimeout(t)

\* The event loop emits the events that are due and runs its timers; the two
\* peers owe nothing.
ConnectSpec ==
  /\ ConnectInit /\ [][ConnectNext]_connectVars
  /\ WF_connectVars(CltCloses) /\ WF_connectVars(ConnCloses) /\ WF_connectVars(DrainTimeout("max"))

------------------------------------------------------------------------------
(* Properties *)

(* Types; and a drain timer is armed only in a half-closed relay that has  *)
(* not been cleaned up.                                                    *)
ConnectTypeOK ==
  /\ tunnel \in BOOLEAN /\ answered \in BOOLEAN /\ watched \in BOOLEAN
  /\ phase \in {"rule", "write", "first", "target", "custom", "silent", "answer",
                "relay", "gone", "failed"}
  /\ kind \in {"none", "direct", "chain", "tunnel"}
  /\ clt \in {"open", "closing", "closed"}
  /\ conn \in {"none", "new", "open", "closing", "closed"}
  /\ joined \in BOOLEAN /\ cleaned \in BOOLEAN /\ broken \in BOOLEAN
  /\ timers \subseteq {"idle", "max"} /\ ended \subseteq Sides
  /\ toServer \in [buffered : Nat, written : Nat, taken : Nat]
  /\ toClient \in [written : Nat, taken : Nat]
  /\ eof \in BOOLEAN /\ paused \subseteq {"up", "down"}
  /\ timers # {} => ended # {} /\ ~cleaned

(* No socket outlives its partner: when one has emitted 'close', the other *)
(* is destroyed, however late customConnect came back.                     *)
NoOrphan ==
  /\ clt = "closed" => ~Alive(conn)
  /\ conn = "closed" => clt # "open"

(* The client's end leaves the way back open: as long as the server has    *)
(* not ended, only an error, a reset or a timer takes the client's socket  *)
(* from a relay.                                                           *)
WayBackStays == joined /\ clt # "open" => broken \/ "upstream" \in ended

(* A response is drained: what was written for the client is taken before  *)
(* its socket closes, unless an error, a reset or a timer cuts the relay.  *)
(* The code drops the rest when the second side ends, and when the         *)
(* server's socket, ended and flushed, closes by itself.                   *)
ResponseIsDrained ==
  clt = "closed" /\ ~broken => toClient.taken = toClient.written

(* A relay one side of which has ended does not stay: both sockets close.  *)
HalfCloseEnds == ended # {} ~> clt = "closed" /\ conn = "closed"
==============================================================================
