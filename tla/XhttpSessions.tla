---------------------------- MODULE XhttpSessions ----------------------------
(***************************************************************************)
(* The session table of the xhttp transport (src/tunnel/xhttpHandler.js):  *)
(* creation and takeover, the SSE streams that come and go, the clean-up   *)
(* and keepalive timers, the PING probe, the liveness sweeper.             *)
(*                                                                         *)
(* All handlers run to completion on the event loop, so each is one        *)
(* action.  Requests arrive in any order, streams break at any time, and a *)
(* timer that is armed may fire before or after anything else: no relation *)
(* between the timers' periods is assumed.  One set of credentials is in   *)
(* use for the life of the handler, hence one token and no token here.     *)
(*                                                                         *)
(* A session identifier is never reused (crypto.randomUUID).  A stream is  *)
(* numbered by the _sessionOrder it was given; its 'close' event arrives   *)
(* some time after either side ended it.                                   *)
(***************************************************************************)
EXTENDS Naturals, FiniteSets

CONSTANTS
  Clients,       \* client identifiers
  Sids,          \* session identifiers
  None,          \* no client, no session
  MaxAttempts,   \* _pongProbeMaxAttempts (10)
  MaxStreams,    \* bound of the model: SSE streams opened in a behaviour
  MaxUploads     \* bound of the model: payloads a session may have waiting

ASSUME NoneAssumption == None \notin Clients /\ None \notin Sids
ASSUME MaxAttemptsAssumption == MaxAttempts \in Nat \ {0}
ASSUME BoundsAssumption == MaxStreams \in Nat /\ MaxUploads \in Nat

NoStream == 0
Streams == 1 .. MaxStreams

\* How long ago the last frame came (now - lastActivityAt): within the
\* takeover grace, beyond it (60 s), beyond the liveness timeout (90 s).
Recent == 0
GraceOver == 1
Stale == 2

VARIABLES
  status,      \* "unused", "open" (in _sessions) or "closed"
  owner,       \* session.clientId
  sse,         \* the stream held in session.sseRes, NoStream for null
  writable,    \* the held stream takes writes (FALSE: ended, or write throws)
  order,       \* session.connectedOrder
  cleanup,     \* session.cleanupTimer is armed
  keepalive,   \* session.keepaliveTimer is armed
  probe,       \* session.pongProbeTimer is armed
  attempts,    \* session.pingAttempts
  pinged,      \* history: the last unanswered PING went to the held stream
  idle,        \* age of session.lastActivityAt
  backlog,     \* payloads delivered to the consume loop, the first in hand
  sessionOrder,\* _sessionOrder
  streamOf,    \* the session each stream was opened for
  live,        \* streams whose 'close' event is still to come
  sweeper      \* the liveness interval is running

sessionVars == <<status, owner, sse, writable, order, cleanup, keepalive, probe,
                 attempts, pinged, idle, backlog>>
streamVars == <<sessionOrder, streamOf, live>>
vars == <<status, owner, sse, writable, order, cleanup, keepalive, probe,
          attempts, pinged, idle, backlog, sessionOrder, streamOf, live, sweeper>>

Open == {s \in Sids : status[s] = "open"}

Init ==
  /\ status = [s \in Sids |-> "unused"]
  /\ owner = [s \in Sids |-> None]
  /\ sse = [s \in Sids |-> NoStream]
  /\ writable = [s \in Sids |-> TRUE]
  /\ order = [s \in Sids |-> 0]
  /\ cleanup = [s \in Sids |-> FALSE]
  /\ keepalive = [s \in Sids |-> FALSE]
  /\ probe = [s \in Sids |-> FALSE]
  /\ attempts = [s \in Sids |-> 0]
  /\ pinged = [s \in Sids |-> FALSE]
  /\ idle = [s \in Sids |-> Recent]
  /\ backlog = [s \in Sids |-> 0]
  /\ sessionOrder = 0
  /\ streamOf = [n \in Streams |-> None]
  /\ live = {}
  /\ sweeper = TRUE

------------------------------------------------------------------------------
(* _closeSession, for every session of S; f[s] becomes v there.  Nobody    *)
(* reads the counters of a closed session again: they are put back to what *)
(* they are in a new one.                                                  *)
At(S, f, v) == [s \in Sids |-> IF s \in S THEN v ELSE f[s]]

\* The queue closes: of its payloads only the one in the loop's hands is
\* still processed.
CloseBacklog(S) ==
  [s \in Sids |-> IF s \in S /\ backlog[s] > 1 THEN 1 ELSE backlog[s]]

\* Faulty variant: the keepalive timer is left armed.
CloseSessionsKeepalive(S) ==
  /\ status' = At(S, status, "closed")
  /\ cleanup' = At(S, cleanup, FALSE)
  /\ probe' = At(S, probe, FALSE)
  /\ sse' = At(S, sse, NoStream)
  /\ writable' = At(S, writable, TRUE)
  /\ pinged' = At(S, pinged, FALSE)
  /\ attempts' = At(S, attempts, 0)
  /\ idle' = At(S, idle, Recent)
  /\ backlog' = CloseBacklog(S)
  /\ UNCHANGED <<owner, order, keepalive, streamVars>>

CloseSessions(S) ==
  /\ status' = At(S, status, "closed")
  /\ cleanup' = At(S, cleanup, FALSE)
  /\ keepalive' = At(S, keepalive, FALSE)
  /\ probe' = At(S, probe, FALSE)
  /\ sse' = At(S, sse, NoStream)
  /\ writable' = At(S, writable, TRUE)
  /\ pinged' = At(S, pinged, FALSE)
  /\ attempts' = At(S, attempts, 0)
  /\ idle' = At(S, idle, Recent)
  /\ backlog' = CloseBacklog(S)
  /\ UNCHANGED <<owner, order, streamVars>>

------------------------------------------------------------------------------
(* Requests *)

\* Faulty variant: sessions of others count only with a stream.
ForeignStreams(c) == {s \in Open : owner[s] # c /\ sse[s] # NoStream}

Foreign(c) == {s \in Open : owner[s] # c}

\* Faulty variant: whoever has no stream is taken for the requester's.
AllZombies(c) == {s \in Open : sse[s] = NoStream}

\* Faulty variant: a client's own sessions are closed with their streams.
OwnSessions(c) == {s \in Open : owner[s] = c}

Zombies(c) == {s \in Open : owner[s] = c /\ sse[s] = NoStream}

\* Another client used the tunnel a moment ago: 409.  The requester's own
\* sessions without a stream were closed before the check.
CreateOccupied(c) ==
  /\ \E s \in Foreign(c) : idle[s] = Recent
  /\ CloseSessions(Zombies(c))
  /\ UNCHANGED sweeper

CreateSession(c, n) ==
  /\ status[n] = "unused"
  /\ \A s \in Foreign(c) : idle[s] # Recent
  /\ LET evicted == Zombies(c) \cup Foreign(c) IN
       /\ status' = [At(evicted, status, "closed") EXCEPT ![n] = "open"]
       /\ cleanup' = [At(evicted, cleanup, FALSE) EXCEPT ![n] = TRUE]
       /\ keepalive' = At(evicted, keepalive, FALSE)
       /\ probe' = At(evicted, probe, FALSE)
       /\ sse' = At(evicted, sse, NoStream)
       /\ writable' = At(evicted, writable, TRUE)
       /\ pinged' = At(evicted, pinged, FALSE)
       /\ attempts' = At(evicted, attempts, 0)
       /\ idle' = At(evicted, idle, Recent)
       /\ backlog' = CloseBacklog(evicted)
  /\ owner' = [owner EXCEPT ![n] = c]
  /\ UNCHANGED <<order, streamVars, sweeper>>

Create(c) == CreateOccupied(c) \/ \E n \in Sids : CreateSession(c, n)

\* POST /close with the token.
CloseRequest(s) ==
  /\ s \in Open
  /\ CloseSessions({s})
  /\ UNCHANGED sweeper

\* GET /stream by the owner.  The old stream is ended, its 'close' event
\* comes later and then finds another stream in sseRes.  The count of PINGs
\* and an armed probe stay as they are.
OpenStream(s, c) ==
  /\ s \in Open
  /\ c = owner[s]
  /\ sessionOrder < MaxStreams
  /\ LET n == sessionOrder + 1 IN
       /\ sessionOrder' = n
       /\ sse' = [sse EXCEPT ![s] = n]
       /\ order' = [order EXCEPT ![s] = n]
       /\ streamOf' = [streamOf EXCEPT ![n] = s]
       /\ live' = live \cup {n}
  /\ writable' = [writable EXCEPT ![s] = TRUE]
  /\ pinged' = [pinged EXCEPT ![s] = FALSE]
  /\ cleanup' = [cleanup EXCEPT ![s] = FALSE]
  /\ keepalive' = [keepalive EXCEPT ![s] = TRUE]
  /\ UNCHANGED <<status, owner, probe, attempts, idle, backlog, sweeper>>

\* The response in sseRes has ended, or its write throws from now on.
StreamFails(s) ==
  /\ s \in Open /\ sse[s] # NoStream
  /\ writable[s]
  /\ writable' = [writable EXCEPT ![s] = FALSE]
  /\ UNCHANGED <<status, owner, sse, order, cleanup, keepalive, probe, attempts,
                 pinged, idle, backlog, streamVars, sweeper>>

\* Faulty variant: the event is taken for the current stream's.
HoldsAny(s, n) == s \in Open

\* Faulty variant: the test is inverted.
HoldsOther(s, n) == s \in Open /\ sse[s] # n

\* The session still holds stream n (session.sseRes === res).
Holds(s, n) == s \in Open /\ sse[s] = n

\* handleSseClose: the event of stream n.
StreamClosed(n) ==
  LET s == streamOf[n] IN
  /\ n \in live
  /\ live' = live \ {n}
  /\ IF Holds(s, n)
     THEN /\ sse' = [sse EXCEPT ![s] = NoStream]
          /\ writable' = [writable EXCEPT ![s] = TRUE]
          /\ pinged' = [pinged EXCEPT ![s] = FALSE]
          /\ probe' = [probe EXCEPT ![s] = FALSE]
          /\ keepalive' = [keepalive EXCEPT ![s] = FALSE]
          /\ cleanup' = [cleanup EXCEPT ![s] = TRUE]
     ELSE UNCHANGED <<sse, writable, pinged, probe, keepalive, cleanup>>
  /\ UNCHANGED <<status, owner, order, attempts, idle, backlog, sessionOrder,
                 streamOf, sweeper>>

\* POST /upload: the payload becomes deliverable.  Ordering and buffering
\* are the subject of module UploadQueue.
Upload(s) ==
  /\ s \in Open
  /\ backlog[s] < MaxUploads
  /\ backlog' = [backlog EXCEPT ![s] = @ + 1]
  /\ UNCHANGED <<status, owner, sse, writable, order, cleanup, keepalive, probe,
                 attempts, pinged, idle, streamVars, sweeper>>

\* push() refused the payload: the reorder buffer is full.
UploadOverflow(s) ==
  /\ s \in Open
  /\ CloseSessions({s})
  /\ UNCHANGED sweeper

------------------------------------------------------------------------------
(* The consume loop *)

\* Faulty variant: an answer leaves the probe timer armed.
HandlePayloadKeepsProbe(s) ==
  /\ backlog[s] > 0
  /\ backlog' = [backlog EXCEPT ![s] = @ - 1]
  /\ idle' = [idle EXCEPT ![s] = Recent]
  /\ attempts' = [attempts EXCEPT ![s] = 0]
  /\ pinged' = [pinged EXCEPT ![s] = FALSE]
  /\ UNCHANGED <<status, owner, sse, writable, order, cleanup, keepalive, probe,
                 streamVars, sweeper>>

\* One payload and its frames; also the one in hand of a closed session.
HandlePayload(s) ==
  /\ backlog[s] > 0
  /\ backlog' = [backlog EXCEPT ![s] = @ - 1]
  /\ idle' = [idle EXCEPT ![s] = Recent]
  /\ attempts' = [attempts EXCEPT ![s] = 0]
  /\ pinged' = [pinged EXCEPT ![s] = FALSE]
  /\ probe' = [probe EXCEPT ![s] = FALSE]
  /\ UNCHANGED <<status, owner, sse, writable, order, cleanup, keepalive,
                 streamVars, sweeper>>

\* decodeFrames rejected the payload: the loop goes on with the next.
SkipPayload(s) ==
  /\ backlog[s] > 0
  /\ backlog' = [backlog EXCEPT ![s] = @ - 1]
  /\ UNCHANGED <<status, owner, sse, writable, order, cleanup, keepalive, probe,
                 attempts, pinged, idle, streamVars, sweeper>>

------------------------------------------------------------------------------
(* Timers *)

Age(s) ==
  /\ s \in Open
  /\ idle[s] < Stale
  /\ idle' = [idle EXCEPT ![s] = @ + 1]
  /\ UNCHANGED <<status, owner, sse, writable, order, cleanup, keepalive, probe,
                 attempts, pinged, backlog, streamVars, sweeper>>

CleanupFires(s) ==
  /\ cleanup[s]
  /\ sse[s] = NoStream
  /\ CloseSessions({s})
  /\ UNCHANGED sweeper

\* Faulty variant: the probe timer is not armed again.
SendProbePingUnwatched(s) ==
  /\ writable[s]
  /\ attempts' = [attempts EXCEPT ![s] = @ + 1]
  /\ pinged' = [pinged EXCEPT ![s] = TRUE]
  /\ probe' = [probe EXCEPT ![s] = FALSE]
  /\ keepalive' = [keepalive EXCEPT ![s] = TRUE]
  /\ UNCHANGED <<status, owner, sse, writable, order, cleanup, idle, backlog,
                 streamVars, sweeper>>

\* _sendProbePing on a stream that takes it: one more PING, and both timers
\* armed again.
SendProbePing(s) ==
  /\ writable[s]
  /\ attempts' = [attempts EXCEPT ![s] = @ + 1]
  /\ pinged' = [pinged EXCEPT ![s] = TRUE]
  /\ probe' = [probe EXCEPT ![s] = TRUE]
  /\ keepalive' = [keepalive EXCEPT ![s] = TRUE]
  /\ UNCHANGED <<status, owner, sse, writable, order, cleanup, idle, backlog,
                 streamVars, sweeper>>

\* Nothing can be sent: the timer that fired is gone and not armed again.
TimerGone(s) ==
  /\ ~writable[s]
  /\ UNCHANGED <<status, owner, sse, writable, order, cleanup, attempts, pinged,
                 idle, backlog, streamVars, sweeper>>

\* Faulty variant: not scheduled again while a PING is unanswered.
KeepaliveFiresOnce(s) ==
  /\ keepalive[s] /\ sse[s] # NoStream
  /\ \/ /\ writable[s] /\ attempts[s] > 0
        /\ keepalive' = [keepalive EXCEPT ![s] = FALSE]
        /\ UNCHANGED <<status, owner, sse, writable, order, cleanup, probe,
                       attempts, pinged, idle, backlog, streamVars, sweeper>>
     \/ attempts[s] = 0 /\ SendProbePing(s)
     \/ /\ TimerGone(s)
        /\ keepalive' = [keepalive EXCEPT ![s] = FALSE] /\ UNCHANGED probe

\* While a PING is unanswered the timer is scheduled again, nothing is sent.
KeepaliveFires(s) ==
  /\ keepalive[s] /\ sse[s] # NoStream
  /\ \/ writable[s] /\ attempts[s] > 0 /\ UNCHANGED vars
     \/ attempts[s] = 0 /\ SendProbePing(s)
     \/ /\ TimerGone(s)
        /\ keepalive' = [keepalive EXCEPT ![s] = FALSE] /\ UNCHANGED probe

\* Faulty variant: one PING too many.
ProbeFiresOnceMore(s) ==
  /\ probe[s]
  /\ s \in Open /\ sse[s] # NoStream /\ attempts[s] > 0
  /\ \/ /\ attempts[s] > MaxAttempts
        /\ CloseSessions({s}) /\ UNCHANGED sweeper
     \/ attempts[s] <= MaxAttempts /\ SendProbePing(s)
     \/ /\ attempts[s] <= MaxAttempts /\ TimerGone(s)
        /\ probe' = [probe EXCEPT ![s] = FALSE] /\ UNCHANGED keepalive

ProbeFires(s) ==
  /\ probe[s]
  /\ s \in Open /\ sse[s] # NoStream /\ attempts[s] > 0
  /\ \/ /\ attempts[s] >= MaxAttempts
        /\ CloseSessions({s}) /\ UNCHANGED sweeper
     \/ attempts[s] < MaxAttempts /\ SendProbePing(s)
     \/ /\ attempts[s] < MaxAttempts /\ TimerGone(s)
        /\ probe' = [probe EXCEPT ![s] = FALSE] /\ UNCHANGED keepalive

\* Faulty variant: only sessions without a stream are swept.
SweepUnstreamed ==
  LET dead == {s \in Open : sse[s] = NoStream /\ idle[s] = Stale} IN
  /\ sweeper
  /\ dead # {}
  /\ CloseSessions(dead)
  /\ UNCHANGED sweeper

SweepStaleSessions ==
  LET dead == {s \in Open : sse[s] # NoStream /\ idle[s] = Stale} IN
  /\ sweeper
  /\ dead # {}
  /\ CloseSessions(dead)
  /\ UNCHANGED sweeper

\* TunnelServer.stop: every session is closed and the sweeper is stopped.
CloseAll ==
  /\ sweeper
  /\ sweeper' = FALSE
  /\ CloseSessions(Open)

------------------------------------------------------------------------------
Requests ==
  \/ \E c \in Clients : CreateOccupied(c)
  \/ \E c \in Clients, n \in Sids : CreateSession(c, n)
  \/ \E s \in Sids : CloseRequest(s)
  \/ \E s \in Sids, c \in Clients : OpenStream(s, c)
  \/ \E s \in Sids : StreamFails(s)
  \/ \E n \in Streams : StreamClosed(n)
  \/ \E s \in Sids : Upload(s)
  \/ \E s \in Sids : UploadOverflow(s)

ConsumeLoop == \E s \in Sids : HandlePayload(s) \/ SkipPayload(s)

Timers ==
  \/ \E s \in Sids : Age(s)
  \/ \E s \in Sids : CleanupFires(s)
  \/ \E s \in Sids : KeepaliveFires(s)
  \/ \E s \in Sids : ProbeFires(s)
  \/ SweepStaleSessions

Next == Requests \/ ConsumeLoop \/ Timers \/ CloseAll

Spec == Init /\ [][Next]_vars

(* Time passes, the clean-up timer and the sweeper's interval fire;        *)
(* requests, PINGs, probes and the loop owe nothing.                       *)
Fairness ==
  /\ \A s \in Sids : WF_vars(Age(s)) /\ WF_vars(CleanupFires(s))
  /\ WF_vars(SweepStaleSessions)

------------------------------------------------------------------------------
(* getActiveSessionId: the session whose stream was opened last; older     *)
(* sessions with a stream are draining.                                    *)
Streaming == {s \in Open : sse[s] # NoStream}

\* Faulty variant: the oldest stream wins.
OldestSession ==
  IF Streaming = {} THEN None
  ELSE CHOOSE s \in Streaming : \A t \in Streaming : order[s] <= order[t]

\* Faulty variant: a session is active before it has a stream.
NewestOpenSession ==
  IF Open = {} THEN None
  ELSE CHOOSE s \in Open : \A t \in Open : order[t] <= order[s]

ActiveSession ==
  IF Streaming = {} THEN None
  ELSE CHOOSE s \in Streaming : \A t \in Streaming : order[t] <= order[s]

------------------------------------------------------------------------------
(* Properties *)

TypeOK ==
  /\ status \in [Sids -> {"unused", "open", "closed"}]
  /\ owner \in [Sids -> Clients \cup {None}]
  /\ sse \in [Sids -> Streams \cup {NoStream}]
  /\ writable \in [Sids -> BOOLEAN]
  /\ order \in [Sids -> Nat]
  /\ cleanup \in [Sids -> BOOLEAN]
  /\ keepalive \in [Sids -> BOOLEAN]
  /\ probe \in [Sids -> BOOLEAN]
  /\ attempts \in [Sids -> 0 .. MaxAttempts]
  /\ pinged \in [Sids -> BOOLEAN]
  /\ idle \in [Sids -> {Recent, GraceOver, Stale}]
  /\ backlog \in [Sids -> 0 .. MaxUploads]
  /\ sessionOrder \in 0 .. MaxStreams
  /\ streamOf \in [Streams -> Sids \cup {None}]
  /\ live \subseteq Streams
  /\ sweeper \in BOOLEAN

(* The tunnel belongs to one client at a time, whatever creates, takeovers *)
(* and rotations overlap (_handleCreate).                                  *)
OneOwner == \A s, t \in Open : owner[s] = owner[t]

(* The stream a session believes in is its newest one, was opened for it,  *)
(* and its 'close' event is still to come, so its loss will be noticed.    *)
StreamAccounted ==
  \A s \in Streaming :
    /\ order[s] = sse[s]
    /\ sse[s] \in live
    /\ streamOf[sse[s]] = s

(* No session is forgotten.  One without a stream has its clean-up timer   *)
(* running.  One whose stream takes writes has keepalive running, which    *)
(* sends the next PING, and once a PING went out on this stream and is not *)
(* answered the probe that counts to the end is armed.  That leaves two    *)
(* cases with no timer of their own: a stream that takes no writes waits   *)
(* for its 'close', and a session that reconnected with an unanswered PING *)
(* of its last stream (keepalive then only schedules itself) waits for a   *)
(* frame or for the sweeper.                                               *)
Watched ==
  \A s \in Open :
    IF sse[s] = NoStream THEN cleanup[s]
    ELSE writable[s] => /\ keepalive[s]
                        /\ attempts[s] > 0 /\ pinged[s] => probe[s]

(* No timer of a closed session is left armed, and none that needs a       *)
(* stream outlives the stream.                                             *)
TimersEndWithSession ==
  \A s \in Sids :
    /\ s \notin Open => ~cleanup[s]
    /\ s \notin Streaming => ~keepalive[s] /\ ~probe[s]

(* A probe timer is only armed for a PING that was sent and not answered.  *)
ProbeFollowsPing == \A s \in Sids : probe[s] => attempts[s] > 0

(* Every open session is watched as far as its stream allows, no timer     *)
(* outlives what it watches, and a probe waits for a PING that was sent.   *)
TimersSound == Watched /\ TimersEndWithSession /\ ProbeFollowsPing

(* The late 'close' of a replaced stream takes nothing from its session:   *)
(* only the loss of the session's own stream changes it.                   *)
OldStreamIsHarmless ==
  [][\A n \in live \ live' : \A s \in Open :
       sse[s] # n => /\ sse'[s] = sse[s]
                     /\ keepalive'[s] = keepalive[s]
                     /\ probe'[s] = probe[s]
                     /\ cleanup'[s] = cleanup[s]]_vars

(* A create closes only sessions without a stream of the client that asks  *)
(* and, when it is granted, sessions of others that were silent for longer *)
(* than the grace; one that is refused takes nothing from another client.  *)
(* And while the active session keeps its stream, only a newer stream      *)
(* takes its place: traffic never returns to a draining session.           *)
SessionsMoveForward ==
  [][/\ \A s \in Open \ Open', c \in Clients : Create(c) =>
          IF owner[s] = c THEN sse[s] = NoStream
          ELSE idle[s] # Recent /\ ~(Open' \subseteq Open)
     /\ \/ ActiveSession' = ActiveSession
        \/ ActiveSession \notin Streaming'
        \/ order'[ActiveSession'] > sessionOrder]_vars

(* A session whose client has gone silent is removed: one that stays open  *)
(* while the sweeper runs keeps receiving frames.                          *)
SilentSessionEnds ==
  \A s \in Sids :
    <>[](s \in Open /\ sweeper) => []<><<HandlePayload(s)>>_vars

(* To the tunnel manager the handler is the session table of SessionTable. *)
Table == INSTANCE SessionTable WITH
  open   <- Open,
  gone   <- {s \in Sids : status[s] = "closed"},
  active <- ActiveSession

TableSpec == Table!Spec
==============================================================================
