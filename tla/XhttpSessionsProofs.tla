------------------------- MODULE XhttpSessionsProofs -------------------------
(***************************************************************************)
(* Proofs about module XhttpSessions, for any number of clients, sessions  *)
(* and streams.                                                            *)
(***************************************************************************)
EXTENDS TunnelServer, WellFoundedInduction, TLAPS

-----------------------------------------------------------------------------
(* Type correctness                                                        *)

(* Closing sessions keeps every variable in its type.                      *)
LEMMA CloseKeepsTypes ==
  ASSUME TypeOK, NEW S, CloseSessions(S), UNCHANGED sweeper
  PROVE  TypeOK'
<1>1. CloseBacklog(S) \in [Sids -> 0 .. MaxUploads]
  <2>1. \A s \in Sids : backlog[s] \in 0 .. MaxUploads
    BY DEF TypeOK
  <2>2. \A k \in 0 .. MaxUploads : k > 1 => 1 \in 0 .. MaxUploads
    BY BoundsAssumption
  <2> QED BY <2>1, <2>2 DEF CloseBacklog
<1>2. /\ backlog' \in [Sids -> 0 .. MaxUploads]
      /\ status' \in [Sids -> {"unused", "open", "closed"}]
      /\ cleanup' \in [Sids -> BOOLEAN]
      /\ keepalive' \in [Sids -> BOOLEAN]
      /\ probe' \in [Sids -> BOOLEAN]
      /\ sse' \in [Sids -> Streams \cup {NoStream}]
  BY <1>1 DEF TypeOK, CloseSessions, At
<1>3. /\ writable' \in [Sids -> BOOLEAN]
      /\ pinged' \in [Sids -> BOOLEAN]
      /\ idle' \in [Sids -> {Recent, GraceOver, Stale}]
      /\ attempts' \in [Sids -> 0 .. MaxAttempts]
  <2>1. 0 \in 0 .. MaxAttempts
    BY MaxAttemptsAssumption
  <2> QED BY <2>1 DEF TypeOK, CloseSessions, At
<1> QED BY <1>2, <1>3 DEF TypeOK, CloseSessions, streamVars

(* One more PING leaves attempts within the maximum.                       *)
LEMMA PingKeepsTypes ==
  ASSUME TypeOK, NEW s \in Sids, attempts[s] < MaxAttempts, SendProbePing(s)
  PROVE  TypeOK'
<1>1. attempts[s] + 1 \in 0 .. MaxAttempts
  <2>1. attempts[s] \in 0 .. MaxAttempts
    BY DEF TypeOK
  <2> QED BY <2>1, MaxAttemptsAssumption
<1>2. attempts' \in [Sids -> 0 .. MaxAttempts]
  BY <1>1 DEF TypeOK, SendProbePing
<1> QED BY <1>2 DEF TypeOK, SendProbePing, streamVars

LEMMA TypeStep == TypeOK /\ [Next]_vars => TypeOK'
<1> SUFFICES ASSUME TypeOK, [Next]_vars PROVE TypeOK'
  OBVIOUS
<1>1. ASSUME NEW c \in Clients, CreateOccupied(c) PROVE TypeOK'
  BY <1>1, CloseKeepsTypes DEF CreateOccupied
<1>2. ASSUME NEW c \in Clients, NEW n \in Sids, CreateSession(c, n)
      PROVE TypeOK'
  <2> DEFINE E == Zombies(c) \cup Foreign(c)
  <2>1. CloseBacklog(E) \in [Sids -> 0 .. MaxUploads]
    <3>1. \A s \in Sids : backlog[s] \in 0 .. MaxUploads
      BY DEF TypeOK
    <3>2. \A k \in 0 .. MaxUploads : k > 1 => 1 \in 0 .. MaxUploads
      BY BoundsAssumption
    <3> QED BY <3>1, <3>2 DEF CloseBacklog
  <2>2. /\ status' = [At(E, status, "closed") EXCEPT ![n] = "open"]
        /\ cleanup' = [At(E, cleanup, FALSE) EXCEPT ![n] = TRUE]
        /\ keepalive' = At(E, keepalive, FALSE)
        /\ probe' = At(E, probe, FALSE)
        /\ sse' = At(E, sse, NoStream)
        /\ writable' = At(E, writable, TRUE)
        /\ pinged' = At(E, pinged, FALSE)
        /\ attempts' = At(E, attempts, 0)
        /\ idle' = At(E, idle, Recent)
        /\ backlog' = CloseBacklog(E)
        /\ owner' = [owner EXCEPT ![n] = c]
    BY <1>2 DEF CreateSession
  <2> HIDE DEF E
  <2>3. /\ status' \in [Sids -> {"unused", "open", "closed"}]
        /\ cleanup' \in [Sids -> BOOLEAN]
        /\ keepalive' \in [Sids -> BOOLEAN]
        /\ probe' \in [Sids -> BOOLEAN]
        /\ sse' \in [Sids -> Streams \cup {NoStream}]
        /\ owner' \in [Sids -> Clients \cup {None}]
    BY <2>2 DEF TypeOK, At
  <2>4. /\ writable' \in [Sids -> BOOLEAN]
        /\ pinged' \in [Sids -> BOOLEAN]
        /\ idle' \in [Sids -> {Recent, GraceOver, Stale}]
        /\ attempts' \in [Sids -> 0 .. MaxAttempts]
    <3>1. 0 \in 0 .. MaxAttempts
      BY MaxAttemptsAssumption
    <3> QED BY <2>2, <3>1 DEF TypeOK, At
  <2> QED BY <1>2, <2>1, <2>2, <2>3, <2>4 DEF TypeOK, CreateSession, streamVars
<1>3. ASSUME NEW s \in Sids, CloseRequest(s) \/ UploadOverflow(s)
                             \/ CleanupFires(s)
      PROVE TypeOK'
  BY <1>3, CloseKeepsTypes DEF CloseRequest, UploadOverflow, CleanupFires
<1>4. ASSUME NEW s \in Sids, NEW c \in Clients, OpenStream(s, c) PROVE TypeOK'
  <2>1. sessionOrder + 1 \in Streams /\ sessionOrder + 1 \in 0 .. MaxStreams
        /\ sessionOrder + 1 \in Nat
    BY <1>4, BoundsAssumption DEF TypeOK, OpenStream, Streams
  <2> QED BY <1>4, <2>1 DEF TypeOK, OpenStream
<1>5. ASSUME NEW n \in Streams, StreamClosed(n) PROVE TypeOK'
  <2>1. live' \subseteq Streams
    BY <1>5 DEF TypeOK, StreamClosed
  <2>2. CASE Holds(streamOf[n], n)
    <3>1. PICK s \in Sids : s = streamOf[n]
      BY <2>2 DEF Holds, Open
    <3>2. /\ sse' = [sse EXCEPT ![s] = NoStream]
          /\ writable' = [writable EXCEPT ![s] = TRUE]
          /\ pinged' = [pinged EXCEPT ![s] = FALSE]
          /\ probe' = [probe EXCEPT ![s] = FALSE]
          /\ keepalive' = [keepalive EXCEPT ![s] = FALSE]
          /\ cleanup' = [cleanup EXCEPT ![s] = TRUE]
      BY <1>5, <2>2, <3>1 DEF StreamClosed
    <3> QED BY <1>5, <2>1, <3>2 DEF TypeOK, StreamClosed
  <2>3. CASE ~Holds(streamOf[n], n)
    BY <1>5, <2>1, <2>3 DEF TypeOK, StreamClosed
  <2> QED BY <2>2, <2>3
<1>6. ASSUME NEW s \in Sids, Upload(s) PROVE TypeOK'
  <2>1. backlog[s] + 1 \in 0 .. MaxUploads
    BY <1>6, BoundsAssumption DEF TypeOK, Upload
  <2> QED BY <1>6, <2>1 DEF TypeOK, Upload, streamVars
<1>7. ASSUME NEW s \in Sids, HandlePayload(s) \/ SkipPayload(s) PROVE TypeOK'
  <2>1. backlog[s] - 1 \in 0 .. MaxUploads /\ 0 \in 0 .. MaxAttempts
    BY <1>7, BoundsAssumption, MaxAttemptsAssumption
       DEF TypeOK, HandlePayload, SkipPayload
  <2>2. CASE HandlePayload(s)
    BY <2>1, <2>2 DEF TypeOK, HandlePayload, streamVars
  <2>3. CASE SkipPayload(s)
    BY <2>1, <2>3 DEF TypeOK, SkipPayload, streamVars
  <2> QED BY <1>7, <2>2, <2>3
<1>8. ASSUME NEW s \in Sids, Age(s) PROVE TypeOK'
  <2>1. idle[s] + 1 \in {Recent, GraceOver, Stale}
    BY <1>8 DEF TypeOK, Age, Recent, GraceOver, Stale
  <2> QED BY <1>8, <2>1 DEF TypeOK, Age, streamVars
<1>9. ASSUME NEW s \in Sids, KeepaliveFires(s) PROVE TypeOK'
  <2>1. CASE UNCHANGED vars
    BY <2>1 DEF TypeOK, vars
  <2>2. CASE attempts[s] = 0 /\ SendProbePing(s)
    <3>1. attempts[s] < MaxAttempts
      BY <2>2, MaxAttemptsAssumption DEF TypeOK
    <3> QED BY <2>2, <3>1, PingKeepsTypes
  <2>3. CASE /\ TimerGone(s) /\ UNCHANGED probe
             /\ keepalive' = [keepalive EXCEPT ![s] = FALSE]
    BY <2>3 DEF TypeOK, TimerGone, streamVars
  <2> QED BY <1>9, <2>1, <2>2, <2>3 DEF KeepaliveFires
<1>10. ASSUME NEW s \in Sids, ProbeFires(s) PROVE TypeOK'
  <2>1. CASE CloseSessions({s}) /\ UNCHANGED sweeper
    BY <2>1, CloseKeepsTypes
  <2>2. CASE attempts[s] < MaxAttempts /\ SendProbePing(s)
    BY <2>2, PingKeepsTypes
  <2>3. CASE /\ TimerGone(s) /\ UNCHANGED keepalive
             /\ probe' = [probe EXCEPT ![s] = FALSE]
    BY <2>3 DEF TypeOK, TimerGone, streamVars
  <2> QED BY <1>10, <2>1, <2>2, <2>3 DEF ProbeFires
<1>11. CASE SweepStaleSessions
  BY <1>11, CloseKeepsTypes DEF SweepStaleSessions
<1>12. CASE CloseAll
  <2>1. CloseBacklog(Open) \in [Sids -> 0 .. MaxUploads]
    <3>1. \A s \in Sids : backlog[s] \in 0 .. MaxUploads
      BY DEF TypeOK
    <3>2. \A k \in 0 .. MaxUploads : k > 1 => 1 \in 0 .. MaxUploads
      BY BoundsAssumption
    <3> QED BY <3>1, <3>2 DEF CloseBacklog
  <2>2. 0 \in 0 .. MaxAttempts
    BY MaxAttemptsAssumption
  <2> QED BY <1>12, <2>1, <2>2
          DEF TypeOK, CloseAll, CloseSessions, At, streamVars
<1>13. CASE UNCHANGED vars
  BY <1>13 DEF TypeOK, vars
<1>14. ASSUME NEW s \in Sids, StreamFails(s) PROVE TypeOK'
  BY <1>14 DEF TypeOK, StreamFails, streamVars
<1> QED BY <1>1, <1>2, <1>3, <1>4, <1>5, <1>6, <1>7, <1>8, <1>9, <1>10,
           <1>11, <1>12, <1>13, <1>14 DEF Next, Requests, ConsumeLoop, Timers

(* Every variable keeps its type; in particular a client that never        *)
(* answers is sent at most MaxAttempts PINGs.                              *)
THEOREM TypeCorrect == Spec => []TypeOK
<1>1. Init => TypeOK
  BY BoundsAssumption, MaxAttemptsAssumption
  DEF Init, TypeOK, Recent, GraceOver, Stale
<1> QED BY <1>1, TypeStep, PTL DEF Spec

-----------------------------------------------------------------------------
(* One owner                                                               *)

(* Closing sessions of a set opens none.                                   *)
LEMMA CloseOnlyShrinks ==
  ASSUME NEW S, CloseSessions(S)
  PROVE  Open' \subseteq Open /\ owner' = owner
BY DEF CloseSessions, At, Open

(* No two clients ever hold the tunnel at the same time: a create closes   *)
(* the sessions of every other client before it adds its own.              *)
THEOREM OneClientAtATime == Spec => []OneOwner
<1>1. Init => OneOwner
  BY DEF Init, OneOwner, Open
<1>2. TypeOK /\ OneOwner /\ [Next]_vars => OneOwner'
  <2> SUFFICES ASSUME TypeOK, OneOwner, [Next]_vars PROVE OneOwner'
    OBVIOUS
  <2>1. ASSUME Open' \subseteq Open, owner' = owner PROVE OneOwner'
    BY <2>1 DEF OneOwner
  <2>2. ASSUME NEW c \in Clients, NEW n \in Sids, CreateSession(c, n)
        PROVE OneOwner'
    <3>1. \A s \in Open' : s = n \/ (s \in Open /\ owner[s] = c)
      BY <2>2 DEF CreateSession, At, Open, Foreign, TypeOK
    <3>2. owner' = [owner EXCEPT ![n] = c]
      BY <2>2 DEF CreateSession
    <3>3. \A s \in Open' : owner'[s] = c
      BY <3>1, <3>2 DEF TypeOK, Open
    <3> QED BY <3>3 DEF OneOwner
  <2>3. ASSUME NEW S, CloseSessions(S) PROVE OneOwner'
    BY <2>1, <2>3, CloseOnlyShrinks
  <2>4. CASE UNCHANGED <<status, owner>>
    BY <2>1, <2>4 DEF Open
  <2>5. CASE Requests
    BY <2>2, <2>3, <2>4, <2>5
    DEF Requests, CreateOccupied, CloseRequest, OpenStream, StreamFails,
        StreamClosed, Upload, UploadOverflow
  <2>6. CASE ConsumeLoop
    BY <2>4, <2>6 DEF ConsumeLoop, HandlePayload, SkipPayload
  <2>7. CASE Timers
    <3>1. ASSUME NEW s \in Sids, KeepaliveFires(s) \/ ProbeFires(s)
          PROVE OneOwner'
      BY <3>1, <2>3, <2>4
      DEF KeepaliveFires, ProbeFires, SendProbePing, TimerGone, vars
    <3> QED BY <3>1, <2>3, <2>4, <2>7
            DEF Timers, Age, CleanupFires, SweepStaleSessions
  <2>8. CASE CloseAll
    BY <2>3, <2>8 DEF CloseAll
  <2> QED BY <2>4, <2>5, <2>6, <2>7, <2>8 DEF Next, vars
<1> QED BY <1>1, <1>2, TypeCorrect, PTL DEF Spec

-----------------------------------------------------------------------------
(* Timers                                                                  *)

(* What the timers depend on: only an open session has a stream, and an    *)
(* armed probe waits for a PING.                                           *)
TimerInv ==
  /\ \A s \in Sids : s \notin Open => sse[s] = NoStream
  /\ Watched
  /\ TimersEndWithSession
  /\ ProbeFollowsPing

LEMMA CloseKeepsTimerInv ==
  ASSUME TypeOK, TimerInv, NEW S, CloseSessions(S)
  PROVE  TimerInv'
<1>1. \A s \in Sids :
        IF s \in S
        THEN /\ status'[s] = "closed" /\ ~cleanup'[s] /\ ~keepalive'[s]
             /\ ~probe'[s] /\ sse'[s] = NoStream
        ELSE /\ status'[s] = status[s] /\ cleanup'[s] = cleanup[s]
             /\ keepalive'[s] = keepalive[s] /\ probe'[s] = probe[s]
             /\ sse'[s] = sse[s] /\ writable'[s] = writable[s]
             /\ attempts'[s] = attempts[s] /\ pinged'[s] = pinged[s]
  BY DEF CloseSessions, At
<1> QED
  BY <1>1 DEF TimerInv, Watched, TimersEndWithSession, ProbeFollowsPing,
     Open, Streaming

LEMMA PingKeepsTimerInv ==
  ASSUME TypeOK, TimerInv, NEW s \in Streaming, SendProbePing(s)
  PROVE  TimerInv'
<1>1. s \in Open /\ s \in Sids /\ sse[s] # NoStream
  BY DEF Streaming, Open
<1>2. attempts' = [attempts EXCEPT ![s] = attempts[s] + 1]
  BY DEF SendProbePing
<1>3. attempts'[s] > 0
  BY <1>1, <1>2 DEF TypeOK
<1>4. Open' = Open /\ Streaming' = Streaming
  BY DEF SendProbePing, Open, Streaming
<1>5. \A t \in Sids : t # s => /\ probe'[t] = probe[t]
                               /\ keepalive'[t] = keepalive[t]
                               /\ attempts'[t] = attempts[t]
                               /\ pinged'[t] = pinged[t]
  BY <1>1, <1>2 DEF SendProbePing, TypeOK
<1>6. /\ keepalive'[s] /\ probe'[s] /\ sse' = sse /\ cleanup' = cleanup
      /\ writable' = writable
  BY <1>1 DEF SendProbePing, TypeOK
<1>7. Open \subseteq Sids
  BY DEF Open
<1>8. Watched'
  BY <1>1, <1>4, <1>5, <1>6, <1>7 DEF TimerInv, Watched
<1>9. TimersEndWithSession'
  BY <1>4, <1>5, <1>6 DEF TimerInv, TimersEndWithSession
<1>10. ProbeFollowsPing'
  BY <1>3, <1>5 DEF TimerInv, ProbeFollowsPing
<1> QED BY <1>4, <1>6, <1>8, <1>9, <1>10 DEF TimerInv

LEMMA TimerStep == TypeOK /\ TimerInv /\ [Next]_vars => TimerInv'
<1> SUFFICES ASSUME TypeOK, TimerInv, [Next]_vars PROVE TimerInv'
  OBVIOUS
<1> USE DEF TimerInv, Watched, TimersEndWithSession, ProbeFollowsPing, Open,
            Streaming, TypeOK
<1>1. ASSUME NEW S, CloseSessions(S) PROVE TimerInv'
  BY <1>1, CloseKeepsTimerInv
<1>2. ASSUME NEW c \in Clients, NEW n \in Sids, CreateSession(c, n)
      PROVE TimerInv'
  <2> DEFINE E == Zombies(c) \cup Foreign(c)
  <2>1. n \notin E
    BY <1>2 DEF CreateSession, Zombies, Foreign
  <2>2. /\ status' = [At(E, status, "closed") EXCEPT ![n] = "open"]
        /\ cleanup' = [At(E, cleanup, FALSE) EXCEPT ![n] = TRUE]
        /\ keepalive' = At(E, keepalive, FALSE)
        /\ probe' = At(E, probe, FALSE)
        /\ sse' = At(E, sse, NoStream)
        /\ writable' = At(E, writable, TRUE)
        /\ pinged' = At(E, pinged, FALSE)
        /\ attempts' = At(E, attempts, 0)
    BY <1>2 DEF CreateSession
  <2>3. status[n] = "unused"
    BY <1>2 DEF CreateSession
  <2> HIDE DEF E
  <2>4. \A s \in E \cap Sids :
          /\ status'[s] = "closed" /\ ~cleanup'[s] /\ ~keepalive'[s]
          /\ ~probe'[s] /\ sse'[s] = NoStream
    BY <2>1, <2>2 DEF At
  <2>5. \A s \in Sids \ (E \cup {n}) :
          /\ status'[s] = status[s] /\ cleanup'[s] = cleanup[s]
          /\ keepalive'[s] = keepalive[s] /\ probe'[s] = probe[s]
          /\ sse'[s] = sse[s] /\ writable'[s] = writable[s]
          /\ attempts'[s] = attempts[s] /\ pinged'[s] = pinged[s]
    BY <2>2 DEF At
  <2>6. /\ status'[n] = "open" /\ cleanup'[n] /\ ~keepalive'[n]
        /\ ~probe'[n] /\ sse'[n] = NoStream
    BY <2>1, <2>2, <2>3 DEF At
  <2>7. \A s \in Sids : s \in E \/ s = n \/ s \in Sids \ (E \cup {n})
    OBVIOUS
  <2>8. (\A s \in Sids : s \notin Open => sse[s] = NoStream)'
    BY <2>4, <2>5, <2>6, <2>7
  <2>9. Watched'
    BY <2>4, <2>5, <2>6, <2>7
  <2>10. TimersEndWithSession'
    BY <2>4, <2>5, <2>6, <2>7
  <2>11. ProbeFollowsPing'
    BY <2>2, <2>4, <2>5, <2>6, <2>7
  <2> QED BY <2>8, <2>9, <2>10, <2>11
<1>3. ASSUME NEW s \in Sids, NEW c \in Clients, OpenStream(s, c)
      PROVE TimerInv'
  <2>1. sessionOrder + 1 # NoStream
    BY DEF NoStream
  <2> QED BY <1>3, <2>1 DEF OpenStream
<1>4. ASSUME NEW n \in Streams, StreamClosed(n) PROVE TimerInv'
  BY <1>4 DEF StreamClosed, Holds
<1>5. ASSUME NEW s \in Sids, HandlePayload(s) PROVE TimerInv'
  BY <1>5 DEF HandlePayload
<1>6. ASSUME NEW s \in Sids, KeepaliveFires(s) \/ ProbeFires(s)
      PROVE TimerInv'
  <2>1. s \in Streaming
    BY <1>6 DEF KeepaliveFires, ProbeFires
  <2>2. ASSUME SendProbePing(s) PROVE TimerInv'
    BY <2>1, <2>2, PingKeepsTimerInv
  <2>3. ASSUME TimerGone(s), keepalive' = [keepalive EXCEPT ![s] = FALSE],
               UNCHANGED probe
        PROVE  TimerInv'
    BY <2>1, <2>3 DEF TimerGone
  <2>4. ASSUME TimerGone(s), probe' = [probe EXCEPT ![s] = FALSE],
               UNCHANGED keepalive
        PROVE  TimerInv'
    BY <2>1, <2>4 DEF TimerGone
  <2>5. ASSUME UNCHANGED vars PROVE TimerInv'
    BY <2>5 DEF vars
  <2> QED BY <1>1, <1>6, <2>2, <2>3, <2>4, <2>5 DEF KeepaliveFires, ProbeFires
<1>7. CASE UNCHANGED <<status, sse, writable, cleanup, keepalive, probe, attempts,
                       pinged>>
  BY <1>7
<1>12. ASSUME NEW s \in Sids, StreamFails(s) PROVE TimerInv'
  BY <1>12 DEF StreamFails
<1> HIDE DEF TimerInv, Watched, TimersEndWithSession, ProbeFollowsPing, Open,
             Streaming, TypeOK
<1>8. CASE Requests
  BY <1>1, <1>2, <1>3, <1>4, <1>7, <1>8, <1>12
  DEF Requests, CreateOccupied, CloseRequest, Upload, UploadOverflow
<1>9. CASE ConsumeLoop
  BY <1>5, <1>7, <1>9 DEF ConsumeLoop, SkipPayload
<1>10. CASE Timers
  BY <1>1, <1>6, <1>7, <1>10 DEF Timers, Age, CleanupFires, SweepStaleSessions
<1>11. CASE CloseAll
  BY <1>1, <1>11 DEF CloseAll
<1> QED BY <1>7, <1>8, <1>9, <1>10, <1>11 DEF Next, vars

(* Every session without a stream has its clean-up timer, every one whose  *)
(* stream takes writes its keepalive and, after a PING on that stream, its *)
(* probe; no timer outlives what it watches, and a probe is armed only for *)
(* a PING that was sent.                                                   *)
THEOREM TimersAreSound == Spec => []TimersSound
<1>1. Init => TimerInv
  BY DEF Init, TimerInv, Watched, TimersEndWithSession, ProbeFollowsPing,
         Open, Streaming
<1>2. TimerInv => TimersSound
  BY DEF TimerInv, TimersSound
<1> QED BY <1>1, <1>2, TimerStep, TypeCorrect, PTL DEF Spec

-----------------------------------------------------------------------------
(* Streams                                                                 *)

(* Stream numbers still in use were given out before; a session without an *)
(* entry in the table holds no stream.                                     *)
StreamInv ==
  /\ StreamAccounted
  /\ live \subseteq 1 .. sessionOrder
  /\ \A s \in Sids : s \notin Open => sse[s] = NoStream

LEMMA CloseKeepsStreamInv ==
  ASSUME TypeOK, StreamInv, NEW S, CloseSessions(S)
  PROVE  StreamInv'
<1>1. \A s \in Sids : \/ sse'[s] = NoStream /\ s \notin Open'
                      \/ sse'[s] = sse[s] /\ (s \in Open' <=> s \in Open)
  BY DEF CloseSessions, At, Open
<1>2. Streaming' \subseteq Streaming
  BY <1>1 DEF Streaming, Open
<1>3. \A s \in Streaming' : sse'[s] = sse[s]
  BY <1>1 DEF Streaming, Open
<1>4. UNCHANGED <<order, sessionOrder, streamOf, live>>
  BY DEF CloseSessions, streamVars
<1>5. StreamAccounted'
  BY <1>2, <1>3, <1>4 DEF StreamInv, StreamAccounted
<1> QED BY <1>1, <1>4, <1>5 DEF StreamInv

LEMMA StreamStep == TypeOK /\ StreamInv /\ [Next]_vars => StreamInv'
<1> SUFFICES ASSUME TypeOK, StreamInv, [Next]_vars PROVE StreamInv'
  OBVIOUS
<1>1. ASSUME NEW S, CloseSessions(S) PROVE StreamInv'
  BY <1>1, CloseKeepsStreamInv
<1>2. ASSUME NEW c \in Clients, NEW n \in Sids, CreateSession(c, n)
      PROVE StreamInv'
  <2>1. \A s \in Sids : \/ sse'[s] = NoStream
                        \/ sse'[s] = sse[s] /\ (s \in Open' <=> s \in Open)
    <3>1. sse[n] = NoStream
      BY <1>2 DEF CreateSession, StreamInv, Open
    <3> QED BY <1>2, <3>1 DEF CreateSession, At, Open, TypeOK
  <2>2. Streaming' \subseteq Streaming
    BY <2>1 DEF Streaming, Open
  <2>3. \A s \in Streaming' : sse'[s] = sse[s]
    BY <2>1 DEF Streaming, Open
  <2>4. UNCHANGED <<order, sessionOrder, streamOf, live>>
    BY <1>2 DEF CreateSession, streamVars
  <2>5. StreamAccounted'
    BY <2>2, <2>3, <2>4 DEF StreamInv, StreamAccounted
  <2> QED BY <2>1, <2>4, <2>5 DEF StreamInv
<1>3. ASSUME NEW s \in Sids, NEW c \in Clients, OpenStream(s, c)
      PROVE StreamInv'
  <2> DEFINE n == sessionOrder + 1
  <2>1. n \in Streams /\ n # NoStream /\ n \notin live
    <3>1. sessionOrder \in 0 .. MaxStreams /\ sessionOrder < MaxStreams
      BY <1>3 DEF OpenStream, TypeOK
    <3>2. \A m \in live : m \in 1 .. sessionOrder
      BY DEF StreamInv
    <3> QED BY <3>1, <3>2, BoundsAssumption DEF Streams, NoStream
  <2>2. /\ sse' = [sse EXCEPT ![s] = n]
        /\ order' = [order EXCEPT ![s] = n]
        /\ streamOf' = [streamOf EXCEPT ![n] = s]
        /\ live' = live \cup {n}
        /\ sessionOrder' = n
        /\ status' = status
        /\ s \in Open
    BY <1>3 DEF OpenStream
  <2>3. live' \subseteq 1 .. sessionOrder'
    BY <2>2 DEF StreamInv, TypeOK
  <2> HIDE DEF n
  <2>4. Open' = Open
    BY <2>2 DEF Open
  <2>5. \A t \in Streaming' : t # s =>
          /\ t \in Streaming
          /\ sse'[t] = sse[t] /\ order'[t] = order[t]
          /\ streamOf'[sse[t]] = streamOf[sse[t]]
    <3>1. ASSUME NEW t \in Streaming', t # s
          PROVE  t \in Streaming /\ sse'[t] = sse[t] /\ order'[t] = order[t]
      BY <2>2, <2>4, <3>1 DEF Streaming, Open, TypeOK
    <3>2. ASSUME NEW t \in Streaming PROVE streamOf'[sse[t]] = streamOf[sse[t]]
      <4>1. sse[t] # n
        BY <2>1 DEF StreamInv, StreamAccounted
      <4> QED BY <2>2, <4>1 DEF TypeOK, Streaming, Open
    <3> QED BY <3>1, <3>2
  <2>6. order'[s] = n /\ sse'[s] = n /\ streamOf'[n] = s /\ n \in live'
    BY <2>1, <2>2 DEF TypeOK
  <2>7. StreamAccounted'
    BY <2>2, <2>5, <2>6 DEF StreamAccounted, StreamInv
  <2>8. \A t \in Sids : t \notin Open => sse'[t] = NoStream
    BY <2>2 DEF StreamInv
  <2> QED BY <2>3, <2>4, <2>7, <2>8 DEF StreamInv
<1>4. ASSUME NEW n \in Streams, StreamClosed(n) PROVE StreamInv'
  <2>1. Open' = Open
    BY <1>4 DEF StreamClosed, Open
  <2>2. UNCHANGED <<order, sessionOrder, streamOf>> /\ live' = live \ {n}
    BY <1>4 DEF StreamClosed
  <2>3. \A t \in Streaming : sse[t] = n => sse'[t] = NoStream
    BY <1>4 DEF StreamClosed, Holds, StreamInv, StreamAccounted, Streaming, Open,
                TypeOK
  <2>4. \A t \in Sids : sse'[t] = sse[t] \/ sse'[t] = NoStream
    BY <1>4 DEF StreamClosed, Holds, TypeOK
  <2>5. \A t \in Streaming' : t \in Streaming /\ sse'[t] = sse[t] /\ sse[t] # n
    BY <2>1, <2>3, <2>4 DEF Streaming, Open
  <2>6. StreamAccounted'
    BY <2>2, <2>5 DEF StreamAccounted, StreamInv
  <2>7. \A t \in Sids : t \notin Open => sse'[t] = NoStream
    BY <2>4 DEF StreamInv
  <2> QED BY <2>1, <2>2, <2>6, <2>7 DEF StreamInv
<1>5. CASE UNCHANGED <<status, sse, order, sessionOrder, streamOf, live>>
  BY <1>5 DEF StreamInv, StreamAccounted, Streaming, Open
<1>6. CASE Requests
  BY <1>1, <1>2, <1>3, <1>4, <1>5, <1>6
  DEF Requests, CreateOccupied, CloseRequest, StreamFails, Upload,
      UploadOverflow, streamVars
<1>7. CASE ConsumeLoop
  BY <1>5, <1>7 DEF ConsumeLoop, HandlePayload, SkipPayload, streamVars
<1>8. CASE Timers
  BY <1>1, <1>5, <1>8
  DEF Timers, Age, CleanupFires, KeepaliveFires, ProbeFires, SendProbePing,
      TimerGone, SweepStaleSessions, streamVars, vars
<1>9. CASE CloseAll
  BY <1>1, <1>9 DEF CloseAll
<1> QED BY <1>5, <1>6, <1>7, <1>8, <1>9 DEF Next, vars

LEMMA StreamInvHolds == Spec => []StreamInv
<1>1. Init => StreamInv
  BY DEF Init, StreamInv, StreamAccounted, Streaming, Open
<1> QED BY <1>1, StreamStep, TypeCorrect, PTL DEF Spec

(* A session with a stream holds the stream opened for it last, and the    *)
(* event of that stream is still to come: its loss cannot go unnoticed.    *)
THEOREM StreamsAreAccounted == Spec => []StreamAccounted
<1>1. StreamInv => StreamAccounted
  BY DEF StreamInv
<1> QED BY <1>1, StreamInvHolds, PTL

(* The late 'close' event of a replaced stream leaves the stream and the   *)
(* timers of every session alone.                                          *)
THEOREM ReplacedStreamIsHarmless == Spec => OldStreamIsHarmless
<1> DEFINE A == \A n \in live \ live' : \A s \in Open :
                  sse[s] # n => /\ sse'[s] = sse[s]
                                /\ keepalive'[s] = keepalive[s]
                                /\ probe'[s] = probe[s]
                                /\ cleanup'[s] = cleanup[s]
<1>1. TypeOK /\ [Next]_vars => [A]_vars
  <2> SUFFICES ASSUME TypeOK, Next PROVE A
    BY DEF vars
  <2>1. ASSUME live \subseteq live' PROVE A
    BY <2>1
  <2>2. ASSUME NEW m \in Streams, StreamClosed(m) PROVE A
    BY <2>2 DEF StreamClosed, Holds, TypeOK, Open
  <2> HIDE DEF A
  <2>3. CASE Requests
    BY <2>1, <2>2, <2>3
    DEF Requests, CreateOccupied, CreateSession, CloseRequest, OpenStream,
        StreamFails, Upload, UploadOverflow, CloseSessions, streamVars
  <2>4. CASE ConsumeLoop
    BY <2>1, <2>4 DEF ConsumeLoop, HandlePayload, SkipPayload, streamVars
  <2>5. CASE Timers
    BY <2>1, <2>5
    DEF Timers, Age, CleanupFires, KeepaliveFires, ProbeFires, SendProbePing,
        TimerGone, SweepStaleSessions, CloseSessions, streamVars, vars
  <2>6. CASE CloseAll
    BY <2>1, <2>6 DEF CloseAll, CloseSessions, streamVars
  <2> QED BY <2>3, <2>4, <2>5, <2>6 DEF Next
<1> QED BY <1>1, TypeCorrect, PTL DEF Spec, OldStreamIsHarmless

-----------------------------------------------------------------------------
(* The active session                                                      *)

LEMMA HasGreatest ==
  ASSUME NEW b \in Nat, NEW T \in SUBSET (0 .. b), T # {}
  PROVE  \E x \in T : \A y \in T : y <= x
<1> DEFINE D == {b - x : x \in T}
           R == OpToRel(<, Nat)
<1>1. IsWellFoundedOn(R, Nat)
  BY NatLessThanWellFounded
<1>2. \A x, y \in Nat : y < x => <<y, x>> \in R
  BY DEF OpToRel
<1> HIDE DEF R
<1>3. D \subseteq Nat /\ D # {}
  <2>1. \A x \in T : b - x \in Nat
    OBVIOUS
  <2>2. PICK x \in T : TRUE
    OBVIOUS
  <2>3. b - x \in D
    OBVIOUS
  <2> QED BY <2>1, <2>3
<1>4. \E x \in D : \A y \in D : ~ (<<y, x>> \in R)
  <2> HIDE DEF D
  <2> QED BY <1>1, <1>3, WFMin
<1>5. PICK x \in T : \A y \in D : ~ (<<y, b - x>> \in R)
  BY <1>4
<1>6. ASSUME NEW y \in T PROVE ~(b - y < b - x)
  <2>1. b - y \in Nat /\ b - x \in Nat /\ b - y \in D
    OBVIOUS
  <2> QED BY <1>2, <1>5, <2>1
<1>7. \A y \in T : y <= x
  BY <1>6
<1> QED BY <1>7

(* ActiveSession as a function of the sessions with a stream and of their  *)
(* places in the order of streams.                                         *)
NewestOf(T, o) ==
  IF T = {} THEN None ELSE CHOOSE s \in T : \A t \in T : o[t] <= o[s]

Ordered(T, o) ==
  /\ \A s \in T : o[s] \in 0 .. MaxStreams
  /\ \A s, t \in T : o[s] = o[t] => s = t

LEMMA ActiveIsNewest == ActiveSession = NewestOf(Streaming, order)
BY DEF ActiveSession, NewestOf

(* There is a newest one, and only one.                                    *)
LEMMA NewestExists ==
  ASSUME NEW T, NEW o, Ordered(T, o), T # {}
  PROVE  NewestOf(T, o) \in T /\ \A t \in T : o[t] <= o[NewestOf(T, o)]
<1> DEFINE N == {o[s] : s \in T}
<1>1. N \in SUBSET (0 .. MaxStreams) /\ N # {}
  BY DEF Ordered
<1>2. PICK x \in N : \A y \in N : y <= x
  BY <1>1, HasGreatest, BoundsAssumption
<1>3. \E s \in T : \A t \in T : o[t] <= o[s]
  BY <1>2
<1> QED BY <1>3 DEF NewestOf

LEMMA NewestIs ==
  ASSUME NEW T, NEW o, Ordered(T, o), NEW s \in T, \A t \in T : o[t] <= o[s]
  PROVE  NewestOf(T, o) = s
<1>1. NewestOf(T, o) \in T /\ o[s] <= o[NewestOf(T, o)] /\ o[NewestOf(T, o)] <= o[s]
  BY NewestExists
<1>2. o[s] = o[NewestOf(T, o)]
  BY <1>1 DEF Ordered
<1> QED BY <1>1, <1>2 DEF Ordered

(* Sessions leave: the newest of the others changes only with the newest.  *)
LEMMA NewestStays ==
  ASSUME NEW T, NEW o, Ordered(T, o), NEW U \in SUBSET T, NewestOf(T, o) \in U
  PROVE  NewestOf(U, o) = NewestOf(T, o)
<1>1. \A t \in U : o[t] <= o[NewestOf(T, o)]
  BY NewestExists
<1>2. Ordered(U, o)
  BY DEF Ordered
<1> QED BY <1>1, <1>2, NewestIs

LEMMA NewestType ==
  ASSUME NEW T, NEW o, Ordered(T, o)
  PROVE  NewestOf(T, o) \in T \cup {None}
BY NewestExists DEF NewestOf

LEMMA OrderedStreams ==
  ASSUME TypeOK, StreamInv PROVE Ordered(Streaming, order)
<1>1. \A t \in Streaming : order[t] \in 0 .. MaxStreams
  <2>1. \A t \in Streaming : order[t] \in live /\ live \subseteq 1 .. MaxStreams
    BY DEF TypeOK, StreamInv, StreamAccounted, Streams
  <2> QED BY <2>1
<1>2. \A t \in Streaming : streamOf[order[t]] = t
  BY DEF StreamInv, StreamAccounted
<1> QED BY <1>1, <1>2 DEF Ordered

-----------------------------------------------------------------------------
(* What a step does to the table of sessions                               *)

Gone == {s \in Sids : status[s] = "closed"}

(* Sessions leave the table, none of the others is touched.                *)
Leave(S) ==
  /\ S \subseteq Open
  /\ Open' = Open \ S /\ Gone' = Gone \cup S
  /\ Streaming' = Streaming \ S
  /\ order' = order

(* A session that was never in use enters while others leave.              *)
Enter(s, S) ==
  /\ S \subseteq Open
  /\ s \in Sids \ (Open \cup Gone)
  /\ Open' = (Open \ S) \cup {s} /\ Gone' = Gone \cup S
  /\ Streaming' = Streaming \ S
  /\ order' = order

(* A session gets its stream, the newest of all.                           *)
Stream(s) ==
  /\ s \in Open
  /\ Open' = Open /\ Gone' = Gone
  /\ Streaming' = Streaming \cup {s}
  /\ order' = [order EXCEPT ![s] = sessionOrder + 1]
  /\ sessionOrder < MaxStreams

(* A session loses its stream.                                             *)
Lose(s) ==
  /\ s \in Open
  /\ Open' = Open /\ Gone' = Gone
  /\ Streaming' = Streaming \ {s}
  /\ order' = order

Idle == Open' = Open /\ Gone' = Gone /\ Streaming' = Streaming /\ order' = order

LEMMA CloseLeaves ==
  ASSUME TypeOK, NEW S \in SUBSET Open, CloseSessions(S)
  PROVE  Leave(S)
BY DEF CloseSessions, At, Leave, Open, Gone, Streaming, TypeOK

Inv == TypeOK /\ TimerInv /\ StreamInv

LEMMA TableStep ==
  ASSUME Inv, Next
  PROVE  \/ \E S \in SUBSET Open : Leave(S)
         \/ \E s \in Sids, S \in SUBSET Open : Enter(s, S)
         \/ \E s \in Sids : Stream(s)
         \/ \E s \in Sids : Lose(s)
         \/ Idle
<1> DEFINE Goal == \/ \E S \in SUBSET Open : Leave(S)
                   \/ \E s \in Sids, S \in SUBSET Open : Enter(s, S)
                   \/ \E s \in Sids : Stream(s)
                   \/ \E s \in Sids : Lose(s)
                   \/ Idle
<1>1. ASSUME NEW S \in SUBSET Open, CloseSessions(S) PROVE Goal
  BY <1>1, CloseLeaves DEF Inv
<1>2. ASSUME NEW c \in Clients, NEW n \in Sids, CreateSession(c, n) PROVE Goal
  <2> DEFINE E == Zombies(c) \cup Foreign(c)
  <2>1. E \in SUBSET Open /\ n \notin E /\ n \notin Open /\ n \notin Gone
    BY <1>2 DEF CreateSession, Zombies, Foreign, Open, Gone
  <2>3. /\ status' = [At(E, status, "closed") EXCEPT ![n] = "open"]
        /\ sse' = At(E, sse, NoStream)
        /\ order' = order
    BY <1>2 DEF CreateSession
  <2> HIDE DEF E
  <2>4. \A s \in Sids :
          /\ status'[s] = IF s = n THEN "open" ELSE IF s \in E THEN "closed" ELSE status[s]
          /\ sse'[s] = IF s \in E THEN NoStream ELSE sse[s]
    BY <2>3 DEF At
  <2>5. sse[n] = NoStream
    BY <2>1 DEF Inv, StreamInv
  <2>6. Open' = (Open \ E) \cup {n} /\ Gone' = Gone \cup E
    BY <2>1, <2>4 DEF Open, Gone
  <2>7. Streaming' = Streaming \ E
    BY <2>1, <2>4, <2>5, <2>6 DEF Streaming, Open
  <2>8. Enter(n, E)
    BY <2>1, <2>3, <2>6, <2>7 DEF Enter
  <2> QED BY <2>1, <2>8
<1>3. ASSUME NEW s \in Sids, NEW c \in Clients, OpenStream(s, c) PROVE Goal
  <2> DEFINE n == sessionOrder + 1
  <2>1. n # NoStream
    BY <1>3 DEF Inv, TypeOK, NoStream
  <2>2. /\ sse' = [sse EXCEPT ![s] = n] /\ order' = [order EXCEPT ![s] = n]
        /\ status' = status /\ s \in Open /\ sessionOrder < MaxStreams
    BY <1>3 DEF OpenStream
  <2> HIDE DEF n
  <2>3. Open' = Open /\ Gone' = Gone
    BY <2>2 DEF Open, Gone
  <2>4. Streaming' = Streaming \cup {s}
    BY <2>1, <2>2, <2>3 DEF Streaming, Inv, TypeOK, Open
  <2>5. Stream(s)
    BY <2>2, <2>3, <2>4 DEF Stream, n
  <2> QED BY <2>5
<1>4. ASSUME NEW n \in Streams, StreamClosed(n) PROVE Goal
  <2> DEFINE s == streamOf[n]
  <2>1. Open' = Open /\ Gone' = Gone /\ order' = order
    BY <1>4 DEF StreamClosed, Open, Gone
  <2>2. CASE Holds(s, n)
    <3>1. sse' = [sse EXCEPT ![s] = NoStream] /\ s \in Open
      BY <1>4, <2>2 DEF StreamClosed, Holds
    <3> HIDE DEF s
    <3>2. Streaming' = Streaming \ {s}
      BY <2>1, <3>1 DEF Streaming, Inv, TypeOK, Open
    <3>3. Lose(s) /\ s \in Sids
      BY <2>1, <3>1, <3>2 DEF Lose, Open
    <3> QED BY <3>3
  <2>3. CASE ~Holds(s, n)
    <3>1. sse' = sse
      BY <1>4, <2>3 DEF StreamClosed
    <3>2. Idle
      BY <2>1, <3>1 DEF Idle, Streaming
    <3> QED BY <3>2
  <2> QED BY <2>2, <2>3
<1>5. ASSUME UNCHANGED <<status, sse, order>> PROVE Goal
  BY <1>5 DEF Idle, Open, Gone, Streaming
<1> HIDE DEF Goal
<1>6. ASSUME Requests PROVE Goal
  <2>1. \A c \in Clients : Zombies(c) \in SUBSET Open
    BY DEF Zombies
  <2> QED BY <1>1, <1>2, <1>3, <1>4, <1>5, <1>6, <2>1
          DEF Requests, CreateOccupied, CloseRequest, StreamFails, Upload,
              UploadOverflow
<1>7. ASSUME ConsumeLoop PROVE Goal
  BY <1>5, <1>7 DEF ConsumeLoop, HandlePayload, SkipPayload
<1>8. ASSUME Timers PROVE Goal
  <2>1. ASSUME NEW s \in Sids, CleanupFires(s) PROVE Goal
    <3>1. s \in Open
      BY <2>1 DEF CleanupFires, Inv, TimerInv, TimersEndWithSession
    <3> QED BY <1>1, <2>1, <3>1 DEF CleanupFires
  <2>2. ASSUME NEW s \in Sids, KeepaliveFires(s) \/ ProbeFires(s) PROVE Goal
    BY <1>1, <1>5, <2>2
    DEF KeepaliveFires, ProbeFires, SendProbePing, TimerGone, vars
  <2>3. ASSUME SweepStaleSessions PROVE Goal
    BY <1>1, <2>3 DEF SweepStaleSessions
  <2> QED BY <1>5, <1>8, <2>1, <2>2, <2>3 DEF Timers, Age
<1>9. ASSUME CloseAll PROVE Goal
  BY <1>1, <1>9 DEF CloseAll
<1> QED BY <1>6, <1>7, <1>8, <1>9 DEF Next, Goal

(* What happens to the active session meanwhile.                           *)
LEMMA ActiveType ==
  ASSUME Inv
  PROVE  ActiveSession \in Streaming \cup {None} /\ Streaming \subseteq Open /\ None \notin Open
BY OrderedStreams, ActiveIsNewest, NewestType, NoneAssumption DEF Inv, Streaming, Open

(* Of the sessions with a stream some lose it or leave.                    *)
LEMMA ActiveStays ==
  ASSUME Inv, Inv', NEW U, Streaming' = Streaming \ U, order' = order
  PROVE  /\ ActiveSession' \in (Streaming \ U) \cup {None}
         /\ ActiveSession \notin U => ActiveSession' = ActiveSession
<1>1. ActiveSession' = NewestOf(Streaming', order') /\ ActiveSession = NewestOf(Streaming, order)
  BY ActiveIsNewest DEF ActiveSession, NewestOf
<1>2. Ordered(Streaming, order)
  BY OrderedStreams DEF Inv
<1>3. Ordered(Streaming \ U, order)
  BY <1>2 DEF Ordered
<1>4. NewestOf(Streaming \ U, order) \in (Streaming \ U) \cup {None}
  BY <1>3, NewestType
<1>5. ASSUME ActiveSession \notin U PROVE ActiveSession' = ActiveSession
  <2>1. CASE Streaming = {}
    <3>1. Streaming \ U = Streaming
      BY <2>1
    <3> QED BY <1>1, <3>1
  <2>2. CASE Streaming # {}
    <3>1. ActiveSession \in Streaming
      BY <1>1, <1>2, <2>2, NewestExists
    <3>2. NewestOf(Streaming, order) \in Streaming \ U
      BY <1>1, <1>5, <3>1
    <3>3. NewestOf(Streaming \ U, order) = NewestOf(Streaming, order)
      BY <1>2, <3>2, NewestStays
    <3> QED BY <1>1, <3>3
  <2> QED BY <2>1, <2>2
<1> QED BY <1>1, <1>4, <1>5

(* The session that gets a stream becomes the active one.                  *)
LEMMA ActiveMoves ==
  ASSUME Inv, Inv', NEW s \in Sids, Stream(s)
  PROVE  ActiveSession' = s /\ order'[s] = sessionOrder + 1
<1>1. ActiveSession' = NewestOf(Streaming', order')
  BY DEF ActiveSession, NewestOf
<1>2. Ordered(Streaming', order')
  <2>1. \A t \in Streaming' : order'[t] \in 0 .. MaxStreams
    <3>1. \A t \in Streaming' : order'[t] \in live' /\ live' \subseteq 1 .. MaxStreams
      BY DEF Inv, TypeOK, StreamInv, StreamAccounted, Streams
    <3> QED BY <3>1
  <2>2. \A t \in Streaming' : streamOf'[order'[t]] = t
    BY DEF Inv, StreamInv, StreamAccounted
  <2> QED BY <2>1, <2>2 DEF Ordered
<1>3. order'[s] = sessionOrder + 1
  BY DEF Stream, Inv, TypeOK
<1>4. \A t \in Streaming' : order'[t] <= order'[s]
  <2> SUFFICES ASSUME NEW t \in Streaming', t # s PROVE order'[t] <= order'[s]
    BY <1>3 DEF Inv, TypeOK
  <2>1. t \in Streaming /\ t \in Sids
    BY DEF Stream, Streaming, Open
  <2>2. order[t] \in 1 .. sessionOrder
    BY <2>1 DEF Inv, StreamInv, StreamAccounted
  <2>3. order'[t] = order[t]
    BY <2>1 DEF Stream, Inv, TypeOK
  <2> QED BY <1>3, <2>2, <2>3 DEF Inv, TypeOK
<1>5. s \in Streaming'
  BY DEF Stream
<1> QED BY <1>1, <1>2, <1>3, <1>4, <1>5, NewestIs

LEMMA InvHolds == Spec => []Inv
<1>1. Init => TypeOK /\ TimerInv /\ StreamInv
  BY BoundsAssumption, MaxAttemptsAssumption
  DEF Init, TypeOK, Recent, GraceOver, Stale, TimerInv, Watched, TimersEndWithSession,
      ProbeFollowsPing, Open, Streaming, StreamInv, StreamAccounted
<1>2. Inv <=> TypeOK /\ TimerInv /\ StreamInv
  BY DEF Inv
<1> QED BY <1>1, <1>2, TypeStep, TimerStep, StreamStep, PTL DEF Spec

(* What a create may close.                                                *)
LEMMA CreateSpares ==
  ASSUME TypeOK, NEW c \in Clients, Create(c), NEW s \in Open \ Open'
  PROVE  IF owner[s] = c THEN sse[s] = NoStream
         ELSE idle[s] # Recent /\ ~(Open' \subseteq Open)
<1>1. CASE CreateOccupied(c)
  <2>1. s \in Zombies(c)
    BY <1>1 DEF CreateOccupied, CloseSessions, At, Open
  <2> QED BY <2>1 DEF Zombies
<1>2. ASSUME NEW n \in Sids, CreateSession(c, n)
      PROVE IF owner[s] = c THEN sse[s] = NoStream
            ELSE idle[s] # Recent /\ ~(Open' \subseteq Open)
  <2> DEFINE E == Zombies(c) \cup Foreign(c)
  <2>1. /\ status' = [At(E, status, "closed") EXCEPT ![n] = "open"]
        /\ status[n] = "unused"
    BY <1>2 DEF CreateSession
  <2> HIDE DEF E
  <2>2. n \in Open' /\ n \notin Open
    BY <2>1 DEF At, Open
  <2>3. s \in E
    BY <2>1 DEF At, Open
  <2>4. s \in Zombies(c) \/ s \in Foreign(c)
    BY <2>3 DEF E
  <2> QED BY <1>2, <2>2, <2>4 DEF CreateSession, Zombies, Foreign
<1> QED BY <1>1, <1>2 DEF Create

(* A create closes of the asking client's sessions those without a stream, *)
(* and of others' only what was silent beyond the grace, and only when it  *)
(* is granted; and traffic moves on only to newer streams, unless the      *)
(* active session loses its own.                                           *)
THEOREM SessionsOnlyMoveForward == Spec => SessionsMoveForward
<1> DEFINE C == \A s \in Open \ Open', c \in Clients : Create(c) =>
                  IF owner[s] = c THEN sse[s] = NoStream
                  ELSE idle[s] # Recent /\ ~(Open' \subseteq Open)
           M == \/ ActiveSession' = ActiveSession
                \/ ActiveSession \notin Streaming'
                \/ order'[ActiveSession'] > sessionOrder
<1>1. ASSUME Inv PROVE C
  BY <1>1, CreateSpares DEF Inv
<1>2. ASSUME Inv, Inv', Next PROVE M
  <2>1. ASSUME NEW S \in SUBSET Open, Streaming' = Streaming \ S, order' = order
        PROVE  M
    <3>1. ActiveSession \notin S => ActiveSession' = ActiveSession
      BY <1>2, <2>1, ActiveStays
    <3> QED BY <2>1, <3>1
  <2>2. ASSUME NEW s \in Sids, Stream(s) PROVE M
    <3>1. ActiveSession' = s /\ order'[s] = sessionOrder + 1
      BY <1>2, <2>2, ActiveMoves
    <3>2. sessionOrder \in Nat
      BY <1>2 DEF Inv, TypeOK
    <3> QED BY <3>1, <3>2
  <2>3. CASE Idle
    BY <2>3 DEF Idle, ActiveSession
  <2> HIDE DEF M
  <2>4. ASSUME NEW s \in Sids, Lose(s) PROVE M
    <3>1. {s} \in SUBSET Open
      BY <2>4 DEF Lose
    <3> QED BY <2>1, <2>4, <3>1 DEF Lose
  <2> QED BY <1>2, <2>1, <2>2, <2>3, <2>4, TableStep DEF Leave, Enter
<1>3. Inv /\ Inv' /\ [Next]_vars => [C /\ M]_vars
  BY <1>1, <1>2
<1> QED BY <1>3, InvHolds, PTL DEF Spec, SessionsMoveForward

-----------------------------------------------------------------------------
(* The session table of the tunnel manager                                 *)

(* To the tunnel manager the handler is the session table it assumes: every *)
(* step of the handler is one of SessionTable's, or changes neither the     *)
(* table nor the active session.                                            *)
THEOREM TableIsImplemented == Spec => TableSpec
<1>1. Init => Table!Init
  BY DEF Init, Table!Init, Open, Gone, ActiveSession, Streaming
<1>2. ASSUME Inv, Inv', Next PROVE Table!Next \/ UNCHANGED Table!vars
  <2> DEFINE Goal == Table!Next \/ UNCHANGED Table!vars
  <2>0. /\ ActiveSession \in Streaming \cup {None} /\ Streaming \subseteq Open
        /\ None \notin Open
    BY <1>2, ActiveType
  <2>1. ASSUME NEW S \in SUBSET Open, Leave(S) PROVE Goal
    <3>1. /\ Open' = Open \ S /\ Gone' = Gone \cup S
          /\ Streaming' = Streaming \ S /\ order' = order
      BY <2>1 DEF Leave
    <3>2. /\ ActiveSession' \in (Streaming \ S) \cup {None}
          /\ ActiveSession \notin S => ActiveSession' = ActiveSession
      BY <1>2, <3>1, ActiveStays
    <3>3. CASE S = {}
      BY <3>1, <3>2, <3>3 DEF Table!vars, Gone
    <3>4. CASE S # {}
      <4>1. Table!Close(S)
        BY <2>0, <3>1, <3>2, <3>4 DEF Table!Close, Table!Survivor, Gone
      <4> QED BY <4>1 DEF Table!Next
    <3> QED BY <3>3, <3>4
  <2>2. ASSUME NEW s \in Sids, NEW S \in SUBSET Open, Enter(s, S) PROVE Goal
    <3>1. /\ Open' = (Open \ S) \cup {s} /\ Gone' = Gone \cup S
          /\ Streaming' = Streaming \ S /\ order' = order
          /\ s \in Sids \ (Open \cup Gone)
      BY <2>2 DEF Enter
    <3>2. /\ ActiveSession' \in (Streaming \ S) \cup {None}
          /\ ActiveSession \notin S => ActiveSession' = ActiveSession
      BY <1>2, <3>1, ActiveStays
    <3>3. Table!Create(s, S)
      BY <2>0, <3>1, <3>2 DEF Table!Create, Table!Survivor, Gone
    <3> QED BY <3>3 DEF Table!Next
  <2>3. ASSUME NEW s \in Sids, Stream(s) PROVE Goal
    <3>1. ActiveSession' = s
      BY <1>2, <2>3, ActiveMoves
    <3>2. Table!Attach(s)
      BY <2>3, <3>1 DEF Stream, Table!Attach, Gone
    <3> QED BY <3>2 DEF Table!Next
  <2>4. ASSUME NEW s \in Sids, Lose(s) PROVE Goal
    <3>1. /\ Open' = Open /\ Gone' = Gone
          /\ Streaming' = Streaming \ {s} /\ order' = order
      BY <2>4 DEF Lose
    <3>2. /\ ActiveSession' \in (Streaming \ {s}) \cup {None}
          /\ ActiveSession \notin {s} => ActiveSession' = ActiveSession
      BY <1>2, <3>1, ActiveStays
    <3>3. CASE ActiveSession # s
      BY <3>1, <3>2, <3>3 DEF Table!vars, Gone
    <3>4. CASE ActiveSession = s
      <4>1. Table!Detach
        BY <2>0, <2>4, <3>1, <3>2, <3>4 DEF Table!Detach, Gone, Lose
      <4> QED BY <4>1 DEF Table!Next
    <3> QED BY <3>3, <3>4
  <2>5. ASSUME Idle PROVE Goal
    BY <2>5 DEF Idle, Table!vars, ActiveSession, Gone
  <2> HIDE DEF Goal
  <2>6. Goal
    BY <1>2, <2>1, <2>2, <2>3, <2>4, <2>5, TableStep
  <2> QED BY <2>6 DEF Goal
<1>3. UNCHANGED vars => UNCHANGED Table!vars
  BY DEF vars, Table!vars, Open, ActiveSession, Streaming
<1>4. Inv /\ Inv' /\ [Next]_vars => [Table!Next]_(Table!vars)
  BY <1>2, <1>3
<1> QED BY <1>1, <1>4, InvHolds, PTL DEF Spec, TableSpec, Table!Spec

-----------------------------------------------------------------------------
(* The availability flag                                                   *)

(* The handler with the flag is the handler: what was proved of its        *)
(* behaviours holds of those in which the manager listens.                 *)
THEOREM ServerIsHandler == ServerSpec => Spec
<1>1. ServerInit => Init
  BY DEF ServerInit
<1>2. [ServerNext]_serverVars => [Next]_vars
  BY DEF ServerNext, serverVars
<1> QED BY <1>1, <1>2, PTL DEF ServerSpec, Spec

(* The tunnel calls itself available only while there is a session at all: *)
(* the last of the calls a step makes decides, and finds the table it      *)
(* leaves behind (setConnected).                                           *)
THEOREM AvailableMeansSession == ServerSpec => []AvailableNeedsSession
<1>1. ServerInit => AvailableNeedsSession
  BY DEF ServerInit, AvailableNeedsSession
<1>2. ASSUME AvailableNeedsSession, ServerNext PROVE AvailableNeedsSession'
  <2>1. ActiveSession' # None => Open' # {}
    BY DEF ActiveSession, Streaming
  <2> QED BY <1>2, <2>1 DEF AvailableNeedsSession, ServerNext, SetConnected
<1>3. UNCHANGED serverVars /\ AvailableNeedsSession => AvailableNeedsSession'
  BY DEF serverVars, vars, AvailableNeedsSession, Open
<1> QED BY <1>1, <1>2, <1>3, PTL DEF ServerSpec

=============================================================================
