------------------------------ MODULE ProxyProofs ------------------------------
(***************************************************************************)
(* Proofs about the HTTP proxy: one request through its pipeline (module   *)
(* HttpRequest), for every set of requests and block rules, all times,     *)
(* thresholds, response sizes and numbers of stale connections; and one    *)
(* CONNECT (module ConnectRelay), for any number of pieces and any size of *)
(* the write buffers.                                                      *)
(***************************************************************************)
EXTENDS HttpRequest, ConnectRelay, TLAPS

------------------------------------------------------------------------------
(* A request (module HttpRequest)                                          *)

(* Until a response is streamed or the request is over nothing has been    *)
(* answered, and before the first attempt nothing has been sent.           *)
Pipe ==
  /\ step \in {"connect", "receive", "decide", "forward"} => up = "none" /\ try = 0 /\ seen = 0
  /\ step # "fetch" /\ step # "over" => answer = NoAnswer /\ ~piped
  /\ step = "fetch" => try \in {1, 2} /\ up \in {"queued", "stale", "asked", "taken", "head", "broken"}
  /\ step = "respond" => got = size /\ up = "ended"
  /\ step = "recover" => up \in {"none", "ended", "again", "retaken"}

(* An attempt is seen once, and the request of onError once more.          *)
Attempts ==
  /\ try = 2 => req.safe = TRUE
  /\ up \in {"queued", "stale", "asked"} => seen < try
  /\ up # "retaken" => seen <= try
  /\ seen <= try + 1
  /\ up \in {"again", "retaken"} => err = "malformed"

(* What was streamed is what was received, and that is not less than the   *)
(* threshold.                                                              *)
Streamed ==
  step = "fetch" =>
    IF piped
    THEN /\ answer = [by |-> "origin", pieces |-> got, ended |-> FALSE]
         /\ got >= Threshold /\ up \in {"head", "broken"}
    ELSE answer = NoAnswer

(* A relayed request was judged at the time that still is.                 *)
Unseen == answer.by = "relay" => step = "over" /\ ~Intercepted(req, rules, now)

IInv == TypeOK /\ Pipe /\ Attempts /\ Streamed /\ Unseen /\ EndedIsWhole

------------------------------------------------------------------------------
(* What is not decrypted at a CONNECT would not be blocked if it were, as  *)
(* long as decryption is on and the host is not a tunnel's: without a url  *)
(* a block rule fits whenever it fits with one.                            *)
LEMMA HostDecidesFirst ==
  ASSUME NEW r, NEW B, NEW t,
         ~Intercepted(r, B, t), "decrypt" \in r.traits, "tunnel" \notin r.traits
  PROVE  Decision(r, B, t) # "blocked"
<1>1. "rewritten" \notin r.traits /\ "debug" \notin r.traits
  BY DEF Intercepted
<1>2. CASE "ip" \in r.traits
  BY <1>2 DEF Decision
<1>3. CASE "ip" \notin r.traits
  <2>1. ~ShouldBlock(BlockRules(B, r.device), r.host, NoUrl, t)
    BY <1>1, <1>3 DEF Intercepted
  <2>2. ~ShouldBlock(BlockRules(B, r.device), r.host, r.url, t)
    BY <2>1 DEF ShouldBlock, Fits
  <2> QED BY <2>2 DEF Decision, Onward
<1> QED BY <1>2, <1>3

LEMMA InitSound == Init => IInv
<1> SUFFICES ASSUME Init PROVE IInv
  OBVIOUS
<1>1. answer \in Response
  BY ThresholdAssumption DEF Init, NoAnswer, Response
<1>2. 0 \in 0 .. MaxPieces /\ 0 \in 0 .. 2 /\ 0 \in 0 .. 3
  BY ThresholdAssumption
<1>3. step \in {"connect", "receive"}
  BY DEF Init
<1>4. TypeOK
  BY <1>1, <1>2, <1>3 DEF Init, TypeOK
<1> QED BY <1>4 DEF Init, IInv, Pipe, Attempts, Streamed, Unseen, EndedIsWhole, NoAnswer

(* A request of _doRequest starts with its own connection, not seen yet.   *)
LEMMA RejectedSound ==
  ASSUME IInv, NEW e \in {"reset", "timeout", "malformed", "other"},
         step = "fetch", ~piped, up # "broken", Rejected(e),
         UNCHANGED <<world, agent, size, piped, seen, hooked>>
  PROVE  IInv'
<1> USE DEF IInv, world
<1>1. CASE e = "reset" /\ try = 1 /\ req.safe
  <2>1. Dial(2, agent) /\ UNCHANGED <<step, err, answer>>
    BY <1>1 DEF Rejected
  <2>2. TypeOK'
    BY <2>1, ThresholdAssumption DEF TypeOK, Dial, Assign
  <2>3. Pipe' /\ Attempts'
    BY <1>1, <2>1 DEF Dial, Assign, TypeOK, Pipe, Attempts
  <2> QED BY <2>1, <2>2, <2>3 DEF Dial, Assign, TypeOK, Streamed, Unseen, EndedIsWhole, Threshold
<1>2. CASE ~(e = "reset" /\ try = 1 /\ req.safe)
  <2>1. up' = "none" /\ Recover(e) /\ UNCHANGED <<stale, try, got>>
    BY <1>2 DEF Rejected
  <2> QED BY <2>1 DEF Recover, TypeOK, Pipe, Attempts, Streamed, Unseen, EndedIsWhole, NoAnswer
<1> QED BY <1>1, <1>2

LEMMA ResponseTypes ==
  /\ \A who \in {"relay", "operator", "denied", "blocked", "rule", "origin again", "error"} :
       By(who) \in Response /\ By(who).by = who
  /\ \A n \in 0 .. MaxPieces, b \in BOOLEAN : [by |-> "origin", pieces |-> n, ended |-> b] \in Response
  BY ThresholdAssumption DEF By, Response

LEMMA StepSound == IInv /\ [Next]_vars => IInv'
<1> SUFFICES ASSUME IInv, [Next]_vars PROVE IInv'
  OBVIOUS
<1> USE DEF IInv
<1>1. CASE Connect
  <2>1. answer' \in Response /\ err' = err /\ step' \in {"receive", "over"}
    BY <1>1, ResponseTypes DEF Connect, Answer, TypeOK
  <2>2. TypeOK'
    <3>1. UNCHANGED <<world, fetch, hooked>>
      BY <1>1 DEF Connect
    <3> QED BY <2>1, <3>1 DEF TypeOK, world, fetch
  <2>3. Unseen'
    BY <1>1, ResponseTypes DEF Connect, Answer, Pipe, Unseen, NoAnswer, world
  <2>4. answer'.by # "origin"
    <3>1. answer' = answer \/ answer' = By("denied") \/ answer' = By("relay")
      BY <1>1 DEF Connect, Answer
    <3>2. answer = NoAnswer
      BY <1>1 DEF Connect, Pipe
    <3> QED BY <3>1, <3>2 DEF NoAnswer, By
  <2> QED BY <1>1, <2>2, <2>3, <2>4
      DEF Connect, Answer, Pipe, Attempts, Streamed, EndedIsWhole, world, fetch
<1>2. CASE Receive
  BY <1>2 DEF Receive, TypeOK, Pipe, Attempts, Streamed, Unseen, EndedIsWhole, fetch, NoAnswer
<1>3. CASE ClientLeaves
  BY <1>3 DEF ClientLeaves, TypeOK, Pipe, Attempts, Streamed, Unseen, EndedIsWhole, Threshold, fetch
<1>4. CASE ClockTicks
  BY <1>4 DEF ClockTicks, TypeOK, Pipe, Attempts, Streamed, Unseen, EndedIsWhole, fetch, NoAnswer
<1>5. ASSUME NEW b \in BOOLEAN, Fetch(b), step = "decide", UNCHANGED <<world, hooked>>
      PROVE  IInv'
  <2>1. TypeOK'
    BY <1>5, ThresholdAssumption DEF Fetch, Dial, Assign, TypeOK, world
  <2> QED BY <1>5, <2>1
      DEF Fetch, Dial, Assign, TypeOK, Pipe, Attempts, Streamed, Unseen, EndedIsWhole, world, NoAnswer
<1>6. ASSUME NEW who \in {"operator", "denied", "blocked", "rule", "error"},
             step \in {"decide", "forward", "recover"}, Answer(By(who)),
             UNCHANGED <<req, rules, now, fetch, hooked>>,
             client' \in {client, "gone"}
      PROVE  IInv'
  <2>1. answer' \in Response /\ answer'.by \notin {"origin", "relay"}
    BY <1>6, ResponseTypes DEF Answer
  <2>2. step' = "over" /\ err' = err /\ client' \in {"sends", "waits", "gone"}
    BY <1>6 DEF Answer, TypeOK
  <2>3. TypeOK'
    BY <1>6, <2>1, <2>2 DEF TypeOK, fetch
  <2> QED BY <1>6, <2>1, <2>2, <2>3 DEF Pipe, Attempts, Streamed, Unseen, EndedIsWhole, fetch
<1>7. ASSUME step \in {"decide", "forward", "respond"}, Recover("other"), UNCHANGED <<world, fetch, hooked>>
      PROVE  IInv'
  <2>1. step' = "recover" /\ err' = "other" /\ answer' = answer
    BY <1>7 DEF Recover
  <2>2. TypeOK'
    BY <1>7, <2>1 DEF TypeOK, world, fetch
  <2>3. answer = NoAnswer /\ ~piped /\ up \in {"none", "ended"}
    BY <1>7 DEF Pipe, TypeOK
  <2> QED BY <1>7, <2>1, <2>2, <2>3
      DEF Pipe, Attempts, Streamed, Unseen, EndedIsWhole, world, fetch, NoAnswer
<1>8. CASE Answers
  <2>1. PICK d \in {"operator", "denied", "blocked"} :
          /\ Answer(By(d)) \/ (d = "operator" /\ Recover("other"))
          /\ client' = IF d = "denied" THEN "gone" ELSE client
    BY <1>8 DEF Answers
  <2>2. step = "decide" /\ UNCHANGED <<req, rules, now, fetch, hooked>>
    BY <1>8 DEF Answers
  <2>3. CASE Answer(By(d))
    BY <2>1, <2>2, <2>3, <1>6
  <2>4. CASE d = "operator" /\ Recover("other")
    BY <2>1, <2>2, <2>4, <1>7 DEF world
  <2> QED BY <2>1, <2>3, <2>4
<1>9. CASE AnswersBadly
  BY <1>9 DEF AnswersBadly, TypeOK, Pipe, Attempts, Streamed, Unseen, EndedIsWhole, world, fetch, NoAnswer
<1>10. CASE Rewrites
  BY <1>10, <1>5, <1>6, <1>7 DEF Rewrites, world
<1>11. CASE Passes
  <2>1. CASE Fetch(TRUE)
    BY <1>11, <2>1, <1>5 DEF Passes
  <2>2. CASE step' = "forward" /\ UNCHANGED <<fetch, err, answer>>
    BY <1>11, <2>2
       DEF Passes, TypeOK, Pipe, Attempts, Streamed, Unseen, EndedIsWhole, world, fetch, NoAnswer
  <2> QED BY <1>11, <2>1, <2>2 DEF Passes
<1>24. CASE ForwardReturns
  <2>1. CASE step' = "over" /\ err' = "unsendable" /\ UNCHANGED answer
    BY <1>24, <2>1 DEF ForwardReturns, TypeOK, Pipe, Attempts, Streamed, Unseen, EndedIsWhole,
                       world, fetch, NoAnswer
  <2> QED BY <1>24, <2>1, <1>6, <1>7 DEF ForwardReturns, world
<1>25. CASE LeavesQueue
  <2>1. TypeOK'
    BY <1>25, ThresholdAssumption DEF LeavesQueue, Assign, TypeOK, world
  <2> QED BY <1>25, <2>1 DEF LeavesQueue, Assign, TypeOK, Pipe, Attempts, Streamed, Unseen,
                             EndedIsWhole, Threshold, world, NoAnswer
<1>12. CASE AttemptFails
  <2>1. ~piped /\ up # "broken" /\ step = "fetch"
    BY <1>12 DEF AttemptFails, Streamed
  <2> QED BY <1>12, <2>1, RejectedSound DEF AttemptFails
<1>13. CASE OriginTakes
  BY <1>13 DEF OriginTakes, TypeOK, Pipe, Attempts, Streamed, Unseen, EndedIsWhole, world, Threshold
<1>14. CASE Head
  <2>1. ~piped /\ up = "taken" /\ step = "fetch" /\ answer = NoAnswer
    BY <1>14 DEF Head, Streamed
  <2>2. CASE up' = "head" /\ size' \in 0 .. MaxPieces /\ UNCHANGED <<step, stale, try, got, err, answer>>
    <3>1. TypeOK'
      BY <1>14, <2>2 DEF Head, TypeOK, world
    <3> QED BY <1>14, <2>1, <2>2, <3>1
        DEF Head, Pipe, Attempts, Streamed, Unseen, EndedIsWhole, world, NoAnswer
  <2>3. CASE Rejected("malformed") /\ UNCHANGED size
    BY <1>14, <2>1, <2>3, RejectedSound DEF Head
  <2> QED BY <1>14, <2>2, <2>3 DEF Head
<1>15. CASE Data
  <2>1. got' = got + 1 /\ got' \in 0 .. MaxPieces /\ piped' \in BOOLEAN /\ Threshold \in Nat
    BY <1>15, ThresholdAssumption DEF Data, TypeOK, Threshold
  <2>2. Threshold' = Threshold /\ step' = "fetch" /\ up' = "head"
    BY <1>15 DEF Data, Threshold, world
  <2>3. CASE piped'
    <3>1. answer' = [by |-> "origin", pieces |-> got', ended |-> FALSE]
      BY <1>15, <2>1, <2>3 DEF Data
    <3>2. answer' \in Response
      BY <2>1, <3>1, ResponseTypes
    <3>3. got' >= Threshold
      BY <1>15, <2>1, <2>3 DEF Data, Streamed, TypeOK
    <3>4. TypeOK'
      BY <1>15, <2>1, <3>2 DEF Data, TypeOK, world
    <3> QED BY <1>15, <2>2, <2>3, <3>1, <3>3, <3>4
        DEF Data, Pipe, Attempts, Streamed, Unseen, EndedIsWhole, world
  <2>4. CASE ~piped'
    <3>1. ~piped /\ answer' = NoAnswer /\ answer = NoAnswer
      BY <1>15, <2>4 DEF Data, Streamed
    <3>2. TypeOK'
      BY <1>15, <2>1, <3>1 DEF Data, TypeOK, world
    <3> QED BY <1>15, <2>2, <2>4, <3>1, <3>2
        DEF Data, Pipe, Attempts, Streamed, Unseen, EndedIsWhole, world, NoAnswer
  <2> QED BY <2>3, <2>4
<1>16. CASE End
  <2>1. CASE piped
    <3>1. /\ step' = "over" /\ err' = err
          /\ answer' = [by |-> "origin", pieces |-> got, ended |-> TRUE]
      BY <1>16, <2>1 DEF End, Answer, Streamed
    <3>2. answer' \in Response
      BY <3>1, ResponseTypes DEF TypeOK
    <3>3. TypeOK'
      BY <1>16, <3>1, <3>2 DEF End, TypeOK, world
    <3>4. "rewritten" \in req.traits => got >= Large
      BY <1>16, <2>1 DEF End, Streamed, Threshold
    <3>5. EndedIsWhole'
      BY <1>16, <3>1, <3>4, ThresholdAssumption DEF End, EndedIsWhole, TypeOK, world
    <3> QED BY <1>16, <2>1, <3>1, <3>3, <3>5 DEF End, Pipe, Attempts, Streamed, Unseen, world
  <2>2. CASE ~piped
    <3>1. step' = "respond" /\ err' = err /\ answer' = NoAnswer /\ answer = NoAnswer
      BY <1>16, <2>2 DEF End, Streamed
    <3>2. TypeOK'
      BY <1>16, <3>1 DEF End, TypeOK, world
    <3> QED BY <1>16, <2>2, <3>1, <3>2
        DEF End, Pipe, Attempts, Streamed, Unseen, EndedIsWhole, world, NoAnswer
  <2> QED BY <2>1, <2>2
<1>17. ASSUME NEW e \in {"reset", "timeout"}, Break(e), Open
       PROVE  IInv'
  <2>1. CASE piped
    <3>1. up' = "broken" /\ UNCHANGED <<step, err, answer, stale, try, got, agent, size, piped, seen, hooked, world>>
      BY <1>17, <2>1 DEF Break
    <3>2. TypeOK'
      BY <3>1 DEF TypeOK, world
    <3>3. step = "fetch" /\ Threshold' = Threshold
      BY <1>17, <3>1 DEF Open, Threshold, world
    <3> QED BY <2>1, <3>1, <3>2, <3>3
        DEF Pipe, Attempts, Streamed, Unseen, EndedIsWhole, world
  <2>2. CASE ~piped
    BY <1>17, <2>2, RejectedSound DEF Break, Open
  <2> QED BY <2>1, <2>2
<1>18. CASE OriginBreaks
  BY <1>18, <1>17 DEF OriginBreaks, Open
<1>19. CASE Timeout
  BY <1>19, <1>17 DEF Timeout
<1>20. CASE Respond
  <2>1. TypeOK'
    BY <1>20, ResponseTypes DEF Respond, Answer, Recover, TypeOK, world, fetch
  <2>2. got = size /\ up = "ended" /\ answer = NoAnswer /\ ~piped
    BY <1>20 DEF Respond, Pipe
  <2>3. CASE Answer([by |-> "origin", pieces |-> got, ended |-> TRUE])
    BY <1>20, <2>1, <2>2, <2>3
       DEF Respond, Answer, Pipe, Attempts, Streamed, Unseen, EndedIsWhole, world, fetch
  <2>4. CASE Recover("other")
    BY <1>20, <2>1, <2>2, <2>4
       DEF Respond, Recover, Pipe, Attempts, Streamed, Unseen, EndedIsWhole, world, fetch, NoAnswer
  <2> QED BY <1>20, <2>3, <2>4 DEF Respond
<1>21. CASE OnError
  BY <1>21, <1>6 DEF OnError, world
<1>22. CASE AskAgain
  <2>1. answer = NoAnswer /\ ~piped /\ step = "recover"
    BY <1>22 DEF AskAgain, Pipe
  <2>6. CASE step' = "over" /\ UNCHANGED <<up, seen, err, answer>>
    BY <1>22, <2>1, <2>6 DEF AskAgain, TypeOK, Pipe, Attempts, Streamed, Unseen, EndedIsWhole,
                             world, NoAnswer
  <2>2. CASE UNCHANGED <<step, err, answer>>
    <3>1. \/ up = "none" /\ up' = "again" /\ seen' = seen
          \/ up = "again" /\ up' = "retaken" /\ seen' = seen + 1
      BY <1>22, <2>1, <2>2 DEF AskAgain, Answer
    <3>2. seen' \in 0 .. 3
      BY <3>1 DEF TypeOK, Attempts
    <3>3. TypeOK'
      BY <1>22, <2>2, <3>1, <3>2 DEF AskAgain, TypeOK, world
    <3>4. err = "malformed" /\ try' = try /\ try \in 0 .. 2 /\ req' = req /\ seen \in 0 .. 3
      BY <1>22 DEF AskAgain, TypeOK, world
    <3>5. Attempts'
      BY <2>2, <3>1, <3>4 DEF Attempts
    <3>6. Pipe' /\ Streamed' /\ Unseen' /\ EndedIsWhole'
      BY <1>22, <2>1, <2>2, <3>1 DEF AskAgain, Pipe, Streamed, Unseen, EndedIsWhole, NoAnswer
    <3> QED BY <3>3, <3>5, <3>6
  <2>3. ASSUME NEW who \in {"origin again", "error"}, Answer(By(who)), UNCHANGED <<up, seen>>
        PROVE  IInv'
    <3>1. answer' \in Response /\ answer'.by \notin {"origin", "relay"} /\ step' = "over" /\ err' = err
      BY <2>3, ResponseTypes DEF Answer
    <3>2. TypeOK'
      BY <1>22, <2>3, <3>1 DEF AskAgain, TypeOK, world
    <3> QED BY <1>22, <2>3, <3>1, <3>2
        DEF AskAgain, Pipe, Attempts, Streamed, Unseen, EndedIsWhole, world
  <2>4. CASE Answer(By("origin again")) /\ UNCHANGED <<up, seen>>
    BY <2>3, <2>4
  <2>5. CASE Answer(By("error")) /\ UNCHANGED <<up, seen>>
    BY <2>3, <2>5
  <2> QED BY <1>22, <2>2, <2>4, <2>5, <2>6 DEF AskAgain
<1>23. CASE UNCHANGED vars
  BY <1>23 DEF vars, TypeOK, Pipe, Attempts, Streamed, Unseen, EndedIsWhole, Threshold
<1> QED BY <1>1, <1>2, <1>3, <1>4, <1>8, <1>9, <1>10, <1>11, <1>12, <1>13, <1>14, <1>15, <1>16,
           <1>18, <1>19, <1>20, <1>21, <1>22, <1>23,
           <1>24, <1>25 DEF Next, Pipeline, Origin

LEMMA Inductive == Spec => []IInv
  BY InitSound, StepSound, PTL DEF Spec

------------------------------------------------------------------------------
(* Every reachable state is well typed; above all, no request is attempted *)
(* a third time (fetchRemoteResponse) whatever fails when.                 *)
THEOREM TypeCorrect == Spec => []TypeOK
<1>1. IInv => TypeOK
  BY DEF IInv
<1> QED BY <1>1, Inductive, PTL

(* An encrypted request that is relayed unseen is none that a block rule   *)
(* would have stopped (beforeDealHttpsRequest against beforeSendRequest).  *)
THEOREM NothingBlockedIsRelayed == Spec => []RelayedIsUnblocked
<1>1. IInv => RelayedIsUnblocked
  BY HostDecidesFirst DEF IInv, Unseen, RelayedIsUnblocked
<1> QED BY <1>1, Inductive, PTL

(* A response that ends for the client is all of the origin's.             *)
THEOREM NoPartLooksWhole == Spec => []EndedIsWhole
<1>1. IInv => EndedIsWhole
  BY DEF IInv
<1> QED BY <1>1, Inductive, PTL

(* An unsafe request reaches an origin twice only by onError, after a      *)
(* malformed response.                                                     *)
THEOREM UnsafeIsSentOnce == Spec => []UnsafeIsRepeatedForAReason
<1>1. IInv => UnsafeIsRepeatedForAReason
  BY DEF IInv, TypeOK, Attempts, UnsafeIsRepeatedForAReason
<1> QED BY <1>1, Inductive, PTL

------------------------------------------------------------------------------
(* A CONNECT (module ConnectRelay)                                         *)

(* The promise chain: a connection exists from the phase "custom" on; one  *)
(* that lives is watched by the 'close' listener of the client's socket,   *)
(* one that is being made was asked for while the client was there; and    *)
(* bytes flow in the phase "relay" alone.                                  *)
Chain ==
  /\ phase \in {"rule", "write", "first", "target"} => conn = "none"
  /\ phase = "custom" => watched \/ clt = "closed"
  /\ Alive(conn) => watched
  /\ conn = "new" => clt = "open" \/ broken
  /\ phase = "gone" => clt # "open" /\ ~Alive(conn)
  /\ phase \in {"answer", "relay"} => conn # "new"
  /\ joined => phase = "relay"
  /\ ~joined => toClient.written = 0

(* Whatever destroys one of the sockets destroys the other in the same     *)
(* turn, if it is there, or has it destroyed by the 'close' to come.       *)
Paired ==
  /\ cleaned => clt # "open" /\ ~Alive(conn)
  /\ conn \in {"closing", "closed"} => clt # "open"
  /\ clt = "closed" => ~Alive(conn)

ConnectInv == ConnectTypeOK /\ Chain /\ Paired /\ WayBackStays

------------------------------------------------------------------------------
(* cleanupRelay, however its caller leaves the sockets.                    *)
LEMMA CleanupEffect ==
  ASSUME ConnectInv, NEW c \in {"open", "closing", "closed"},
         NEW u \in {"none", "new", "open", "closing", "closed"},
         c # "open" \/ clt = "open", Alive(u) => u = conn, CleanupRelay(c, u)
  PROVE  /\ cleaned' = TRUE /\ timers' = {}
         /\ clt' \in {"closing", "closed"} /\ (clt' = "closed" <=> c = "closed")
         /\ conn' \in {"none", "closing", "closed"} /\ (conn' = "none" <=> u = "none")
  BY DEF CleanupRelay, Destroy, Alive, ConnectInv, ConnectTypeOK, Paired

LEMMA ConnectInitSound == ConnectInit => ConnectInv
<1> SUFFICES ASSUME ConnectInit PROVE ConnectInv
  OBVIOUS
<1>1. ConnectTypeOK
  BY DEF ConnectInit, ConnectTypeOK, Sides
<1>2. Chain /\ Paired /\ WayBackStays
  BY DEF ConnectInit, Chain, Paired, WayBackStays, Alive
<1> QED BY <1>1, <1>2 DEF ConnectInv

LEMMA ConnectStepSound == ConnectInv /\ [ConnectNext]_connectVars => ConnectInv'
<1> SUFFICES ASSUME ConnectInv, [ConnectNext]_connectVars PROVE ConnectInv'
  OBVIOUS
<1> USE DEF ConnectInv, chainVars, relayVars, dataVars, ChainUnchanged, EndUnchanged, Sides
<1>1. CASE RuleAnswers
  BY <1>1 DEF RuleAnswers, Step, Destroy, Alive, ConnectTypeOK, Chain, Paired, WayBackStays
<1>2. CASE ResponseWritten
  BY <1>2 DEF ResponseWritten, Writable, Step, Alive, ConnectTypeOK, Chain, Paired, WayBackStays
<1>3. CASE FirstBytes
  <2>1. PICK n \in {0, 1} : toServer' = [toServer EXCEPT !.buffered = n]
    BY <1>3 DEF FirstBytes
  <2>2. toServer' \in [buffered : Nat, written : Nat, taken : Nat]
    BY <2>1 DEF ConnectTypeOK
  <2> QED BY <1>3, <2>2
      DEF FirstBytes, Step, Alive, ConnectTypeOK, Chain, Paired, WayBackStays
<1>4. CASE EndsBeforeData
  BY <1>4 DEF EndsBeforeData, Step, Alive, ConnectTypeOK, Chain, Paired, WayBackStays
<1>5. CASE StartRelay
  <2>1. kind' \in {"direct", "chain", "tunnel"} /\ watched' \in BOOLEAN
    BY <1>5 DEF StartRelay
  <2>2. ConnectTypeOK'
    BY <1>5, <2>1 DEF StartRelay, Step, ConnectTypeOK
  <2>3. ~joined /\ toClient.written = 0 /\ toClient.taken \in Nat
    BY <1>5 DEF StartRelay, Step, Chain, ConnectTypeOK
  <2>4. conn = "none" /\ conn' = "none" /\ (watched' \/ clt' = "closed")
    BY <1>5 DEF StartRelay, Step, Chain
  <2>5. /\ phase' = "custom" /\ ~joined' /\ toClient'.written = 0 /\ toClient'.taken \in Nat
        /\ UNCHANGED <<clt, cleaned>>
    BY <1>5, <2>3 DEF StartRelay, Step
  <2> QED BY <2>2, <2>4, <2>5 DEF Alive, Chain, Paired, WayBackStays
<1>6. CASE ChainFails
  BY <1>6 DEF ChainFails, Catch, Destroy, Alive, ConnectTypeOK, Chain, Paired, WayBackStays
<1>7. CASE ChainHangsUp
  BY <1>7 DEF ChainHangsUp, Step, Alive, ConnectTypeOK, Chain, Paired, WayBackStays
<1>8. CASE CustomResolves
  BY <1>8 DEF CustomResolves, Attach, SetupPipe, Destroy, Alive, ConnectTypeOK, Chain, Paired, WayBackStays
<1>9. CASE ConnReady
  BY <1>9 DEF ConnReady, SetupPipe, Alive, ConnectTypeOK, Chain, Paired, WayBackStays
<1>10. CASE AnswerWritten
  BY <1>10 DEF AnswerWritten, Writable, Step, Alive, ConnectTypeOK, Chain, Paired, WayBackStays
<1>11. CASE RequestData
  BY <1>11 DEF RequestData, Alive, ConnectTypeOK, Chain, Paired, WayBackStays
<1>12. CASE RequestEnd
  BY <1>12 DEF RequestEnd, Alive, ConnectTypeOK, Chain, Paired, WayBackStays
<1>13. CASE PipeUp
  BY <1>13 DEF PipeUp, Pause, Alive, ConnectTypeOK, Chain, Paired, WayBackStays
<1>14. CASE PipeDown
  BY <1>14 DEF PipeDown, Pause, Alive, ConnectTypeOK, Chain, Paired, WayBackStays
<1>15. CASE ServerTakes
  BY <1>15 DEF ServerTakes, Drain, Alive, ConnectTypeOK, Chain, Paired, WayBackStays
<1>16. CASE ClientTakes
  BY <1>16 DEF ClientTakes, Drain, Alive, ConnectTypeOK, Chain, Paired, WayBackStays
<1>17. ASSUME NEW side \in Sides, StartDrain(side), EndUnchanged, clt = "open", conn = "open"
       PROVE  ConnectInv'
  <2>1. CASE ended' = Sides
    <3>1. CleanupRelay(clt, conn)
      BY <1>17, <2>1 DEF StartDrain
    <3>2. /\ cleaned' = TRUE /\ timers' = {} /\ clt' = "closing"
          /\ conn' \in {"closing", "closed"}
      BY <1>17, <3>1, CleanupEffect DEF Alive
    <3>3. ConnectTypeOK'
      BY <1>17, <2>1, <3>2 DEF StartDrain, ConnectTypeOK
    <3> QED BY <1>17, <2>1, <3>2, <3>3 DEF Alive, Chain, Paired, WayBackStays
  <2>2. CASE ended' # Sides
    BY <1>17, <2>2 DEF StartDrain, Alive, ConnectTypeOK, Chain, Paired, WayBackStays
  <2> QED BY <2>1, <2>2
<1>18. CASE ClientEnds
  BY <1>18, <1>17 DEF ClientEnds
<1>19. CASE UpstreamEnds
  BY <1>19, <1>17 DEF UpstreamEnds
<1>20. CASE ConnFinishes
  <2>1. CleanupRelay(clt, "closed") /\ "upstream" \in ended /\ kind # "tunnel"
    BY <1>20 DEF ConnFinishes
  <2>2. cleaned' = TRUE /\ timers' = {} /\ clt' \in {"closing", "closed"}
        /\ (clt' = "closed" <=> clt = "closed") /\ conn' \in {"closing", "closed"}
    BY <2>1, CleanupEffect DEF Alive, ConnectTypeOK
  <2> QED BY <1>20, <2>1, <2>2
      DEF ConnFinishes, Alive, ConnectTypeOK, Chain, Paired, WayBackStays
<1>21. CASE CltFinishes
  <2>1. CleanupRelay("closed", conn)
    BY <1>21 DEF CltFinishes
  <2>2. cleaned' = TRUE /\ timers' = {} /\ clt' = "closed"
        /\ conn' \in {"none", "closing", "closed"} /\ (conn' = "none" <=> conn = "none")
    BY <2>1, CleanupEffect DEF Alive, ConnectTypeOK
  <2> QED BY <1>21, <2>1, <2>2
      DEF CltFinishes, Alive, ConnectTypeOK, Chain, Paired, WayBackStays
<1>22. CASE CltCloses
  <2>1. CASE watched
    <3>1. cleaned' = TRUE /\ timers' = {} /\ clt' = "closed"
          /\ conn' \in {"none", "closing", "closed"} /\ (conn' = "none" <=> conn = "none")
      BY <1>22, <2>1, CleanupEffect DEF CltCloses, Alive, ConnectTypeOK
    <3> QED BY <1>22, <2>1, <3>1
        DEF CltCloses, Alive, ConnectTypeOK, Chain, Paired, WayBackStays
  <2>2. CASE ~watched
    <3>1. clt = "closing" /\ clt' = "closed" /\ ~Alive(conn) /\ conn' = conn
      BY <1>22, <2>2 DEF CltCloses, Chain
    <3>2. UNCHANGED <<chainVars, cleaned, timers, ended, broken, dataVars>>
      BY <1>22, <2>2 DEF CltCloses
    <3> QED BY <3>1, <3>2 DEF Alive, ConnectTypeOK, Chain, Paired, WayBackStays
  <2> QED BY <2>1, <2>2
<1>23. CASE ConnCloses
  <2>1. clt # "open"
    BY <1>23 DEF ConnCloses, Paired
  <2>2. CASE phase = "gone"
    BY <1>23, <2>1, <2>2 DEF ConnCloses, Alive, ConnectTypeOK, Chain, Paired, WayBackStays
  <2>3. CASE phase # "gone"
    <3>1. CleanupRelay(clt, "closed")
      BY <1>23, <2>3 DEF ConnCloses
    <3>2. cleaned' = TRUE /\ timers' = {} /\ clt' \in {"closing", "closed"}
          /\ (clt' = "closed" <=> clt = "closed") /\ conn' \in {"closing", "closed"}
      BY <2>1, <3>1, CleanupEffect DEF Alive, ConnectTypeOK
    <3> QED BY <1>23, <2>1, <2>3, <3>2
        DEF ConnCloses, Alive, ConnectTypeOK, Chain, Paired, WayBackStays
  <2> QED BY <2>2, <2>3
<1>24. CASE ClientResets
  BY <1>24 DEF ClientResets, Alive, ConnectTypeOK, Chain, Paired, WayBackStays
<1>25. CASE ConnFails
  <2>1. CleanupRelay(clt, "closing") /\ broken' = TRUE
    BY <1>25 DEF ConnFails
  <2>2. cleaned' = TRUE /\ timers' = {} /\ clt' \in {"closing", "closed"}
        /\ (clt' = "closed" <=> clt = "closed") /\ conn' \in {"closing", "closed"}
    BY <2>1, CleanupEffect DEF Alive, ConnectTypeOK
  <2> QED BY <1>25, <2>1, <2>2 DEF ConnFails, Alive, ConnectTypeOK, Chain, Paired, WayBackStays
<1>26. ASSUME NEW t \in {"idle", "max"}, DrainTimeout(t) PROVE ConnectInv'
  <2>1. CleanupRelay(clt, conn) /\ broken' = TRUE
    BY <1>26 DEF DrainTimeout
  <2>2. cleaned' = TRUE /\ timers' = {} /\ clt' \in {"closing", "closed"}
        /\ (clt' = "closed" <=> clt = "closed")
        /\ conn' \in {"none", "closing", "closed"} /\ (conn' = "none" <=> conn = "none")
    BY <2>1, CleanupEffect DEF Alive, ConnectTypeOK
  <2> QED BY <1>26, <2>1, <2>2 DEF DrainTimeout, Alive, ConnectTypeOK, Chain, Paired, WayBackStays
<1>27. CASE UNCHANGED connectVars
  BY <1>27 DEF connectVars, Alive, ConnectTypeOK, Chain, Paired, WayBackStays
<1> QED BY <1>1, <1>2, <1>3, <1>4, <1>5, <1>6, <1>7, <1>8, <1>9, <1>10, <1>11, <1>12, <1>13,
           <1>14, <1>15, <1>16, <1>18, <1>19, <1>20, <1>21, <1>22, <1>23, <1>24, <1>25, <1>26,
           <1>27 DEF ConnectNext

LEMMA ConnectInductive == ConnectSpec => []ConnectInv
  BY ConnectInitSound, ConnectStepSound, PTL DEF ConnectSpec

------------------------------------------------------------------------------
(* Every reachable state of the relay is well typed.                       *)
THEOREM ConnectTypeCorrect == ConnectSpec => []ConnectTypeOK
<1>1. ConnectInv => ConnectTypeOK
  BY DEF ConnectInv
<1> QED BY <1>1, ConnectInductive, PTL

(* No socket of the relay outlives its partner, however late               *)
(* customConnect comes back (attachConnection, cleanupRelay).              *)
THEOREM NoSocketIsLeft == ConnectSpec => []NoOrphan
<1>1. ConnectInv => NoOrphan
  BY DEF ConnectInv, Paired, NoOrphan
<1> QED BY <1>1, ConnectInductive, PTL

(* The client's end leaves the way back open (onClientEnd, startDrain).    *)
THEOREM HalfCloseKeepsWayBack == ConnectSpec => []WayBackStays
<1>1. ConnectInv => WayBackStays
  BY DEF ConnectInv
<1> QED BY <1>1, ConnectInductive, PTL
==============================================================================
