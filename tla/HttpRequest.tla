------------------------------ MODULE HttpRequest ------------------------------
(***************************************************************************)
(* One request through the HTTP proxy, plain or decrypted: the pipeline of *)
(* getUserReqHandler and fetchRemoteResponse                               *)
(* (src/proxy/proxy-core/request-handler.js) under the rule of             *)
(* src/proxy/proxy.js, whose tests are in ProxyRules.                      *)
(*                                                                         *)
(* A body is a number of pieces.  What a kept-alive agent offers may be a  *)
(* connection the origin has closed already ("stale"): a request sent on   *)
(* it is reset and never seen.                                             *)
(***************************************************************************)
EXTENDS ProxyRules

CONSTANTS
  Requests,      \* records [host, url, device, traits, safe]
  RuleSets,      \* the block rules in force
  Clock,         \* the times of a week that matter
  Small, Large,  \* pieces kept before streaming, without a response rule and with one
  MaxPieces,     \* bound of the model: pieces of a response
  MaxStale       \* stale connections of the agents at the start

ASSUME ThresholdAssumption ==
  Small \in Nat \ {0} /\ Large \in Nat /\ Small <= Large /\ MaxPieces \in Nat /\ MaxStale \in Nat

VARIABLES
  req, rules, now,  \* the request, the block rules, the time
  client,   \* who waits for the answer
  step,     \* the promise of the pipeline that is pending
  agent,    \* the request brings its own agent, as passRequestWithHttpAgent makes it
  stale,    \* stale connections in the agents
  try,      \* attempts of fetchRemoteResponse
  up,       \* the connection of the attempt
  size,     \* pieces of the origin's response
  got,      \* pieces received in this attempt
  piped,    \* the response is streamed
  err,      \* what the pipeline's catch was given
  answer,   \* what the client is answered: by whom, the pieces, whether it ends
  seen,     \* times an origin has taken the request
  hooked    \* the response went through beforeSendResponse

vars == <<req, rules, now, client, step, agent, stale, try, up, size, got, piped,
          err, answer, seen, hooked>>
world == <<req, rules, now, client>>
fetch == <<agent, stale, try, up, size, got, piped, seen>>

NoAnswer == [by |-> "nobody", pieces |-> 0, ended |-> FALSE]
By(who) == [by |-> who, pieces |-> 0, ended |-> TRUE]

Init ==
  /\ req \in Requests /\ rules \in RuleSets /\ now \in Clock
  /\ client = "sends" /\ step = IF "https" \in req.traits THEN "connect" ELSE "receive"
  /\ agent = FALSE /\ stale \in 0 .. MaxStale /\ try = 0 /\ up = "none"
  /\ size = 0 /\ got = 0 /\ piped = FALSE
  /\ err = "none" /\ answer = NoAnswer /\ seen = 0 /\ hooked = FALSE

Answer(a) == step' = "over" /\ answer' = a /\ UNCHANGED err
Recover(e) == step' = "recover" /\ err' = e /\ UNCHANGED answer

------------------------------------------------------------------------------
(* The client, and what the rule decides *)

\* beforeDealHttpsRequest: refused on the socket, decrypted, or relayed unseen.
Connect ==
  /\ step = "connect"
  /\ IF "denied" \in req.traits /\ "debug" \notin req.traits
     THEN Answer(By("denied"))
     ELSE IF Intercepted(req, rules, now)
     THEN step' = "receive" /\ UNCHANGED <<answer, err>>
     ELSE Answer(By("relay"))
  /\ UNCHANGED <<world, fetch, hooked>>

\* fetchReqData: the whole body has arrived.
Receive ==
  /\ step = "receive" /\ client = "sends"
  /\ client' = "waits" /\ step' = "decide"
  /\ UNCHANGED <<req, rules, now, fetch, err, answer, hooked>>

\* Nothing here listens for it: an unfinished body is awaited for good, any
\* other request goes on as if the client were there.
ClientLeaves ==
  /\ client # "gone" /\ step # "over"
  /\ client' = "gone"
  /\ UNCHANGED <<req, rules, now, step, fetch, err, answer, hooked>>

ClockTicks ==
  /\ step = "receive"
  /\ now' \in Clock \ {now}
  /\ UNCHANGED <<req, rules, client, step, fetch, err, answer, hooked>>

\* A request is given a connection the agent has kept, or a new one.
Assign(pooled) ==
  \/ pooled /\ stale > 0 /\ up' = "stale" /\ stale' = stale - 1
  \/ up' = "asked" /\ UNCHANGED stale

\* A request of _doRequest.  An agent whose connections are all busy queues it;
\* until it has one its timer does not run.
Dial(n, pooled) ==
  /\ try' = n /\ got' = 0
  /\ \/ Assign(pooled)
     \/ pooled /\ up' = "queued" /\ UNCHANGED stale

Fetch(ownAgent) ==
  /\ step' = "fetch" /\ agent' = ownAgent
  /\ Dial(1, TRUE)
  /\ UNCHANGED <<size, piped, seen, err, answer>>

\* beforeSendRequest, when it answers itself.  The 407 is written to the socket,
\* which is then destroyed; what the operator has to read may not be there.
Answers ==
  /\ step = "decide"
  /\ LET d == Decision(req, rules, now) IN
     /\ d \in {"operator", "denied", "blocked"}
     /\ Answer(By(d)) \/ (d = "operator" /\ Recover("other"))
     /\ client' = IF d = "denied" THEN "gone" ELSE client
  /\ UNCHANGED <<req, rules, now, fetch, hooked>>

\* An answer without a header, like the operator's favicon or that of a careless
\* rule, makes sendFinalResponse throw: nobody answers.
AnswersBadly ==
  /\ step = "decide"
  /\ Decision(req, rules, now) \in {"operator", "rewrite"}
  /\ step' = "over" /\ err' = "unsendable"
  /\ UNCHANGED <<world, fetch, answer, hooked>>

\* MITMHandler: the first rule that fits answers, changes the request or throws.
Rewrites ==
  /\ step = "decide" /\ Decision(req, rules, now) = "rewrite"
  /\ \/ Answer(By("rule")) /\ UNCHANGED fetch
     \/ Recover("other") /\ UNCHANGED fetch
     \/ Fetch(FALSE)
  /\ UNCHANGED <<world, hooked>>

\* Otherwise the request goes to the origin; or, debugging, to forwardViaLocalProxy.
Passes ==
  /\ step = "decide"
  /\ LET d == Decision(req, rules, now)
         onward == IF d = "rewrite" THEN Onward(req, rules) ELSE d IN
     \/ onward = "pass" /\ Fetch(TRUE)
     \/ onward = "forward" /\ step' = "forward" /\ UNCHANGED <<fetch, err, answer>>
  /\ UNCHANGED <<world, hooked>>

\* The local proxy answers, perhaps with an error that has no status or header,
\* or fails.  axios was given no timeout: it may also do nothing.
ForwardReturns ==
  /\ step = "forward"
  /\ \/ Answer(By("rule"))
     \/ Recover("other")
     \/ step' = "over" /\ err' = "unsendable" /\ UNCHANGED answer
  /\ UNCHANGED <<world, fetch, hooked>>

------------------------------------------------------------------------------
(* fetchRemoteResponse *)

Open == step = "fetch" /\ up \in {"stale", "asked", "taken", "head"}

\* Faulty variants: every reset is followed by another attempt; whatever the
\* method.
RejectedAlways(e) ==
  IF e = "reset" /\ req.safe
  THEN Dial(try + 1, agent) /\ UNCHANGED <<step, err, answer>>
  ELSE up' = "none" /\ Recover(e) /\ UNCHANGED <<stale, try, got>>
RejectedAny(e) ==
  IF e = "reset" /\ try = 1
  THEN Dial(2, agent) /\ UNCHANGED <<step, err, answer>>
  ELSE up' = "none" /\ Recover(e) /\ UNCHANGED <<stale, try, got>>

\* The promise of an attempt is rejected.  The second attempt of a safe method
\* has a connection of its own, unless the request brought an agent.
Rejected(e) ==
  IF e = "reset" /\ try = 1 /\ req.safe
  THEN Dial(2, agent) /\ UNCHANGED <<step, err, answer>>
  ELSE up' = "none" /\ Recover(e) /\ UNCHANGED <<stale, try, got>>

LeavesQueue ==
  /\ step = "fetch" /\ up = "queued"
  /\ Assign(TRUE)
  /\ UNCHANGED <<world, step, agent, try, size, got, piped, err, answer, seen, hooked>>

\* The request is reset, on a stale connection or by the origin, or cannot be
\* sent at all.
AttemptFails ==
  /\ step = "fetch" /\ up \in {"stale", "asked", "taken"}
  /\ \/ Rejected("reset")
     \/ up = "asked" /\ Rejected("other")
  /\ UNCHANGED <<world, agent, size, piped, seen, hooked>>

OriginTakes ==
  /\ step = "fetch" /\ up = "asked"
  /\ up' = "taken" /\ seen' = seen + 1
  /\ UNCHANGED <<world, step, agent, stale, try, size, got, piped, err, answer, hooked>>

\* The head of a response, or one the parser refuses.
Head ==
  /\ step = "fetch" /\ up = "taken"
  /\ \/ /\ up' = "head" /\ size' \in 0 .. MaxPieces
        /\ UNCHANGED <<step, stale, try, got, err, answer>>
     \/ Rejected("malformed") /\ UNCHANGED size
  /\ UNCHANGED <<world, agent, piped, seen, hooked>>

\* matchResponseRule raises the threshold.
Threshold == IF "rewritten" \in req.traits THEN Large ELSE Small

\* A piece is kept, or passed on; the one that reaches the threshold sends the
\* answer's head and all that was kept, and skips beforeSendResponse.
Data ==
  /\ step = "fetch" /\ up = "head" /\ got < size
  /\ got' = got + 1
  /\ piped' = (piped \/ got + 1 >= Threshold)
  /\ answer' = IF piped' THEN [by |-> "origin", pieces |-> got + 1, ended |-> FALSE] ELSE answer
  /\ UNCHANGED <<world, step, agent, stale, try, up, size, err, seen, hooked>>

End ==
  /\ step = "fetch" /\ up = "head" /\ got = size
  /\ up' = "ended"
  /\ IF piped
     THEN Answer([answer EXCEPT !.ended = TRUE])
     ELSE step' = "respond" /\ UNCHANGED <<answer, err>>
  /\ UNCHANGED <<world, agent, stale, try, size, got, piped, seen, hooked>>

\* Faulty variant: the stream is ended when its source breaks off.
BreakEnds(e) ==
  /\ IF piped
     THEN /\ up' = "broken" /\ Answer([answer EXCEPT !.ended = TRUE])
          /\ UNCHANGED <<stale, try, got>>
     ELSE Rejected(e)
  /\ UNCHANGED <<world, agent, size, piped, seen, hooked>>

\* The response breaks off.  A promise that is settled stays so: a stream is
\* neither ended nor destroyed.
Break(e) ==
  /\ IF piped
     THEN up' = "broken" /\ UNCHANGED <<step, err, answer, stale, try, got>>
     ELSE Rejected(e)
  /\ UNCHANGED <<world, agent, size, piped, seen, hooked>>

OriginBreaks == step = "fetch" /\ up = "head" /\ Break("reset")

\* Faulty variant: the timeout is logged and no more.
TimeoutLogged == UNCHANGED vars

\* proxyReq.setTimeout: 120 s without traffic destroy the request.
Timeout == Open /\ Break("timeout")

------------------------------------------------------------------------------
(* The answer *)

\* beforeSendResponse sees a response that was kept, and may throw.
Respond ==
  /\ step = "respond"
  /\ hooked' = TRUE
  /\ \/ Answer([by |-> "origin", pieces |-> got, ended |-> TRUE])
     \/ "rewritten" \in req.traits /\ Recover("other")
  /\ UNCHANGED <<world, fetch>>

\* onError, when it answers at once.
OnError ==
  /\ step = "recover" /\ err # "malformed"
  /\ Answer(By("error"))
  /\ UNCHANGED <<world, fetch, hooked>>

\* onError sends a request whose response was refused again, over a bare socket
\* (http.js), which has no timeout: it may be taken, answered, or fail.  If the
\* origin ends before the header, the 'end' handler throws and nothing catches it.
AskAgain ==
  /\ step = "recover" /\ err = "malformed"
  /\ \/ up = "none" /\ up' = "again" /\ UNCHANGED <<seen, step, err, answer>>
     \/ up = "again" /\ up' = "retaken" /\ seen' = seen + 1 /\ UNCHANGED <<step, err, answer>>
     \/ up = "retaken" /\ Answer(By("origin again")) /\ UNCHANGED <<up, seen>>
     \/ up \in {"again", "retaken"} /\ Answer(By("error")) /\ UNCHANGED <<up, seen>>
     \/ up \in {"again", "retaken"} /\ step' = "over" /\ UNCHANGED <<up, seen, err, answer>>
  /\ UNCHANGED <<world, agent, stale, try, size, got, piped, hooked>>

Origin == ForwardReturns \/ LeavesQueue \/ AttemptFails \/ OriginTakes \/ Head \/ Data \/ End \/ OriginBreaks
Pipeline == Connect \/ Answers \/ AnswersBadly \/ Rewrites \/ Passes \/ Respond \/ OnError

Next == Receive \/ ClientLeaves \/ ClockTicks \/ Pipeline \/ Origin \/ Timeout \/ AskAgain

\* The pipeline runs and timers fire; clients, origins, agents and the local
\* proxy owe nothing.
Spec == Init /\ [][Next]_vars /\ WF_vars(Pipeline) /\ WF_vars(Timeout)

------------------------------------------------------------------------------
(* Properties *)

Response ==
  [by : {"nobody", "relay", "operator", "denied", "blocked", "rule", "origin", "origin again",
         "error"},
   pieces : 0 .. MaxPieces, ended : BOOLEAN]

(* Types; and a request is attempted twice at most, whatever goes wrong.   *)
TypeOK ==
  /\ req \in Requests /\ rules \in RuleSets /\ now \in Clock
  /\ client \in {"sends", "waits", "gone"}
  /\ step \in {"connect", "receive", "decide", "forward", "fetch", "respond", "recover",
              "over"}
  /\ agent \in BOOLEAN /\ piped \in BOOLEAN /\ hooked \in BOOLEAN
  /\ stale \in 0 .. MaxStale /\ try \in 0 .. 2 /\ seen \in 0 .. 3
  /\ up \in {"none", "queued", "stale", "asked", "taken", "head", "ended", "broken", "again", "retaken"}
  /\ size \in 0 .. MaxPieces /\ got \in 0 .. MaxPieces
  /\ err \in {"none", "reset", "timeout", "malformed", "other", "unsendable"}
  /\ answer \in Response

(* An encrypted request that was relayed unseen is none that a block rule, *)
(* url patterns included, would have stopped at that time; unless          *)
(* decryption is off or the host is a tunnel domain.                       *)
RelayedIsUnblocked ==
  answer.by = "relay" /\ "decrypt" \in req.traits /\ "tunnel" \notin req.traits =>
    Decision(req, rules, now) # "blocked"

(* A response that ends for the client is all of the origin's, however it  *)
(* was collected, retried and streamed; and one that a response rule is    *)
(* to rewrite was given to the rule whole if it is below the threshold.    *)
EndedIsWhole ==
  answer.by = "origin" /\ answer.ended =>
    /\ answer.pieces = size
    /\ "rewritten" \in req.traits /\ size < Large => hooked

(* Origins are sent an unsafe request twice only when the first response   *)
(* was malformed.                                                          *)
UnsafeIsRepeatedForAReason == ~req.safe /\ seen > 1 => err = "malformed"

Stalled == (step = "fetch" /\ up = "queued") \/ step = "forward"

(* A request that has been received is answered to the end.  It stays      *)
(* without an answer only while it is in the queue of an agent or with the *)
(* local proxy of vpn_proxy, neither of which has a timer; or for good, if *)
(* the response broke off while it was streamed, the answer has no header, *)
(* or onError had to send the request again.                               *)
IsAnswered ==
  step \in {"decide", "forward", "fetch", "respond", "recover"} /\ ~Stalled ~>
    answer.ended \/ Stalled \/ up = "broken" \/ err \in {"unsendable", "malformed"}
==============================================================================
