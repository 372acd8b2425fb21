# A TLA+ model of block-proxy

block-proxy is an HTTP(S)/SOCKS5 proxy with a tunnel: a phone or desktop client
keeps a connection to the server, sends the server's requests out through its
own network (*reverse* requests), and sends its own requests out through the
server's proxy (*forward* requests).  This directory models the tunnel's server
side, the HTTP proxy's two request paths, its certificates, the SOCKS5 server
and the process around them.

- [Inventory](#inventory): the parts, their state, what is hard about them
- [Modules](#modules): what models what
- [Runs](#runs): what TLC checks, with which bounds and fairness
- [Where code and documents disagree](#where-code-and-documents-disagree)
- [Proofs](#proofs): what holds for every value of the constants
- [Not modelled](#not-modelled), [Plan](#plan)

Model-check with `tlc -config X.cfg M`, prove with `tlapm M.tla`; the table of
runs names the module of each configuration.

## Inventory

Paths are relative to `src/`; `A/` is
`android-client/app/src/main/java/com/blockproxy/android/`.

### How the tunnel works

The client creates a *session* (`POST create`), opens an SSE *stream* for it
(`GET stream`, server to client), and sends everything else as numbered
`POST upload` requests.  `tunnel/xhttpHandler.js` keeps the sessions;
`tunnel/uploadQueue.js` puts the uploads of a session back in order; a consume
loop per session takes the payloads out, decodes them into frames and gives
each frame to `tunnel/manager.js`, which keeps the request table and the
sockets.  `tunnel/server.js` and `proxy/proxy.js` wire the two together: the
creation and the closing of a session call `setConnected`; the manager asks the
handler which session is *active* (the one whose stream was opened last) when
it needs one for a new request.

    client --POST/GET--> XhttpHandler --payload--> UploadQueue --frame--> TunnelManager --> sockets
                              |  created / closed                        ^      |
                              +------------ setConnected ----------------+      | frames
                              <-------------- writeSse (stream) ----------------+

### How a proxied request works

A client speaks HTTP to `proxy/proxy-core`, or SOCKS5 to `socks5/server.js`,
which passes a CONNECT on to the HTTP proxy.  A CONNECT is relayed unseen, or
decrypted: then the socket is joined to a local HTTPS server that asks
`cert-lifecycle.js` for a certificate of the host, and its requests come back as
plain ones.  `proxy/proxy.js` decides (block rules by device, host, url and
time; MITM rules; tunnel domains) and also owns the process: it starts and
restarts the servers, reads `config.json` and shares it with the admin page
(`server/express.js`) and the device scan (`proxy/scan.js`).

Everything on the server runs on one Node event loop.  A handler is not
interrupted, but between an `await`, a timer, an event and the next handler
anything may happen, and the network orders, drops and repeats as it likes.

### Parts

| Part | State | Operations | Hard because | Correct when |
|---|---|---|---|---|
| Upload queue, `tunnel/uploadQueue.js` | heap, next number, ready list, waiting reader | push, read, close | POSTs arrive reordered, twice or never; the reader is suspended across pushes and close | bytes are handed over in order, once; accepted means kept; no lost wake-up |
| xhttp sessions, `tunnel/xhttpHandler.js` | sessions, streams, four kinds of timer, activity clock | create, close, stream, upload, timers, sweeper | rotation keeps two sessions alive, streams' `close` events are late, timers race answers | one owner; every session watched; late events harmless; silent sessions end |
| Tunnel manager, `tunnel/manager.js` | request table, reqid counter, two counts, sockets and streams, availability | forward, frames, timeouts, socket events, setConnected | five endings of one request race; reqids are reused; a socket outlives its table entry | counts are exact, requests are reachable, answered once, end with their session |
| Data relay in the manager | suspended sends | sendData, sendDataToClient | a send suspends in the middle of a buffer, and may find no stream when it goes on | DATA in order, nothing after CLOSE that belonged before, nothing left in a suspended send |
| Frame codec, `tunnel/protocol.js` | none | encode, decode | boundaries of lengths, input cut in a frame | round trip, no frame made up |
| Server glue, `tunnel/server.js`, `proxy/proxy.js` (initTunnel) | availability flag | callbacks, start, stop | the flag follows sessions, the active session follows streams | available exactly when there is an active session |
| CONNECT relay, `proxy/proxy-core/request-handler.js` | two sockets with half-open states, drain timers | rule, first bytes, customConnect, attach, half close, drain, cleanup | a late connection, both ends and two timers race | no socket is left, the client's end leaves the way back open, a response is not cut, a half-closed relay ends |
| HTTP pipeline, `request-handler.js`, rules of `proxy/proxy.js` | promise chain, agents with stale connections, kept or streamed response | receive, decide, fetch, retry, stream, onError | any step fails; the CONNECT is judged on less than the request | a blocked url is not relayed unseen; a part does not look whole; unsafe requests are not repeated; clients are answered |
| Certificates, `proxy-core/cert-lifecycle.js`, `https-server-mgr.js` | files, map of pending generations, context cache | ensure, invalidate, prewarm, health check, restart | invalidation and a new root CA during a generation | what is served is signed by the root CA of today; callers are answered |
| SOCKS5 server, `socks5/server.js` | counters, sockets, associations | handshake stages, CONNECT, UDP ASSOCIATE | counters are taken in one handler and returned in another, `close` is late | counted once, returned once; requests settle |
| Proxy process, `proxy/proxy.js`, `proxy/fs.js`, `proxy/scan.js`, `server/express.js` | servers, module variables, `config.json` | start, restart, updateDevices, save | `await` between read and write, between stop and start | one server of a kind listens, and it is the one that is named; nothing saved is lost |
| Monitor, attacker guard, fd diagnostics, SSE control, disguise | counters | reports, static answers | little | - |
| Android upload scheduler, `A/tunnel/XhttpUploadScheduler.kt` | batch buffer, sequence numbers, four workers | send, flush, close | coroutines cancel each other; a failed POST leaves a hole | each number posted or the session ends; every sender gets an answer |
| Android tunnel client, `A/tunnel/TunnelClient.kt`, `XhttpTransport.kt`, `XhttpSession.kt`, `TunnelRotationPolicy.kt` | active and draining session, backoff | connect, rotate, reconnect | make before break | never without a session longer than needed |
| Android forward and reverse sessions, `A/tunnel/Forward*.kt` | reqid registry, two semaphores | allocate, admit, data | permits taken in nested order | no reqid used twice, permits returned |
| Python desktop core, `client/proxy_core.py` | pool of connected sockets, admission per target | maintain, get, stop | `await` between check and put | no socket leaks past stop |
| User interfaces, packaging | - | - | presentation | - |

`PROJECT.json` lists every part with its status, and every hazard at its line.

## Modules

In all of them a step is what the event loop runs without an `await`, a timer
or an event in between.  The `Faulty variant` operators are plausible mistakes
in the definitions that follow them; each is used to see that a property notices
the mistake, and none is part of a specification.  The proofs of a component are
in the module named after it with `Proofs` behind; those of `TunnelServer` and
`SessionTable` are in `XhttpSessionsProofs`, those of `FrameCodec` in
`DataRelayProofs`, those of `HttpRequest` and `ConnectRelay` in `ProxyProofs`.

### UploadStream, UploadQueue, MCUploadQueue

`UploadStream` is the abstract promise: payload *n* is consumed once, after
0 .. n-1, and only if a POST with number *n* was accepted.

`UploadQueue` is the queue and the loop that reads it.  A POST is a member of
`Posts` and carries number `SeqOf[p]`; two members with one number are a POST
and its retry.  `Push(p)` is `push()` with its five outcomes (closed, old,
next, early, overflow); the drain loop is the predicate `DrainsTo`: it goes on
only while the *smallest* number in the heap is the next one, as the code does.
`_heapPush` and `_heapShift` are a priority queue and appear as "the smallest";
which of two equal numbers is taken is left open.  `reader` is where the
consume loop is: `running`, suspended in `await read()` (`waiting`), resumed
with a payload it has not handled yet (`holding`), or `stopped`.  A payload
that is `holding` when the session closes is still handled, as in the code:
the read was resolved before the close.

The refinement maps `accepted` to the numbers of acknowledged POSTs and
`offered` to `reader = "holding"`; the heap, the ready list and the retries are
invisible above.

### XhttpSessions, SessionTable, TunnelServer, MCTunnelServer

`XhttpSessions` has a variable per field of a session object and an action per
handler, timer callback and event: `CreateOccupied` and `CreateSession` are the
two ends of `_handleCreate` (both close the requester's own sessions without a
stream first), `OpenStream` is `_handleStream`, `StreamClosed(n)` the `close`
event of stream *n*, which may come long after the session has another one,
`CleanupFires`, `KeepaliveFires` and `ProbeFires` the timers,
`SweepStaleSessions` the liveness sweeper, `CloseAll` the stop of the server.
Time is the age of `lastActivityAt` in the three classes the code tells apart
(within 60 s, within 90 s, older); no relation between timers is assumed.
`writable` is whether the held stream takes writes: `_writeSse` refuses one whose
response has ended, and catches a write that throws.  `SendProbePing` then counts
nothing and arms nothing, and the timer that fired is gone (`TimerGone`).
`pinged` is history: whether the unanswered PING went to the stream of now.
`Upload` puts a payload in the hands of the loop; order and buffering are
`UploadQueue`'s.  There is one set of credentials per handler: they only change
by building a new server.

`SessionTable` is what the manager may assume: identifiers are used once, a
closed session stays closed, the active session is replaced only by a session
whose stream has just opened, unless it closes or loses its stream.
`XhttpSessions!TableSpec` says that the handler implements it.

`TunnelServer` adds the manager's flag `_connected`.  Every step that creates
or closes sessions calls `setConnected` before it returns; steps of streams
call nobody.

### TunnelManager, MCTunnelManager

The manager over the sessions of `SessionTable`.  The code keeps an object per
request and a slot per reqid, and the two can part; so a request is numbered by
creation, its reqid is an attribute, and every action looks up what the code
looks up: frames and `_sendClose` go by reqid, timers and socket events hold
the object.  A request has a phase, its two timers, whether it is counted and
how many answers its CONNECT got.  `Cleanup` is the closure of a forward socket
that runs once; `ClearActiveRequest` is the slot's.  A destroyed socket is
`closing` until its `close` event.  The frames `ConnectOk`, `Data`, `Close` and
`ConnectFailed` may come at any time for any reqid: they are the client's to
send, late or repeated.  A CONNECT may come from a session that has just closed
(`s \in open \cup gone`), because of the payload in hand described above.  The
one assumption on clients: a reqid is not reused before its request is over
(the client's registry skips reqids in use).

### FrameCodec, DataRelay, MCDataRelay

`FrameCodec` translates `encodeFrame`, `decodeFrame` and `decodeFrames` for
every frame type.  A byte holds `Byte` values, so that a small instance reaches
the limits of one- and two-byte lengths; text is a sequence of numbers whose
content is not looked at.  The loops of the decoder are functions of the number of
turns.  `encodeFrame` can be called with what it does not keep: a reqid of more
than 16 bits, a name longer than its length byte counts.  `Frames` is what is
left, the frames `decodeFrame` can give back.

`DataRelay` is `_sendData` and `_sendDataToClient`: a buffer is cut into pieces
of at most `MaxDataChunk`, the function suspends after each.  In the reverse
direction a Writable passes one buffer at a time; in the forward direction the
`'data'` handler does not wait.  The direction is chosen in `Init`.
`CheckPhase` resumes every suspended call once, in their order: `Pending` lists
those with something left, `Resume` what they send, and calls that have sent
their last piece return.  All pieces of a buffer but the last fill their frames.

The answer of `sendEncodedFrame` is not looked at.  `stream` is whether the
session has a stream; it may be lost and opened again between any two pieces
(`StreamLostOrOpened`), and `Push` then puts nothing on the wire: the piece goes to
the history variable `dropped`.  `entry` is whether the request is in the table: it
goes with the CLOSE of an end or of a failure (`SendClose`), or because the client
closes the request (`RequestLost`), and `_sendData` then sends nothing of a new
buffer.  So the wire can have holes and end in a CLOSE like any other; what the
code keeps is that a piece is missing *only* for these reasons.

What goes out is frames of `FrameCodec`, among them one of any other kind:
`StreamDecodes` decodes their bytes, whole and cut off anywhere, and finds what was
sent.  `WholeAndInOrder` is what reaches the client: each buffer in order
(`BuffersInOrder`), at the end every piece written or dropped, none behind CLOSE
and one CLOSE (`Whole`), and the buffers themselves in order where one is sent at
a time (`OneAtATime`, `InOrder`); where reads are cut they are not, which is a
finding.

### ConnectRelay

One CONNECT in `getConnectReqHandler`.  `phase` is where the promise chain
waits: the rule, the write of the 200, the first bytes, the target,
`customConnect`, and for a tunnel the write of the delayed 200.  `clt` and
`conn` are the sockets; `destroy()` is one step and the `close` event, with the
listeners that hear it, a later one.  The relay is two pipes with back-pressure
(`paused`) that do not pass on an end: `ClientEnds` and `UpstreamEnds` end the
other side by hand and start the drain timers.  `conn` is a direct socket, one
through a chained proxy, or a reverse stream of the tunnel.  Its `Init`, `Next`
and `Spec` carry the prefix `Connect`, because `HttpProxy` and `ProxyProofs`
extend it together with `HttpRequest`.

`WayBackStays` is what the half close promises for the client's end.  For the
server's end the promise is `ResponseIsDrained`, which the code does not keep: a
finding.

### ProxyRules, HttpRequest

`ProxyRules` holds the decisions as operators: `Intercepted` at a CONNECT
(`beforeDealHttpsRequest`) and `Decision` for a request (`beforeSendRequest`),
over block rules with device, host, urls, weekdays and a window that may pass
midnight.  A request is known by the tests it passes (`Traits`).

`HttpRequest` is the pipeline around them: `Receive` is `fetchReqData`, `Dial`
a `_doRequest`, whose request the agent queues (`LeavesQueue`) or gives a
connection that may be stale (`Assign`), `Rejected` the retry of
`fetchRemoteResponse`, `Head`, `Data` and `End` a response that is kept, or
streamed once it reaches the threshold, `Break` and `Timeout` its failures,
`Respond` the rules' `beforeSendResponse`, `ForwardReturns` the end of
`forwardViaLocalProxy`, if there is one, `OnError` and `AskAgain` what
`onError` does, the second request over a bare socket included.

### HttpProxy, MCHttpProxy

The server that both handlers are registered with: a client is one of
`userRequestHandler` or of `connectReqHandler`.  The handlers share no state, so
the module is the choice between them and carries the fairness of each.

### CertLifecycle, MCCertLifecycle

One host's certificate: the files, the entry of `pendingCerts`, generations
that run, the context cache of the HTTPS server of one instance.  A certificate
is its generation and the root CA that signed it.  `Settle` removes the entry
of the host whichever generation it belongs to, as the `finally` does;
`InvalidateCert` and `Restart` remove it while a generation runs.

### SocksServer, MCSocksServer

The connection handler: three stages under timers, `TcpRequest` with the limit
and the CONNECT to the HTTP proxy, `UdpRequest`, and both cleanups, which run
by `close` events.  `count` holds all counters of the server.

### ProxyProcess, MCProxyProcess

`restart` and `start` of `LocalProxy` as tasks that wait at their `await`s,
over the module variables `tunnelServer` and `proxyServerInstance`; a server is
known by the restart that made it.  Beside them `updateDevices` with the scan
status, the admin page's read and save, and the process that dies at any moment
and is started again (`Crash`), over one `config.json`.

`config.json` is read with an `await` and written synchronously, all of it.
`read[t]` is what a task that is going to write has read; `kept[u]` what
`updateDevices` read at its start and writes at its end.  `loadConfig` drops some
fields (`login` is one of them) or sets them to a default, so what it returned is
`Carried`, and `updateDevices` writes that back.  `Restore` is the `readConfig` that
found a half-written file and writes the backup over it.  `staleRead` and
`staleKept` are history: whose copy somebody else has written after; `lost` says
that such a copy was written back.  From then on the code promises nothing of the
file, and the module nothing either.  `loadConfig` at a start, the copies of which
live until the servers are made, is taken in one step with the start (`Crash`).
Closing a tunnel takes up to 500 ms and the wait after closing a proxy is 1000 ms:
`shorter` records which closings a wait outlasts, the one relation between
timers the module uses.

## Runs

| Run (`.cfg`) | Module | Expected | Shows |
|---|---|---|---|
| `upload_queue` | MCUploadQueue | pass | order, exactness, no lost acknowledgement or wake-up, refinement of `UploadStream`, progress |
| `upload_queue_stuck` | MCUploadQueue | violation | a re-sent POST strands its successors |
| `tunnel_sessions` | MCTunnelServer | pass | one owner, timers, streams against late `close` events, rotation, refinement of `SessionTable`, availability needs a session, silent sessions end |
| `tunnel_unavailable` | MCTunnelServer | violation | an active session and no availability |
| `tunnel_manager` | MCTunnelManager | pass | counts, reachability, timers, one answer, end with the session |
| `data_relay` | MCDataRelay | pass | bytes decode to what was sent, whole and cut off; each buffer in order and before the one CLOSE; all in order one buffer at a time; a piece is missing only for want of a stream or a request; progress |
| `data_relay_forward` | MCDataRelay | violation | DATA of two reads interleave |
| `http_proxy` | MCHttpProxy | pass | a request: block rules hold across CONNECT and request, whole responses, retries, an answer; a CONNECT: no orphaned socket, the client's end leaves the way back open, a half-closed relay ends |
| `connect_truncated` | ConnectRelay | violation | a response is cut when its server has ended |
| `socks_server` | MCSocksServer | pass | counters are exact, every handshake and request ends |
| `cert_lifecycle` | MCCertLifecycle | pass | current certificates only, one generation per instance, every caller answered |
| `proxy_process` | MCProxyProcess | pass | restarts leave the named servers listening; what is saved survives, and so do devices; the scan status is taken back |

### Bounds

- `upload_queue`: seven POSTs with the numbers 0 .. 4, numbers 1 and 2 sent
  twice, a heap of three.  Four numbers can be ahead of number 0, so the heap
  overflows; a retry can be old, next or early; any subset may be lost.
- `tunnel_sessions`, `tunnel_unavailable`: two clients (a takeover needs a
  second), two sessions (an old one and its successor or a stranger's), three
  streams (one reconnects, the other takes over, with up to three `close`
  events pending), one PING before the probe gives up, one payload in hand.
  No symmetry, as liveness is checked.
- `tunnel_manager`: two sessions, three requests, reverse reqids 1 .. 3 (so a
  reverse reqid is not reused while in use), one forward reqid that every
  forward request uses in turn, at most two reverse and one forward request at
  a time, so both limits are reached.  Sessions are only compared, so they are
  symmetric; its one temporal property is an action property.
- `data_relay`: five values to a byte, so that a payload has at most 24 bytes
  and a piece 21; three pieces in reverse buffers of up to three and forward reads
  of up to two, which is what a read of 65536 bytes becomes, so that two reads can
  overlap; the stream is lost and opened any number of times; one frame of any other
  type with texts of no byte and of the longest.  `data_relay_forward` has four
  pieces, two reads of two, and no other frames.
- `socks_server`: two connections and one place, so the limit is met while the
  other connection holds it, closes, or waits for its `close`.
- `cert_lifecycle`: three callers (two share a generation, one starts the
  next), three generations, two restarts with or without a new root CA.
- `http_proxy`: of a CONNECT two pieces each way and buffers of two, so a pipe
  pauses, drains, and can hold bytes when its side ends (`connect_truncated` is the
  same); requests that pass at most one test besides `https` and
  `decrypt`, two urls, three rule sets, weekday and time in and out of a
  rule; thresholds of one and two pieces, responses of none to two, two stale
  connections so that a retry may meet one as well.
- `proxy_process`: three restarts, one scan task that runs twice, one save, any
  number of deaths and restored backups.  Three restarts are the least that leave a
  listener without a name.  The page, the start of the process and the scan are three
  that hold copies; two scans that overlap are in the proofs.  `CONSTRAINT NotLost`
  stops where a stale copy was written back, after which no property says anything
  of the file; `QuietIsSound` of the servers does not depend on the file and is
  proved without the constraint.

Deadlock is not checked: in each module the bound on what the environment does
(POSTs, streams, requests, pieces, restarts) ends the behaviours, and a server
that is stopped, or a request that is over, rests.

### Fairness

- `UploadQueue!FairSpec`: the consume loop runs when it can (a microtask that
  is ready is run).  Nothing is assumed of POSTs.
- `XhttpSessions!Fairness`: time passes (`Age`), the clean-up timer that stays
  armed and the sweeper's interval fire.  Nothing is assumed of requests, events,
  PINGs, probes or the loop: the sweeper alone removes a silent client.  `SilentSessionEnds` says that a session which stays open while the
  sweeper runs goes on receiving frames.  In a behaviour of the model streams
  are opened at most `MaxStreams` times, so a client that reconnects for ever
  without ever sending a frame is not covered.  In the code the sweeper only
  looks at sessions that have a stream at the moment it runs.
- `DataRelay!FairSpec`: a callback given to `setImmediate` is run.
- `ConnectRelay!ConnectSpec`: `close` events that are due are emitted and the absolute
  drain timer fires.  The idle timer is not assumed to: data may restart it for
  ever.  Neither peer owes anything.
- `SocksServer!Spec`: the timers fire and `close` events are emitted.
- `CertLifecycle!Spec`: node-easy-cert calls back.
- `HttpRequest!Spec`: ready continuations run and the timeout of a request that
  has a connection fires.  Clients and origins owe nothing.  Nor does the agent,
  which may leave a request in its queue: `ClientRequest.setTimeout` starts its clock
  when there is a socket.  Nor do the local proxy (`ForwardReturns`; `axios` is given
  no timeout) and the second request of `onError` (`AskAgain`, over a bare socket).
  `IsAnswered` names each of the three.
- `ProxyProcess` has safety properties only.

## Where code and documents disagree

Each of these four is a run that ends in a violation, and an entry of
`findings` in `PROJECT.json` with the quotations.

- **A repeated number stops the drain loop** (`tunnel/uploadQueue.js:136`).
  `_drainHeap` stops when the smallest number is not the next; a number that is
  in the heap twice leaves its second copy on top as an old number.  The
  comment says the loop takes out the consecutive frames.  Its successors wait
  until a push of the next expected number comes, so a client whose POSTs were
  all answered 200 waits for nothing.  `OnlyRepeatsStrand` states, and a theorem
  proves, that a repeated number is the only way there.
- **Active and not available** (`tunnel/manager.js:497`).  Availability is
  computed when a session is created or closed; a stream that opens later does
  not raise it again.
- **Interleaved DATA** (`tunnel/manager.js:350`).  The `'data'` handler does
  not wait for the relay it started.  A read that fills the 65536 bytes of
  libuv's buffer is cut in two, and the first piece of the next read in the
  same poll phase goes out before its second.
- **A response is cut at its server's end** (`request-handler.js:773`).  When the
  server ends, `onUpstreamEnd` ends the client's socket, which may still have bytes
  to send.  If the client has ended too, `startDrain` calls `cleanupRelay` at once;
  if it has not, the server's socket, a `net.connect` one without `allowHalfOpen`,
  closes by itself as soon as it is flushed, and its `close` calls `cleanupRelay`.
  Either way the client's socket is destroyed with what it has not sent, where the
  half-close drain design wants a legitimate response not to be cut.

Others met while reading, which no run shows:

- A stream that reconnects while a PING is unanswered keeps `pingAttempts > 0`
  and gets no probe (`xhttpHandler.js:472`, `:806`), where
  `docs/plans/2026-08-15-tunnel-liveness-probe-design.md:70` takes the count for
  a running probe (若 pingAttempts > 0：已有活跃 probe); a frame or the 90 s sweeper
  is left.  `TimersSound` excepts this case.
- While a session has no stream, DATA is dropped without a word
  (`xhttpHandler.js:500-504`, whose `false` nobody reads) and the next piece is sent
  on the stream that is opened again: the client sees a hole, and a CLOSE behind it
  like behind a whole response.  `DataRelay!Whole` says no more than what is left.
- A forward request that is given up by its idle timer (`manager.js:305`) is cleared
  without a CLOSE, so the client is told nothing.
- `http.js:141-143`: when the origin ends before the header of the second request of
  `onError`, the `'end'` handler reads `headersObj` of a header that never came; it
  throws outside any promise.
- A client process that starts again uses reqids of its dead session, and
  `_allocateReqid` (`manager.js:159`) wraps, both without a look at the table;
  the end of the old request then clears the new one's entry (`:294`).
- `_isRetryableMethod` says only GET, HEAD and OPTIONS are safe to retry on a
  fresh connection.  The retry uses the caller's agent if there is one, so its
  connection need not be fresh; and `onError` (`proxy.js:1801`) sends any method
  again after a malformed response, without its body or a timeout.
- A response that breaks off while it is streamed is neither ended nor
  destroyed towards the client; an answer without a header (the operator's
  favicon) makes `sendFinalResponse` throw and nobody answers.  `IsAnswered`
  names these cases.
- `loadConfig` does not carry over `tunnel_padding` and the admin login, so the
  tunnel never sees the padding that
  `docs/plans/2026-07-14-tunnel-padding-obfuscation-plan.md:225` plans for
  (`:47`, `:72`), and every `updateDevices` writes the file without them, with no
  overlap at all: `ConfigSurvives` has `file.login \in {0, saved}`.
- The write of `updateDevices` is as old as the start of its scan; whatever was
  saved meanwhile is lost, and a scan status that another task has written since
  comes back, "1" included, after which no scan runs until the next start.
  `ConfigSurvives` speaks of the time before a stale copy is written back.
- In a chain of three restarts the last proxy can be left listening while
  `proxyServerInstance` names none.  `QuietIsSound` covers bursts of two.
- What arrives in one chunk behind the HTTP proxy's 200 is dropped by
  `onProxyData` of the SOCKS5 server (`server.js:216`).
- A CONNECT whose chained proxy hangs up before answering is never settled
  (`ConnectRelay!ChainHangsUp`).

## Proofs

Proved by TLAPS for every value of the constants allowed by the named
assumptions of the modules.  They say that bounds are naturals, that what is
counted is finite (POSTs, connections, restarts, forward reqids) and that `None`
is no member of what it stands beside.  Four say something of the code:
`MaxAttempts`, `MaxBuffered` and `HighWater` are positive; the small threshold of a
response is no more than the large one (`ThresholdAssumption`); reverse and forward
reqids are apart (`IdsAssumption`: the server counts from 1 to 0x7fff, the client
from 0x8000); a byte has room for the header of a DATA frame
(`ByteAssumption`).  TLC evaluates the same assumptions in the runs.

With the theorems below every safety invariant and every action property that a
passing run checks is proved, and both refinements.  (Of `HttpProxy`'s two handlers each
is proved by itself; they share no state.)  Only liveness is left to the
runs ([the last section](#model-checked-only)).  `TunnelManager`'s hold under a
condition on the reqid counter, named there.

### UploadQueueProofs

`InOrderOnce` is not inductive: it says what the three parts of the pipeline
are together, not where one ends and the next begins, and `_deliver` relies on
an empty `ready` when a reader waits.  The inductive invariant is

    IInv == Types /\ Positions /\ WaitsForAReason /\ BufferBounded /\ AckedIsKept

where `Positions` gives each part its place: `out` is 0, 1, ...; the payload in
hand is number `Len(out)`; `ready` ends at `nextSeq - 1`.  `BufferBounded`
bounds the heap and with it the drain.

| Theorem | States |
|---|---|
| `TypeCorrect` | `Spec => []TypeOK` |
| `AcknowledgedIsKept` | `Spec => []NothingForgotten` |
| `DeliveredInOrderOnce` | `Spec => []InOrderOnce`, from `Positions` and `CountOn`, which joins sequences that count on |
| `ImplementsStream` | `Spec => StreamSpec`, with `Covered`: every number below `nextSeq`, and every post in the heap, was acknowledged |
| `NothingStranded` | `Spec => []OnlyRepeatsStrand`, with `EarlyInv`: while no number came twice, all of the heap is ahead of `nextSeq` |

### XhttpSessionsProofs

| Theorem | States |
|---|---|
| `TypeCorrect` | `Spec => []TypeOK`; with it, never more than `MaxAttempts` PINGs to a client that does not answer |
| `OneClientAtATime` | `Spec => []OneOwner`; inductive as it stands, since a create closes the sessions of all others first |
| `TimersAreSound` | `Spec => []TimersSound`, by an invariant that joins its parts: a probe needs a PING, a stream and an open session, and a PING of this stream a probe |
| `StreamsAreAccounted` | `Spec => []StreamAccounted`, by an invariant that also bounds the orders given out by `_sessionOrder`, so a new stream is never confused with an old one |
| `ReplacedStreamIsHarmless` | `Spec => OldStreamIsHarmless` |
| `SessionsOnlyMoveForward` | `Spec => SessionsMoveForward`, with `CreateSpares`: what a granted and what a refused create closes |
| `TableIsImplemented` | `Spec => TableSpec`: the handler implements `SessionTable` |
| `ServerIsHandler` | `ServerSpec => Spec`, so that all of the above holds in `TunnelServer` |
| `AvailableMeansSession` | `ServerSpec => []AvailableNeedsSession` |

`SessionsOnlyMoveForward` and `TableIsImplemented` rest on one fact: the active
session is the session with a stream
whose order is the greatest.  `ActiveSession` is a `CHOOSE` and says nothing by
itself; it needs a finite set of orders, that a finite set of numbers has a greatest
(`HasGreatest`), and orders that are distinct, which `StreamAccounted` gives.
`NewestIs` and `NewestStays` then say when a session is the newest and that it stays
so when others leave.  Each step is put into one of five shapes: sessions leave
(`Leave`), one enters without a stream (`Enter`), one gets a stream (`Stream`) or
loses it (`Lose`), or none of these (`Idle`).  What a shape does to the table and to
the active session is proved once, and the refinement and `SessionsMoveForward`
follow action by action.

### ProxyProofs

*A request (`HttpRequest`).*  One invariant carries all four theorems: `Pipe` (what holds between the stages
of the promise chain), `Attempts` (an attempt is seen at most once, the second
belongs to a safe method, and the request of `onError` follows a malformed
response), `Streamed` (what was streamed is what was received, and no less than
the threshold) and `Unseen` (a relayed request was judged by the rules at the
time that still is).  `HostDecidesFirst` is the lemma about the rules: a block
rule that fits with a url fits without one, so what a CONNECT does not decrypt
would not have been blocked.

| Theorem | States |
|---|---|
| `TypeCorrect` | `Spec => []TypeOK`; no third attempt |
| `NothingBlockedIsRelayed` | `Spec => []RelayedIsUnblocked`, for all rules, requests and times |
| `NoPartLooksWhole` | `Spec => []EndedIsWhole`, for all sizes and thresholds |
| `UnsafeIsSentOnce` | `Spec => []UnsafeIsRepeatedForAReason` |

*A CONNECT (`ConnectRelay`).*  `NoOrphan` speaks of sockets that have closed; its invariant has to speak of
those that are about to.  `Paired` says that a destroyed socket has destroyed
its partner or has a `close` to come that will; `Chain` says why that `close` is
heard: a connection that lives has a listener on the client's socket, or the
client had closed before it came and `attachConnection` saw it.  `WayBackStays` goes
through with these two: who calls `cleanupRelay` has an error, a reset, a timer or
the server's end behind it.

| Theorem | States |
|---|---|
| `ConnectTypeCorrect` | `ConnectSpec => []ConnectTypeOK` |
| `NoSocketIsLeft` | `ConnectSpec => []NoOrphan` |
| `HalfCloseKeepsWayBack` | `ConnectSpec => []WayBackStays` |

### TunnelManagerProofs

The inductive invariant is

    IInv(K) == Types /\ Keys /\ Numbers /\ Entries(K) /\ Counts

`Keys`: a request keeps the reqid it was made with, and the table finds it under
no other.  `Entries(K)`: every forward request, and every reverse request in `K`,
is in the table, counted and under a timer exactly as long as the code says
(`Good`), and of two requests with one reqid, one of them such a request, at least
one is over (`Apart`, `Over`: done, its timers off); of the other requests it is
only known that they leave the table when they are done.  `Counts`: the forward count
is the counted forward sockets, the reverse count the reverse requests that hold
a place.

`K` is there because the code does not keep all of `Entries` for reverse
requests: `_allocateReqid` (`manager.js:159`) wraps without a look at the table,
and a number that is still in use is given out twice.  `StepHolds` shows that a step
preserves `IInv(K)` unless it makes a reverse request that shares its number with
one that is not over, one of the two being in `K` (`NumbersKept(K)`).  So

- with no reverse request in `K` nothing is assumed, and what is said of forward
  requests holds at every wrap;
- with one request in `K` a wrap is shown to affect only the requests that share
  the number: any other is served, whatever becomes of those (`RequestServed`);
- with all of them, what needs both kinds holds under `NoReqidTakenTwice`: no
  reverse request is made under the number of one that is not done.

`FirstRound` discharges the condition for the counter's first round, where
`Numbers` says that all numbers given out lie behind the counter.  The run is
within that round.

| Theorem | States |
|---|---|
| `TypeCorrect` | `Spec => []TypeOK`, at any wrap: both limits hold, a CONNECT gets one answer at most |
| `ForwardAlwaysExact` | `Spec => []ForwardIsExact`, the forward half of `CountersAreExact`, at any wrap |
| `RequestServed` | `Spec /\ KeepsItsNumber(r) => []Served(r)`, for each request *r* |
| `CountersExact` | `Spec /\ NoReqidTakenTwice => []CountersAreExact` |
| `EntriesServed` | `Spec /\ NoReqidTakenTwice => []EntriesAreServed` |
| `SessionTakes` | `Spec /\ NoReqidTakenTwice => SessionTakesItsRequests` |
| `FirstRound` | `MaxRequests <= MaxReverseId` implies the three without the condition |

### DataRelayProofs

*The codec.*  Decoding is a loop over an offset, so its correctness is an induction,
and the library states induction with an operator as parameter.  `SetInduction`
states it as a fact about sets: a subset of `Nat` with 0 and all successors is
`Nat`.  `Concatenation` says where the parts of a concatenated sequence
begin (`Places`), by induction over its parts.  `Shows(b, at, s)` says that the
bytes *b* show *s* from offset *at* on; it passes from a whole to its parts, and what
is shown is what `Slice`, `Number16` and `Text` read there.  `RoundTrip` follows type
by type; for lists of texts `ListShown` is the induction over their offsets.  For
`FramesDecoded` let bytes be cut off in frame *k + 1*: after as many turns the
loop has given frames 1 .. *k* and stands at their end (`CutDecoded`), where it throws
unless the bytes end there, and a frame is two bytes or more, so the turns suffice.

*The stream.*  `IInv == TypeOK /\ Accounted /\ Closing`: what was read was sent,
dropped, or is left to a call that is suspended; CLOSE is sent at most once, since the
request leaves the table with it; and when the bytes have ended no call has anything
left.  The stream and the request may go and the stream come back at any step.  `BuffersInOrder` needs to know what the calls will send, which
`Apart` says: nothing that was sent, and no two the same.  That a whole piece is
followed by more of its buffer (`CheckPhaseEffect`) gives the order.  Between
buffers `Numbered` gives it: the wire carries its pieces in order, and with the dropped
ones they are 1 .. n, where n + 1 is what the one unfinished call sends next, or
everything read if there is none.
There is one at most under `OneAtATime`, which is part of the property; the run
`data_relay_forward` shows what happens otherwise.  `WaitingEnumerated` shows that
the `CHOOSE` of `Pending` names something, the calls in their order.

| Theorem | States |
|---|---|
| `RoundTrip` | `decodeFrame` gives back every frame of `Frames`, for every width of a byte |
| `FramesDecoded` | `decodeFrames` gives back every sequence of them; cut off anywhere, the bytes are refused or give the first frames |
| `TypeCorrect` | `Spec => []TypeOK`: whatever is sent is in `Frames` |
| `StreamIsDecoded` | `Spec => []StreamDecodes` |
| `EndWaits` | `Spec => []Whole`, in both directions: the turn of every piece has come, and one CLOSE |
| `ArrivesWholeAndInOrder` | `Spec => []WholeAndInOrder`, for buffers of any size |

### CertLifecycleProofs

`IInv == Types /\ NothingAhead /\ RunningIsOwed /\ ServedIsCurrent`.
`ServedIsCurrent` speaks of the present instance, so a restart must not make an
answer of an earlier one current again: `NothingAhead` says that no caller asked
for an instance to come.  That no more generations run side by side than there were
restarts and one needs `RunningIsOwed`: a generation that is not the entry of
`pendingCerts` was disowned by a restart.

| Theorem | States |
|---|---|
| `TypeCorrect` | `Spec => []TypeOK`, the number of generations included |
| `OnlyCurrentIsServed` | `Spec => []ServedIsCurrent` |

### SocksServerProofs

`SlotsAreExact` compares counters with sockets; the code counts with flags
(`shaking`, `cleaned`) that one handler sets and the `close` event of either
socket reads.  `Shape` says for each stage how flags, sockets and replies go
together, above all that a slot is given back exactly when one of the two sockets
has closed, and that then neither is alive.  `Counted` says that each counter
is the number of the connections with its flag.  Cardinalities change by one in
`OneMore` and `OneLess` only.

| Theorem | States |
|---|---|
| `TypeCorrect` | `Spec => []TypeOK`: with it, which replies a client may get |
| `SlotsAreCounted` | `Spec => []SlotsAreExact` |

### ProxyProcessProofs

`IInv == FileTypes /\ Places /\ ServerTypes /\ BurstIsBegun /\ UntilLost /\ Sound`.
`UntilLost` is `ConfigSurvives` with what is held in local variables: a copy that
nobody has written after has the settings and devices of the file (`CopyOf`), and a
status "1", in the file or in such a copy, has a task that will take it back
(`TakenBack`), the start of the process included; of the copy `updateDevices` has
kept, another task than itself, since its own write comes last.
`Sound` speaks of bursts of two restarts at most and says where each of them is
when the other acts: `Named` (no server listens but the one its variable names),
`OneOrTwo` (who is past the point where both would make a server: a restart that
makes its tunnel finds none, and is alone by the time it takes one down again) and
`Newest` (the one that runs alone has read the last settings).  Failed starts and
whatever restarts came before the burst are included.

| Theorem | States |
|---|---|
| `TypeCorrect` | `Spec => []TypeOK`: `tunnelServer` names no stopped server, whatever overlaps |
| `ConfigIsKept` | `Spec => []ConfigSurvives`, for any number of scans, restarts, saves, restored backups and deaths of the process, whatever overlaps |
| `QuietSound` | `Spec => []QuietIsSound` |

### Model-checked only

- Liveness (`DeliveredIsProcessed`, `SilentSessionEnds`, `NothingIsLeft`,
  `HalfCloseEnds`, `EveryRequestSettles`, `EveryCallerAnswered`, `IsAnswered`), and
  with it everything about `ENABLED`, is beyond the prover.
- Of the requests of `TunnelManager` that share a number after a wrap nothing is
  claimed, since the code does not have the properties then; nor of chains of
  three restarts.

## Not modelled

- The contents of payloads, tokens, padding, disguise pages, TLS, logging.
- The size of response buffers: `res.write` is not checked for back-pressure.
- A restarted client that reuses its reqids (see above).  A wrap of the reqid
  counter onto a number in use is in the model and in the proofs, not in the run.
- `ConnectRelay` joined to the tunnel's reverse stream: ending that stream
  clears its table entry, so the rest of a response is dropped after a
  client's half close.
- The map of shared HTTPS servers, a server of which that is finished after
  `close()` is never closed; WebSocket requests; what MITM rules and operator
  pages compute; evictions from caches; the root CA itself.
- The change of ports or of `enable_tunnel` between two restarts (`proxy.js:1332`),
  the `await` for the tunnel's temporary certificate (`:1341`), restarts while the
  process is starting, and the write of `config_file` at a start (`:1956`).  A write
  that the process dies in counts as not done, since `readConfig` restores the
  backup; a file and a backup that are both unreadable, after which `loadConfig`
  goes on with defaults, are left out.  What `Restore` writes is a copy somebody holds.
- Monitor, attacker guard, fd diagnostics, SSE control, disguise, and the admin
  server's login and reports: they keep little state and nobody here reads it.
- The Android and Python clients and the user interfaces.  From here clients are
  the environment of the server's modules, which is more liberal than they are.

## Plan

Done: the tunnel's server side (`UploadQueue`, `XhttpSessions`, `TunnelServer`,
`TunnelManager`, `DataRelay`, `FrameCodec`), the two request paths
(`ConnectRelay`, `HttpRequest`), `CertLifecycle`, `SocksServer`, `ProxyProcess`.

Every safety invariant and every action property of a passing run is proved.
Models to write next:

1. `UploadScheduler`: batching, workers and close of `XhttpUploadScheduler.kt`,
   composed with `UploadQueue`: a number that is never posted, a sender that is
   never answered.
2. `ConnectRelay` composed with the reverse stream of `TunnelManager`.
3. `ForwardAdmission` (two semaphores in nested order) and the client's reqid
   registry, composed with `TunnelManager`; `ClientRotation`.
4. `UpstreamPool` of the desktop client.
