------------------------------ MODULE SocksServer ------------------------------
(***************************************************************************)
(* The SOCKS5 server (createConnectionHandler in src/socks5/server.js).    *)
(*                                                                         *)
(* A connection is read in stages (method, authentication, request), each  *)
(* under a timer; the code between two reads runs in one turn.  A CONNECT  *)
(* is passed on as a CONNECT to the HTTP proxy of this program; a UDP      *)
(* ASSOCIATE opens a datagram socket that lives as long as the connection. *)
(* Counters are taken in the handler and given back by 'close' events,     *)
(* which come in a turn after destroy().                                   *)
(***************************************************************************)
EXTENDS Naturals, FiniteSets, Sequences

CONSTANTS
  Conns,            \* client connections of a behaviour
  MaxTcpConnects

ASSUME ConnsAssumption == IsFiniteSet(Conns) /\ MaxTcpConnects \in Nat

VARIABLES
  stage,       \* what the handler of a connection waits for
  clt,         \* clientSocket
  dst,         \* proxySocket
  joined,      \* the two are piped into each other
  udp,         \* the datagram socket of an association
  shaking,     \* its flag "handshaking"
  cleaned,     \* its flag "cleaned" or "udpCleaned"
  replies,     \* SOCKS replies written to it
  count        \* the counters of the server

connVars == <<stage, clt, dst, joined, udp, shaking, cleaned, replies>>
vars == <<connVars, count>>

Handshake == {"method", "auth", "request"}

Alive(s) == s \in {"new", "open"}
Destroy(f, c) == IF Alive(f[c]) THEN [f EXCEPT ![c] = "closing"] ELSE f

Init ==
  /\ stage = [c \in Conns |-> "none"]
  /\ clt = [c \in Conns |-> "none"] /\ dst = clt /\ udp = clt
  /\ joined = [c \in Conns |-> FALSE] /\ shaking = joined
  /\ cleaned = joined
  /\ replies = [c \in Conns |-> <<>>]
  /\ count = [handshaking |-> 0, activeTcp |-> 0, activeUdp |-> 0,
              accepted |-> 0, closed |-> 0, rejected |-> 0, peak |-> 0]

Reply(c, r) == replies' = [replies EXCEPT ![c] = Append(@, r)]

------------------------------------------------------------------------------
(* The handshake.                                                          *)

Accept(c) ==
  /\ stage[c] = "none"
  /\ stage' = [stage EXCEPT ![c] = "method"]
  /\ clt' = [clt EXCEPT ![c] = "open"]
  /\ shaking' = [shaking EXCEPT ![c] = TRUE]
  /\ count' = [count EXCEPT !.handshaking = @ + 1]
  /\ UNCHANGED <<dst, joined, udp, cleaned, replies>>

\* readOnceWithTimeout resolves and the message is good: the next read.
NextStage(c) ==
  /\ clt[c] = "open"
  /\ \/ stage[c] = "method" /\ stage' \in {[stage EXCEPT ![c] = s] : s \in {"auth", "request"}}
     \/ stage[c] = "auth" /\ stage' = [stage EXCEPT ![c] = "request"]
  /\ UNCHANGED <<clt, dst, joined, udp, shaking, cleaned, replies, count>>

\* Faulty variant: only the first read of the handshake has a timer.
HandshakeFailsFirst(c) ==
  /\ clt[c] = "open" /\ stage[c] = "method"
  /\ clt' = Destroy(clt, c)
  /\ UNCHANGED <<stage, dst, joined, udp, shaking, cleaned, replies, count>>

\* A short, split or refused message, the end of the client, or the timer of
\* the stage.  A request that can not be served is answered first.
HandshakeFails(c) ==
  /\ clt[c] = "open" /\ stage[c] \in Handshake
  /\ clt' = Destroy(clt, c)
  /\ IF stage[c] = "request"
     THEN replies' = replies \/ Reply(c, "failed")
     ELSE UNCHANGED replies
  /\ UNCHANGED <<stage, dst, joined, udp, shaking, cleaned, count>>

\* Faulty variant: one connection more than the limit.
LimitReachedLate == count.activeTcp > MaxTcpConnects

LimitReached == count.activeTcp >= MaxTcpConnects

\* finishHandshake, then handleTcpRequest.
Peak(n) == IF n > count.peak THEN n ELSE count.peak

TcpRequest(c) ==
  /\ clt[c] = "open" /\ stage[c] = "request"
  /\ shaking' = [shaking EXCEPT ![c] = FALSE]
  /\ IF LimitReached
     THEN /\ count' = [count EXCEPT !.handshaking = @ - 1, !.rejected = @ + 1]
          /\ stage' = [stage EXCEPT ![c] = "rejected"]
          /\ Reply(c, "failed")
          /\ clt' = Destroy(clt, c)
          /\ UNCHANGED dst
     ELSE /\ count' = [count EXCEPT !.handshaking = @ - 1, !.activeTcp = @ + 1,
                                    !.accepted = @ + 1,
                                    !.peak = Peak(count.activeTcp + 1)]
          /\ stage' = [stage EXCEPT ![c] = "tcp"]
          /\ dst' = [dst EXCEPT ![c] = "new"]
          /\ UNCHANGED <<clt, replies>>
  /\ UNCHANGED <<joined, udp, cleaned>>

\* finishHandshake, then handleUdpAssociate.
UdpRequest(c) ==
  /\ clt[c] = "open" /\ stage[c] = "request"
  /\ shaking' = [shaking EXCEPT ![c] = FALSE]
  /\ count' = [count EXCEPT !.handshaking = @ - 1, !.activeUdp = @ + 1]
  /\ stage' = [stage EXCEPT ![c] = "udp"]
  /\ udp' = [udp EXCEPT ![c] = "open"]
  /\ Reply(c, "ok")
  /\ UNCHANGED <<clt, dst, joined, cleaned>>

------------------------------------------------------------------------------
(* A CONNECT through the HTTP proxy.                                       *)

\* cleanup: the slot is given back once.
CleanupCounts(c) ==
  /\ cleaned' = [cleaned EXCEPT ![c] = TRUE]
  /\ count' = IF cleaned[c] THEN count
              ELSE [count EXCEPT !.activeTcp = @ - 1, !.closed = @ + 1]

ProxyConnects(c) ==
  /\ dst[c] = "new"
  /\ dst' = [dst EXCEPT ![c] = "open"]
  /\ UNCHANGED <<stage, clt, joined, udp, shaking, cleaned, replies, count>>

\* Faulty variant: after a refusal the handler goes on listening.
ProxyAnswersOn(c) ==
  /\ dst[c] = "open" /\ clt[c] = "open" /\ ~joined[c]
  /\ \/ joined' = [joined EXCEPT ![c] = TRUE] /\ Reply(c, "ok")
     \/ Len(replies[c]) < 2 /\ Reply(c, "failed") /\ UNCHANGED joined
  /\ UNCHANGED <<stage, clt, dst, udp, shaking, cleaned, count>>

\* onProxyData with the whole header.  Both sockets must still be there.
ProxyAnswers(c) ==
  /\ dst[c] = "open" /\ clt[c] = "open" /\ ~joined[c]
  /\ \/ /\ joined' = [joined EXCEPT ![c] = TRUE]
        /\ Reply(c, "ok")
        /\ UNCHANGED <<clt, dst>>
     \/ /\ Reply(c, "failed")
        /\ clt' = Destroy(clt, c)
        /\ dst' = Destroy(dst, c)
        /\ UNCHANGED joined
  /\ UNCHANGED <<stage, udp, shaking, cleaned, count>>

\* 'error' of proxySocket: a client that is there is told, also in the
\* middle of its stream; 'close' follows.
ProxyFails(c) ==
  /\ Alive(dst[c])
  /\ dst' = Destroy(dst, c)
  /\ IF clt[c] = "open" THEN Reply(c, "failed") ELSE UNCHANGED replies
  /\ clt' = Destroy(clt, c)
  /\ UNCHANGED <<stage, joined, udp, shaking, cleaned, count>>

\* The HTTP proxy ends the connection, or it is idle for 120 s.
ProxyEnds(c) ==
  /\ Alive(dst[c])
  /\ dst' = Destroy(dst, c)
  /\ UNCHANGED <<stage, clt, joined, udp, shaking, cleaned, replies, count>>

\* Faulty variant: only the socket that closed is looked at.
ProxyClosesAlone(c) ==
  /\ dst[c] = "closing"
  /\ dst' = [dst EXCEPT ![c] = "closed"]
  /\ CleanupCounts(c)
  /\ UNCHANGED <<stage, clt, joined, udp, shaking, replies>>

\* 'close' of proxySocket: cleanup also destroys the client.
ProxyCloses(c) ==
  /\ dst[c] = "closing"
  /\ dst' = [dst EXCEPT ![c] = "closed"]
  /\ CleanupCounts(c)
  /\ clt' = IF cleaned[c] THEN clt ELSE Destroy(clt, c)
  /\ UNCHANGED <<stage, joined, udp, shaking, replies>>

------------------------------------------------------------------------------
(* The end of a client.                                                    *)

\* After the handshake the client ends, is idle for 120 s, sends a bad UDP
\* frame, or its datagram socket fails.
ClientEnds(c) ==
  /\ clt[c] = "open" /\ stage[c] \in {"tcp", "udp"}
  /\ clt' = Destroy(clt, c)
  /\ UNCHANGED <<stage, dst, joined, udp, shaking, cleaned, replies, count>>

CloseUdp(c) ==
  /\ cleaned' = [cleaned EXCEPT ![c] = TRUE]
  /\ udp' = [udp EXCEPT ![c] = "closed"]
  /\ count' = IF cleaned[c] THEN count ELSE [count EXCEPT !.activeUdp = @ - 1]

\* 'error' of the client: the listener of handleTcpRequest destroys the other
\* socket, that of handleUdpAssociate cleans up before 'close' does it again.
ClientFails(c) ==
  /\ clt[c] = "open" /\ stage[c] \in {"tcp", "udp"}
  /\ clt' = Destroy(clt, c)
  /\ IF stage[c] = "udp"
     THEN CloseUdp(c) /\ UNCHANGED dst
     ELSE dst' = Destroy(dst, c) /\ UNCHANGED <<udp, cleaned, count>>
  /\ UNCHANGED <<stage, joined, shaking, replies>>

\* 'close' of the client: finishHandshake and the cleanup of its stage.
ClientCloses(c) ==
  /\ clt[c] = "closing"
  /\ clt' = [clt EXCEPT ![c] = "closed"]
  /\ shaking' = [shaking EXCEPT ![c] = FALSE]
  /\ CASE stage[c] = "tcp" ->
            /\ CleanupCounts(c)
            /\ dst' = IF cleaned[c] THEN dst ELSE Destroy(dst, c)
            /\ UNCHANGED udp
       [] stage[c] = "udp" -> CloseUdp(c) /\ UNCHANGED dst
       [] OTHER ->
            /\ count' = IF shaking[c] THEN [count EXCEPT !.handshaking = @ - 1] ELSE count
            /\ UNCHANGED <<dst, udp, cleaned>>
  /\ UNCHANGED <<stage, joined, replies>>

------------------------------------------------------------------------------

Next == \E c \in Conns :
  \/ Accept(c) \/ NextStage(c) \/ HandshakeFails(c) \/ TcpRequest(c) \/ UdpRequest(c)
  \/ ProxyConnects(c) \/ ProxyAnswers(c) \/ ProxyFails(c) \/ ProxyEnds(c) \/ ProxyCloses(c)
  \/ ClientEnds(c) \/ ClientFails(c) \/ ClientCloses(c)

\* Timers: 15 s for a stage, 120 s without bytes for a socket of a CONNECT.
Timeout(c) == HandshakeFails(c) \/ (stage[c] = "tcp" /\ ~joined[c] /\ ProxyEnds(c))

Spec ==
  /\ Init /\ [][Next]_vars
  /\ \A c \in Conns : /\ WF_vars(Timeout(c))
                      /\ WF_vars(ProxyCloses(c)) /\ WF_vars(ClientCloses(c))

------------------------------------------------------------------------------
(* Properties *)

Sockets == {"none", "new", "open", "closing", "closed"}

(* Types; and a client gets one reply: only a failure of the proxy in the  *)
(* middle of the stream makes the server write a second one into it.       *)
TypeOK ==
  /\ stage \in [Conns -> {"none", "rejected", "tcp", "udp"} \cup Handshake]
  /\ clt \in [Conns -> Sockets \ {"new"}] /\ dst \in [Conns -> Sockets]
  /\ udp \in [Conns -> {"none", "open", "closed"}]
  /\ joined \in [Conns -> BOOLEAN] /\ shaking \in [Conns -> BOOLEAN]
  /\ cleaned \in [Conns -> BOOLEAN]
  /\ replies \in [Conns -> {<<>>, <<"ok">>, <<"failed">>, <<"ok", "failed">>}]
  /\ count \in [handshaking : Nat, activeTcp : Nat, activeUdp : Nat, accepted : Nat,
                closed : Nat, rejected : Nat, peak : Nat]

(* Each counter is the number of connections it stands for, whatever event *)
(* ended them, the limit holds, and a slot is not given back while a       *)
(* socket of its CONNECT is still open.                                    *)
SlotsAreExact ==
  /\ count.handshaking =
       Cardinality({c \in Conns : stage[c] \in Handshake /\ clt[c] # "closed"})
  /\ count.activeTcp = Cardinality({c \in Conns : stage[c] = "tcp" /\ ~cleaned[c]})
  /\ count.activeUdp = Cardinality({c \in Conns : udp[c] = "open"})
  /\ count.accepted = count.activeTcp + count.closed
  /\ count.activeTcp <= count.peak /\ count.peak <= MaxTcpConnects
  /\ \A c \in Conns :
       stage[c] = "tcp" /\ cleaned[c] => ~Alive(clt[c]) /\ ~Alive(dst[c])

(* A client that is served or not: it is told, or its sockets close.       *)
EveryRequestSettles == \A c \in Conns :
  clt[c] = "open" ~> joined[c] \/ udp[c] = "open" \/ (clt[c] = "closed" /\ ~Alive(dst[c]))
==============================================================================
