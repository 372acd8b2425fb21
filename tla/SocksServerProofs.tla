--------------------------- MODULE SocksServerProofs ---------------------------
(***************************************************************************)
(* Proofs about module SocksServer, for any number of connections and any  *)
(* limit.                                                                  *)
(***************************************************************************)
EXTENDS SocksServer, FiniteSetTheorems, SequenceTheorems, TLAPS

(* What the stage of a connection says about its sockets, flags and        *)
(* replies.  While the proxy's socket lives the client was told what the   *)
(* proxy said and no more; once one of two sockets has closed the slot was *)
(* given back, and then neither is alive.                                  *)
Unasked(c) == dst[c] = "none" /\ udp[c] = "none" /\ ~joined[c] /\ ~cleaned[c]

Unused(c) ==
  stage[c] = "none" => clt[c] = "none" /\ ~shaking[c] /\ Unasked(c) /\ replies[c] = <<>>

InHandshake(c) ==
  stage[c] \in Handshake =>
    /\ clt[c] # "none" /\ Unasked(c)
    /\ shaking[c] <=> clt[c] # "closed"
    /\ replies[c] \in {<<>>, <<"failed">>}
    /\ clt[c] = "open" => replies[c] = <<>>

Rejected(c) ==
  stage[c] = "rejected" =>
    clt[c] \in {"closing", "closed"} /\ ~shaking[c] /\ Unasked(c) /\ replies[c] = <<"failed">>

Connecting(c) ==
  stage[c] = "tcp" =>
    /\ clt[c] # "none" /\ dst[c] # "none" /\ udp[c] = "none" /\ ~shaking[c]
    /\ clt[c] = "closed" \/ dst[c] = "closed" => cleaned[c]
    /\ cleaned[c] => ~Alive(clt[c]) /\ ~Alive(dst[c])
    /\ Alive(dst[c]) => replies[c] = IF joined[c] THEN <<"ok">> ELSE <<>>

Associated(c) ==
  stage[c] = "udp" =>
    /\ clt[c] # "none" /\ dst[c] = "none" /\ ~joined[c] /\ ~shaking[c]
    /\ cleaned[c] <=> udp[c] = "closed"
    /\ udp[c] # "none" /\ replies[c] = <<"ok">>

Shape(c) == Unused(c) /\ InHandshake(c) /\ Rejected(c) /\ Connecting(c) /\ Associated(c)

(* The connections that each counter stands for, by the flags of the code. *)
Shaking == {c \in Conns : shaking[c]}
Slots == {c \in Conns : stage[c] = "tcp" /\ ~cleaned[c]}
Associations == {c \in Conns : udp[c] = "open"}

Counters == [handshaking : Nat, activeTcp : Nat, activeUdp : Nat, accepted : Nat,
             closed : Nat, rejected : Nat, peak : Nat]

Types ==
  /\ stage \in [Conns -> {"none", "rejected", "tcp", "udp"} \cup Handshake]
  /\ clt \in [Conns -> Sockets \ {"new"}] /\ dst \in [Conns -> Sockets]
  /\ udp \in [Conns -> {"none", "open", "closed"}]
  /\ joined \in [Conns -> BOOLEAN] /\ shaking \in [Conns -> BOOLEAN]
  /\ cleaned \in [Conns -> BOOLEAN]
  /\ replies \in [Conns -> {<<>>, <<"ok">>, <<"failed">>, <<"ok", "failed">>}]

Counted ==
  /\ count \in Counters
  /\ count.handshaking = Cardinality(Shaking)
  /\ count.activeTcp = Cardinality(Slots)
  /\ count.activeUdp = Cardinality(Associations)
  /\ count.accepted = count.activeTcp + count.closed
  /\ count.activeTcp <= count.peak /\ count.peak <= MaxTcpConnects

IInv == Types /\ (\A c \in Conns : Shape(c)) /\ Counted

-------------------------------------------------------------------------------
(* Cardinalities                                                           *)

LEMMA OneMore ==
  ASSUME NEW S \in SUBSET Conns, NEW c \in Conns \ S
  PROVE  Cardinality(S) \in Nat /\ Cardinality(S \cup {c}) = Cardinality(S) + 1
BY ConnsAssumption, FS_Subset, FS_AddElement, FS_CardinalityType

LEMMA OneLess ==
  ASSUME NEW S \in SUBSET Conns, NEW c \in S
  PROVE  /\ Cardinality(S) \in Nat \ {0}
         /\ Cardinality(S \ {c}) = Cardinality(S) - 1
<1>1. IsFiniteSet(S) /\ IsFiniteSet(S \ {c})
  BY ConnsAssumption, FS_Subset
<1>2. /\ Cardinality(S) \in Nat /\ Cardinality(S \ {c}) \in Nat
      /\ Cardinality(S \ {c}) = Cardinality(S) - 1
  BY <1>1, FS_RemoveElement, FS_CardinalityType
<1> QED BY <1>2

(* The three sets and the counters as they are.                            *)
LEMMA SameCounts ==
  ASSUME Counted, count' = count,
         Shaking' = Shaking, Slots' = Slots, Associations' = Associations
  PROVE  Counted'
BY DEF Counted

-------------------------------------------------------------------------------
(* Types and shapes                                                        *)

Replies == {<<>>, <<"ok">>, <<"failed">>, <<"ok", "failed">>}

(* A first reply, and a failure after it.                                  *)
LEMMA FirstReply ==
  ASSUME Types, NEW c \in Conns, replies[c] = <<>>, NEW r \in {"ok", "failed"}, Reply(c, r)
  PROVE  replies' \in [Conns -> Replies] /\ replies' = [replies EXCEPT ![c] = <<r>>]
<1>1. Append(replies[c], r) = <<r>>
  OBVIOUS
<1> QED BY <1>1 DEF Types, Reply, Replies

LEMMA SecondReply ==
  ASSUME Types, NEW c \in Conns, replies[c] = <<"ok">>, Reply(c, "failed")
  PROVE  /\ replies' \in [Conns -> Replies]
         /\ replies' = [replies EXCEPT ![c] = <<"ok", "failed">>]
<1>1. Append(<<"ok">>, "failed") = <<"ok", "failed">>
  <2> DEFINE both == Append(<<"ok">>, "failed")
             expected == <<"ok", "failed">>
  <2>1. /\ <<"ok">> \in Seq({"ok", "failed"}) /\ expected \in Seq({"ok", "failed"})
        /\ Len(<<"ok">>) = 1 /\ Len(expected) = 2
    OBVIOUS
  <2>2. /\ both \in Seq({"ok", "failed"}) /\ Len(both) = 2
        /\ both[1] = "ok" /\ both[2] = "failed"
    BY <2>1, AppendProperties
  <2>3. \A i \in 1 .. 2 : both[i] = expected[i]
    BY <2>2
  <2>4. both = expected
    <3> HIDE DEF both, expected
    <3> QED BY <2>1, <2>2, <2>3, SeqEqual
  <2> QED BY <2>4
<1> QED BY <1>1 DEF Types, Reply, Replies

(* Only a connection with a CONNECT has a socket to the proxy.             *)
LEMMA HasConnect ==
  ASSUME Types, NEW c \in Conns, Shape(c), dst[c] # "none"
  PROVE  stage[c] = "tcp"
BY DEF Types, Shape, Unused, InHandshake, Rejected, Associated, Unasked

(* What an action writes to the client, and what it had written before.    *)
LEMMA RepliesStep ==
  ASSUME Types, \A c \in Conns : Shape(c), [Next]_vars
  PROVE  replies' \in [Conns -> Replies]
<1>1. ASSUME NEW c \in Conns, HandshakeFails(c) \/ TcpRequest(c) \/ UdpRequest(c)
      PROVE  replies' \in [Conns -> Replies]
  <2>1. replies[c] = <<>>
    BY <1>1 DEF Shape, InHandshake, HandshakeFails, TcpRequest, UdpRequest, Handshake
  <2>2. replies' = replies \/ Reply(c, "ok") \/ Reply(c, "failed")
    BY <1>1 DEF HandshakeFails, TcpRequest, UdpRequest
  <2> QED BY <2>1, <2>2, FirstReply DEF Types, Replies
<1>2. ASSUME NEW c \in Conns, ProxyAnswers(c) \/ ProxyFails(c)
      PROVE  replies' \in [Conns -> Replies]
  <2>1. stage[c] = "tcp" /\ Alive(dst[c])
    BY <1>2, HasConnect DEF ProxyAnswers, ProxyFails, Alive
  <2>2. replies[c] = IF joined[c] THEN <<"ok">> ELSE <<>>
    BY <2>1 DEF Shape, Connecting
  <2>3. \/ replies' = replies \/ Reply(c, "failed")
        \/ Reply(c, "ok") /\ ~joined[c]
    BY <1>2 DEF ProxyAnswers, ProxyFails
  <2> QED BY <2>2, <2>3, FirstReply, SecondReply DEF Types, Replies
<1>3. CASE UNCHANGED replies
  BY <1>3 DEF Types, Replies
<1> QED BY <1>1, <1>2, <1>3
        DEF Next, vars, connVars, Accept, NextStage, ProxyConnects, ProxyEnds, ProxyCloses,
            ClientEnds, ClientFails, ClientCloses

LEMMA TypesStep == ASSUME Types, \A c \in Conns : Shape(c), [Next]_vars PROVE Types'
<1> USE RepliesStep DEF Replies
<1>1. ASSUME NEW c \in Conns, Accept(c) PROVE Types'
  BY <1>1 DEF Types, Accept, Destroy, Sockets, Handshake, Alive
<1>2. ASSUME NEW c \in Conns, NextStage(c) PROVE Types'
  BY <1>2 DEF Types, NextStage, Destroy, Sockets, Handshake, Alive
<1>3. ASSUME NEW c \in Conns, HandshakeFails(c) PROVE Types'
  BY <1>3 DEF Types, HandshakeFails, Destroy, Sockets, Handshake, Alive
<1>4. ASSUME NEW c \in Conns, TcpRequest(c) PROVE Types'
  BY <1>4 DEF Types, TcpRequest, Destroy, Sockets, Handshake, Alive
<1>5. ASSUME NEW c \in Conns, UdpRequest(c) PROVE Types'
  BY <1>5 DEF Types, UdpRequest, Destroy, Sockets, Handshake, Alive
<1>6. ASSUME NEW c \in Conns, ProxyConnects(c) PROVE Types'
  BY <1>6 DEF Types, ProxyConnects, Destroy, Sockets, Handshake, Alive
<1>7. ASSUME NEW c \in Conns, ProxyAnswers(c) PROVE Types'
  BY <1>7 DEF Types, ProxyAnswers, Destroy, Sockets, Handshake, Alive
<1>8. ASSUME NEW c \in Conns, ProxyFails(c) PROVE Types'
  BY <1>8 DEF Types, ProxyFails, Destroy, Sockets, Handshake, Alive
<1>9. ASSUME NEW c \in Conns, ProxyEnds(c) PROVE Types'
  BY <1>9 DEF Types, ProxyEnds, Destroy, Sockets, Handshake, Alive
<1>10. ASSUME NEW c \in Conns, ProxyCloses(c) PROVE Types'
  BY <1>10 DEF Types, ProxyCloses, Destroy, Sockets, Handshake, Alive, CleanupCounts
<1>11. ASSUME NEW c \in Conns, ClientEnds(c) PROVE Types'
  BY <1>11 DEF Types, ClientEnds, Destroy, Sockets, Handshake, Alive
<1>12. ASSUME NEW c \in Conns, ClientFails(c) PROVE Types'
  BY <1>12 DEF Types, ClientFails, Destroy, Sockets, Handshake, Alive, CloseUdp
<1>13. ASSUME NEW c \in Conns, ClientCloses(c) PROVE Types'
  BY <1>13 DEF Types, ClientCloses, Destroy, Sockets, Handshake, Alive, CleanupCounts, CloseUdp
<1>14. CASE UNCHANGED vars
  BY <1>14 DEF Types, vars, connVars
<1> QED BY <1>1, <1>2, <1>3, <1>4, <1>5, <1>6, <1>7, <1>8, <1>9, <1>10, <1>11, <1>12, <1>13, <1>14 DEF Next

(* An action of c leaves the other connections alone.                      *)
Elsewhere(c) == \A d \in Conns \ {c} :
  /\ stage'[d] = stage[d] /\ clt'[d] = clt[d] /\ dst'[d] = dst[d] /\ udp'[d] = udp[d]
  /\ joined'[d] = joined[d] /\ shaking'[d] = shaking[d] /\ cleaned'[d] = cleaned[d]
  /\ replies'[d] = replies[d]

LEMMA OthersKeepShape ==
  ASSUME \A d \in Conns : Shape(d), NEW c \in Conns, Elsewhere(c), Shape(c)'
  PROVE  \A d \in Conns : Shape(d)'
BY DEF Elsewhere, Shape, Unused, InHandshake, Rejected, Connecting, Associated, Unasked

LEMMA ShapeStep == ASSUME Types, \A c \in Conns : Shape(c), [Next]_vars
                   PROVE  \A c \in Conns : Shape(c)'
<1> USE DEF Shape, Unused, InHandshake, Rejected, Connecting, Associated, Unasked, Handshake,
            Alive, Types, Destroy
<1>1. ASSUME NEW c \in Conns, Accept(c) PROVE Elsewhere(c) /\ Shape(c)'
  BY <1>1 DEF Accept, Elsewhere
<1>2. ASSUME NEW c \in Conns, NextStage(c) PROVE Elsewhere(c) /\ Shape(c)'
  BY <1>2 DEF NextStage, Elsewhere
<1>3. ASSUME NEW c \in Conns, HandshakeFails(c) PROVE Elsewhere(c) /\ Shape(c)'
  BY <1>3 DEF HandshakeFails, Elsewhere, Reply
<1>4. ASSUME NEW c \in Conns, TcpRequest(c) PROVE Elsewhere(c) /\ Shape(c)'
  BY <1>4 DEF TcpRequest, Elsewhere, Reply
<1>5. ASSUME NEW c \in Conns, UdpRequest(c) PROVE Elsewhere(c) /\ Shape(c)'
  <2>1. replies[c] = <<>> /\ replies' = [replies EXCEPT ![c] = <<"ok">>]
    BY <1>5, FirstReply DEF UdpRequest
  <2> QED BY <1>5, <2>1 DEF UdpRequest, Elsewhere
<1>6. ASSUME NEW c \in Conns, ProxyConnects(c) PROVE Elsewhere(c) /\ Shape(c)'
  BY <1>6 DEF ProxyConnects, Elsewhere
<1>7. ASSUME NEW c \in Conns, ProxyAnswers(c) PROVE Elsewhere(c) /\ Shape(c)'
  BY <1>7 DEF ProxyAnswers, Elsewhere, Reply
<1>8. ASSUME NEW c \in Conns, ProxyFails(c) PROVE Elsewhere(c) /\ Shape(c)'
  BY <1>8 DEF ProxyFails, Elsewhere, Reply
<1>9. ASSUME NEW c \in Conns, ProxyEnds(c) PROVE Elsewhere(c) /\ Shape(c)'
  BY <1>9 DEF ProxyEnds, Elsewhere
<1>10. ASSUME NEW c \in Conns, ProxyCloses(c) PROVE Elsewhere(c) /\ Shape(c)'
  BY <1>10 DEF ProxyCloses, Elsewhere, CleanupCounts
<1>11. ASSUME NEW c \in Conns, ClientEnds(c) PROVE Elsewhere(c) /\ Shape(c)'
  BY <1>11 DEF ClientEnds, Elsewhere
<1>12. ASSUME NEW c \in Conns, ClientFails(c) PROVE Elsewhere(c) /\ Shape(c)'
  BY <1>12 DEF ClientFails, Elsewhere, CloseUdp
<1>13. ASSUME NEW c \in Conns, ClientCloses(c) PROVE Elsewhere(c) /\ Shape(c)'
  BY <1>13 DEF ClientCloses, Elsewhere, CleanupCounts, CloseUdp
<1>14. CASE UNCHANGED vars
  BY <1>14 DEF vars, connVars
<1> QED BY <1>1, <1>2, <1>3, <1>4, <1>5, <1>6, <1>7, <1>8, <1>9, <1>10, <1>11, <1>12, <1>13, <1>14, OthersKeepShape DEF Next

-------------------------------------------------------------------------------
(* The counters                                                            *)

(* finishHandshake counts a connection that was counted.                   *)
LEMMA HandshakeIsOver ==
  ASSUME Counted, NEW c \in Conns, c \in Shaking, Shaking' = Shaking \ {c}
  PROVE  count.handshaking - 1 \in Nat /\ count.handshaking - 1 = Cardinality(Shaking')
<1>1. Shaking \in SUBSET Conns
  BY DEF Shaking
<1>2. Cardinality(Shaking) \in Nat \ {0} /\ Cardinality(Shaking') = Cardinality(Shaking) - 1
  BY <1>1, OneLess
<1> QED BY <1>2 DEF Counted

(* cleanup: the slot is given back by the connection that has it.          *)
LEMMA CleanupStep ==
  ASSUME Types, Counted, NEW c \in Conns, stage[c] = "tcp", stage' = stage, CleanupCounts(c),
         Shaking' = Shaking, Associations' = Associations
  PROVE  Counted'
<1>1. CASE cleaned[c]
  <2>1. Slots' = Slots
    BY <1>1 DEF Types, Slots, CleanupCounts
  <2> QED BY <1>1, <2>1, SameCounts DEF CleanupCounts
<1>2. CASE ~cleaned[c]
  <2>1. c \in Slots /\ Slots' = Slots \ {c} /\ Slots \in SUBSET Conns
    BY <1>2 DEF Types, Slots, CleanupCounts
  <2>2. count.activeTcp - 1 \in Nat /\ count.activeTcp - 1 = Cardinality(Slots')
    BY <2>1, OneLess DEF Counted
  <2>3. count' = [count EXCEPT !.activeTcp = @ - 1, !.closed = @ + 1]
    BY <1>2 DEF CleanupCounts
  <2>4. /\ count'.activeTcp = count.activeTcp - 1 /\ count'.closed = count.closed + 1
        /\ count'.handshaking = count.handshaking /\ count'.activeUdp = count.activeUdp
        /\ count'.accepted = count.accepted /\ count'.peak = count.peak
    BY <2>3 DEF Counted, Counters
  <2>5. count' \in Counters
    <3>1. count.activeTcp - 1 \in Nat /\ count.closed + 1 \in Nat
      BY <2>2 DEF Counted, Counters
    <3>2. \A a, b \in Nat :
           [count EXCEPT !.activeTcp = a, !.closed = b] \in Counters
      BY DEF Counted, Counters
    <3> QED BY <2>3, <3>1, <3>2
  <2>6. /\ count.accepted = count.activeTcp - 1 + (count.closed + 1)
        /\ count.activeTcp - 1 <= count.peak
    BY DEF Counted, Counters
  <2> QED BY <2>2, <2>4, <2>5, <2>6 DEF Counted
<1> QED BY <1>1, <1>2

(* The same of an association.                                             *)
LEMMA CloseUdpStep ==
  ASSUME Types, Counted, NEW c \in Conns, Shape(c), stage[c] = "udp", stage' = stage,
         CloseUdp(c), Shaking' = Shaking
  PROVE  Counted'
<1>1. Slots' = Slots
  BY DEF Types, Slots, CloseUdp
<1>2. CASE cleaned[c]
  <2>1. Associations' = Associations
    BY <1>2 DEF Types, Associations, CloseUdp, Shape, Associated
  <2> QED BY <1>1, <1>2, <2>1, SameCounts DEF CloseUdp
<1>3. CASE ~cleaned[c]
  <2>1. /\ c \in Associations /\ Associations' = Associations \ {c}
        /\ Associations \in SUBSET Conns
    BY <1>3 DEF Types, Associations, CloseUdp, Shape, Associated
  <2>2. count.activeUdp - 1 \in Nat /\ count.activeUdp - 1 = Cardinality(Associations')
    BY <2>1, OneLess DEF Counted
  <2>3. count' = [count EXCEPT !.activeUdp = @ - 1]
    BY <1>3 DEF CloseUdp
  <2> QED BY <1>1, <2>2, <2>3 DEF Counted, Counters
<1> QED BY <1>2, <1>3

LEMMA AcceptCounts ==
  ASSUME Types, Counted, NEW c \in Conns, Shape(c), Accept(c) PROVE Counted'
<1>1. c \in Conns \ Shaking /\ Shaking' = Shaking \cup {c} /\ Shaking \in SUBSET Conns
  BY DEF Types, Accept, Shaking, Shape, Unused
<1>2. Slots' = Slots /\ Associations' = Associations
  BY DEF Types, Accept, Slots, Associations
<1>3. count' = [count EXCEPT !.handshaking = @ + 1]
  BY DEF Accept
<1>4. count.handshaking + 1 = Cardinality(Shaking')
  BY <1>1, OneMore DEF Counted
<1> QED BY <1>2, <1>3, <1>4 DEF Counted, Counters

LEMMA TcpRequestCounts ==
  ASSUME Types, Counted, NEW c \in Conns, Shape(c), TcpRequest(c) PROVE Counted'
<1>1. c \in Shaking /\ Shaking' = Shaking \ {c}
  BY DEF Types, TcpRequest, Shaking, Shape, InHandshake, Handshake
<1>2. count.handshaking - 1 \in Nat /\ count.handshaking - 1 = Cardinality(Shaking')
  BY <1>1, HandshakeIsOver
<1>3. Associations' = Associations
  BY DEF TcpRequest, Associations
<1>4. CASE LimitReached
  <2>1. Slots' = Slots
    BY <1>4 DEF Types, TcpRequest, Slots
  <2>2. count' = [count EXCEPT !.handshaking = @ - 1, !.rejected = @ + 1]
    BY <1>4 DEF TcpRequest
  <2>3. /\ count'.handshaking = count.handshaking - 1
        /\ count'.activeTcp = count.activeTcp /\ count'.activeUdp = count.activeUdp
        /\ count'.accepted = count.accepted /\ count'.closed = count.closed
        /\ count'.peak = count.peak
    BY <2>2 DEF Counted, Counters
  <2>4. count' \in Counters
    <3>1. count.handshaking - 1 \in Nat /\ count.rejected + 1 \in Nat
      BY <1>2 DEF Counted, Counters
    <3>2. \A a, b \in Nat :
           [count EXCEPT !.handshaking = a, !.rejected = b] \in Counters
      BY DEF Counted, Counters
    <3> QED BY <2>2, <3>1, <3>2
  <2> QED BY <1>2, <1>3, <2>1, <2>3, <2>4 DEF Counted
<1>5. CASE ~LimitReached
  <2>1. c \in Conns \ Slots /\ Slots' = Slots \cup {c} /\ Slots \in SUBSET Conns
    BY <1>5 DEF Types, TcpRequest, Slots, Shape, InHandshake, Handshake, Unasked
  <2>2. count.activeTcp + 1 = Cardinality(Slots')
    BY <2>1, OneMore DEF Counted
  <2>3. count' = [count EXCEPT !.handshaking = @ - 1, !.activeTcp = @ + 1,
                               !.accepted = @ + 1, !.peak = Peak(count.activeTcp + 1)]
    BY <1>5 DEF TcpRequest
  <2>4. /\ Peak(count.activeTcp + 1) \in Nat
        /\ count.activeTcp + 1 <= Peak(count.activeTcp + 1)
        /\ Peak(count.activeTcp + 1) <= MaxTcpConnects
    BY <1>5, ConnsAssumption DEF Peak, LimitReached, Counted, Counters
  <2>5. /\ count'.handshaking = count.handshaking - 1
        /\ count'.activeTcp = count.activeTcp + 1 /\ count'.activeUdp = count.activeUdp
        /\ count'.accepted = count.accepted + 1 /\ count'.closed = count.closed
        /\ count'.peak = Peak(count.activeTcp + 1)
    BY <2>3 DEF Counted, Counters
  <2>6. count' \in Counters
    <3>1. count.handshaking - 1 \in Nat /\ count.activeTcp + 1 \in Nat /\ count.accepted + 1 \in Nat /\ Peak(count.activeTcp + 1) \in Nat
      BY <1>2, <2>4 DEF Counted, Counters
    <3>2. \A a, b, d, e \in Nat :
           [count EXCEPT !.handshaking = a, !.activeTcp = b, !.accepted = d, !.peak = e] \in Counters
      BY DEF Counted, Counters
    <3> QED BY <2>3, <3>1, <3>2
  <2>7. count.accepted + 1 = count.activeTcp + 1 + count.closed
    BY DEF Counted, Counters
  <2> QED BY <1>2, <1>3, <2>2, <2>4, <2>5, <2>6, <2>7 DEF Counted
<1> QED BY <1>4, <1>5

LEMMA UdpRequestCounts ==
  ASSUME Types, Counted, NEW c \in Conns, Shape(c), UdpRequest(c) PROVE Counted'
<1>1. c \in Shaking /\ Shaking' = Shaking \ {c}
  BY DEF Types, UdpRequest, Shaking, Shape, InHandshake, Handshake
<1>2. count.handshaking - 1 \in Nat /\ count.handshaking - 1 = Cardinality(Shaking')
  BY <1>1, HandshakeIsOver
<1>3. Slots' = Slots
  BY DEF Types, UdpRequest, Slots
<1>4. /\ c \in Conns \ Associations /\ Associations' = Associations \cup {c}
      /\ Associations \in SUBSET Conns
  BY DEF Types, UdpRequest, Associations, Shape, InHandshake, Handshake, Unasked
<1>5. count.activeUdp + 1 = Cardinality(Associations')
  BY <1>4, OneMore DEF Counted
<1>6. count' = [count EXCEPT !.handshaking = @ - 1, !.activeUdp = @ + 1]
  BY DEF UdpRequest
<1>7. /\ count'.handshaking = count.handshaking - 1
      /\ count'.activeTcp = count.activeTcp /\ count'.activeUdp = count.activeUdp + 1
      /\ count'.accepted = count.accepted /\ count'.closed = count.closed
      /\ count'.peak = count.peak
  BY <1>6 DEF Counted, Counters
<1>8. count' \in Counters
  <2>1. count.handshaking - 1 \in Nat /\ count.activeUdp + 1 \in Nat
    BY <1>2 DEF Counted, Counters
  <2>2. \A a, b \in Nat :
         [count EXCEPT !.handshaking = a, !.activeUdp = b] \in Counters
    BY DEF Counted, Counters
  <2> QED BY <1>6, <2>1, <2>2
<1> QED BY <1>2, <1>3, <1>5, <1>7, <1>8 DEF Counted

LEMMA ClientClosesCounts ==
  ASSUME Types, Counted, NEW c \in Conns, Shape(c), ClientCloses(c) PROVE Counted'
<1>1. CASE stage[c] = "tcp"
  <2>1. Shaking' = Shaking /\ Associations' = Associations
    BY <1>1 DEF Types, ClientCloses, Shaking, Associations, Shape, Connecting
  <2> QED BY <1>1, <2>1, CleanupStep DEF ClientCloses
<1>2. CASE stage[c] = "udp"
  <2>1. Shaking' = Shaking
    BY <1>2 DEF Types, ClientCloses, Shaking, Shape, Associated
  <2> QED BY <1>2, <2>1, CloseUdpStep DEF ClientCloses
<1>3. CASE stage[c] \notin {"tcp", "udp"}
  <2>1. /\ Slots' = Slots /\ Associations' = Associations
        /\ count' = IF shaking[c] THEN [count EXCEPT !.handshaking = @ - 1] ELSE count
    BY <1>3 DEF Types, ClientCloses, Slots, Associations
  <2>2. Shaking' = Shaking \ {c}
    BY DEF Types, ClientCloses, Shaking
  <2>3. CASE shaking[c]
    <3>1. count.handshaking - 1 \in Nat /\ count.handshaking - 1 = Cardinality(Shaking')
      BY <2>2, <2>3, HandshakeIsOver DEF Shaking
    <3> QED BY <2>1, <2>3, <3>1 DEF Counted, Counters
  <2>4. CASE ~shaking[c]
    <3>1. Shaking' = Shaking
      BY <2>2, <2>4 DEF Shaking
    <3> QED BY <2>1, <2>4, <3>1, SameCounts
  <2> QED BY <2>3, <2>4
<1> QED BY <1>1, <1>2, <1>3

LEMMA CountsStep ==
  ASSUME Types, \A c \in Conns : Shape(c), Counted, [Next]_vars PROVE Counted'
<1>1. ASSUME NEW c \in Conns,
             \/ NextStage(c) \/ HandshakeFails(c) \/ ProxyConnects(c) \/ ProxyAnswers(c)
             \/ ProxyFails(c) \/ ProxyEnds(c) \/ ClientEnds(c)
      PROVE  Counted'
  <2>1. UNCHANGED <<udp, shaking, cleaned, count>>
    BY <1>1 DEF NextStage, HandshakeFails, ProxyConnects, ProxyAnswers, ProxyFails, ProxyEnds,
                ClientEnds
  <2>2. \A d \in Conns : stage'[d] = "tcp" <=> stage[d] = "tcp"
    BY <1>1 DEF Types, NextStage, HandshakeFails, ProxyConnects, ProxyAnswers, ProxyFails,
                ProxyEnds, ClientEnds
  <2>3. Shaking' = Shaking /\ Slots' = Slots /\ Associations' = Associations
    BY <2>1, <2>2 DEF Shaking, Slots, Associations
  <2> QED BY <2>1, <2>3, SameCounts
<1>2. ASSUME NEW c \in Conns, ProxyCloses(c) PROVE Counted'
  <2>1. stage[c] = "tcp" /\ stage' = stage /\ CleanupCounts(c)
    BY <1>2, HasConnect DEF ProxyCloses
  <2>2. Shaking' = Shaking /\ Associations' = Associations
    BY <1>2 DEF ProxyCloses, Shaking, Associations
  <2> QED BY <2>1, <2>2, CleanupStep
<1>3. ASSUME NEW c \in Conns, ClientFails(c) PROVE Counted'
  <2>1. Shaking' = Shaking /\ stage' = stage
    BY <1>3 DEF ClientFails, Shaking
  <2>2. CASE stage[c] = "udp"
    BY <1>3, <2>1, <2>2, CloseUdpStep DEF ClientFails
  <2>3. CASE stage[c] # "udp"
    BY <1>3, <2>1, <2>3, SameCounts DEF ClientFails, Slots, Associations
  <2> QED BY <2>2, <2>3
<1>4. CASE UNCHANGED vars
  BY <1>4, SameCounts DEF vars, connVars, Shaking, Slots, Associations
<1> QED BY <1>1, <1>2, <1>3, <1>4, AcceptCounts, TcpRequestCounts, UdpRequestCounts,
           ClientClosesCounts DEF Next

-------------------------------------------------------------------------------
(* The theorems                                                            *)

LEMMA Invariance == Spec => []IInv
<1>1. Init => IInv
  <2> SUFFICES ASSUME Init PROVE IInv
    OBVIOUS
  <2>1. Types
    BY DEF Init, Types, Sockets
  <2>2. \A c \in Conns : Shape(c)
    BY DEF Init, Shape, Unused, InHandshake, Rejected, Connecting, Associated, Unasked, Handshake
  <2>3. Counted
    <3>1. Shaking = {} /\ Slots = {} /\ Associations = {}
      BY DEF Init, Shaking, Slots, Associations
    <3> QED BY <3>1, FS_EmptySet, ConnsAssumption DEF Init, Counted, Counters
  <2> QED BY <2>1, <2>2, <2>3 DEF IInv
<1>2. IInv /\ [Next]_vars => IInv'
  BY TypesStep, ShapeStep, CountsStep DEF IInv
<1> QED BY <1>1, <1>2, PTL DEF Spec

(* Every variable keeps its type: no client is sent a second reply, but    *)
(* for the failure of a proxy in the middle of its stream.                 *)
THEOREM TypeCorrect == Spec => []TypeOK
<1>1. IInv => TypeOK
  BY DEF IInv, Types, Counted, Counters, TypeOK
<1> QED BY <1>1, Invariance, PTL

(* Whatever order the events of the two sockets come in, each counter is   *)
(* the number of its connections, the limit holds, and a slot is not given *)
(* back while a socket is open.                                            *)
THEOREM SlotsAreCounted == Spec => []SlotsAreExact
<1>1. IInv => SlotsAreExact
  <2> SUFFICES ASSUME IInv PROVE SlotsAreExact
    OBVIOUS
  <2>1. Shaking = {c \in Conns : stage[c] \in Handshake /\ clt[c] # "closed"}
    BY DEF IInv, Types, Shaking, Shape, Unused, InHandshake, Rejected, Connecting, Associated
  <2>2. \A c \in Conns : stage[c] = "tcp" /\ cleaned[c] => ~Alive(clt[c]) /\ ~Alive(dst[c])
    BY DEF IInv, Shape, Connecting
  <2> QED BY <2>1, <2>2 DEF IInv, Counted, Slots, Associations, SlotsAreExact
<1> QED BY <1>1, Invariance, PTL
================================================================================
