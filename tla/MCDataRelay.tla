----------------------------- MODULE MCDataRelay -----------------------------
(* Small instances of DataRelay.  With five values to a byte, text of one   *)
(* length byte has up to four.                                              *)
EXTENDS DataRelay

Text0 == <<>>
Text4 == <<1, 2, 3, 4>>

\* One of each type, and the lengths at their limits.
AllTypes ==
  {[type |-> CONNECT, reqid |-> q, atyp |-> DOMAIN_NAME, addr |-> a, port |-> Byte + 2] :
     q \in {1, MaxFramePayload}, a \in {Text0, Text4}}
  \cup {[type |-> CONNECT, reqid |-> 1, atyp |-> IPV4, addr |-> Text4, port |-> 0],
        [type |-> CONNECT, reqid |-> 1, atyp |-> IPV6, addr |-> [i \in 1 .. 16 |-> i], port |-> 4]}
  \cup {[type |-> t, reqid |-> 7] : t \in {CONNECT_OK, CONNECT_FAILED}}
  \cup {[type |-> t, data |-> d] : t \in {PING, PONG, PADDING}, d \in {Text0, Text4}}
  \cup {[type |-> t] : t \in {AUTH_OK, AUTH_FAIL}}
  \cup {[type |-> AUTH, username |-> u, password |-> Text4, capabilities |-> c, clientId |-> i] :
     u \in {Text0, Text4}, c \in {<<>>, <<<<7>>, Text0>>}, i \in {Text0, Text4}}
  \cup {[type |-> CAPABILITIES, capabilities |-> c] : c \in {<<>>, <<Text4, <<1>>, Text0>>}}
  \cup {[type |-> ERROR, message |-> m] : m \in {Text0, Text4}}

NoOthers == {}
OneOther == {[type |-> CONNECT_OK, reqid |-> 7]}
==============================================================================
