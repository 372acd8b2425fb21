------------------------------- MODULE HttpProxy -------------------------------
(***************************************************************************)
(* The HTTP proxy (src/proxy/proxy-core/proxy-server.js): what a client    *)
(* sends is a request for userRequestHandler (module HttpRequest) or a     *)
(* CONNECT for connectReqHandler (module ConnectRelay).  The two handlers  *)
(* share no state; what is followed is one client of either.               *)
(***************************************************************************)
EXTENDS HttpRequest, ConnectRelay

VARIABLE event  \* what the server has emitted for the client

proxyVars == <<event, vars, connectVars>>

\* The variables of the handler that is not called have one value only.
AnyRequest == CHOOSE r \in Requests \X RuleSets \X Clock : TRUE

ProxyInit ==
  /\ event \in {"request", "connect"}
  /\ Init /\ ConnectInit
  /\ event = "request" => tunnel = FALSE
  /\ event = "connect" => <<req, rules, now>> = AnyRequest /\ stale = 0

HandleRequest == event = "request" /\ Next /\ UNCHANGED <<event, connectVars>>
HandleConnect == event = "connect" /\ ConnectNext /\ UNCHANGED <<event, vars>>

ProxyNext == HandleRequest \/ HandleConnect

\* The fairness of the two handlers.
ProxySpec ==
  /\ ProxyInit /\ [][ProxyNext]_proxyVars
  /\ WF_vars(event = "request" /\ Pipeline) /\ WF_vars(event = "request" /\ Timeout)
  /\ WF_connectVars(event = "connect" /\ CltCloses)
  /\ WF_connectVars(event = "connect" /\ ConnCloses)
  /\ WF_connectVars(event = "connect" /\ DrainTimeout("max"))
==============================================================================
