------------------------------ MODULE ProxyRules ------------------------------
(***************************************************************************)
(* What the rule of the proxy (the "rule" object of getAnyProxyOptions in  *)
(* src/proxy/proxy.js) decides about a request: whether a CONNECT is       *)
(* decrypted, whether a request is answered here, blocked, handed to a     *)
(* rewrite rule or passed to its origin.  Pure operators, in the order of  *)
(* the code's tests.                                                       *)
(*                                                                         *)
(* Names and addresses are known by the tests they pass: a request is a    *)
(* record [host, url, device, traits], a block rule a record of the sets   *)
(* of hosts, days and urls it fits.                                        *)
(***************************************************************************)
EXTENDS Naturals

CONSTANTS
  NoUrl,       \* the url of a CONNECT: shouldBlockHost is given ""
  AnyDevice,   \* a block rule without filter_mac
  Always       \* a block rule without a start or an end time

\* The tests a request may pass; "decrypt" and "debug" are the configuration's
\* enable_mitm and vpn_proxy.
Traits == {"https", "tunnel",    \* encrypted; for a tunnel domain
           "own", "ip",          \* for this proxy itself; for a bare address
           "browser",            \* what uaFilter exempts
           "denied",             \* checkProxyAuth does not let it through
           "rewritten",          \* its host is named by a MITM rule
           "decrypt", "debug"}

------------------------------------------------------------------------------

\* getBlockRules: the rules of the device, and those of every device.
BlockRules(rules, device) == {r \in rules : r.device \in {AnyDevice, device}}

\* A window past midnight holds on either side of it.
InWindow(r, time) ==
  IF r.from = Always \/ r.to = Always THEN TRUE
  ELSE IF r.from > r.to THEN time >= r.from \/ time <= r.to
  ELSE time >= r.from /\ time <= r.to

\* Faulty variant: a rule with a match rule does not fit a mere host.
FitsStrictly(r, host, url, now) ==
  /\ host \in r.hosts /\ now.day \in r.days
  /\ url \in r.urls
  /\ InWindow(r, now.time)

\* One element of shouldBlockHost's list.  Without a url, as at a CONNECT,
\* the host alone decides.
Fits(r, host, url, now) ==
  /\ host \in r.hosts /\ now.day \in r.days
  /\ url # NoUrl => url \in r.urls
  /\ InWindow(r, now.time)

\* shouldBlockHost
ShouldBlock(rules, host, url, now) == \E r \in rules : Fits(r, host, url, now)

\* beforeDealHttpsRequest once the client has passed: is the CONNECT decrypted?
Intercepted(req, rules, now) ==
  IF "debug" \in req.traits THEN TRUE
  ELSE IF "tunnel" \in req.traits THEN FALSE
  ELSE IF {"decrypt", "rewritten"} \subseteq req.traits THEN TRUE
  ELSE IF "ip" \in req.traits \/ "decrypt" \notin req.traits THEN FALSE
  ELSE ShouldBlock(BlockRules(rules, req.device), req.host, NoUrl, now)

\* Where a request goes that nothing here answers.
Onward(req, rules) ==
  IF BlockRules(rules, req.device) = {} /\ "debug" \in req.traits THEN "forward" ELSE "pass"

\* beforeSendRequest.  "rewrite" asks the MITM rules, and goes onward when
\* none of them fits.
Decision(req, rules, now) ==
  IF "own" \in req.traits THEN "operator"
  ELSE IF "ip" \in req.traits \/ {"browser", "decrypt"} \subseteq req.traits THEN "pass"
  ELSE IF "https" \notin req.traits /\ "denied" \in req.traits THEN "denied"
  ELSE IF ShouldBlock(BlockRules(rules, req.device), req.host, req.url, now) THEN "blocked"
  ELSE IF "rewritten" \in req.traits THEN "rewrite"
  ELSE Onward(req, rules)
==============================================================================
