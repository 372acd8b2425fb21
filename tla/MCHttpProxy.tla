------------------------------ MODULE MCHttpProxy ------------------------------
(* Small instances of HttpProxy: one host, block rules with a device, a    *)
(* url pattern, weekdays and a window past midnight.                       *)
EXTENDS HttpProxy, FiniteSets

Rule(device, urls, days, from, to) ==
  [device |-> device, hosts |-> {"h"}, urls |-> urls, days |-> days, from |-> from, to |-> to]

NightRule == Rule("any", {"ad", "page"}, {1, 2}, 3, 1)
AdRule == Rule("d", {"ad"}, {1}, 0, 0)

SomeRuleSets == {{}, {NightRule}, {AdRule}}

TimesOfWeek == {[day |-> d, time |-> t] : d \in {1, 3}, t \in {1, 2}}

\* At most one test is passed besides "https" and "decrypt".
SomeRequests ==
  {[host |-> "h", url |-> u, device |-> "d", traits |-> extra \cup base, safe |-> s] :
     u \in {"ad", "page"}, s \in BOOLEAN,
     base \in {{}, {"https", "decrypt"}, {"https"}},
     extra \in {{}} \cup {{t} : t \in Traits \ {"https", "decrypt"}}}
==============================================================================
