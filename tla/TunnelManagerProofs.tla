-------------------------- MODULE TunnelManagerProofs --------------------------
(***************************************************************************)
(* Proofs about module TunnelManager, for any sessions, reqids, limits and *)
(* number of requests.                                                     *)
(***************************************************************************)
EXTENDS TunnelManager, FiniteSetTheorems, FunctionTheorems, TLAPS

-------------------------------------------------------------------------------
(* Types                                                                   *)

(* TypeOK but for the two counts, which rest on what they count.           *)
Types ==
  /\ open \subseteq Sids /\ gone \subseteq Sids
  /\ active \in Sids \cup {None}
  /\ connected \in BOOLEAN
  /\ table \in [Ids -> Requests \cup {NoRequest}]
  /\ counter \in 0 .. MaxReverseId
  /\ issued \in 0 .. MaxRequests
  /\ req \in [Requests -> Record]

(* A request keeps the reqid it was made with, of the range of its kind,   *)
(* and the table finds it under no other.                                  *)
Keys ==
  /\ \A r \in Requests :
       /\ req[r].kind = "none" <=> r > issued
       /\ IsReverse(r) => req[r].id \in ReverseIds
       /\ IsForward(r) => req[r].id \in ForwardIds
       /\ req[r].kind = "none" =>
            req[r].session = None /\ ~req[r].counted /\ req[r].phase = "unused"
  /\ \A q \in Ids : table[q] # NoRequest =>
       req[table[q]].id = q /\ req[table[q]].kind # "none"

(* Before the counter first comes round, its numbers lie behind it.        *)
Numbers ==
  issued <= MaxReverseId =>
    counter <= issued /\ \A r \in Requests : IsReverse(r) => req[r].id <= counter

(* The two effects of _clearActiveRequest on the table and the requests.   *)
LEMMA ClearEffect ==
  ASSUME table \in [Ids -> Requests \cup {NoRequest}], NEW q \in Ids,
         NEW f \in [Requests -> Record], ClearActiveRequest(q, f)
  PROVE  /\ table' = [table EXCEPT ![q] = NoRequest]
         /\ req' = [x \in Requests |-> IF x = table[q] THEN Removed(f[x]) ELSE f[x]]
         /\ reverseCount' =
              IF table[q] # NoRequest /\ f[table[q]].kind = "reverse" /\ f[table[q]].counted
              THEN reverseCount - 1 ELSE reverseCount
<1>1. CASE table[q] = NoRequest
  <2>1. \A x \in Requests : x # table[q]
    BY <1>1 DEF Requests, NoRequest
  <2> QED BY <1>1, <2>1 DEF ClearActiveRequest
<1>2. CASE table[q] # NoRequest
  BY <1>2 DEF ClearActiveRequest
<1> QED BY <1>1, <1>2

LEMMA RemovedType ==
  ASSUME NEW e \in Record
  PROVE  /\ Removed(e) \in Record
         /\ Removed(e).kind = e.kind /\ Removed(e).id = e.id /\ Removed(e).session = e.session
         /\ Removed(e).phase = e.phase /\ Removed(e).confirmed = e.confirmed
         /\ Removed(e).answers = e.answers
         /\ ~Removed(e).connectTimer /\ ~Removed(e).idleTimer
         /\ Removed(e).counted = (e.counted /\ e.kind = "forward")
BY DEF Removed, Record

-------------------------------------------------------------------------------
(* The entry of a request                                                  *)

InTable(r) == table[req[r].id] = r

(* What holds of a request e that is in the table or not: it is there as   *)
(* long as its stream or socket is open, holds its place in the count at   *)
(* least as long, and has a timer exactly as long; a client that may still *)
(* be answered was not.                                                    *)
Good(e, inTable) ==
  /\ e.phase = "open" <=> inTable
  /\ e.phase = "open" <=> e.connectTimer \/ e.idleTimer
  /\ e.phase = "open" => e.counted
  /\ e.counted => e.phase = "open" \/ (e.kind = "forward" /\ e.phase = "closing")
  /\ e.kind = "forward" /\ (e.connectTimer \/ (e.phase = "open" /\ ~e.confirmed)) => e.answers = 0
  /\ e.kind = "reverse" => e.answers = 0 /\ (e.connectTimer => ~e.confirmed)

(* A request that is over and whose timers are off touches nothing more.   *)
Rests(e) == e.phase = "done" /\ ~e.connectTimer /\ ~e.idleTimer
Over(r) == Rests(req[r])

(* It holds of the forward requests, whose reqids clients keep apart, and  *)
(* of the reverse requests K: those that share their number with none that *)
(* is not over.  Of the others it is only known that they leave the table  *)
(* when they are done.                                                     *)
Apart(r, x) == req[x].kind # "none" /\ req[r].id = req[x].id => Over(r) \/ Over(x)

Held(K, r) == IsForward(r) \/ (IsReverse(r) /\ r \in K)

Entries(K) ==
  /\ \A r \in Requests : req[r].phase = "done" => ~InTable(r)
  /\ \A r \in Requests : Held(K, r) =>
       /\ Good(req[r], InTable(r))
       /\ \A x \in Requests \ {r} : Apart(r, x)

(* A request changes, but for its kind, reqid and session.                 *)
SameKey(r, e) == e.kind = req[r].kind /\ e.id = req[r].id /\ e.session = req[r].session
Plain(r, e) == req' = [req EXCEPT ![r] = e] /\ table' = table
Clears(r, e) == ClearActiveRequest(req[r].id, [req EXCEPT ![r] = e])

LEMMA PlainStep ==
  ASSUME Types, Keys, NEW K, Entries(K), Numbers, UNCHANGED <<counter, issued>>,
         NEW r \in Requests, NEW e \in Record, SameKey(r, e), Plain(r, e),
         req[r].kind # "none",
         Held(K, r) => Good(e, InTable(r)),
         e.phase = "done" => ~InTable(r), Over(r) => Rests(e)
  PROVE  /\ req' \in [Requests -> Record] /\ table' \in [Ids -> Requests \cup {NoRequest}]
         /\ Keys' /\ Numbers' /\ Entries(K)'
<1>1. req' \in [Requests -> Record] /\ req'[r] = e /\ \A x \in Requests \ {r} : req'[x] = req[x]
  BY DEF Types, Plain
<1>2. \A x \in Requests : /\ req'[x].kind = req[x].kind /\ req'[x].id = req[x].id
                          /\ req'[x].session = req[x].session
                          /\ Over(x) => Over(x)'
  BY <1>1 DEF SameKey, Over
<1>3. Keys'
  BY <1>1, <1>2 DEF Types, Keys, Plain, IsReverse, IsForward
<1>4. \A x \in Requests : (InTable(x)' <=> InTable(x)) /\ (Held(K, x)' <=> Held(K, x))
  BY <1>2 DEF InTable, Plain, Held, IsReverse, IsForward
<1>5. Entries(K)'
  <2>1. \A x \in Requests : Held(K, x)' => Good(req'[x], InTable(x)')
    BY <1>1, <1>4 DEF Entries, Good
  <2>2. \A x \in Requests : Held(K, x)' => \A y \in Requests \ {x} : Apart(x, y)'
    BY <1>2, <1>4 DEF Entries, Apart
  <2>3. \A x \in Requests : req'[x].phase = "done" => ~InTable(x)'
    BY <1>1, <1>4 DEF Entries
  <2> QED BY <2>1, <2>2, <2>3 DEF Entries
<1>6. Numbers'
  BY <1>2 DEF Numbers, IsReverse
<1> QED BY <1>1, <1>3, <1>5, <1>6 DEF Types, Plain

(* The reqid tells the kind.                                               *)
LEMMA SameKind ==
  ASSUME Types, Keys, NEW r \in Requests, NEW x \in Requests, req[r].id = req[x].id,
         req[r].kind # "none", req[x].kind # "none"
  PROVE  req[r].kind = req[x].kind
<1>1. \A y \in Requests : req[y].kind \in {"none", "reverse", "forward"}
  BY DEF Types, Record
<1>2. ReverseIds \cap ForwardIds = {}
  BY IdsAssumption DEF ReverseIds
<1> QED BY <1>1, <1>2 DEF Keys, IsReverse, IsForward

LEMMA ClearsStep ==
  ASSUME Types, Keys, NEW K, Entries(K), Numbers, UNCHANGED <<counter, issued>>,
         NEW r \in Requests, NEW e \in Record, SameKey(r, e), Clears(r, e),
         req[r].kind # "none", ~Over(r),
         Held(K, r) => Good(IF InTable(r) THEN Removed(e) ELSE e, FALSE)
  PROVE  /\ req' \in [Requests -> Record] /\ table' \in [Ids -> Requests \cup {NoRequest}]
         /\ Keys' /\ Numbers' /\ Entries(K)'
<1> DEFINE f == [req EXCEPT ![r] = e]
           q == req[r].id
<1>1. q \in Ids
  BY DEF Keys, Types, Record, IsReverse, IsForward, Ids
<1>2. f \in [Requests -> Record] /\ f[r] = e /\ \A x \in Requests \ {r} : f[x] = req[x]
  BY DEF Types
<1>3. /\ table' = [table EXCEPT ![q] = NoRequest]
      /\ req' = [x \in Requests |-> IF x = table[q] THEN Removed(f[x]) ELSE f[x]]
  BY <1>1, <1>2, ClearEffect DEF Types, Clears
<1>4. req' \in [Requests -> Record] /\ table' \in [Ids -> Requests \cup {NoRequest}]
  BY <1>2, <1>3, RemovedType DEF Types
<1>5. \A x \in Requests : /\ req'[x].kind = req[x].kind /\ req'[x].id = req[x].id
                          /\ req'[x].session = req[x].session
                          /\ f[x].phase = req'[x].phase
                          /\ req'[x].connectTimer => f[x].connectTimer
                          /\ req'[x].idleTimer => f[x].idleTimer
                          /\ req'[x].counted => f[x].counted
  BY <1>2, <1>3, RemovedType DEF SameKey
<1>6. Keys'
  BY <1>2, <1>3, <1>4, <1>5 DEF Types, Keys, IsReverse, IsForward
<1>7. \A x \in Requests : Held(K, x)' <=> Held(K, x)
  BY <1>5 DEF Held, IsReverse, IsForward
<1>8. \A x \in Requests : Over(x) => Over(x)'
  BY <1>2, <1>5 DEF Over, Rests
<1>9. ~InTable(r)'
  <2>1. r # NoRequest
    BY DEF Requests, NoRequest
  <2> QED BY <1>1, <1>3, <1>5, <2>1 DEF InTable, Types
<1>10. \A x \in Requests : req[x].kind # "none" => (InTable(x)' => InTable(x))
  <2> SUFFICES ASSUME NEW x \in Requests, req[x].kind # "none", table'[req[x].id] = x
               PROVE  table[req[x].id] = x
    BY <1>5 DEF InTable
  <2>0. req[x].id \in Ids
    BY DEF Keys, Types, Record, IsReverse, IsForward, Ids
  <2>1. CASE req[x].id = q
    <3>1. x # NoRequest
      BY DEF Requests, NoRequest
    <3> QED BY <1>1, <1>3, <2>1, <3>1 DEF Types
  <2>2. CASE req[x].id # q
    BY <1>1, <1>3, <2>0, <2>2 DEF Types
  <2> QED BY <2>1, <2>2
<1>11. ASSUME NEW x \in Requests \ {r}, Held(K, x) PROVE Good(req'[x], InTable(x)')
  <2>1. x # NoRequest /\ req[x].kind # "none" /\ req[x].id \in Ids
    BY <1>11 DEF Requests, NoRequest, Held, Keys, IsReverse, IsForward, Ids
  <2>2. Good(req[x], InTable(x))
    BY <1>11 DEF Entries
  <2>3. CASE req[x].id = q
    <3>1. Over(x)
      BY <1>11, <2>3 DEF Entries, Apart
    <3>2. ~InTable(x)
      BY <2>2, <3>1 DEF Good, Over, Rests
    <3>3. req'[x] = req[x]
      BY <1>2, <1>3, <2>3, <3>2 DEF InTable
    <3>4. ~InTable(x)'
      BY <1>10, <2>1, <3>2
    <3> QED BY <2>2, <3>2, <3>3, <3>4 DEF Good
  <2>4. CASE req[x].id # q
    <3>1. table[q] # x
      BY <1>1, <2>1, <2>4 DEF Keys
    <3>2. req'[x] = req[x]
      BY <1>2, <1>3, <3>1
    <3>3. InTable(x)' <=> InTable(x)
      BY <1>1, <1>3, <2>1, <2>4, <3>2 DEF InTable, Types
    <3> QED BY <2>2, <3>2, <3>3 DEF Good
  <2> QED BY <2>3, <2>4
<1>12. Held(K, r) => Good(req'[r], InTable(r)')
  <2> SUFFICES ASSUME Held(K, r) PROVE Good(req'[r], InTable(r)')
    OBVIOUS
  <2>1. req'[r] = IF InTable(r) THEN Removed(e) ELSE e
    BY <1>2, <1>3 DEF InTable
  <2> QED BY <1>9, <2>1 DEF Good
<1>13. Entries(K)'
  <2>1. \A x \in Requests : req'[x].phase = "done" => ~InTable(x)'
    <3> SUFFICES ASSUME NEW x \in Requests, req'[x].phase = "done" PROVE ~InTable(x)'
      OBVIOUS
    <3>1. CASE x = r
      BY <1>9, <3>1
    <3>2. CASE x # r
      <4>1. req[x].phase = "done" /\ req[x].kind # "none"
        BY <1>2, <1>5, <3>2 DEF Keys
      <4> QED BY <1>10, <4>1 DEF Entries
    <3> QED BY <3>1, <3>2
  <2>2. \A x \in Requests : Held(K, x)' => Good(req'[x], InTable(x)')
    BY <1>7, <1>11, <1>12
  <2>3. \A x \in Requests : Held(K, x)' => \A y \in Requests \ {x} : Apart(x, y)'
    BY <1>5, <1>7, <1>8 DEF Entries, Apart
  <2> QED BY <2>1, <2>2, <2>3 DEF Entries
<1>14. Numbers'
  BY <1>5 DEF Numbers, IsReverse
<1> QED BY <1>4, <1>6, <1>13, <1>14


-------------------------------------------------------------------------------
(* The counts                                                              *)

Forwards == {r \in Requests : IsForward(r) /\ req[r].counted}
Reverses == {r \in Requests : IsReverse(r) /\ req[r].counted}

(* Each count is the number of requests that hold a place in it, also when *)
(* a number in use was taken again.                                        *)
Counts ==
  /\ forwardCount \in 0 .. MaxForward /\ forwardCount = Cardinality(Forwards)
  /\ reverseCount \in 0 .. MaxReverse /\ reverseCount = Cardinality(Reverses)

LEMMA Finite ==
  ASSUME NEW S \in SUBSET Requests
  PROVE  /\ IsFiniteSet(S) /\ Cardinality(S) \in Nat
         /\ \A r \in S : Cardinality(S \ {r}) = Cardinality(S) - 1 /\ Cardinality(S) > 0
         /\ \A r \in Requests \ S : Cardinality(S \cup {r}) = Cardinality(S) + 1
<1>1. IsFiniteSet(Requests)
  BY LimitsAssumption, FS_Interval DEF Requests
<1>2. IsFiniteSet(S) /\ Cardinality(S) \in Nat
  BY <1>1, FS_Subset, FS_CardinalityType
<1>3. ASSUME NEW r \in S PROVE Cardinality(S \ {r}) = Cardinality(S) - 1 /\ Cardinality(S) > 0
  <2>1. Cardinality(S \ {r}) = Cardinality(S) - 1 /\ IsFiniteSet(S \ {r})
    BY <1>2, FS_RemoveElement
  <2>2. Cardinality(S \ {r}) \in Nat
    BY <2>1, FS_CardinalityType
  <2> QED BY <1>2, <2>1, <2>2
<1> QED BY <1>2, <1>3, FS_AddElement

LEMMA PlainCounts ==
  ASSUME Types, Counts, NEW r \in Requests, NEW e \in Record, SameKey(r, e), Plain(r, e),
         e.counted = req[r].counted, UNCHANGED <<forwardCount, reverseCount>>
  PROVE  Counts'
<1>1. Forwards' = Forwards /\ Reverses' = Reverses
  BY DEF Types, Plain, SameKey, Forwards, Reverses, IsForward, IsReverse
<1> QED BY <1>1 DEF Counts

LEMMA ClearsCounts ==
  ASSUME Types, Keys, Counts,
         NEW r \in Requests, NEW e \in Record, SameKey(r, e), Clears(r, e),
         req[r].kind # "none",
         \/ e.counted = req[r].counted /\ forwardCount' = forwardCount
         \/ /\ IsForward(r) /\ req[r].counted /\ ~e.counted
            /\ forwardCount' = forwardCount - 1
  PROVE  Counts'
<1> DEFINE f == [req EXCEPT ![r] = e]
           q == req[r].id
           x == table[q]
<1>1. q \in Ids /\ x \in Requests \cup {NoRequest}
  BY DEF Keys, Types, Record, IsReverse, IsForward, Ids
<1>2. f \in [Requests -> Record] /\ f[r] = e /\ \A y \in Requests \ {r} : f[y] = req[y]
  BY DEF Types
<1>3. /\ req' = [y \in Requests |-> IF y = x THEN Removed(f[y]) ELSE f[y]]
      /\ reverseCount' = IF x # NoRequest /\ f[x].kind = "reverse" /\ f[x].counted
                         THEN reverseCount - 1 ELSE reverseCount
  BY <1>1, <1>2, ClearEffect DEF Types, Clears
<1>4. \A y \in Requests :
        /\ f[y].kind = req[y].kind /\ req'[y].kind = req[y].kind
        /\ req'[y].counted <=> f[y].counted /\ (y = x => req[y].kind = "forward")
        /\ req[y].kind = "reverse" => (f[y].counted <=> req[y].counted)
  BY <1>2, <1>3, RemovedType DEF SameKey, IsForward, Types, Record
<1>5. Forwards \in SUBSET Requests /\ Reverses \in SUBSET Requests
  BY DEF Forwards, Reverses
<1>6. forwardCount' \in 0 .. MaxForward /\ forwardCount' = Cardinality(Forwards')
  <2>1. CASE e.counted = req[r].counted /\ forwardCount' = forwardCount
    <3>1. Forwards' = Forwards
      BY <1>2, <1>4, <2>1 DEF Forwards, IsForward
    <3> QED BY <2>1, <3>1 DEF Counts
  <2>2. CASE IsForward(r) /\ req[r].counted /\ ~e.counted /\ forwardCount' = forwardCount - 1
    <3>1. Forwards' = Forwards \ {r} /\ r \in Forwards
      BY <1>2, <1>4, <2>2 DEF Forwards, IsForward
    <3> QED BY <1>5, <2>2, <3>1, Finite, LimitsAssumption DEF Counts
  <2> QED BY <2>1, <2>2
<1>7. reverseCount' \in 0 .. MaxReverse /\ reverseCount' = Cardinality(Reverses')
  <2>1. CASE x # NoRequest /\ f[x].kind = "reverse" /\ f[x].counted
    <3>1. Reverses' = Reverses \ {x} /\ x \in Reverses
      BY <1>1, <1>4, <2>1 DEF Reverses, IsReverse
    <3> QED BY <1>3, <1>5, <2>1, <3>1, Finite, LimitsAssumption DEF Counts
  <2>2. CASE ~(x # NoRequest /\ f[x].kind = "reverse" /\ f[x].counted)
    <3>1. \A y \in Requests : y # NoRequest
      BY DEF Requests, NoRequest
    <3>2. Reverses' = Reverses
      BY <1>1, <1>4, <2>2, <3>1 DEF Reverses, IsReverse
    <3> QED BY <1>3, <2>2, <3>2 DEF Counts
  <2> QED BY <2>1, <2>2
<1> QED BY <1>6, <1>7 DEF Counts

-------------------------------------------------------------------------------
(* The invariant, and the two ways in which a request changes              *)

IInv(K) == Types /\ Keys /\ Numbers /\ Entries(K) /\ Counts

LEMMA PlainHolds ==
  ASSUME NEW K, IInv(K), UNCHANGED <<sessionVars, counter, issued>>,
         UNCHANGED <<forwardCount, reverseCount>>,
         NEW r \in Requests, NEW e \in Record, SameKey(r, e), Plain(r, e),
         req[r].kind # "none", e.counted = req[r].counted,
         Held(K, r) => Good(e, InTable(r)),
         e.phase = "done" => ~InTable(r), Over(r) => Rests(e)
  PROVE  IInv(K)'
<1>1. /\ req' \in [Requests -> Record] /\ table' \in [Ids -> Requests \cup {NoRequest}]
      /\ Keys' /\ Numbers' /\ Entries(K)'
  BY PlainStep DEF IInv
<1>2. Counts'
  BY PlainCounts DEF IInv
<1>3. Types'
  BY <1>1 DEF IInv, Types, sessionVars
<1> QED BY <1>1, <1>2, <1>3 DEF IInv

LEMMA ClearsHolds ==
  ASSUME NEW K, IInv(K), UNCHANGED <<sessionVars, counter, issued>>,
         NEW r \in Requests, NEW e \in Record, SameKey(r, e), Clears(r, e),
         req[r].kind # "none", ~Over(r),
         Held(K, r) => Good(IF InTable(r) THEN Removed(e) ELSE e, FALSE),
         \/ e.counted = req[r].counted /\ forwardCount' = forwardCount
         \/ /\ IsForward(r) /\ req[r].counted /\ ~e.counted
            /\ forwardCount' = forwardCount - 1
  PROVE  IInv(K)'
<1>1. /\ req' \in [Requests -> Record] /\ table' \in [Ids -> Requests \cup {NoRequest}]
      /\ Keys' /\ Numbers' /\ Entries(K)'
  BY ClearsStep DEF IInv
<1>2. Counts'
  BY ClearsCounts DEF IInv
<1>3. Types'
  BY <1>1 DEF IInv, Types, sessionVars
<1> QED BY <1>1, <1>2, <1>3 DEF IInv

-------------------------------------------------------------------------------
(* Reverse requests                                                        *)

(* What the invariant says of one request.                                 *)
LEMMA Facts ==
  ASSUME NEW K, IInv(K), NEW r \in Requests
  PROVE  /\ req[r] \in Record
         /\ req[r].phase = "done" => ~InTable(r)
         /\ Held(K, r) => Good(req[r], InTable(r))
BY DEF IInv, Types, Entries

LEMMA StreamWritesHolds ==
  ASSUME NEW K, IInv(K), NEW r \in Requests, StreamWrites(r) PROVE IInv(K)'
<1> DEFINE x == table[req[r].id]
           e == [req[x] EXCEPT !.idleTimer = TRUE]
<1>1. /\ x # NoRequest /\ req' = [req EXCEPT ![x].idleTimer = TRUE]
      /\ UNCHANGED <<sessionVars, table, reverseCount, forwardCount, counter, issued>>
  BY DEF StreamWrites
<1>2. x \in Requests /\ req[r].id \in Ids
  BY <1>1 DEF StreamWrites, IInv, Types, Keys, Ids
<1>3. req[x].kind # "none" /\ InTable(x)
  BY <1>1, <1>2 DEF IInv, Keys, InTable
<1>4. e \in Record /\ SameKey(x, e) /\ e.counted = req[x].counted /\ e.phase = req[x].phase
  BY <1>2, Facts DEF Record, SameKey
<1>5. Plain(x, e)
  BY <1>1, <1>2 DEF Plain, IInv, Types
<1>6. Held(K, x) => Good(e, InTable(x))
  BY <1>2, <1>3, <1>4, Facts DEF Good, Record
<1>7. req[x].phase # "done" /\ ~Over(x)
  BY <1>2, <1>3, Facts DEF Over, Rests
<1> HIDE DEF x, e
<1> QED BY <1>1, <1>2, <1>3, <1>4, <1>5, <1>6, <1>7, PlainHolds

(* An open, ended or finished stream: not in the table when cleared.       *)
LEMMA ReverseOver ==
  ASSUME NEW K, IInv(K), NEW r \in Requests, IsReverse(r), NEW e \in Record,
         SameKey(r, e), e.counted = req[r].counted, e.phase # "open", e.answers = req[r].answers,
         e.confirmed = req[r].confirmed,
         e.connectTimer => req[r].connectTimer, e.idleTimer => req[r].idleTimer,
         req[r].phase # "done" \/ req[r].connectTimer \/ req[r].idleTimer,
         Clears(r, e), UNCHANGED <<sessionVars, counter, issued, forwardCount>>
  PROVE  IInv(K)'
<1>1. req[r].kind # "none" /\ e.kind = "reverse"
  BY DEF IsReverse, SameKey
<1>2. ASSUME Held(K, r) PROVE Good(IF InTable(r) THEN Removed(e) ELSE e, FALSE)
  <2>1. Good(req[r], InTable(r))
    BY <1>2, Facts
  <2>3. CASE InTable(r)
    <3>1. /\ Removed(e).phase = e.phase /\ Removed(e).kind = "reverse"
          /\ Removed(e).answers = e.answers
          /\ ~Removed(e).connectTimer /\ ~Removed(e).idleTimer /\ ~Removed(e).counted
      BY <1>1, RemovedType
    <3>2. Good(Removed(e), FALSE)
      BY <1>1, <2>1, <3>1 DEF Good, IsReverse
    <3> QED BY <2>3, <3>2
  <2>4. CASE ~InTable(r)
    <3>1. Good(e, FALSE)
      BY <1>1, <2>1, <2>4 DEF Good, IsReverse
    <3> QED BY <2>4, <3>1
  <2> QED BY <2>3, <2>4
<1>3. ~Over(r)
  BY DEF Over, Rests
<1> QED BY <1>1, <1>2, <1>3, ClearsHolds

LEMMA StreamFinishesHolds ==
  ASSUME NEW K, IInv(K), NEW r \in Requests, StreamFinishes(r) PROVE IInv(K)'
<1> DEFINE e == [req[r] EXCEPT !.phase = "finished"]
<1>1. req[r] \in Record /\ IsReverse(r) /\ req[r].phase \in {"open", "ended"}
  BY Facts DEF StreamFinishes
<1>2. [req EXCEPT ![r].phase = "finished"] = [req EXCEPT ![r] = e]
  BY DEF IInv, Types
<1>3. Clears(r, e) /\ UNCHANGED <<sessionVars, counter, issued, forwardCount>>
  BY <1>2 DEF StreamFinishes, Clears
<1>4. e \in Record /\ SameKey(r, e) /\ e.phase = "finished" /\ e.counted = req[r].counted
      /\ e.answers = req[r].answers /\ e.connectTimer = req[r].connectTimer
      /\ e.idleTimer = req[r].idleTimer /\ e.confirmed = req[r].confirmed
  BY <1>1 DEF Record, SameKey, Phases
<1> HIDE DEF e
<1> QED BY <1>1, <1>3, <1>4, ReverseOver

LEMMA DestroyStreamHolds ==
  ASSUME NEW K, IInv(K), NEW r \in Requests, IsReverse(r), DestroyStream(r),
         req[r].phase # "done" \/ req[r].connectTimer,
         UNCHANGED <<sessionVars, counter, issued>>
  PROVE  IInv(K)'
<1> DEFINE e == [req[r] EXCEPT !.phase = "done", !.connectTimer = FALSE]
<1>1. req[r] \in Record
  BY Facts
<1>2. [req EXCEPT ![r].phase = "done", ![r].connectTimer = FALSE] = [req EXCEPT ![r] = e]
  BY DEF IInv, Types
<1>3. Clears(r, e) /\ forwardCount' = forwardCount
  BY <1>2 DEF DestroyStream, Clears
<1>4. e \in Record /\ SameKey(r, e) /\ e.phase = "done" /\ e.counted = req[r].counted
      /\ e.answers = req[r].answers /\ ~e.connectTimer
      /\ e.idleTimer = req[r].idleTimer /\ e.confirmed = req[r].confirmed
  BY <1>1 DEF Record, SameKey, Phases
<1> HIDE DEF e
<1> QED BY <1>1, <1>3, <1>4, ReverseOver

LEMMA StreamDestroyedHolds ==
  ASSUME NEW K, IInv(K), NEW r \in Requests, StreamDestroyed(r) PROVE IInv(K)'
<1> DEFINE e == [req[r] EXCEPT !.phase = "done"]
<1>1. req[r] \in Record /\ IsReverse(r) /\ req[r].phase # "done"
      /\ UNCHANGED <<sessionVars, counter, issued>>
  BY Facts DEF StreamDestroyed
<1>2. CASE DestroyStream(r)
  BY <1>1, <1>2, DestroyStreamHolds
<1>3. CASE ClearActiveRequest(req[r].id, [req EXCEPT ![r].phase = "done"])
           /\ UNCHANGED forwardCount
  <2>1. [req EXCEPT ![r].phase = "done"] = [req EXCEPT ![r] = e]
    BY DEF IInv, Types
  <2>2. Clears(r, e) /\ forwardCount' = forwardCount
    BY <1>3, <2>1 DEF Clears
  <2>3. e \in Record /\ SameKey(r, e) /\ e.phase = "done" /\ e.counted = req[r].counted
        /\ e.answers = req[r].answers /\ e.connectTimer = req[r].connectTimer
        /\ e.idleTimer = req[r].idleTimer /\ e.confirmed = req[r].confirmed
    BY <1>1 DEF Record, SameKey, Phases
  <2> HIDE DEF e
  <2> QED BY <1>1, <2>2, <2>3, ReverseOver
<1> QED BY <1>2, <1>3 DEF StreamDestroyed

(* With the reqid its own, a stream that waits is in the table and does so *)
(* unconfirmed; otherwise only its timer is known to go.                   *)
LEMMA ReverseConnectTimeoutHolds ==
  ASSUME NEW K, IInv(K), NEW r \in Requests, ReverseConnectTimeout(r) PROVE IInv(K)'
<1> DEFINE e == [req[r] EXCEPT !.connectTimer = FALSE]
<1>1. req[r] \in Record /\ IsReverse(r) /\ req[r].connectTimer
      /\ UNCHANGED <<sessionVars, counter, issued>>
  BY Facts DEF ReverseConnectTimeout
<1>2. CASE table[req[r].id] # NoRequest /\ ~req[r].confirmed
  BY <1>1, <1>2, DestroyStreamHolds DEF ReverseConnectTimeout
<1>3. CASE ~(table[req[r].id] # NoRequest /\ ~req[r].confirmed)
  <2>1. req' = [req EXCEPT ![r].connectTimer = FALSE]
        /\ UNCHANGED <<table, reverseCount, forwardCount>>
    BY <1>3 DEF ReverseConnectTimeout
  <2>2. Plain(r, e)
    BY <2>1 DEF Plain, IInv, Types
  <2>3. e \in Record /\ SameKey(r, e) /\ e.counted = req[r].counted /\ e.phase = req[r].phase
    BY <1>1 DEF Record, SameKey
  <2>4. (e.phase = "done" => ~InTable(r)) /\ (Over(r) => Rests(e))
    BY <1>1, <2>3, Facts DEF Over, Rests
  <2>5. ~Held(K, r)
    <3> SUFFICES ASSUME Held(K, r) PROVE FALSE
      OBVIOUS
    <3>1. InTable(r) /\ ~req[r].confirmed
      BY <1>1, Facts DEF Good, IsReverse
    <3>2. r # NoRequest
      BY DEF Requests, NoRequest
    <3> QED BY <1>3, <3>1, <3>2 DEF InTable
  <2> HIDE DEF e
  <2> QED BY <1>1, <2>1, <2>2, <2>3, <2>4, <2>5, PlainHolds DEF IsReverse
<1> QED BY <1>2, <1>3

LEMMA ReverseIdleTimeoutHolds ==
  ASSUME NEW K, IInv(K), NEW r \in Requests, ReverseIdleTimeout(r) PROVE IInv(K)'
<1>1. req[r] \in Record /\ IsReverse(r) /\ req[r].idleTimer
      /\ UNCHANGED <<sessionVars, counter, issued>>
  BY Facts DEF ReverseIdleTimeout
<1>2. CASE req[r].phase = "done"
  <2> DEFINE e == [req[r] EXCEPT !.idleTimer = FALSE]
  <2>1. req' = [req EXCEPT ![r].idleTimer = FALSE]
        /\ UNCHANGED <<table, reverseCount, forwardCount>>
    BY <1>2 DEF ReverseIdleTimeout
  <2>2. Plain(r, e)
    BY <2>1 DEF Plain, IInv, Types
  <2>3. e \in Record /\ SameKey(r, e) /\ e.counted = req[r].counted /\ e.phase = req[r].phase
    BY <1>1 DEF Record, SameKey
  <2>4. ~Held(K, r)
    BY <1>1, <1>2, Facts DEF Good
  <2>5. ~InTable(r) /\ ~Over(r)
    BY <1>1, <1>2, Facts DEF Over, Rests
  <2> HIDE DEF e
  <2> QED BY <1>1, <2>1, <2>2, <2>3, <2>4, <2>5, PlainHolds DEF IsReverse
<1>3. CASE req[r].phase # "done"
  <2> DEFINE e == [req[r] EXCEPT !.phase = "done", !.connectTimer = FALSE, !.idleTimer = FALSE]
  <2>1. [req EXCEPT ![r].phase = "done", ![r].connectTimer = FALSE, ![r].idleTimer = FALSE]
          = [req EXCEPT ![r] = e]
    BY DEF IInv, Types
  <2>2. Clears(r, e) /\ forwardCount' = forwardCount
    BY <1>3, <2>1 DEF ReverseIdleTimeout, Clears
  <2>3. e \in Record /\ SameKey(r, e) /\ e.phase = "done" /\ e.counted = req[r].counted
        /\ e.answers = req[r].answers /\ ~e.connectTimer /\ ~e.idleTimer
        /\ e.confirmed = req[r].confirmed
    BY <1>1 DEF Record, SameKey, Phases
  <2> HIDE DEF e
  <2> QED BY <1>1, <1>3, <2>2, <2>3, ReverseOver
<1> QED BY <1>2, <1>3

-------------------------------------------------------------------------------
(* Forward requests                                                        *)

(* The cleanup closure, run after the request changed to e: with its place *)
(* in the count it leaves the table; a request without one stays out.      *)
LEMMA CleanupHolds ==
  ASSUME NEW K, IInv(K), NEW r \in Requests, IsForward(r), NEW e \in Record,
         SameKey(r, e), e.counted = req[r].counted,
         Cleanup(r, [req EXCEPT ![r] = e]),
         UNCHANGED <<sessionVars, counter, issued>>,
         req[r].phase # "done", e.phase # "open",
         e.connectTimer => req[r].connectTimer, e.idleTimer => req[r].idleTimer
  PROVE  IInv(K)'
<1>1. req[r].kind = "forward" /\ Held(K, r) /\ e.kind = "forward"
  BY DEF IsForward, Held, SameKey
<1>2. Good(req[r], InTable(r)) /\ ~Over(r)
  BY <1>1, Facts DEF Over, Rests
<1>3. CASE req[r].counted
  <2> DEFINE d == [e EXCEPT !.counted = FALSE, !.idleTimer = FALSE]
             f == [req EXCEPT ![r] = e]
  <2>1. [f EXCEPT ![r].counted = FALSE, ![r].idleTimer = FALSE] = [req EXCEPT ![r] = d]
    BY DEF IInv, Types
  <2>2. Clears(r, d) /\ forwardCount' = forwardCount - 1
    BY <1>3, <2>1 DEF Cleanup, Clears
  <2>3. d \in Record /\ SameKey(r, d) /\ ~d.counted /\ ~d.idleTimer /\ d.phase = e.phase
        /\ d.connectTimer = e.connectTimer /\ d.kind = "forward"
    BY <1>1 DEF Record, SameKey
  <2> HIDE DEF d
  <2>4. Good(IF InTable(r) THEN Removed(d) ELSE d, FALSE)
    <3>1. CASE InTable(r)
      <4>1. /\ Removed(d).phase = e.phase
            /\ ~Removed(d).connectTimer /\ ~Removed(d).idleTimer /\ ~Removed(d).counted
            /\ Removed(d).kind = "forward"
        BY <2>3, RemovedType
      <4>2. Good(Removed(d), FALSE)
        BY <4>1 DEF Good
      <4> QED BY <3>1, <4>2
    <3>2. CASE ~InTable(r)
      <4>1. ~d.connectTimer
        BY <1>1, <1>2, <2>3, <3>2 DEF Good
      <4>2. Good(d, FALSE)
        BY <2>3, <4>1 DEF Good
      <4> QED BY <3>2, <4>2
    <3> QED BY <3>1, <3>2
  <2> QED BY <1>1, <1>2, <1>3, <2>2, <2>3, <2>4, ClearsHolds DEF IsForward
<1>4. CASE ~req[r].counted
  <2>1. Plain(r, e) /\ UNCHANGED <<reverseCount, forwardCount>>
    BY <1>4 DEF Cleanup, Plain
  <2>2. Good(e, InTable(r)) /\ ~InTable(r)
    BY <1>1, <1>2, <1>4 DEF Good
  <2> QED BY <1>1, <1>2, <2>1, <2>2, PlainHolds
<1> QED BY <1>3, <1>4

LEMMA ProxyAcceptsHolds ==
  ASSUME NEW K, IInv(K), NEW r \in Requests, ProxyAccepts(r) PROVE IInv(K)'
<1> DEFINE n == req[r].answers + 1
           e == [req[r] EXCEPT !.confirmed = TRUE, !.connectTimer = FALSE,
                               !.idleTimer = TRUE, !.answers = n]
<1>1. req[r] \in Record /\ IsForward(r) /\ req[r].phase = "open" /\ ~req[r].confirmed
      /\ UNCHANGED <<sessionVars, table, reverseCount, forwardCount, counter, issued>>
  BY Facts DEF ProxyAccepts
<1>2. Good(req[r], InTable(r)) /\ req[r].answers = 0 /\ req[r].kind = "forward"
  BY <1>1, Facts DEF Good, IsForward, Held
<1>3. Plain(r, e)
  BY <1>1 DEF ProxyAccepts, Plain, IInv, Types
<1>3a. n \in 0 .. 1
  BY <1>2
<1> HIDE DEF n
<1>4. e \in Record /\ SameKey(r, e) /\ e.counted = req[r].counted /\ e.phase = "open"
      /\ e.idleTimer /\ e.confirmed /\ ~e.connectTimer /\ e.kind = "forward"
  BY <1>1, <1>2, <1>3a DEF Record, SameKey
<1> HIDE DEF e
<1>5. Good(e, InTable(r)) /\ ~Over(r)
  BY <1>1, <1>2, <1>4 DEF Good, Over, Rests
<1> QED BY <1>1, <1>2, <1>3, <1>4, <1>5, PlainHolds

LEMMA ProxySendsHolds ==
  ASSUME NEW K, IInv(K), NEW r \in Requests, ProxySends(r) PROVE IInv(K)'
<1> DEFINE e == [req[r] EXCEPT !.idleTimer = TRUE]
<1>1. req[r] \in Record /\ IsForward(r) /\ req[r].phase = "open" /\ req[r].confirmed
      /\ UNCHANGED <<sessionVars, table, reverseCount, forwardCount, counter, issued>>
  BY Facts DEF ProxySends
<1>2. Good(req[r], InTable(r)) /\ req[r].kind = "forward"
  BY <1>1, Facts DEF IsForward, Held
<1>3. Plain(r, e)
  BY <1>1 DEF ProxySends, Plain, IInv, Types
<1>4. e \in Record /\ SameKey(r, e) /\ e.counted = req[r].counted /\ e.phase = "open"
      /\ e.idleTimer /\ e.confirmed /\ e.connectTimer = req[r].connectTimer
      /\ e.answers = req[r].answers /\ e.kind = "forward"
  BY <1>1, <1>2 DEF Record, SameKey
<1> HIDE DEF e
<1>5. Good(e, InTable(r)) /\ ~Over(r)
  BY <1>1, <1>2, <1>4 DEF Good, Over, Rests
<1> QED BY <1>1, <1>2, <1>3, <1>4, <1>5, PlainHolds

LEMMA ProxyRefusesHolds ==
  ASSUME NEW K, IInv(K), NEW r \in Requests, ProxyRefuses(r) PROVE IInv(K)'
<1> DEFINE n == req[r].answers + 1
           e == [req[r] EXCEPT !.phase = "closing", !.answers = n]
<1>1. req[r] \in Record /\ IsForward(r) /\ req[r].phase = "open" /\ ~req[r].confirmed
      /\ UNCHANGED <<sessionVars, counter, issued>>
  BY Facts DEF ProxyRefuses
<1>2. req[r].answers = 0
  BY <1>1, Facts DEF Good, IsForward, Held
<1>3. [req EXCEPT ![r].phase = "closing", ![r].answers = @ + 1] = [req EXCEPT ![r] = e]
  BY DEF IInv, Types
<1>4. Cleanup(r, [req EXCEPT ![r] = e])
  BY <1>3 DEF ProxyRefuses
<1>3a. n \in 0 .. 1
  BY <1>2
<1> HIDE DEF n
<1>5. e \in Record /\ SameKey(r, e) /\ e.counted = req[r].counted /\ e.phase = "closing"
      /\ e.connectTimer = req[r].connectTimer /\ e.idleTimer = req[r].idleTimer
  BY <1>1, <1>2, <1>3a DEF Record, SameKey, Phases
<1> HIDE DEF e
<1> QED BY <1>1, <1>4, <1>5, CleanupHolds

LEMMA SocketFailsHolds ==
  ASSUME NEW K, IInv(K), NEW r \in Requests, SocketFails(r) PROVE IInv(K)'
<1> DEFINE n == IF req[r].confirmed THEN req[r].answers ELSE req[r].answers + 1
           e == [req[r] EXCEPT !.phase = "closing", !.answers = n]
<1>1. req[r] \in Record /\ IsForward(r) /\ req[r].phase = "open"
      /\ UNCHANGED <<sessionVars, counter, issued>>
  BY Facts DEF SocketFails
<1>2. n \in 0 .. 1
  <2>1. req[r].answers \in 0 .. 1
    BY <1>1 DEF Record
  <2>2. ~req[r].confirmed => req[r].answers = 0
    BY <1>1, Facts DEF Good, IsForward, Held
  <2>3. ~req[r].confirmed => req[r].answers + 1 = 1
    BY <2>2
  <2> QED BY <2>1, <2>3
<1>3. [req EXCEPT ![r].phase = "closing", ![r].answers = IF req[r].confirmed THEN @ ELSE @ + 1]
        = [req EXCEPT ![r] = e]
  BY DEF IInv, Types
<1>4. Cleanup(r, [req EXCEPT ![r] = e])
  BY <1>3 DEF SocketFails
<1> HIDE DEF n
<1>5. e \in Record /\ SameKey(r, e) /\ e.counted = req[r].counted /\ e.phase = "closing"
      /\ e.connectTimer = req[r].connectTimer /\ e.idleTimer = req[r].idleTimer
  BY <1>1, <1>2 DEF Record, SameKey, Phases
<1> HIDE DEF e
<1> QED BY <1>1, <1>4, <1>5, CleanupHolds

LEMMA SocketClosesHolds ==
  ASSUME NEW K, IInv(K), NEW r \in Requests, SocketCloses(r) PROVE IInv(K)'
<1> DEFINE e == [req[r] EXCEPT !.phase = "done"]
<1>1. req[r] \in Record /\ IsForward(r) /\ req[r].phase \in {"open", "closing"}
      /\ UNCHANGED <<sessionVars, counter, issued>>
  BY Facts DEF SocketCloses
<1>2. [req EXCEPT ![r].phase = "done"] = [req EXCEPT ![r] = e]
  BY DEF IInv, Types
<1>3. Cleanup(r, [req EXCEPT ![r] = e])
  BY <1>2 DEF SocketCloses
<1>4. e \in Record /\ SameKey(r, e) /\ e.counted = req[r].counted /\ e.phase = "done"
      /\ e.connectTimer = req[r].connectTimer /\ e.idleTimer = req[r].idleTimer
  BY <1>1 DEF Record, SameKey, Phases
<1> HIDE DEF e
<1> QED BY <1>1, <1>3, <1>4, CleanupHolds

(* A request whose timer runs is open, and its socket closing after it.    *)
LEMMA TimerMeansOpen ==
  ASSUME NEW K, IInv(K), NEW r \in Requests, IsForward(r),
         req[r].connectTimer \/ req[r].idleTimer
  PROVE  req[r].phase = "open" /\ SocketDestroyed(req[r]) = "closing"
         /\ (req[r].connectTimer => req[r].answers = 0)
BY Facts DEF Good, IsForward, Held, SocketDestroyed

LEMMA ForwardConnectTimeoutHolds ==
  ASSUME NEW K, IInv(K), NEW r \in Requests, ForwardConnectTimeout(r) PROVE IInv(K)'
<1> DEFINE n == req[r].answers + 1
           e == [req[r] EXCEPT !.connectTimer = FALSE, !.answers = n,
                               !.phase = "closing"]
<1>1. req[r] \in Record /\ IsForward(r) /\ req[r].connectTimer
      /\ UNCHANGED <<sessionVars, counter, issued>>
  BY Facts DEF ForwardConnectTimeout
<1>2. req[r].answers = 0 /\ req[r].phase = "open" /\ SocketDestroyed(req[r]) = "closing"
  BY <1>1, TimerMeansOpen
<1>3. [req EXCEPT ![r].connectTimer = FALSE, ![r].answers = @ + 1,
                  ![r].phase = SocketDestroyed(req[r])]
        = [req EXCEPT ![r] = e]
  BY <1>2 DEF IInv, Types
<1>4. Cleanup(r, [req EXCEPT ![r] = e])
  BY <1>3 DEF ForwardConnectTimeout
<1>3a. n \in 0 .. 1
  BY <1>2
<1> HIDE DEF n
<1>5. e \in Record /\ SameKey(r, e) /\ e.counted = req[r].counted /\ e.phase = "closing"
      /\ ~e.connectTimer /\ e.idleTimer = req[r].idleTimer
  BY <1>1, <1>2, <1>3a DEF Record, SameKey, Phases
<1> HIDE DEF e
<1> QED BY <1>1, <1>2, <1>4, <1>5, CleanupHolds

LEMMA ForwardIdleTimeoutHolds ==
  ASSUME NEW K, IInv(K), NEW r \in Requests, ForwardIdleTimeout(r) PROVE IInv(K)'
<1> DEFINE e == [req[r] EXCEPT !.idleTimer = FALSE, !.phase = "closing"]
<1>1. req[r] \in Record /\ IsForward(r) /\ req[r].idleTimer
      /\ UNCHANGED <<sessionVars, counter, issued>>
  BY Facts DEF ForwardIdleTimeout
<1>2. req[r].phase = "open" /\ SocketDestroyed(req[r]) = "closing"
  BY <1>1, TimerMeansOpen
<1>3. [req EXCEPT ![r].idleTimer = FALSE, ![r].phase = SocketDestroyed(req[r])]
        = [req EXCEPT ![r] = e]
  BY <1>2 DEF IInv, Types
<1>4. Cleanup(r, [req EXCEPT ![r] = e])
  BY <1>3 DEF ForwardIdleTimeout
<1>5. e \in Record /\ SameKey(r, e) /\ e.counted = req[r].counted /\ e.phase = "closing"
      /\ e.connectTimer = req[r].connectTimer /\ ~e.idleTimer
  BY <1>1 DEF Record, SameKey, Phases
<1> HIDE DEF e
<1> QED BY <1>1, <1>2, <1>4, <1>5, CleanupHolds

-------------------------------------------------------------------------------
(* Frames of the client                                                    *)

(* The entry under a reqid.                                                *)
LEMMA EntryFacts ==
  ASSUME NEW K, IInv(K), NEW q \in Ids, table[q] # NoRequest
  PROVE  /\ table[q] \in Requests /\ req[table[q]] \in Record
         /\ req[table[q]].id = q /\ req[table[q]].kind \in {"reverse", "forward"}
         /\ InTable(table[q]) /\ req[table[q]].phase # "done" /\ ~Over(table[q])
         /\ Held(K, table[q]) => Good(req[table[q]], TRUE) /\ req[table[q]].phase = "open"
<1> DEFINE r == table[q]
<1>1. r \in Requests /\ req[r].id = q /\ req[r].kind # "none"
  BY DEF IInv, Types, Keys
<1>2. req[r] \in Record /\ InTable(r) /\ req[r].phase # "done" /\ ~Over(r)
  BY <1>1, Facts DEF InTable, Over, Rests
<1>3. Held(K, r) => Good(req[r], TRUE) /\ req[r].phase = "open"
  BY <1>1, <1>2, Facts DEF Good
<1> QED BY <1>1, <1>2, <1>3 DEF Record

LEMMA ConnectOkHolds ==
  ASSUME NEW K, IInv(K), NEW q \in Ids, ConnectOk(q) PROVE IInv(K)'
<1> DEFINE r == table[q]
<1>1. r # NoRequest
      /\ UNCHANGED <<sessionVars, table, reverseCount, forwardCount, counter, issued>>
  BY DEF ConnectOk
<1>2. /\ r \in Requests /\ req[r] \in Record /\ InTable(r)
      /\ req[r].kind \in {"reverse", "forward"} /\ req[r].phase # "done" /\ ~Over(r)
      /\ Held(K, r) => Good(req[r], TRUE) /\ req[r].phase = "open"
  BY <1>1, EntryFacts
<1>3. CASE IsReverse(r)
  <2> DEFINE e == [req[r] EXCEPT !.confirmed = TRUE, !.idleTimer = TRUE,
                                 !.connectTimer = FALSE]
  <2>1. Plain(r, e)
    BY <1>1, <1>2, <1>3 DEF ConnectOk, Plain, IInv, Types
  <2>2. e \in Record /\ SameKey(r, e) /\ e.counted = req[r].counted /\ e.phase = req[r].phase
        /\ e.idleTimer /\ ~e.connectTimer /\ e.answers = req[r].answers
    BY <1>2 DEF Record, SameKey
  <2> HIDE DEF e, r
  <2>3. Held(K, r) => Good(e, InTable(r))
    BY <1>2, <1>3, <2>2 DEF Good, IsReverse, SameKey
  <2> QED BY <1>1, <1>2, <2>1, <2>2, <2>3, PlainHolds
<1>4. CASE ~IsReverse(r)
  <2> DEFINE e == [req[r] EXCEPT !.confirmed = TRUE]
  <2>1. Plain(r, e)
    BY <1>1, <1>2, <1>4 DEF ConnectOk, Plain, IInv, Types
  <2>2. e \in Record /\ SameKey(r, e) /\ e.counted = req[r].counted /\ e.phase = req[r].phase
        /\ e.idleTimer = req[r].idleTimer /\ e.connectTimer = req[r].connectTimer
        /\ e.answers = req[r].answers /\ e.kind = "forward" /\ e.confirmed
    BY <1>2, <1>4 DEF Record, SameKey, IsReverse
  <2> HIDE DEF e, r
  <2>3. Held(K, r) => Good(e, InTable(r))
    BY <1>2, <2>2 DEF Good, SameKey
  <2> QED BY <1>1, <1>2, <2>1, <2>2, <2>3, PlainHolds
<1> QED BY <1>3, <1>4

LEMMA DataHolds ==
  ASSUME NEW K, IInv(K), NEW q \in Ids, Data(q) PROVE IInv(K)'
<1> DEFINE r == table[q]
           e == [req[r] EXCEPT !.idleTimer = TRUE]
<1>1. r # NoRequest /\ IsReverse(r)
      /\ UNCHANGED <<sessionVars, table, reverseCount, forwardCount, counter, issued>>
  BY DEF Data
<1>2. /\ r \in Requests /\ req[r] \in Record /\ InTable(r) /\ req[r].kind # "none"
      /\ req[r].phase # "done" /\ ~Over(r)
      /\ Held(K, r) => Good(req[r], TRUE) /\ req[r].phase = "open"
  BY <1>1, EntryFacts
<1>3. Plain(r, e)
  BY <1>1, <1>2 DEF Data, Plain, IInv, Types
<1>4. e \in Record /\ SameKey(r, e) /\ e.counted = req[r].counted /\ e.phase = req[r].phase
      /\ e.idleTimer /\ e.connectTimer = req[r].connectTimer
      /\ e.answers = req[r].answers /\ e.confirmed = req[r].confirmed
  BY <1>2 DEF Record, SameKey
<1> HIDE DEF e, r
<1>5. Held(K, r) => Good(e, InTable(r))
  BY <1>1, <1>2, <1>4 DEF Good, IsReverse, SameKey
<1> QED BY <1>1, <1>2, <1>3, <1>4, <1>5, PlainHolds

(* A frame that ends the request q, its stream being in phase p after it.  *)
LEMMA EndHolds ==
  ASSUME NEW K, IInv(K), NEW q \in Ids, NEW p \in {"ended", "done"},
         table[q] # NoRequest,
         ClearActiveRequest(q, [req EXCEPT ![table[q]].phase =
           IF IsForward(table[q]) THEN SocketDestroyed(req[table[q]]) ELSE p]),
         UNCHANGED <<sessionVars, forwardCount, counter, issued>>
  PROVE  IInv(K)'
<1> DEFINE r == table[q]
           z == IF IsForward(r) THEN SocketDestroyed(req[r]) ELSE p
           e == [req[r] EXCEPT !.phase = z]
<1>1. /\ r \in Requests /\ req[r] \in Record /\ InTable(r) /\ req[r].id = q /\ ~Over(r)
      /\ req[r].kind \in {"reverse", "forward"}
      /\ Held(K, r) => Good(req[r], TRUE) /\ req[r].phase = "open"
  BY EntryFacts
<1>2. [req EXCEPT ![r].phase = z] = [req EXCEPT ![r] = e]
  BY DEF IInv, Types
<1>3. Clears(r, e)
  BY <1>1, <1>2 DEF Clears
<1>4. /\ z \in Phases /\ (Held(K, r) => z # "open")
      /\ IsForward(r) => z = "closing"
      /\ ~IsForward(r) => z \in {"ended", "done"}
  BY <1>1 DEF SocketDestroyed, Phases, Record, Held, IsForward
<1> HIDE DEF z
<1>5. e \in Record /\ SameKey(r, e) /\ e.counted = req[r].counted /\ e.phase = z
      /\ e.answers = req[r].answers
  BY <1>1, <1>4 DEF Record, SameKey
<1> HIDE DEF e, r
<1>6. /\ Removed(e).phase = z /\ Removed(e).kind = req[r].kind
      /\ Removed(e).answers = req[r].answers
      /\ ~Removed(e).connectTimer /\ ~Removed(e).idleTimer
      /\ Removed(e).counted = (e.counted /\ e.kind = "forward")
  BY <1>5, RemovedType DEF SameKey
<1>7. Held(K, r) => Good(Removed(e), FALSE)
  BY <1>1, <1>4, <1>5, <1>6 DEF Good, IsForward, SameKey
<1>8. Held(K, r) => Good(IF InTable(r) THEN Removed(e) ELSE e, FALSE)
  BY <1>1, <1>7
<1> QED BY <1>1, <1>3, <1>5, <1>8, ClearsHolds

LEMMA CloseHolds ==
  ASSUME NEW K, IInv(K), NEW q \in Ids, Close(q) PROVE IInv(K)'
BY EndHolds DEF Close

LEMMA ConnectFailedHolds ==
  ASSUME NEW K, IInv(K), NEW q \in Ids, ConnectFailed(q) PROVE IInv(K)'
BY EndHolds DEF ConnectFailed

-------------------------------------------------------------------------------
(* New requests                                                            *)

SessionTypes ==
  /\ open \subseteq Sids /\ gone \subseteq Sids
  /\ active \in Sids \cup {None}
  /\ connected \in BOOLEAN

(* The number the next reverse request will get.                           *)
NextReqid == IF counter + 1 > MaxReverseId THEN 1 ELSE counter + 1

(* A request under q, where no request under q is under way.               *)
LEMMA NewHolds ==
  ASSUME NEW K, IInv(K), UNCHANGED sessionVars,
         issued < MaxRequests, issued' = issued + 1,
         NEW q \in Ids, NEW e \in Record, e.id = q, e.counted,
         \/ e.kind = "reverse" /\ q \in ReverseIds /\ q = NextReqid /\ counter' = q
         \/ e.kind = "forward" /\ q \in ForwardIds /\ counter' = counter,
         Good(e, TRUE),
         \A x \in Requests :
           /\ req[x].kind # "none" /\ req[x].id = q
           /\ e.kind = "forward" \/ issued + 1 \in K \/ Held(K, x)
           => Over(x),
         table' = [table EXCEPT ![q] = issued + 1],
         req' = [req EXCEPT ![issued + 1] = e],
         \/ /\ e.kind = "reverse" /\ reverseCount < MaxReverse
            /\ reverseCount' = reverseCount + 1 /\ forwardCount' = forwardCount
         \/ /\ e.kind = "forward" /\ forwardCount < MaxForward
            /\ forwardCount' = forwardCount + 1 /\ reverseCount' = reverseCount
  PROVE  IInv(K)'
<1>0. PICK r \in Requests : r = issued + 1
  BY LimitsAssumption DEF IInv, Types, Requests
<1>1. issued \in Nat /\ issued' \in 0 .. MaxRequests /\ r \in Requests /\ r # NoRequest
      /\ \A x \in Requests : x > issued' <=> (x > issued /\ x # r)
  BY <1>0, LimitsAssumption DEF IInv, Types, Requests, NoRequest
<1>2. req[r].kind = "none" /\ ~req[r].counted
  BY <1>0, <1>1 DEF IInv, Keys, Types
<1>3. /\ req' \in [Requests -> Record] /\ req'[r] = e
      /\ \A x \in Requests \ {r} : req'[x] = req[x]
  BY <1>0, <1>1 DEF IInv, Types
<1>4. /\ table' \in [Ids -> Requests \cup {NoRequest}] /\ table'[q] = r
      /\ \A p \in Ids \ {q} : table'[p] = table[p]
  BY <1>0, <1>1 DEF IInv, Types
<1>5. Types'
  <2>1. counter' \in 0 .. MaxReverseId
    BY IdsAssumption DEF IInv, Types, ReverseIds
  <2> QED BY <1>1, <1>3, <1>4, <2>1 DEF IInv, Types, sessionVars
<1>6. Keys'
  <2>1. \A x \in Requests :
          /\ req'[x].kind = "none" <=> x > issued'
          /\ req'[x].kind = "reverse" => req'[x].id \in ReverseIds
          /\ req'[x].kind = "forward" => req'[x].id \in ForwardIds
          /\ req'[x].kind = "none" =>
               req'[x].session = None /\ ~req'[x].counted /\ req'[x].phase = "unused"
    <3> SUFFICES ASSUME NEW x \in Requests
                 PROVE  /\ req'[x].kind = "none" <=> x > issued'
                        /\ req'[x].kind = "reverse" => req'[x].id \in ReverseIds
                        /\ req'[x].kind = "forward" => req'[x].id \in ForwardIds
                        /\ req'[x].kind = "none" =>
                             req'[x].session = None /\ ~req'[x].counted /\ req'[x].phase = "unused"
      OBVIOUS
    <3>1. CASE x = r
      BY <1>1, <1>3, <3>1
    <3>2. CASE x # r
      BY <1>1, <1>3, <3>2 DEF IInv, Keys, IsReverse, IsForward
    <3> QED BY <3>1, <3>2
  <2>2. \A p \in Ids : table'[p] # NoRequest =>
          req'[table'[p]].id = p /\ req'[table'[p]].kind # "none"
    <3> SUFFICES ASSUME NEW p \in Ids, table'[p] # NoRequest
                 PROVE  req'[table'[p]].id = p /\ req'[table'[p]].kind # "none"
      OBVIOUS
    <3>1. CASE p = q
      BY <1>3, <1>4, <3>1
    <3>2. CASE p # q
      <4>1. table'[p] = table[p] /\ table[p] \in Requests
        BY <1>4, <3>2 DEF IInv, Types
      <4>2. req[table[p]].id = p /\ req[table[p]].kind # "none" /\ table[p] # r
        BY <1>2, <4>1 DEF IInv, Keys
      <4> QED BY <1>3, <4>1, <4>2
    <3> QED BY <3>1, <3>2
  <2> QED BY <2>1, <2>2 DEF Keys, IsReverse, IsForward
<1>7. /\ IsForward(r)' <=> e.kind = "forward"
      /\ Held(K, r)' <=> e.kind = "forward" \/ r \in K
      /\ \A x \in Requests \ {r} : (Held(K, x)' <=> Held(K, x)) /\ (Over(x)' <=> Over(x))
  BY <1>3 DEF Held, IsForward, IsReverse, Over
<1>8. \A x \in Requests \ {r} : req[x].kind # "none" =>
        /\ InTable(x)' => InTable(x)
        /\ req[x].id # q => (InTable(x)' <=> InTable(x))
  <2> SUFFICES ASSUME NEW x \in Requests \ {r}, req[x].kind # "none"
               PROVE  /\ InTable(x)' => InTable(x)
                      /\ req[x].id # q => (InTable(x)' <=> InTable(x))
    OBVIOUS
  <2>1. req[x].id \in Ids
    BY DEF IInv, Keys, Types, Record, IsReverse, IsForward, Ids
  <2> QED BY <1>3, <1>4, <2>1 DEF InTable
<1>9. Entries(K)'
  <2>1. ASSUME NEW x \in Requests, req'[x].phase = "done" PROVE ~InTable(x)'
    <3>1. x # r
      BY <1>3, <2>1 DEF Good
    <3>2. req[x].phase = "done" /\ req[x].kind # "none"
      BY <1>3, <2>1, <3>1 DEF IInv, Keys
    <3> QED BY <1>8, <3>1, <3>2 DEF IInv, Entries
  <2>2. ASSUME NEW x \in Requests, Held(K, x)' PROVE Good(req'[x], InTable(x)')
    <3>1. CASE x = r
      BY <1>3, <1>4, <3>1 DEF InTable, Good
    <3>2. CASE x # r /\ req[x].id # q
      <4>1. Held(K, x) /\ req[x].kind # "none"
        BY <1>7, <2>2, <3>2 DEF Held, IsForward, IsReverse
      <4> QED BY <1>3, <1>8, <3>2, <4>1, Facts DEF Good
    <3>3. CASE x # r /\ req[x].id = q
      <4>1. Held(K, x) /\ req[x].kind # "none"
        BY <1>7, <2>2, <3>3 DEF Held, IsForward, IsReverse
      <4>2. Good(req[x], InTable(x)) /\ Over(x)
        BY <3>3, <4>1, Facts
      <4>3. ~InTable(x) /\ ~InTable(x)'
        BY <1>8, <3>3, <4>1, <4>2 DEF Good, Over, Rests
      <4> QED BY <1>3, <3>3, <4>2, <4>3 DEF Good
    <3> QED BY <3>1, <3>2, <3>3
  <2>3. ASSUME NEW x \in Requests, Held(K, x)', NEW y \in Requests \ {x} PROVE Apart(x, y)'
    <3>1. CASE x # r /\ y # r
      BY <1>3, <1>7, <2>3, <3>1 DEF IInv, Entries, Apart
    <3>2. CASE x = r
      <4>1. e.kind = "forward" \/ issued + 1 \in K
        BY <1>0, <1>7, <2>3, <3>2
      <4>2. req[y].kind # "none" /\ req[y].id = q => Over(y)
        BY <4>1
      <4> QED BY <1>3, <1>7, <3>2, <4>2 DEF Apart
    <3>3. CASE y = r
      <4>1. Held(K, x) /\ req[x].kind # "none" /\ x # r
        BY <1>7, <2>3, <3>3 DEF Held, IsForward, IsReverse
      <4>2. req[x].kind # "none" /\ req[x].id = q => Over(x)
        BY <4>1
      <4> QED BY <1>3, <1>7, <3>3, <4>1, <4>2 DEF Apart
    <3> QED BY <3>1, <3>2, <3>3
  <2> QED BY <2>1, <2>2, <2>3 DEF Entries
<1>10. Counts'
  <2>1. Forwards \in SUBSET Requests /\ Reverses \in SUBSET Requests
        /\ r \notin Forwards /\ r \notin Reverses
    BY <1>2 DEF Forwards, Reverses
  <2>2. CASE /\ e.kind = "reverse" /\ reverseCount < MaxReverse
             /\ reverseCount' = reverseCount + 1 /\ forwardCount' = forwardCount
    <3>1. Forwards' = Forwards /\ Reverses' = Reverses \cup {r}
      BY <1>1, <1>2, <1>3, <2>2 DEF Forwards, Reverses, IsForward, IsReverse
    <3>2. Cardinality(Reverses') = Cardinality(Reverses) + 1
      BY <1>1, <2>1, <3>1, Finite
    <3> QED BY <2>2, <3>1, <3>2, LimitsAssumption DEF IInv, Counts
  <2>3. CASE /\ e.kind = "forward" /\ forwardCount < MaxForward
             /\ forwardCount' = forwardCount + 1 /\ reverseCount' = reverseCount
    <3>1. Reverses' = Reverses /\ Forwards' = Forwards \cup {r}
      BY <1>1, <1>2, <1>3, <2>3 DEF Forwards, Reverses, IsForward, IsReverse
    <3>2. Cardinality(Forwards') = Cardinality(Forwards) + 1
      BY <1>1, <2>1, <3>1, Finite
    <3> QED BY <2>3, <3>1, <3>2, LimitsAssumption DEF IInv, Counts
  <2> QED BY <2>2, <2>3
<1>11. Numbers'
  <2> SUFFICES ASSUME issued' <= MaxReverseId
               PROVE  /\ counter' <= issued'
                      /\ \A x \in Requests : req'[x].kind = "reverse" => req'[x].id <= counter'
    BY DEF Numbers, IsReverse
  <2>1. /\ issued < MaxReverseId /\ counter <= issued /\ counter \in Nat /\ issued \in Nat
        /\ MaxReverseId \in Nat
        /\ \A x \in Requests : req[x].kind = "reverse" =>
             req[x].id <= counter /\ req[x].id \in Nat
    BY <1>1, IdsAssumption DEF IInv, Numbers, Types, Keys, IsReverse, ReverseIds
  <2>2. CASE e.kind = "reverse" /\ q = NextReqid /\ counter' = q
    <3>1. counter' = counter + 1
      BY <2>1, <2>2 DEF NextReqid
    <3> QED BY <1>3, <2>1, <2>2, <3>1
  <2>3. CASE e.kind = "forward" /\ counter' = counter
    BY <1>3, <2>1, <2>3
  <2> QED BY <2>2, <2>3
<1> QED BY <1>5, <1>6, <1>9, <1>10, <1>11 DEF IInv

LEMMA BlankType == Blank \in Record
<1>1. 0 \in 0 .. 1
  OBVIOUS
<1> QED BY <1>1 DEF Blank, Record, Phases

LEMMA ForwardConnectHolds ==
  ASSUME NEW K, IInv(K), NEW s \in Sids, NEW q \in ForwardIds, ForwardConnect(s, q)
  PROVE  IInv(K)'
<1> DEFINE e == [Blank EXCEPT !.kind = "forward", !.id = q, !.session = s, !.phase = "open",
                              !.connectTimer = TRUE, !.counted = TRUE]
<1>1. /\ issued < MaxRequests /\ issued' = issued + 1
      /\ forwardCount < MaxForward /\ forwardCount' = forwardCount + 1
      /\ table' = [table EXCEPT ![q] = issued + 1] /\ req' = [req EXCEPT ![issued + 1] = e]
      /\ UNCHANGED sessionVars /\ counter' = counter /\ reverseCount' = reverseCount
  BY DEF ForwardConnect
<1>2. q \in Ids
  BY DEF Ids
<1>3. e \in Record /\ e.id = q /\ e.counted /\ e.kind = "forward" /\ Good(e, TRUE)
  <2>1. e \in Record
    BY <1>2, BlankType DEF Record, Phases
  <2>2. Good(e, TRUE)
    BY DEF Good, Blank
  <2> QED BY <2>1, <2>2 DEF Blank
<1>4. \A x \in Requests : req[x].kind # "none" /\ req[x].id = q => Over(x)
  <2> SUFFICES ASSUME NEW x \in Requests, req[x].kind # "none", req[x].id = q
               PROVE  Over(x)
    OBVIOUS
  <2>1. x \in 1 .. issued
    <3>1. ~(x > issued)
      BY DEF IInv, Keys
    <3> QED BY <3>1 DEF Requests, IInv, Types
  <2>2. req[x].phase = "done"
    BY <2>1 DEF ForwardConnect
  <2>3. Held(K, x)
    <3>1. ReverseIds \cap ForwardIds = {} /\ req[x].kind \in {"reverse", "forward"}
      BY IdsAssumption DEF ReverseIds, IInv, Types, Record
    <3> QED BY <3>1 DEF IInv, Keys, IsReverse, IsForward, Held
  <2> QED BY <2>2, <2>3, Facts DEF Good, Over, Rests
<1> HIDE DEF e
<1> QED BY <1>1, <1>2, <1>3, <1>4, NewHolds

-------------------------------------------------------------------------------
(* Reqids of reverse requests                                              *)

(* The number the next reverse request would get is not in use.            *)
NextReqidIsFree ==
  \A r \in Requests : IsReverse(r) /\ req[r].id = NextReqid => req[r].phase = "done"

(* No reverse request is made under the number of one still under way: of  *)
(* _allocateReqid, whose counter comes round without a look at the table.  *)
NoReqidTakenTwice == [][Forward => NextReqidIsFree]_vars

(* The requests K share a number only with requests that are over.         *)
NumbersKept(K) ==
  \A x \in Requests : /\ IsReverse(x) /\ req[x].id = NextReqid
                      /\ x \in K \/ issued + 1 \in K
                      => Over(x)

LEMMA ForwardHolds ==
  ASSUME NEW K, IInv(K), Forward, NumbersKept(K)
  PROVE  IInv(K)'
<1> DEFINE q == NextReqid
           e == [Blank EXCEPT !.kind = "reverse", !.id = q, !.session = active,
                              !.phase = "open", !.connectTimer = TRUE, !.counted = TRUE]
<1>1. /\ issued < MaxRequests /\ issued' = issued + 1
      /\ reverseCount < MaxReverse /\ reverseCount' = reverseCount + 1
      /\ table' = [table EXCEPT ![q] = issued + 1] /\ req' = [req EXCEPT ![issued + 1] = e]
      /\ UNCHANGED sessionVars /\ counter' = q /\ forwardCount' = forwardCount
      /\ active # None
  BY DEF Forward, NextReqid
<1>2. q \in ReverseIds /\ q \in Ids
  BY <1>1, IdsAssumption DEF Ids, ReverseIds, NextReqid, IInv, Types
<1>3. e \in Record /\ e.id = q /\ e.counted /\ e.kind = "reverse" /\ Good(e, TRUE)
  <2> HIDE DEF q
  <2>1. e \in Record
    <3>1. active \in Sids
      BY <1>1 DEF IInv, Types
    <3> QED BY <1>2, <3>1, BlankType DEF Record, Phases
  <2>2. Good(e, TRUE)
    BY DEF Good, Blank
  <2> QED BY <2>1, <2>2 DEF Blank
<1>4. ASSUME NEW x \in Requests, req[x].kind # "none", req[x].id = q,
             e.kind = "forward" \/ issued + 1 \in K \/ Held(K, x)
      PROVE  Over(x)
  <2>1. ReverseIds \cap ForwardIds = {}
    BY IdsAssumption DEF ReverseIds
  <2>2. req[x].kind \in {"none", "reverse", "forward"}
    BY DEF IInv, Types, Record
  <2>3. IsReverse(x) /\ ~IsForward(x)
    BY <1>2, <1>4, <2>1, <2>2 DEF IInv, Keys, IsForward, IsReverse
  <2>4. issued + 1 \in K \/ x \in K
    BY <1>3, <1>4, <2>3 DEF Held
  <2> QED BY <1>4, <2>3, <2>4 DEF NumbersKept
<1>5. q = NextReqid
  OBVIOUS
<1> HIDE DEF e, q
<1> QED BY <1>1, <1>2, <1>3, <1>4, <1>5, NewHolds

-------------------------------------------------------------------------------
(* The sessions                                                            *)

LEMMA DisconnectHolds ==
  ASSUME NEW K, IInv(K), NEW E \in SUBSET Sids, Disconnect(E), SessionTypes'
  PROVE  IInv(K)'
<1> DEFINE b == BoundTo(E)
           G == {r \in b : IsReverse(r) /\ req[r].counted}
<1>1. /\ table' = [q \in Ids |-> IF table[q] \in b THEN NoRequest ELSE table[q]]
      /\ reverseCount' = reverseCount - Cardinality(G)
      /\ UNCHANGED <<forwardCount, counter, issued>>
  BY DEF Disconnect
<1>2. \A r \in Requests : r \in b <=> req[r].session \in E /\ InTable(r)
  BY DEF BoundTo, InTable
<1>3. req' \in [Requests -> Record] /\ \A r \in Requests :
        /\ req'[r].kind = req[r].kind /\ req'[r].id = req[r].id
        /\ req'[r].session = req[r].session /\ req'[r].answers = req[r].answers
        /\ req'[r].confirmed = req[r].confirmed
        /\ r \notin b => req'[r] = req[r]
        /\ r \in b => /\ ~req'[r].connectTimer /\ ~req'[r].idleTimer
                      /\ req'[r].counted <=> req[r].counted /\ IsForward(r)
                      /\ req'[r].phase = IF IsForward(r) THEN SocketDestroyed(req[r])
                                                        ELSE "done"
  <2> DEFINE p(r) == IF IsForward(r) THEN SocketDestroyed(req[r]) ELSE "done"
             g(r) == [Removed(req[r]) EXCEPT !.phase = p(r)]
  <2>1. req' = [r \in Requests |-> IF r \notin b THEN req[r] ELSE g(r)]
    BY DEF Disconnect
  <2>2. \A r \in Requests : req[r] \in Record /\ p(r) \in Phases
    BY Facts DEF SocketDestroyed, Phases, Record
  <2>3. ASSUME NEW r \in Requests
        PROVE  /\ g(r) \in Record /\ g(r).phase = p(r)
               /\ g(r).kind = req[r].kind /\ g(r).id = req[r].id
               /\ g(r).session = req[r].session /\ g(r).answers = req[r].answers
               /\ g(r).confirmed = req[r].confirmed
               /\ ~g(r).connectTimer /\ ~g(r).idleTimer
               /\ g(r).counted <=> req[r].counted /\ req[r].kind = "forward"
    <3> DEFINE d == Removed(req[r])
               z == p(r)
    <3>1. d \in Record /\ z \in Phases
      BY <2>2, RemovedType
    <3>2. /\ d.kind = req[r].kind /\ d.id = req[r].id /\ d.session = req[r].session
          /\ d.answers = req[r].answers /\ d.confirmed = req[r].confirmed
          /\ ~d.connectTimer /\ ~d.idleTimer
          /\ d.counted <=> req[r].counted /\ req[r].kind = "forward"
      BY <2>2, RemovedType
    <3> HIDE DEF d, z
    <3>3. [d EXCEPT !.phase = z] \in Record
      BY <3>1 DEF Record
    <3>4. LET h == [d EXCEPT !.phase = z] IN
          /\ h.phase = z /\ h.kind = d.kind /\ h.id = d.id /\ h.session = d.session
          /\ h.answers = d.answers /\ h.confirmed = d.confirmed
          /\ h.connectTimer = d.connectTimer /\ h.idleTimer = d.idleTimer
          /\ h.counted = d.counted
      BY <3>1 DEF Record
    <3>5. g(r) = [d EXCEPT !.phase = z]
      BY DEF d, z
    <3> HIDE DEF g
    <3>6. g(r).phase = p(r)
      BY <3>4, <3>5 DEF z
    <3> QED BY <3>2, <3>3, <3>4, <3>5, <3>6
  <2>4. req' \in [Requests -> Record]
    <3> HIDE DEF g
    <3> QED BY <2>1, <2>2, <2>3
  <2> HIDE DEF g
  <2>5. ASSUME NEW r \in Requests PROVE req'[r] = IF r \notin b THEN req[r] ELSE g(r)
    BY <2>1
  <2> QED BY <2>3, <2>4, <2>5 DEF IsForward
<1>4. Types'
  <2>1. table' \in [Ids -> Requests \cup {NoRequest}]
    BY <1>1 DEF IInv, Types
  <2> QED BY <1>1, <1>3, <2>1 DEF IInv, Types, SessionTypes
<1>5. Keys'
  <2>1. \A r \in Requests : req[r].kind = "none" => req'[r] = req[r]
    BY <1>2, <1>3, NoneAssumption DEF IInv, Keys
  <2>2. \A q \in Ids : table'[q] # NoRequest => table'[q] = table[q] /\ table[q] \in Requests
    BY <1>1 DEF IInv, Types
  <2> QED BY <1>1, <1>3, <2>1, <2>2 DEF IInv, Keys, IsReverse, IsForward
<1>6. ASSUME NEW r \in Requests
      PROVE  /\ req[r].kind # "none" => (InTable(r)' => InTable(r) /\ r \notin b)
             /\ Over(r) => Over(r)'
             /\ Held(K, r)' <=> Held(K, r)
             /\ req'[r].phase = "done" => ~InTable(r)'
  <2>1. r # NoRequest /\ (req[r].phase = "done" => ~InTable(r))
    BY Facts DEF Requests, NoRequest
  <2>2. req[r].kind # "none" => (InTable(r)' => InTable(r) /\ r \notin b)
    <3> SUFFICES ASSUME req[r].kind # "none", InTable(r)' PROVE InTable(r) /\ r \notin b
      OBVIOUS
    <3>1. req[r].id \in Ids
      BY DEF IInv, Keys, Types, Record, IsReverse, IsForward, Ids
    <3> QED BY <1>1, <1>3, <2>1, <3>1 DEF InTable
  <2>3. r \notin b => req'[r] = req[r]
    BY <1>3
  <2>6. req'[r].phase = "done" => ~InTable(r)'
    <3> SUFFICES ASSUME req'[r].phase = "done", InTable(r)' PROVE FALSE
      OBVIOUS
    <3>1. req[r].kind # "none"
      <4>1. req[r].kind = "none" => req[r].session \notin E /\ req[r].phase # "done"
        BY NoneAssumption DEF IInv, Keys
      <4> QED BY <1>2, <2>3, <4>1
    <3> QED BY <2>1, <2>2, <2>3, <3>1
  <2>4. Over(r) => Over(r)'
    BY <1>2, <2>1, <2>3 DEF Over, Rests
  <2>5. Held(K, r)' <=> Held(K, r)
    BY <1>3 DEF Held, IsForward, IsReverse
  <2> QED BY <2>2, <2>4, <2>5, <2>6
<1>7. Entries(K)'
  <2>1. ASSUME NEW r \in Requests, Held(K, r) PROVE Good(req'[r], InTable(r)')
    <3>1. Good(req[r], InTable(r)) /\ req[r].id \in Ids /\ req[r].kind \in {"reverse", "forward"}
      BY <2>1, Facts DEF Held, IInv, Keys, IsReverse, IsForward, Ids
    <3>2. CASE r \in b
      <4>1. InTable(r) /\ req[r].phase = "open" /\ ~InTable(r)'
        BY <1>2, <1>6, <3>1, <3>2 DEF Good
      <4>2. req'[r].phase = IF IsForward(r) THEN "closing" ELSE "done"
        BY <1>3, <3>2, <4>1 DEF SocketDestroyed
      <4> QED BY <1>3, <3>1, <3>2, <4>1, <4>2 DEF Good, IsForward
    <3>3. CASE r \notin b
      <4>1. req'[r] = req[r]
        BY <1>3, <3>3
      <4>2. InTable(r)' <=> InTable(r)
        <5>1. r # NoRequest
          BY DEF Requests, NoRequest
        <5>2. InTable(r) => table'[req[r].id] = r
          BY <1>1, <3>1, <3>3, <5>1 DEF InTable
        <5> QED BY <1>6, <3>1, <4>1, <5>2 DEF InTable
      <4> QED BY <3>1, <4>1, <4>2 DEF Good
    <3> QED BY <3>2, <3>3
  <2>2. \A r \in Requests : Held(K, r)' => Good(req'[r], InTable(r)')
    BY <1>6, <2>1
  <2>3. \A r \in Requests : Held(K, r)' => \A x \in Requests \ {r} : Apart(r, x)'
    BY <1>3, <1>6 DEF IInv, Entries, Apart
  <2> QED BY <1>6, <2>2, <2>3 DEF Entries
<1>8. Counts'
  <2>1. Forwards' = Forwards
    BY <1>3 DEF Forwards, IsForward
  <2>2. Reverses' = Reverses \ G
    BY <1>3 DEF Reverses, IsReverse, IsForward
  <2>3. Reverses \cap G = G
    BY DEF Reverses, BoundTo
  <2>4. Reverses \in SUBSET Requests /\ G \in SUBSET Requests
        /\ Reverses \ G \in SUBSET Requests
    BY DEF Reverses, BoundTo
  <2> HIDE DEF b, G
  <2>5. Cardinality(Reverses \ G) = Cardinality(Reverses) - Cardinality(G)
    <3>1. IsFiniteSet(Reverses)
      BY <2>4, Finite
    <3>2. Cardinality(Reverses \ G) = Cardinality(Reverses) - Cardinality(Reverses \cap G)
      BY <3>1, FS_Difference
    <3> QED BY <2>3, <3>2
  <2>6. Cardinality(Reverses \ G) \in Nat /\ Cardinality(G) \in Nat
    BY <2>4, Finite
  <2> QED BY <1>1, <2>1, <2>2, <2>5, <2>6, LimitsAssumption DEF IInv, Counts
<1>9. Numbers'
  BY <1>1, <1>3 DEF IInv, Numbers, IsReverse
<1> QED BY <1>4, <1>5, <1>7, <1>8, <1>9 DEF IInv

LEMMA SessionEventsHold ==
  ASSUME NEW K, IInv(K), SessionEvents PROVE IInv(K)'
<1>1. SessionTypes
  BY DEF IInv, Types, SessionTypes
<1>2. ASSUME NEW s \in Sids, NEW E \in SUBSET open, SessionCreated(s, E) PROVE IInv(K)'
  <2>1. SessionTypes'
    BY <1>1, <1>2 DEF SessionCreated, SessionTypes, Table!Create, Table!Survivor
  <2> QED BY <1>1, <1>2, <2>1, DisconnectHolds DEF SessionCreated, SessionTypes
<1>3. ASSUME NEW E \in SUBSET open, SessionsClosed(E) PROVE IInv(K)'
  <2>1. SessionTypes'
    BY <1>1, <1>3 DEF SessionsClosed, SessionTypes, Table!Close, Table!Survivor
  <2> QED BY <1>1, <1>3, <2>1, DisconnectHolds DEF SessionsClosed, SessionTypes
<1>4. ASSUME StreamLost \/ \E s \in Sids : StreamOpened(s) PROVE IInv(K)'
  <2>1. SessionTypes' /\ UNCHANGED <<tableVars, counter, issued>>
    BY <1>1, <1>4 DEF StreamLost, StreamOpened, SessionTypes, Table!Attach, Table!Detach
  <2>2. Types' /\ Keys' /\ Numbers' /\ Counts'
    BY <2>1 DEF IInv, Types, Keys, Numbers, Counts, SessionTypes, tableVars, IsReverse, IsForward,
                Forwards, Reverses
  <2>3. Entries(K)'
    BY <2>1 DEF IInv, Entries, Apart, InTable, tableVars, Good, Held, Over, Rests, IsForward, IsReverse
  <2> QED BY <2>2, <2>3 DEF IInv
<1> QED BY <1>2, <1>3, <1>4 DEF SessionEvents

-------------------------------------------------------------------------------
(* The invariant                                                           *)

LEMMA InitHolds == ASSUME NEW K, Init PROVE IInv(K)
<1>1. Types
  <2>1. 0 \in 0 .. MaxReverseId /\ 0 \in 0 .. MaxRequests
    BY IdsAssumption, LimitsAssumption
  <2> QED BY <2>1, BlankType DEF Init, Types, Table!Init
<1>2. Keys
  BY LimitsAssumption DEF Init, Keys, Blank, Requests, IsReverse, IsForward
<1>3. Numbers /\ Entries(K)
  BY DEF Init, Numbers, Entries, Held, Blank, IsReverse, IsForward
<1>4. Counts
  <2>1. Forwards = {} /\ Reverses = {}
    BY DEF Init, Forwards, Reverses, Blank
  <2> QED BY <2>1, FS_EmptySet, LimitsAssumption DEF Init, Counts
<1> QED BY <1>1, <1>2, <1>3, <1>4 DEF IInv

LEMMA StepHolds ==
  ASSUME NEW K, IInv(K), [Next]_vars, [Forward => NumbersKept(K)]_vars
  PROVE  IInv(K)'
<1>1. CASE SessionEvents
  BY <1>1, SessionEventsHold
<1>2. CASE ProxyEvents
  <2>1. CASE Forward
    <3>1. ~(UNCHANGED vars)
      <4>1. issued' = issued + 1 /\ issued \in Nat
        BY <2>1, LimitsAssumption DEF Forward, IInv, Types
      <4> QED BY <4>1 DEF vars, tableVars
    <3> QED BY <2>1, <3>1, ForwardHolds
  <2> QED
    BY <1>2, <2>1, StreamWritesHolds, StreamFinishesHolds, StreamDestroyedHolds,
       ProxyAcceptsHolds, ProxyRefusesHolds, ProxySendsHolds, SocketFailsHolds,
       SocketClosesHolds
    DEF ProxyEvents
<1>3. CASE Frames
  BY <1>3, ForwardConnectHolds, ConnectOkHolds, DataHolds, CloseHolds, ConnectFailedHolds
     DEF Frames
<1>4. ASSUME NEW r \in Requests, Timeouts(r) PROVE IInv(K)'
  BY <1>4, ReverseConnectTimeoutHolds, ReverseIdleTimeoutHolds, ForwardConnectTimeoutHolds,
     ForwardIdleTimeoutHolds DEF Timeouts
<1>5. CASE UNCHANGED vars
  <2>1. Types' /\ Keys' /\ Numbers' /\ Counts'
    BY <1>5 DEF vars, sessionVars, tableVars, IInv, Types, Keys, Numbers, Counts, IsReverse,
                IsForward, Forwards, Reverses
  <2>2. Entries(K)'
    BY <1>5 DEF vars, tableVars, IInv, Entries, Apart, InTable, Good, Held, Over, Rests,
                IsForward, IsReverse
  <2> QED BY <2>1, <2>2 DEF IInv
<1> QED BY <1>1, <1>2, <1>3, <1>4, <1>5 DEF Next

(* Of no reverse request anything is assumed.                              *)
LEMMA ForwardHold == Spec => []IInv({})
<1>1. Init => IInv({})
  BY InitHolds
<1>2. IInv({}) /\ [Next]_vars => IInv({})'
  <2>1. IInv({}) => [Forward => NumbersKept({})]_vars
    <3> SUFFICES ASSUME IInv({}), Forward PROVE NumbersKept({})
      OBVIOUS
    <3>1. issued + 1 \notin {}
      OBVIOUS
    <3> QED BY <3>1 DEF NumbersKept
  <2> QED BY <2>1, StepHolds
<1> QED BY <1>1, <1>2, PTL DEF Spec

(* In every behaviour types hold, the counts stay within their limits and  *)
(* the client hears at most one answer to a CONNECT, in whatever order     *)
(* refusal, 'error', 'close', timeouts and frames come (TypeOK): what is   *)
(* said of forward requests never rests on the numbers of reverse ones.    *)
THEOREM TypeCorrect == Spec => []TypeOK
<1>1. IInv({}) => TypeOK
  BY DEF IInv, Types, Counts, TypeOK
<1> QED BY <1>1, ForwardHold, PTL

(* The forward half of CountersAreExact and EntriesAreServed, likewise for *)
(* every behaviour: a place in the forward count is given back exactly     *)
(* once and not before the socket is destroyed, and an open socket is      *)
(* found under its reqid and has a timer to end it.                        *)
ForwardIsExact ==
  /\ forwardCount = Cardinality({r \in Requests : IsForward(r) /\ req[r].counted})
  /\ \A r \in Requests : IsForward(r) =>
       /\ req[r].phase = "open" => /\ req[r].counted
                                   /\ table[req[r].id] = r
                                   /\ req[r].connectTimer \/ req[r].idleTimer
       /\ req[r].counted => req[r].phase \in {"open", "closing"}

(* So it is whatever numbers the reverse requests get (ForwardIsExact).    *)
THEOREM ForwardAlwaysExact == Spec => []ForwardIsExact
<1>1. IInv({}) => ForwardIsExact
  <2> SUFFICES ASSUME IInv({}) PROVE ForwardIsExact
    OBVIOUS
  <2>1. forwardCount = Cardinality({r \in Requests : IsForward(r) /\ req[r].counted})
    BY DEF IInv, Counts, Forwards
  <2>2. \A r \in Requests : IsForward(r) => Good(req[r], InTable(r))
    BY Facts DEF Held
  <2> QED BY <2>1, <2>2 DEF ForwardIsExact, Good, InTable
<1> QED BY <1>1, ForwardHold, PTL

(* Request r is found under its own reqid as long as it is open, holds its *)
(* place in the count, and has a timer; and no longer is it in the table.  *)
Served(r) ==
  IsReverse(r) \/ IsForward(r) =>
    /\ req[r].phase = "open" => /\ table[req[r].id] = r /\ req[r].counted
                                /\ req[r].connectTimer \/ req[r].idleTimer
    /\ table[req[r].id] = r => req[r].phase = "open"

(* Request r is not made under the number of one that is not over, and     *)
(* while it is not over none is made under its own.                        *)
KeepsItsNumber(r) == [][Forward => NumbersKept({r})]_vars

(* What a wrap of the counter onto a number in use does, it does to the    *)
(* requests that share the number: any other is served, for every          *)
(* behaviour of the rest (Served).                                         *)
THEOREM RequestServed ==
  ASSUME NEW r \in Requests
  PROVE  Spec /\ KeepsItsNumber(r) => []Served(r)
<1>1. Init => IInv({r})
  BY InitHolds
<1>2. IInv({r}) /\ [Forward => NumbersKept({r})]_vars /\ [Next]_vars => IInv({r})'
  BY StepHolds
<1>3. IInv({r}) => Served(r)
  <2> SUFFICES ASSUME IInv({r}), IsReverse(r) \/ IsForward(r)
               PROVE  /\ req[r].phase = "open" => /\ table[req[r].id] = r /\ req[r].counted
                                                  /\ req[r].connectTimer \/ req[r].idleTimer
                      /\ table[req[r].id] = r => req[r].phase = "open"
    BY DEF Served
  <2>1. Held({r}, r)
    BY DEF Held
  <2> QED BY <2>1, Facts DEF Good, InTable
<1> QED BY <1>1, <1>2, <1>3, PTL DEF Spec, KeepsItsNumber

(* As long as no number in use is taken again, the whole of the invariant. *)
LEMMA AllHold == Spec /\ NoReqidTakenTwice => []IInv(Requests)
<1>1. Init => IInv(Requests)
  BY InitHolds
<1>2. IInv(Requests) /\ [Forward => NextReqidIsFree]_vars /\ [Next]_vars => IInv(Requests)'
  <2>1. IInv(Requests) /\ [Forward => NextReqidIsFree]_vars => [Forward => NumbersKept(Requests)]_vars
    <3> SUFFICES ASSUME IInv(Requests), NextReqidIsFree, NEW x \in Requests,
                        IsReverse(x), req[x].id = NextReqid
                 PROVE  Over(x)
      BY DEF NumbersKept
    <3>1. req[x].phase = "done" /\ Held(Requests, x)
      BY DEF NextReqidIsFree, Held
    <3> QED BY <3>1, Facts DEF Good, Over, Rests
  <2> QED BY <2>1, StepHolds
<1> QED BY <1>1, <1>2, PTL DEF Spec, NoReqidTakenTwice

LEMMA AllGood ==
  ASSUME IInv(Requests), NEW r \in Requests
  PROVE  Good(req[r], InTable(r)) \/ (req[r].kind = "none" /\ ~req[r].counted /\ req[r].phase # "open")
<1>1. Held(Requests, r) \/ req[r].kind = "none"
  BY DEF IInv, Types, Record, Held, IsForward, IsReverse
<1> QED BY <1>1, Facts DEF IInv, Keys

(* The reverse entries of the table, and the reverse requests that hold a  *)
(* place: reqid and request determine each other.                          *)
LEMMA EntriesAreCounted ==
  ASSUME IInv(Requests)
  PROVE  Cardinality({q \in Ids : table[q] # NoRequest /\ IsReverse(table[q])})
           = Cardinality(Reverses)
<1> DEFINE T == {q \in Ids : table[q] # NoRequest /\ IsReverse(table[q])}
           m == [r \in Reverses |-> req[r].id]
<1>2. \A r \in Requests : IsReverse(r) => Good(req[r], InTable(r)) /\ req[r].id \in Ids
  BY AllGood DEF IsReverse, IInv, Keys, Ids
<1>3. \A r \in Reverses : r \in Requests /\ IsReverse(r) /\ InTable(r) /\ req[r].id \in Ids
  BY <1>2 DEF Reverses, Good, IsReverse
<1>4. \A q \in T : table[q] \in Reverses /\ req[table[q]].id = q
  <2> SUFFICES ASSUME NEW q \in T PROVE table[q] \in Reverses /\ req[table[q]].id = q
    OBVIOUS
  <2>1. table[q] \in Requests /\ IsReverse(table[q]) /\ req[table[q]].id = q
    BY DEF IInv, Types, Keys
  <2>2. InTable(table[q])
    BY <2>1 DEF InTable
  <2> QED BY <1>2, <2>1, <2>2 DEF Reverses, Good
<1>5. \A r \in Reverses : r # NoRequest
  BY DEF Reverses, Requests, NoRequest
<1>6. m \in [Reverses -> T]
  BY <1>3, <1>5 DEF InTable
<1>7. \A r, x \in Reverses : m[r] = m[x] => r = x
  BY <1>3 DEF InTable
<1>8. \A q \in T : \E r \in Reverses : m[r] = q
  BY <1>4
<1> HIDE DEF m, T
<1>9. m \in Bijection(Reverses, T)
  BY <1>6, <1>7, <1>8, Fun_IsBij
<1>10. ExistsBijection(Reverses, T)
  BY <1>9 DEF ExistsBijection
<1>11. IsFiniteSet(Reverses)
  BY Finite DEF Reverses
<1> QED BY <1>10, <1>11, FS_Bijection DEF T

LEMMA CountersFollow == ASSUME IInv(Requests) PROVE CountersAreExact
<1>1. /\ forwardCount = Cardinality({r \in Requests : IsForward(r) /\ req[r].counted})
      /\ reverseCount = Cardinality({q \in Ids : table[q] # NoRequest /\ IsReverse(table[q])})
  BY EntriesAreCounted DEF IInv, Counts, Forwards
<1>2. ASSUME NEW r \in Requests
      PROVE  /\ IsForward(r) /\ req[r].phase = "open" => req[r].counted
             /\ req[r].counted => req[r].phase \in {"open", "closing"}
  BY AllGood DEF Good, IsForward
<1> QED BY <1>1, <1>2 DEF CountersAreExact

LEMMA EntriesFollow == ASSUME IInv(Requests) PROVE EntriesAreServed
<1>1. ASSUME NEW r \in Requests, req[r].phase = "open" PROVE table[req[r].id] = r
  BY <1>1, AllGood DEF Good, InTable
<1>2. ASSUME NEW q \in Ids, table[q] # NoRequest
      PROVE  req[table[q]].connectTimer \/ req[table[q]].idleTimer
  <2>1. table[q] \in Requests /\ InTable(table[q]) /\ req[table[q]].kind # "none"
    BY <1>2, EntryFacts
  <2> QED BY <2>1, AllGood DEF Good
<1> QED BY <1>1, <1>2 DEF EntriesAreServed

(* As long as the reqid counter does not come round to a number in use,    *)
(* each limit is a limit on what lives (CountersAreExact).                 *)
THEOREM CountersExact == Spec /\ NoReqidTakenTwice => []CountersAreExact
BY AllHold, CountersFollow, PTL

(* And every open request is found under its own reqid, and every entry of *)
(* the table has a timer (EntriesAreServed).                               *)
THEOREM EntriesServed == Spec /\ NoReqidTakenTwice => []EntriesAreServed
BY AllHold, EntriesFollow, PTL

(* A session that closes takes a request with it that holds its number.    *)
LEMMA SessionStep ==
  ASSUME NEW K, IInv(K), Next, NEW r \in Requests, Held(K, r) \/ req[r].kind = "none",
         req'[r].session \in gone' \ gone
  PROVE  req'[r].phase # "open"
<1>2. PICK E \in SUBSET open : gone' = gone \cup E /\ Disconnect(E)
  <2>1. ~(UNCHANGED gone)
    OBVIOUS
  <2>2. CASE ProxyEvents
    BY <2>1, <2>2 DEF ProxyEvents, Forward, StreamWrites, StreamFinishes, StreamDestroyed,
                 ProxyAccepts, ProxyRefuses, ProxySends, SocketFails, SocketCloses, sessionVars
  <2>3. CASE Frames
    BY <2>1, <2>3 DEF Frames, ForwardConnect, ConnectOk, Data, Close, ConnectFailed, sessionVars
  <2>4. CASE \E x \in Requests : Timeouts(x)
    BY <2>1, <2>4 DEF Timeouts, ReverseConnectTimeout, ReverseIdleTimeout,
                 ForwardConnectTimeout, ForwardIdleTimeout, sessionVars
  <2>5. CASE SessionEvents
    BY <2>1, <2>5 DEF SessionEvents, SessionCreated, SessionsClosed, StreamOpened, StreamLost,
                 Table!Create, Table!Close, Table!Attach, Table!Detach
  <2> QED BY <2>2, <2>3, <2>4, <2>5 DEF Next
<1> DEFINE d == [Removed(req[r]) EXCEPT !.phase =
                   IF IsForward(r) THEN SocketDestroyed(req[r]) ELSE "done"]
<1>3. req'[r] = IF r \in BoundTo(E) THEN d ELSE req[r]
  BY <1>2 DEF Disconnect
<1>4. req[r] \in Record /\ Removed(req[r]) \in Record
      /\ Removed(req[r]).session = req[r].session
  BY Facts, RemovedType
<1>5. d.session = req[r].session
      /\ d.phase = IF IsForward(r) THEN SocketDestroyed(req[r]) ELSE "done"
  BY <1>4 DEF Record
<1>6. d.phase # "open"
  BY <1>5 DEF SocketDestroyed
<1> HIDE DEF d
<1>7. req[r].session \in E /\ Held(K, r)
  <2>1. req[r].session \in E
    BY <1>2, <1>3, <1>5
  <2> QED BY <2>1, NoneAssumption DEF IInv, Keys, Types
<1>8. CASE r \in BoundTo(E)
  BY <1>3, <1>6, <1>8
<1>9. CASE r \notin BoundTo(E)
  <2>1. ~InTable(r)
    BY <1>7, <1>9 DEF BoundTo, InTable
  <2> QED BY <1>3, <1>7, <1>9, <2>1, Facts DEF Good
<1> QED BY <1>8, <1>9

(* And a session that closes takes its open requests of both directions    *)
(* with it (setConnected).                                                 *)
THEOREM SessionTakes == Spec /\ NoReqidTakenTwice => SessionTakesItsRequests
<1> DEFINE A == \A r \in Requests :
                  req'[r].session \in gone' \ gone => req'[r].phase # "open"
<1>1. IInv(Requests) /\ [Next]_vars => [A]_vars
  <2> SUFFICES ASSUME IInv(Requests), Next, NEW r \in Requests,
                      req'[r].session \in gone' \ gone
               PROVE  req'[r].phase # "open"
    OBVIOUS
  <2>1. Held(Requests, r) \/ req[r].kind = "none"
    BY DEF IInv, Types, Record, Held, IsForward, IsReverse
  <2> QED BY <2>1, SessionStep
<1> QED BY <1>1, AllHold, PTL DEF Spec, SessionTakesItsRequests

(* In the first round of the counter no number is in use: with at most     *)
(* MaxReverseId requests the three hold without a condition.               *)
THEOREM FirstRound ==
  MaxRequests <= MaxReverseId =>
    (Spec => []CountersAreExact /\ []EntriesAreServed /\ SessionTakesItsRequests)
<1> SUFFICES ASSUME MaxRequests <= MaxReverseId
             PROVE  Spec => []CountersAreExact /\ []EntriesAreServed /\ SessionTakesItsRequests
  OBVIOUS
<1>1. IInv({}) => [Forward => NextReqidIsFree]_vars
  <2> SUFFICES ASSUME IInv({}), Forward, NEW r \in Requests,
                      IsReverse(r), req[r].id = NextReqid
               PROVE  FALSE
    BY DEF NextReqidIsFree
  <2>1. issued < MaxRequests
    BY DEF Forward
  <2>2. issued \in Nat /\ counter \in Nat /\ MaxReverseId \in Nat /\ MaxRequests \in Nat
    BY IdsAssumption, LimitsAssumption DEF IInv, Types
  <2>3. counter <= issued /\ req[r].id <= counter
    BY <2>1, <2>2 DEF IInv, Numbers
  <2> QED BY <2>1, <2>2, <2>3 DEF NextReqid
<1>2. Spec => NoReqidTakenTwice
  BY <1>1, ForwardHold, PTL DEF Spec, NoReqidTakenTwice
<1> QED BY <1>2, CountersExact, EntriesServed, SessionTakes, PTL
===============================================================================
