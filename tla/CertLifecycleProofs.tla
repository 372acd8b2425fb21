-------------------------- MODULE CertLifecycleProofs --------------------------
(***************************************************************************)
(* Proofs about module CertLifecycle, for any number of callers,           *)
(* generations and restarts.                                               *)
(***************************************************************************)
EXTENDS CertLifecycle, FiniteSetTheorems, TLAPS

Call == [state : {"idle", "waiting", "served", "failed"}, gen : 0 .. MaxGens,
         epoch : 0 .. Prewarm, cert : Certs \cup {NoCert}]

(* TypeOK but for the number of generations that run side by side.         *)
Types ==
  /\ root \in 0 .. MaxRestarts /\ epoch \in 0 .. MaxRestarts
  /\ files \in Certs \cup {NoCert} /\ ctx \in Certs \cup {NoCert}
  /\ issued \in 0 .. MaxGens /\ running \subseteq 1 .. issued /\ pending \in {0} \cup running
  /\ caller \in [Callers -> Call]

(* A root CA is made by a restart, and nobody asks for an instance that is *)
(* still to come: what is current is so for the present instance alone.    *)
NothingAhead ==
  /\ root <= epoch
  /\ \A k \in Callers : caller[k].epoch <= epoch \/ caller[k].epoch = Prewarm

(* A restart disowns at most one generation, the one with the entry: while *)
(* there is no entry, no more of them run than there were restarts.        *)
RunningIsOwed ==
  /\ Cardinality(running) <= 1 + epoch
  /\ pending = 0 => Cardinality(running) <= epoch

IInv == Types /\ NothingAhead /\ RunningIsOwed /\ ServedIsCurrent

(* What ensureCert makes of its caller is a call.                          *)
LEMMA CallTypes ==
  ASSUME Types, NEW k \in Callers, NEW e \in 0 .. Prewarm
  PROVE  /\ \A c \in Certs \cup {NoCert} : Served(k, e, c) \in [Callers -> Call]
         /\ \A g \in 0 .. MaxGens : Waits(k, e, g) \in [Callers -> Call]
<1>1. 0 \in 0 .. MaxGens
  BY BoundsAssumption
<1> QED BY <1>1 DEF Types, Served, Waits, Call

LEMMA RunningIsFinite == Types => IsFiniteSet(running) /\ Cardinality(running) \in Nat
<1> SUFFICES ASSUME Types PROVE IsFiniteSet(running)
  BY FS_CardinalityType
<1>1. IsFiniteSet(1 .. issued)
  BY FS_Interval DEF Types
<1> QED BY <1>1, FS_Subset DEF Types

(* A generation that ends and takes the entry with it leaves no more than  *)
(* the restarts have disowned.                                             *)
LEMMA RunningShrinks ==
  ASSUME Types, RunningIsOwed, NEW g \in running, running' = running \ {g},
         epoch' = epoch
  PROVE  RunningIsOwed' /\ Cardinality(running') <= epoch
<1>1. /\ Cardinality(running) \in Nat
      /\ Cardinality(running') = Cardinality(running) - 1
  BY RunningIsFinite, FS_RemoveElement
<1> QED BY <1>1, BoundsAssumption DEF RunningIsOwed, Types

-------------------------------------------------------------------------------
(* ensureCert                                                              *)

\* What the caller k of ensureCert has then.
Answered(k, e) ==
  /\ \A j \in Callers \ {k} : caller'[j] = caller[j]
  /\ caller'[k].epoch = e
  /\ \/ caller'[k].state = "waiting" /\ caller'[k].cert = NoCert
     \/ caller'[k].state = "served" /\ caller'[k].cert \in Certs \cup {NoCert}
        /\ Valid(caller'[k].cert)

(* Whoever asks is given a certificate of the present root CA or waits for *)
(* a generation, and one is only started when there is no entry.           *)
LEMMA EnsureStep ==
  ASSUME Types, RunningIsOwed, NEW k \in Callers, NEW e \in 0 .. Prewarm, EnsureCert(k, e),
         root' = root, epoch' = epoch, ctx' \in Certs \cup {NoCert}
  PROVE  Types' /\ RunningIsOwed' /\ Answered(k, e)
<1>1. CASE pending # 0
  <2>1. /\ caller' = Waits(k, e, pending)
        /\ UNCHANGED <<files, pending, running, issued>>
    BY <1>1 DEF EnsureCert
  <2>2. pending \in 0 .. MaxGens
    BY BoundsAssumption DEF Types
  <2>3. Types' /\ RunningIsOwed'
    BY <2>1, <2>2, CallTypes DEF Types, RunningIsOwed
  <2> QED BY <2>1, <2>3 DEF Answered, Types, Waits
<1>2. CASE pending = 0 /\ Valid(files)
  <2>1. /\ caller' = Served(k, e, files)
        /\ UNCHANGED <<files, pending, running, issued>>
    BY <1>2 DEF EnsureCert
  <2>2. Types' /\ RunningIsOwed'
    BY <2>1, CallTypes DEF Types, RunningIsOwed
  <2>3. files \in Certs \cup {NoCert}
    BY DEF Types
  <2> QED BY <1>2, <2>1, <2>2, <2>3 DEF Answered, Types, Served
<1>3. CASE pending = 0 /\ ~Valid(files)
  <2>1. /\ issued < MaxGens
        /\ files' = NoCert
        /\ issued' = issued + 1 /\ running' = running \cup {issued + 1}
        /\ pending' = issued + 1
        /\ caller' = Waits(k, e, issued + 1)
    BY <1>3 DEF EnsureCert
  <2>2. issued + 1 \in 0 .. MaxGens /\ running' \subseteq 1 .. issued'
        /\ pending' \in running' /\ pending' # 0
    BY <2>1, BoundsAssumption DEF Types
  <2>3. Types'
    BY <2>1, <2>2, CallTypes DEF Types
  <2>4. RunningIsOwed'
    <3>1. Cardinality(running) \in Nat
          /\ Cardinality(running') \in {Cardinality(running), Cardinality(running) + 1}
      BY <2>1, RunningIsFinite, FS_AddElement
    <3>2. Cardinality(running) <= epoch
      BY <1>3 DEF RunningIsOwed
    <3> QED BY <2>2, <3>1, <3>2, BoundsAssumption DEF RunningIsOwed, Types
  <2> QED BY <2>1, <2>3, <2>4 DEF Answered, Types, Waits
<1> QED BY <1>1, <1>2, <1>3

(* An answer that is right today does not make one of another caller wrong. *)
LEMMA AnswerIsCurrent ==
  ASSUME IInv, NEW k \in Callers, NEW e \in {epoch, Prewarm}, Answered(k, e),
         root' = root, epoch' = epoch, ctx' # NoCert => Valid(ctx')
  PROVE  NothingAhead' /\ ServedIsCurrent'
<1>1. NothingAhead'
  <2>1. \A j \in Callers : caller'[j].epoch <= epoch \/ caller'[j].epoch = Prewarm
    BY BoundsAssumption DEF IInv, Types, Answered, NothingAhead
  <2> QED BY <2>1 DEF IInv, NothingAhead
<1>2. \A c : Valid(c) => Valid(c)'
  BY DEF Valid
<1>3. \A j \in Callers : caller'[j].state = "served" /\ caller'[j].epoch = epoch
                           => Valid(caller'[j].cert)
  BY DEF IInv, Answered, ServedIsCurrent
<1> QED BY <1>1, <1>2, <1>3 DEF ServedIsCurrent, Valid

-------------------------------------------------------------------------------
(* The end of a generation                                                 *)

(* Its callers are given what passed the check today, or nothing.          *)
LEMMA SettleStep ==
  ASSUME IInv, NEW g \in running, NEW outcome \in {"served", "failed"},
         NEW cert \in Certs \cup {NoCert}, Settle(g, outcome, cert),
         outcome = "served" => Valid(cert),
         root' = root, epoch' = epoch, issued' = issued,
         files' \in Certs \cup {NoCert}, ctx' \in Certs \cup {NoCert},
         ctx' # NoCert => Valid(ctx')
  PROVE  IInv'
<1>1. Types'
  <2>1. \A k \in Callers : [caller[k] EXCEPT !.state = outcome, !.gen = 0, !.cert = cert] \in Call
    <3> SUFFICES ASSUME NEW k \in Callers
                 PROVE  [caller[k] EXCEPT !.state = outcome, !.gen = 0, !.cert = cert] \in Call
      OBVIOUS
    <3>1. caller[k] \in Call /\ 0 \in 0 .. MaxGens
      BY BoundsAssumption DEF IInv, Types
    <3> QED BY <3>1 DEF Call
  <2>2. caller' \in [Callers -> Call]
    BY <2>1 DEF IInv, Types, Settle
  <2> QED BY <2>2, BoundsAssumption DEF IInv, Types, Settle
<1>2. \A k \in Callers :
        \/ caller'[k] = caller[k]
        \/ /\ caller'[k].state = outcome /\ caller'[k].cert = cert
           /\ caller'[k].epoch = caller[k].epoch
  BY DEF IInv, Types, Call, Settle
<1>3. NothingAhead'
  BY <1>2 DEF IInv, NothingAhead
<1>4. RunningIsOwed'
  BY RunningShrinks DEF IInv, Settle
<1>5. ServedIsCurrent'
  BY <1>2 DEF IInv, ServedIsCurrent, Valid
<1> QED BY <1>1, <1>3, <1>4, <1>5 DEF IInv

(* A refused certificate leaves callers that failed, and no entry.         *)
LEMMA InvalidateStep ==
  ASSUME IInv, NEW refused \in SUBSET Callers, NEW e \in 0 .. epoch, InvalidateCert(refused, e),
         root' = root, epoch' = epoch, issued' = issued, running' \subseteq running,
         Cardinality(running') <= epoch
  PROVE  IInv'
<1>1. Types'
  <2>1. e \in 0 .. Prewarm
    BY BoundsAssumption DEF IInv, Types, Prewarm
  <2>2. \A k \in Callers : [caller[k] EXCEPT !.state = "failed", !.gen = 0, !.epoch = e] \in Call
    <3> SUFFICES ASSUME NEW k \in Callers
                 PROVE  [caller[k] EXCEPT !.state = "failed", !.gen = 0, !.epoch = e] \in Call
      OBVIOUS
    <3>1. caller[k] \in Call /\ 0 \in 0 .. MaxGens
      BY BoundsAssumption DEF IInv, Types
    <3> QED BY <2>1, <3>1 DEF Call
  <2>3. caller' \in [Callers -> Call]
    BY <2>2 DEF IInv, Types, InvalidateCert
  <2> QED BY <2>3, BoundsAssumption DEF IInv, Types, InvalidateCert
<1>2. \A k \in Callers :
        caller'[k] = caller[k] \/ (caller'[k].state = "failed" /\ caller'[k].epoch = e)
  BY DEF IInv, Types, Call, InvalidateCert
<1>3. NothingAhead'
  BY <1>2, BoundsAssumption DEF IInv, Types, NothingAhead
<1>4. RunningIsOwed'
  <2>1. Cardinality(running') \in Nat
    BY RunningIsFinite, FS_Subset, FS_CardinalityType DEF IInv
  <2> QED BY <2>1, BoundsAssumption DEF RunningIsOwed, IInv, Types
<1>5. ServedIsCurrent'
  BY <1>2 DEF IInv, ServedIsCurrent, Valid, InvalidateCert
<1> QED BY <1>1, <1>3, <1>4, <1>5 DEF IInv

-------------------------------------------------------------------------------
(* The invariant                                                           *)

LEMMA InitHolds == Init => IInv
<1> SUFFICES ASSUME Init PROVE IInv
  OBVIOUS
<1>1. Types
  <2>1. 0 \in 0 .. MaxGens /\ 0 \in 0 .. MaxRestarts /\ 0 \in 0 .. Prewarm
    BY BoundsAssumption DEF Prewarm
  <2>2. Idle \in Call
    BY <2>1 DEF Idle, Call
  <2>3. files \in Certs \cup {NoCert}
    <3>1. \A b \in BOOLEAN : [gen |-> 0, root |-> 0, good |-> b] \in Certs
      BY <2>1 DEF Certs
    <3> QED BY <3>1 DEF Init
  <2> QED BY <2>1, <2>2, <2>3 DEF Init, Types
<1>2. NothingAhead /\ RunningIsOwed /\ ServedIsCurrent
  BY FS_EmptySet DEF Init, NothingAhead, RunningIsOwed, ServedIsCurrent, Idle
<1> QED BY <1>1, <1>2 DEF IInv

LEMMA HandshakeStep == ASSUME IInv, NEW k \in Callers, Handshake(k) PROVE IInv'
<1>1. root' = root /\ epoch' = epoch /\ epoch \in 0 .. Prewarm
  BY BoundsAssumption DEF Handshake, IInv, Types, Prewarm
<1>2. CASE /\ ctx # NoCert
           /\ caller' = Served(k, epoch, ctx)
           /\ UNCHANGED <<files, pending, running, issued, ctx>>
  <2>1. ctx \in Certs \cup {NoCert} /\ Valid(ctx)
    BY <1>2 DEF IInv, Types, ServedIsCurrent
  <2>2. Types' /\ RunningIsOwed'
    BY <1>1, <1>2, <2>1, CallTypes DEF IInv, Types, RunningIsOwed
  <2>3. Answered(k, epoch)
    BY <1>2, <2>1 DEF IInv, Types, Served, Answered
  <2>4. NothingAhead' /\ ServedIsCurrent'
    BY <1>1, <1>2, <2>1, <2>3, AnswerIsCurrent
  <2> QED BY <2>2, <2>4 DEF IInv
<1>3. CASE /\ ctx = NoCert
           /\ EnsureCert(k, epoch)
           /\ ctx' = CacheFor({k}, caller'[k].cert)
  <2>1. ctx' \in {ctx, caller'[k].cert}
    BY <1>3 DEF CacheFor
  <2>2. ctx' \in Certs \cup {NoCert}
    <3>1. caller'[k].cert \in Certs \cup {NoCert}
      <4>1. files \in Certs \cup {NoCert}
        BY DEF IInv, Types
      <4> QED BY <1>3, <4>1 DEF EnsureCert, Waits, Served, IInv, Types
    <3> QED BY <1>3, <2>1, <3>1
  <2>3. Types' /\ RunningIsOwed' /\ Answered(k, epoch)
    BY <1>1, <1>3, <2>2, EnsureStep DEF IInv
  <2>4. ctx' # NoCert => Valid(ctx')
    BY <1>3, <2>1, <2>3 DEF Answered
  <2> QED BY <1>1, <2>3, <2>4, AnswerIsCurrent DEF IInv
<1>4. CASE /\ ctx = NoCert /\ pending = 0 /\ Valid(files)
           /\ InvalidateCert({k}, epoch)
           /\ UNCHANGED <<running, issued>>
  <2>1. epoch \in 0 .. epoch /\ Cardinality(running') <= epoch
    BY <1>4, BoundsAssumption DEF IInv, Types, RunningIsOwed
  <2> QED BY <1>1, <1>4, <2>1, InvalidateStep
<1> QED BY <1>2, <1>3, <1>4 DEF Handshake

LEMMA PrewarmStep == ASSUME IInv, NEW k \in Callers, PrewarmCert(k) PROVE IInv'
<1>1. Prewarm \in 0 .. Prewarm
  BY BoundsAssumption DEF Prewarm
<1>2. Types' /\ RunningIsOwed' /\ Answered(k, Prewarm)
  BY <1>1, EnsureStep DEF IInv, Types, PrewarmCert
<1>3. NothingAhead' /\ ServedIsCurrent'
  BY <1>2, AnswerIsCurrent DEF IInv, ServedIsCurrent, PrewarmCert
<1> QED BY <1>2, <1>3 DEF IInv

LEMMA GeneratedStep == ASSUME IInv, NEW g \in Gens, Generated(g) PROVE IInv'
<1>1. PICK cert \in Found(g) :
        IF Accepts(cert)
        THEN /\ files' = cert
             /\ Settle(g, "served", cert)
             /\ ctx' = CacheFor(Askers(g), cert)
        ELSE /\ files' = NoCert
             /\ Settle(g, "failed", NoCert)
             /\ UNCHANGED ctx
  BY DEF Generated
<1>2. g \in running /\ root' = root /\ epoch' = epoch /\ issued' = issued
  BY DEF Generated
<1>3. cert \in Certs
  BY BoundsAssumption DEF Found, Certs, Gens, IInv, Types
<1>4. ctx \in Certs \cup {NoCert} /\ (ctx # NoCert => Valid(ctx))
  BY DEF IInv, Types, ServedIsCurrent
<1>5. CASE Accepts(cert)
  <2>1. ctx' \in {ctx, cert} /\ Valid(cert)
    BY <1>1, <1>5 DEF CacheFor, Accepts
  <2>2. ctx' \in Certs \cup {NoCert} /\ (ctx' # NoCert => Valid(ctx'))
    BY <1>3, <1>4, <2>1
  <2> QED BY <1>1, <1>2, <1>3, <1>5, <2>1, <2>2, SettleStep
<1>6. CASE ~Accepts(cert)
  BY <1>1, <1>2, <1>4, <1>6, SettleStep
<1> QED BY <1>5, <1>6

LEMMA InVainStep == ASSUME IInv, NEW g \in Gens, GeneratedInVain(g) PROVE IInv'
<1>1. PICK e \in 0 .. MaxRestarts :
        /\ Askers(g) # {} /\ \A k \in Askers(g) : caller[k].epoch = e
        /\ InvalidateCert(Askers(g), e)
  BY DEF GeneratedInVain
<1>2. /\ g \in running /\ running' = running \ {g}
      /\ root' = root /\ epoch' = epoch /\ issued' = issued
  BY DEF GeneratedInVain
<1>3. Askers(g) \in SUBSET Callers
  BY DEF Askers
<1>4. e \in 0 .. epoch
  BY <1>1, <1>3, BoundsAssumption DEF IInv, Types, NothingAhead, Prewarm
<1>5. Cardinality(running') <= epoch
  BY <1>2, RunningShrinks DEF IInv
<1> QED BY <1>1, <1>2, <1>3, <1>4, <1>5, InvalidateStep

LEMMA RestartStep == ASSUME IInv, Restart PROVE IInv'
<1>1. /\ epoch < MaxRestarts /\ epoch' = epoch + 1
      /\ pending' = 0 /\ ctx' = NoCert
      /\ running' = running /\ issued' = issued /\ caller' = caller
      /\ root' \in {root, root + 1} /\ files' \in {files, NoCert}
  BY DEF Restart, Contexts
<1>2. Types' /\ NothingAhead'
  <2>1. root' <= epoch' /\ root' \in 0 .. MaxRestarts /\ epoch' \in 0 .. MaxRestarts
    BY <1>1, BoundsAssumption DEF IInv, Types, NothingAhead
  <2>2. \A k \in Callers : caller[k].epoch \in 0 .. Prewarm
    BY DEF IInv, Types, Call
  <2>3. NothingAhead'
    BY <1>1, <2>1, <2>2, BoundsAssumption DEF IInv, Types, NothingAhead, Prewarm
  <2> QED BY <1>1, <2>1, <2>3 DEF IInv, Types
<1>3. RunningIsOwed'
  BY <1>1, RunningIsFinite, BoundsAssumption DEF IInv, Types, RunningIsOwed
<1>4. \A k \in Callers : caller'[k].epoch # epoch'
  BY <1>1, BoundsAssumption DEF IInv, Types, NothingAhead, Prewarm
<1> QED BY <1>1, <1>2, <1>3, <1>4 DEF IInv, ServedIsCurrent

LEMMA IInvStep == IInv /\ [Next]_vars => IInv'
<1> SUFFICES ASSUME IInv, [Next]_vars PROVE IInv'
  OBVIOUS
<1>1. ASSUME NEW g \in Gens, GenerationFails(g) PROVE IInv'
  <2>1. /\ g \in running /\ Settle(g, "failed", NoCert)
        /\ UNCHANGED <<root, files, issued, epoch, ctx>>
    BY <1>1 DEF GenerationFails
  <2>2. /\ files' \in Certs \cup {NoCert} /\ ctx' \in Certs \cup {NoCert}
        /\ ctx' # NoCert => Valid(ctx')
    BY <2>1 DEF IInv, Types, ServedIsCurrent
  <2> QED BY <2>1, <2>2, SettleStep
<1>2. CASE HealthCheck
  BY <1>2 DEF HealthCheck, IInv, Types, NothingAhead, RunningIsOwed, ServedIsCurrent, Valid
<1>3. CASE UNCHANGED vars
  BY <1>3 DEF vars, IInv, Types, NothingAhead, RunningIsOwed, ServedIsCurrent, Valid
<1> QED BY <1>1, <1>2, <1>3, HandshakeStep, PrewarmStep, GeneratedStep, InVainStep, RestartStep
        DEF Next

LEMMA Invariance == Spec => []IInv
BY InitHolds, IInvStep, PTL DEF Spec

(* Every variable keeps its type: the pending entry is a generation that   *)
(* runs, and never more generations run side by side than there were       *)
(* restarts and one.                                                       *)
THEOREM TypeCorrect == Spec => []TypeOK
<1>1. IInv => TypeOK
  BY DEF IInv, Types, RunningIsOwed, TypeOK, Call
<1> QED BY <1>1, Invariance, PTL

(* No handshake of the present instance is given, and no context kept of,  *)
(* a certificate that another root CA signed, whenever generations end.    *)
THEOREM OnlyCurrentIsServed == Spec => []ServedIsCurrent
<1>1. IInv => ServedIsCurrent
  BY DEF IInv
<1> QED BY <1>1, Invariance, PTL
================================================================================
