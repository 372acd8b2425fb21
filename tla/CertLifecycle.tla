----------------------------- MODULE CertLifecycle -----------------------------
(***************************************************************************)
(* The certificate of one intercepted host                                 *)
(* (src/proxy/proxy-core/cert-lifecycle.js, and SNIPrepareCert of          *)
(* https-server-mgr.js).                                                   *)
(*                                                                         *)
(* Key and certificate lie in two files, written by node-easy-cert; a      *)
(* certificate is known here by its generation and the root CA that signed *)
(* it.  Callers share the generation in pendingCerts.  The entry is removed *)
(* by host name when a generation settles, and by invalidateCert and init  *)
(* while one may still run.  The TLS context made of a certificate is kept *)
(* by the HTTPS server of one proxy instance; a restart makes a new one    *)
(* and may bring a new root CA.                                            *)
(***************************************************************************)
EXTENDS Naturals, FiniteSets

CONSTANTS
  Callers,       \* TLS handshakes and prewarm workers
  NoCert,
  MaxGens,       \* bounds of the model: generations
  MaxRestarts    \* and restarts in a behaviour

ASSUME BoundsAssumption == MaxGens \in Nat /\ MaxRestarts \in Nat

VARIABLES
  root,       \* the root CA in certDir
  files,      \* the certificate on disk
  pending,    \* pendingCerts entry of the host: a generation, or 0
  running,    \* generations node-easy-cert works on
  issued,     \* generations started
  epoch,      \* the proxy instance
  ctx,        \* secureContextCache entry of that instance
  caller      \* the callers

vars == <<root, files, pending, running, issued, epoch, ctx, caller>>

Gens == 1 .. MaxGens
Certs == [gen : 0 .. MaxGens, root : 0 .. MaxRestarts, good : BOOLEAN]

\* "gen" is awaited; "epoch" is the instance of a handshake, MaxRestarts + 1
\* for a prewarm worker, which keeps no context.
Idle == [state |-> "idle", gen |-> 0, epoch |-> 0, cert |-> NoCert]
Prewarm == MaxRestarts + 1

\* validateCache: signed by the root CA of today, and fit for the host.
Valid(cert) == cert # NoCert /\ cert.root = root /\ cert.good

Init ==
  /\ root = 0 /\ epoch = 0
  /\ files \in {NoCert, [gen |-> 0, root |-> 0, good |-> TRUE],
                        [gen |-> 0, root |-> 0, good |-> FALSE]}
  /\ pending = 0 /\ running = {} /\ issued = 0
  /\ ctx = NoCert
  /\ caller = [k \in Callers |-> Idle]

------------------------------------------------------------------------------

Served(k, e, cert) == [caller EXCEPT ![k] = [state |-> "served", gen |-> 0, epoch |-> e, cert |-> cert]]
Waits(k, e, g) == [caller EXCEPT ![k] = [state |-> "waiting", gen |-> g, epoch |-> e, cert |-> NoCert]]

\* The context made of a certificate is cached by the server that asked.
CacheFor(askers, cert) == IF \E k \in askers : caller'[k].epoch = epoch THEN cert ELSE ctx

\* ensureCert
EnsureCert(k, e) ==
  IF pending # 0
  THEN caller' = Waits(k, e, pending) /\ UNCHANGED <<files, pending, running, issued>>
  ELSE IF Valid(files)
  THEN caller' = Served(k, e, files) /\ UNCHANGED <<files, pending, running, issued>>
  ELSE /\ issued < MaxGens
       /\ files' = NoCert
       /\ issued' = issued + 1 /\ running' = running \cup {issued + 1}
       /\ pending' = issued + 1
       /\ caller' = Waits(k, e, issued + 1)

\* invalidateCert, when createSecureContext refuses what it was given: the
\* handshakes fail; files, pending entry and the server's context go.
InvalidateCert(refused, e) ==
  /\ files' = NoCert /\ pending' = 0
  /\ ctx' = IF e = epoch THEN NoCert ELSE ctx
  /\ caller' = [k \in Callers |-> IF k \in refused
                 THEN [caller[k] EXCEPT !.state = "failed", !.gen = 0, !.epoch = e] ELSE caller[k]]

\* SNIPrepareCert: the cached context, or one made of what ensureCert gives.
Handshake(k) ==
  /\ caller[k].state = "idle"
  /\ \/ /\ ctx # NoCert
        /\ caller' = Served(k, epoch, ctx)
        /\ UNCHANGED <<files, pending, running, issued, ctx>>
     \/ /\ ctx = NoCert
        /\ EnsureCert(k, epoch)
        /\ ctx' = CacheFor({k}, caller'[k].cert)
     \/ /\ ctx = NoCert /\ pending = 0 /\ Valid(files)
        /\ InvalidateCert({k}, epoch)
        /\ UNCHANGED <<running, issued>>
  /\ UNCHANGED <<root, epoch>>

\* A worker of prewarmCerts.
PrewarmCert(k) ==
  /\ caller[k].state = "idle"
  /\ EnsureCert(k, Prewarm)
  /\ UNCHANGED <<root, epoch, ctx>>

Askers(g) == {k \in Callers : caller[k].state = "waiting" /\ caller[k].gen = g}

\* Faulty variant: the entry of a failed generation stays.
SettleKeepsEntry(g, outcome, cert) ==
  /\ running' = running \ {g}
  /\ pending' = IF outcome = "failed" THEN pending ELSE 0
  /\ caller' = [k \in Callers |-> IF k \in Askers(g)
                 THEN [caller[k] EXCEPT !.state = outcome, !.gen = 0, !.cert = cert] ELSE caller[k]]

\* Faulty variant: a failure is not passed on to the callers.
SettleSilently(g, outcome, cert) ==
  /\ running' = running \ {g}
  /\ pending' = 0
  /\ caller' = [k \in Callers |-> IF k \in Askers(g) /\ outcome = "served"
                 THEN [caller[k] EXCEPT !.state = outcome, !.gen = 0, !.cert = cert] ELSE caller[k]]

\* The promise settles: every caller gets the outcome, and finally() deletes
\* the entry of the host, whichever generation it belongs to.
Settle(g, outcome, cert) ==
  /\ running' = running \ {g}
  /\ pending' = 0
  /\ caller' = [k \in Callers |-> IF k \in Askers(g)
                 THEN [caller[k] EXCEPT !.state = outcome, !.gen = 0, !.cert = cert] ELSE caller[k]]

\* Faulty variant: what was generated is not validated.
AcceptsAll(cert) == cert # NoCert

\* The check after the generation.
Accepts(cert) == Valid(cert)

\* node-easy-cert has written the files, with the root CA it read at its
\* start or the one of today; or has found those of another generation.
Found(g) ==
  {[gen |-> g, root |-> r, good |-> b] : r \in {0, root}, b \in BOOLEAN} \cup ({files} \ {NoCert})

Generated(g) ==
  /\ g \in running
  /\ \E cert \in Found(g) :
       IF Accepts(cert)
       THEN /\ files' = cert
            /\ Settle(g, "served", cert)
            /\ ctx' = CacheFor(Askers(g), cert)
       ELSE /\ files' = NoCert
            /\ Settle(g, "failed", NoCert)
            /\ UNCHANGED ctx
  /\ UNCHANGED <<root, issued, epoch>>

\* The generation passes the validation, and the handshakes that waited for
\* it cannot use it.  (Prewarm workers, which can, do not wait here.)
GeneratedInVain(g) ==
  /\ g \in running
  /\ \E e \in 0 .. MaxRestarts :
       /\ Askers(g) # {} /\ \A k \in Askers(g) : caller[k].epoch = e
       /\ InvalidateCert(Askers(g), e)
  /\ running' = running \ {g}
  /\ UNCHANGED <<root, issued, epoch>>

\* node-easy-cert reports an error.
GenerationFails(g) ==
  /\ g \in running
  /\ Settle(g, "failed", NoCert)
  /\ UNCHANGED <<root, files, issued, epoch, ctx>>

\* Faulty variant: the context cache outlives the instance.
NewContexts(kept) == kept

\* A new instance starts with an empty cache.
Contexts(kept) == NoCert

\* Restart: ensureRootCA, which empties certDir for a new root CA, then init,
\* which clears pendingCerts; running generations go on.
Restart ==
  /\ epoch < MaxRestarts
  /\ epoch' = epoch + 1
  /\ \/ root' = root /\ UNCHANGED files
     \/ root' = root + 1 /\ files' = NoCert
  /\ pending' = 0
  /\ ctx' = Contexts(ctx)
  /\ UNCHANGED <<running, issued, caller>>

\* healthCheck deletes what is not valid.
HealthCheck ==
  /\ files # NoCert /\ ~Valid(files)
  /\ files' = NoCert
  /\ UNCHANGED <<root, pending, running, issued, epoch, ctx, caller>>

Next ==
  \/ \E k \in Callers : Handshake(k) \/ PrewarmCert(k)
  \/ \E g \in Gens : Generated(g) \/ GeneratedInVain(g) \/ GenerationFails(g)
  \/ Restart \/ HealthCheck

\* node-easy-cert calls back.
Spec == Init /\ [][Next]_vars /\ \A g \in Gens : 
          WF_vars(Generated(g) \/ GeneratedInVain(g) \/ GenerationFails(g))

------------------------------------------------------------------------------
(* Properties *)

(* Types; the pending entry is a generation that runs: a stale one would   *)
(* keep the host without a certificate for good; and generations of one    *)
(* host run side by side only after a restart, one more for each, though a *)
(* generation that ends, or a refused certificate, may remove the entry of *)
(* another one.                                                            *)
TypeOK ==
  /\ root \in 0 .. MaxRestarts /\ epoch \in 0 .. MaxRestarts
  /\ files \in Certs \cup {NoCert} /\ ctx \in Certs \cup {NoCert}
  /\ issued \in 0 .. MaxGens /\ running \subseteq 1 .. issued /\ pending \in {0} \cup running
  /\ Cardinality(running) <= 1 + epoch
  /\ caller \in [Callers -> [state : {"idle", "waiting", "served", "failed"},
                            gen : 0 .. MaxGens, epoch : 0 .. Prewarm,
                            cert : Certs \cup {NoCert}]]

(* What a handshake of the present instance is given, and what it keeps    *)
(* for the next ones, is signed by the root CA of today.                   *)
ServedIsCurrent ==
  /\ ctx # NoCert => Valid(ctx)
  /\ \A k \in Callers : caller[k].state = "served" /\ caller[k].epoch = epoch => Valid(caller[k].cert)

(* Whoever waits for a certificate is answered, even when the generation   *)
(* was disowned while it ran.                                              *)
EveryCallerAnswered == \A k \in Callers :
  caller[k].state = "waiting" ~> caller[k].state \in {"served", "failed"}
==============================================================================
