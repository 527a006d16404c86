---------------------------- MODULE ModelServing ----------------------------
(***************************************************************************)
(* How one tenant's ExternalModels and ExternalProviders reach the         *)
(* dataplane and leave it again: the model and the provider reconciler     *)
(* (pkg/controller/reconciler.go, withdrawal.go), one worker each, the     *)
(* runtime part of the tenant reconciler (pkg/tenant/reconciler.go), the   *)
(* ExtProc pods and the requests they route (external).                    *)
(*                                                                         *)
(* A candidate is a model served through a provider.  It is served by an   *)
(* HTTPRoute rule, an entry of the published overlay, the provider's       *)
(* transport and the ExtProc runtime configuration; each is written by     *)
(* calls of their own, and withdrawing a candidate is staged: a reduced    *)
(* overlay first, the rule only after every pod serves that overlay and a  *)
(* drain interval longer than any request has elapsed.                     *)
(*                                                                         *)
(* One home namespace: Gateway attachments and providers of other          *)
(* namespaces are left out, and the caches are current.                    *)
(***************************************************************************)
EXTENDS Naturals

CONSTANTS
    Models, Providers,
    Cand,            \* pairs <<model, provider>> a spec may reference
    Weighted,        \* candidates whose reference has weight at the start
    Traffic,         \* candidates clients send requests to
    Pods,            \* ExtProc replicas
    None,            \* no overlay ConfigMap, no runtime Deployment, no drain
    RequestTimeout,  \* longest life of a request, in ticks (300 s)
    DrainDuration,   \* withdrawalDrainDuration, in ticks (310 s)
    Kinds,           \* which disturbances happen
    MaxDisturb       \* how many of them

ASSUME CandAssumption == Cand \subseteq Models \X Providers /\ Traffic \subseteq Cand
ASSUME WeightedAssumption == Weighted \subseteq Cand /\ Weighted # {}
ASSUME NoneAssumption ==
    /\ \A S \in SUBSET Cand : S # None
    /\ None \notin [rev: SUBSET Cand, left: 0..DrainDuration]
ASSUME DrainAssumption ==
    /\ RequestTimeout \in Nat \ {0} /\ DrainDuration \in Nat
    /\ DrainDuration > RequestTimeout
    /\ MaxDisturb \in Nat

VARIABLES
    tenant,     \* what liveTenantResolution finds
    model,      \* ExternalModels: phase and cleanup finalizer
    ref,        \* providerRefs: absent, weight zero, positive weight
    prov,       \* ExternalProviders: phase, finalizer, validity, current Ready
    transport,  \* providers whose Service, ServiceEntry, DestinationRule exist
    routes,     \* candidates with a rule in their model's HTTPRoute
    overlay,    \* candidates of the published overlay ConfigMap
    drain,      \* withdrawalDrainAnnotation: overlay revision and time left
    runtime,    \* candidates of the ExtProc Deployment's configuration
    pods,       \* what each ExtProc pod serves, runs with and has logged
    infl,       \* how long the youngest request of a candidate may still live
    mw, pw,     \* the model worker and the provider worker
    disturb     \* disturbances so far

specVars == <<tenant, model, ref, prov>>
dataVars == <<runtime, pods, infl>>
vars == <<tenant, model, ref, prov, transport, routes, overlay, drain, runtime,
          pods, infl, mw, pw, disturb>>

Phase == {"live", "deleting", "gone"}
\* pending: Praxis selected, not steady or not resolvable; legacy: the handoff
\* has not started; ipp: IPP explicitly selected.
TenantState == {"steady", "pending", "legacy", "ipp"}
MPc == {"idle", "resolve", "apply", "publish", "finish", "prune",
        "cutRoutes", "cutOverlay", "exclude", "reduce", "release"}
PPc == {"idle", "recheck", "write", "ready", "failClean", "failed", "clean", "release"}

ModelObject == [phase: Phase, fin: BOOLEAN]
ProviderObject == [phase: Phase, fin: BOOLEAN, valid: BOOLEAN, ready: BOOLEAN]
Pod == [serves: SUBSET Cand, cfg: {None} \cup SUBSET Cand, logged: BOOLEAN]
ModelWork == [pc: MPc, cur: Models \cup {None}, del: BOOLEAN, rel: BOOLEAN,
              want: SUBSET Cand, union: SUBSET Cand, todo: SUBSET Models]
ProviderWork == [pc: PPc, cur: Providers \cup {None}, del: BOOLEAN]

Of(m, S) == {c \in S : c[1] = m}
Via(p, S) == {c \in S : c[2] = p}
Published == IF overlay = None THEN {} ELSE overlay

Live == {m \in Models : model[m].phase = "live"}
ReadyProviders == {p \in Providers : prov[p].phase = "live" /\ prov[p].ready}

\* Fault: a terminating model still counts.
ResolvedWithDeleting ==
    {c \in Cand : model[c[1]].phase # "gone" /\ ref[c] = "on" /\ c[2] \in ReadyProviders}

\* resolver.Resolve over homeModelInputs and providerInputs.
Resolved == {c \in Cand : c[1] \in Live /\ ref[c] = "on" /\ c[2] \in ReadyProviders}

\* resolver.ResolveAll and RetainHomeRuntimeCandidates: what the runtime must
\* hold, weight-zero references and the profiles of applied rules included.
AllReady == {c \in Cand : c[1] \in Live /\ ref[c] # "none" /\ c[2] \in ReadyProviders}
RuntimeSet == AllReady \cup routes

\* explicitlyWeightDisabledModels
WeightDisabled ==
    {m \in Live : /\ \E c \in Of(m, Cand) : ref[c] # "none"
                  /\ \A c \in Of(m, Cand) : ref[c] # "on"}

\* providerTransportStillInUse: the live overlay and the applied routes.
InUse(p) == Via(p, routes \cup Published) # {}

IdleModelWorker ==
    [pc |-> "idle", cur |-> None, del |-> FALSE, rel |-> FALSE,
     want |-> {}, union |-> {}, todo |-> {}]
IdleProviderWorker == [pc |-> "idle", cur |-> None, del |-> FALSE]

-----------------------------------------------------------------------------
(***************************************************************************)
(* The model worker: Reconcile of one ExternalModel, one API write a step. *)
(***************************************************************************)
ModelGoes(next) == mw' = [mw EXCEPT !.pc = next]
ModelEnds == mw' = IdleModelWorker

\* The pass works on the copy of the model read now: del, whether it is being
\* deleted; rel, whether the pass ends by removing its finalizer.
Begin(m, next, rel) ==
    mw' = [IdleModelWorker EXCEPT !.pc = next, !.cur = m, !.rel = rel,
                                  !.del = (model[m].phase = "deleting")]

\* Fault: models being deleted wait for the tenant to be steady again.
StartModelLiveOnly(m) ==
    /\ mw.pc = "idle" /\ model[m].phase # "gone"
    /\ \/ /\ tenant = "ipp" /\ model[m].phase = "live"
          /\ model[m].fin \/ routes # {} \/ overlay # None
          /\ Begin(m, "cutRoutes", TRUE)
          /\ UNCHANGED model
       \/ /\ tenant \in {"pending", "legacy"}
          /\ model[m].phase = "deleting" /\ Live = {}
          /\ Begin(m, "cutRoutes", TRUE)
          /\ UNCHANGED model
       \/ /\ tenant = "steady"
          /\ model' = [model EXCEPT ![m].fin = TRUE]
          /\ Begin(m, "resolve", model[m].phase = "deleting")
    /\ UNCHANGED <<tenant, ref, prov, transport, routes, overlay, drain,
                   dataVars, pw, disturb>>

\* Reconcile, prepareModelTenant, reconcileDeletingModel: what the live tenant
\* says decides between the serving path and immediate cleanup.
StartModel(m) ==
    /\ mw.pc = "idle" /\ model[m].phase # "gone"
    /\ \/ /\ tenant = "ipp"                          \* cleanupUnselectedModel
          /\ model[m].fin \/ routes # {} \/ overlay # None
          /\ Begin(m, "cutRoutes", TRUE)
          /\ UNCHANGED model
       \/ /\ tenant \in {"pending", "legacy"}        \* ...DeletedModelWithoutOwner
          /\ model[m].phase = "deleting" /\ Live = {}
          /\ Begin(m, "cutRoutes", TRUE)
          /\ UNCHANGED model
       \/ /\ tenant = "steady"
          /\ model' = [model EXCEPT ![m].fin = TRUE]   \* handleModelLifecycle
          /\ Begin(m, "resolve", model[m].phase = "deleting")
    /\ UNCHANGED <<tenant, ref, prov, transport, routes, overlay, drain,
                   dataVars, pw, disturb>>

\* transportRoutesForPublication: what to serve, what is applied, and what is
\* published through a provider that still exists.
TransportRoutes(want) ==
    want \cup routes \cup {c \in Published : prov[c[2]].phase # "gone"}

\* reconcileHomeModel and republishHomeWithout up to the first write.
Resolve ==
    LET union == TransportRoutes(Resolved)
    IN
    /\ mw.pc = "resolve"
    /\ \/ tenant # "steady" /\ ModelEnds             \* livePraxisBeforeWrite
       \/ /\ tenant = "steady" /\ Resolved # {}
          /\ mw' = [mw EXCEPT !.pc = "apply", !.want = Resolved, !.union = union,
                              !.todo = {c[1] : c \in union \cup routes}]
       \/ /\ tenant = "steady" /\ Resolved = {}
          /\ \/ mw.del /\ Live = {} /\ ModelGoes("cutRoutes")
             \/ ~mw.del /\ Live # {} /\ WeightDisabled = Live /\ ModelGoes("cutRoutes")
             \/ /\ ~mw.del /\ WeightDisabled \notin {{}, Live}
                /\ mw' = [mw EXCEPT !.pc = "exclude",
                                    !.want = {c \in Published : c[1] \notin WeightDisabled},
                                    !.todo = {c[1] : c \in routes} \ (Live \ WeightDisabled)]
             \/ mw.del /\ Live # {} /\ ModelEnds      \* last known good is kept
             \/ ~mw.del /\ WeightDisabled = {} /\ ModelEnds
    /\ UNCHANGED <<specVars, transport, routes, overlay, drain, dataVars, pw, disturb>>

\* Fault: the pruning pass writes the staged target again.
ApplyRouteStaged ==
    /\ mw.pc \in {"apply", "prune"}
    /\ \E m \in mw.todo :
         /\ routes' = (routes \ Of(m, routes)) \cup Of(m, mw.union)
         /\ mw' = [mw EXCEPT !.todo = @ \ {m}]
    /\ UNCHANGED <<specVars, transport, overlay, drain, dataVars, pw, disturb>>

\* applyTransport writes one HTTPRoute per model of the target;
\* cleanupModelTransport then deletes those of the other models.
ApplyRoute ==
    LET target == IF mw.pc = "apply" THEN mw.union ELSE mw.want
    IN
    /\ mw.pc \in {"apply", "prune"} /\ mw.todo # {}
    /\ \E m \in mw.todo :
         /\ Of(m, target) = {} => \A k \in mw.todo : Of(k, target) = {}
         /\ routes' = (routes \ Of(m, routes)) \cup Of(m, target)
         /\ mw' = [mw EXCEPT !.todo = @ \ {m}]
    /\ UNCHANGED <<specVars, transport, overlay, drain, dataVars, pw, disturb>>

\* Fault: the overlay does not wait for the HTTPRoutes.
RoutesNotAwaited ==
    /\ mw.pc = "apply"
    /\ ModelGoes("publish")
    /\ UNCHANGED <<specVars, transport, routes, overlay, drain, dataVars, pw, disturb>>

RoutesApplied ==
    /\ mw.pc = "apply" /\ mw.todo = {}
    /\ ModelGoes("publish")
    /\ UNCHANGED <<specVars, transport, routes, overlay, drain, dataVars, pw, disturb>>

\* publishTenantOverlay: the drain annotation is not the publisher's to touch.
Publish ==
    /\ mw.pc = "publish"
    /\ overlay' = mw.want
    /\ ModelGoes("finish")
    /\ UNCHANGED <<specVars, transport, routes, drain, dataVars, pw, disturb>>

\* The worker has nothing left to stage: a deleting model is released.
Done == IF mw.rel THEN ModelGoes("release") ELSE ModelEnds

\* Fault: one replica that serves the overlay is enough.
RolloutSafeOnOnePod == \E i \in Pods : pods[i].logged /\ pods[i].serves = overlay

\* externalModelRolloutSafe: Deployment and pods run the expected configuration
\* and every pod's last revision in its log is the published overlay's.
DeploymentSafe == runtime = RuntimeSet /\ \A i \in Pods : pods[i].cfg = runtime
Unknown == DeploymentSafe /\ \E i \in Pods : ~pods[i].logged
RolloutSafe == DeploymentSafe /\ \A i \in Pods : pods[i].logged /\ pods[i].serves = overlay
RolloutUnsafe ==
    ~DeploymentSafe \/ \E i \in Pods : pods[i].logged /\ pods[i].serves # overlay

\* The persisted drain state is for this revision of the overlay.
Draining(rev) == drain # None /\ drain.rev = rev

\* finishProviderWithdrawal and withdrawalDrainRemaining.
FinishWithdrawal ==
    /\ mw.pc = "finish"
    /\ \/ mw.union = mw.want /\ drain' = None /\ Done
       \/ mw.union # mw.want /\ Unknown /\ ModelEnds /\ UNCHANGED drain
       \/ mw.union # mw.want /\ RolloutUnsafe /\ drain' = None /\ ModelEnds
       \/ /\ mw.union # mw.want /\ RolloutSafe
          /\ \/ /\ ~Draining(mw.want)
                /\ drain' = [rev |-> mw.want, left |-> DrainDuration]
                /\ ModelEnds
             \/ /\ Draining(mw.want)
                /\ IF drain.left > 0
                   THEN ModelEnds
                   ELSE mw' = [mw EXCEPT !.pc = "prune", !.todo = {c[1] : c \in routes}]
                /\ UNCHANGED drain
    /\ UNCHANGED <<specVars, transport, routes, overlay, dataVars, pw, disturb>>

\* The rules are pruned: clearWithdrawalDrainState.
RoutesPruned ==
    /\ mw.pc = "prune" /\ mw.todo = {}
    /\ drain' = None /\ Done
    /\ UNCHANGED <<specVars, transport, routes, overlay, dataVars, pw, disturb>>

\* cleanupHomeModelServingState: every rule, an HTTPRoute at a time, then the
\* overlay, without a drain.
CutRoutes ==
    /\ mw.pc = "cutRoutes"
    /\ \/ /\ \E m \in Models : Of(m, routes) # {} /\ routes' = routes \ Of(m, routes)
          /\ UNCHANGED mw
       \/ routes = {} /\ ModelGoes("cutOverlay") /\ UNCHANGED routes
    /\ UNCHANGED <<specVars, transport, overlay, drain, dataVars, pw, disturb>>

\* cleanupOverlay
CutOverlay ==
    /\ mw.pc = "cutOverlay"
    /\ overlay' = None /\ drain' = None
    /\ Done
    /\ UNCHANGED <<specVars, transport, routes, dataVars, pw, disturb>>

\* cleanupExcludedHomeModels: only the rules of live models that are not
\* disabled by weight survive, ...
ExcludeRoutes ==
    /\ mw.pc = "exclude"
    /\ \/ \E m \in mw.todo : /\ routes' = routes \ Of(m, routes)
                             /\ mw' = [mw EXCEPT !.todo = @ \ {m}]
       \/ mw.todo = {} /\ ModelGoes("reduce") /\ UNCHANGED routes
    /\ UNCHANGED <<specVars, transport, overlay, drain, dataVars, pw, disturb>>

\* ... then the overlay without the disabled models' candidates.
ReduceOverlay ==
    /\ mw.pc = "reduce"
    /\ \/ mw.want = {} /\ overlay' = None /\ drain' = None
       \/ mw.want # {} /\ overlay' = mw.want /\ UNCHANGED drain
    /\ ModelEnds
    /\ UNCHANGED <<specVars, transport, routes, dataVars, pw, disturb>>

\* removeExternalModelFinalizer: conflicts if the model was deleted meanwhile.
ReleaseModel ==
    /\ mw.pc = "release" /\ ModelEnds
    /\ \/ /\ mw.del
          /\ model' = [model EXCEPT ![mw.cur] = [phase |-> "gone", fin |-> FALSE]]
          /\ ref' = [c \in Cand |-> IF c[1] = mw.cur THEN "none" ELSE ref[c]]
       \/ /\ ~mw.del /\ model[mw.cur].phase = "live"
          /\ model' = [model EXCEPT ![mw.cur].fin = FALSE]
          /\ UNCHANGED ref
       \/ ~mw.del /\ model[mw.cur].phase # "live" /\ UNCHANGED <<model, ref>>
    /\ UNCHANGED <<tenant, prov, transport, routes, overlay, drain, dataVars, pw, disturb>>

ModelStep == \/ Resolve \/ ApplyRoute \/ RoutesApplied \/ Publish \/ FinishWithdrawal
             \/ RoutesPruned \/ CutRoutes \/ CutOverlay \/ ExcludeRoutes
             \/ ReduceOverlay \/ ReleaseModel

-----------------------------------------------------------------------------
(***************************************************************************)
(* The provider worker: ReconcileProvider.                                 *)
(***************************************************************************)
ProviderGoes(next) == pw' = [pw EXCEPT !.pc = next]
ProviderEnds == pw' = IdleProviderWorker
Take(p, next) == pw' = [pc |-> next, cur |-> p, del |-> prov[p].phase = "deleting"]

StartDeleting(p) ==                              \* reconcileDeletingProvider
    /\ prov[p].phase = "deleting"
    /\ IF InUse(p)
       THEN prov' = [prov EXCEPT ![p].ready = FALSE] /\ UNCHANGED pw
       ELSE Take(p, "clean") /\ UNCHANGED prov

StartReleased(p) ==       \* IPP serves: handoff, or releaseProviderClaim
    /\ prov[p].phase = "live" /\ prov[p].fin
    /\ \/ tenant = "ipp"
       \/ tenant = "legacy" /\ ~InUse(p)
    /\ Take(p, "clean") /\ UNCHANGED prov

\* Fault: a provider of a steady tenant is served without the claim.
StartUnclaimed(p) ==
    /\ prov[p].phase = "live" /\ tenant = "steady"
    /\ Take(p, IF prov[p].valid THEN "recheck" ELSE "failClean")
    /\ UNCHANGED prov

StartClaimed(p) ==                               \* ensureExternalProviderFinalizer
    /\ prov[p].phase = "live"
    /\ \/ /\ tenant = "pending"
          /\ prov' = [prov EXCEPT ![p].fin = TRUE, ![p].ready = FALSE]
          /\ UNCHANGED pw
       \/ /\ tenant = "steady"
          /\ prov' = [prov EXCEPT ![p].fin = TRUE]
          /\ Take(p, IF prov[p].valid THEN "recheck" ELSE "failClean")

StartProvider(p) ==
    /\ pw.pc = "idle"
    /\ StartDeleting(p) \/ StartReleased(p) \/ StartClaimed(p)
    /\ UNCHANGED <<tenant, model, ref, transport, routes, overlay, drain, dataVars, mw, disturb>>

Disturb(kind) == kind \in Kinds /\ disturb < MaxDisturb /\ disturb' = disturb + 1

providerFrame == <<tenant, model, ref, routes, overlay, drain, dataVars, mw>>

\* livePraxisBeforeWrite: the tenant is read once more, one call before the write.
LivePraxisBeforeWrite ==
    /\ pw.pc = "recheck"
    /\ \/ tenant # "steady" /\ ProviderEnds
       \/ tenant = "steady" /\ ProviderGoes("write")
    /\ UNCHANGED <<prov, transport, disturb, providerFrame>>

\* applyProviderTransport, whatever the tenant selects by now.
WriteTransport ==
    /\ pw.pc = "write"
    /\ \/ /\ transport' = transport \cup {pw.cur}
          /\ ProviderGoes("ready") /\ UNCHANGED disturb
       \/ /\ Disturb("fail")
          /\ ProviderGoes("failClean") /\ UNCHANGED transport
    /\ UNCHANGED <<prov, providerFrame>>

\* updateProviderStatus, on the copy of the spec that was reconciled.
ReportProvider ==
    /\ pw.pc \in {"ready", "failed"}
    /\ prov' = [prov EXCEPT ![pw.cur].ready = (pw.pc = "ready")]
    /\ ProviderEnds
    /\ UNCHANGED <<transport, disturb, providerFrame>>

\* cleanupProviderTransport
CleanTransport ==
    /\ pw.pc \in {"clean", "failClean"}
    /\ transport' = transport \ {pw.cur}
    /\ ProviderGoes(IF pw.pc = "clean" THEN "release" ELSE "failed")
    /\ UNCHANGED <<prov, disturb, providerFrame>>

\* removeExternalProviderFinalizer: conflicts if it was deleted meanwhile.
ReleaseProvider ==
    /\ pw.pc = "release" /\ ProviderEnds
    /\ \/ /\ pw.del
          /\ prov' = [prov EXCEPT ![pw.cur].phase = "gone", ![pw.cur].fin = FALSE,
                                  ![pw.cur].ready = FALSE]
       \/ /\ ~pw.del /\ prov[pw.cur].phase = "live"
          /\ prov' = [prov EXCEPT ![pw.cur].fin = FALSE]
       \/ ~pw.del /\ prov[pw.cur].phase # "live" /\ UNCHANGED prov
    /\ UNCHANGED <<transport, disturb, providerFrame>>

ProviderStep ==
    LivePraxisBeforeWrite \/ WriteTransport \/ ReportProvider \/ CleanTransport \/ ReleaseProvider

-----------------------------------------------------------------------------
(***************************************************************************)
(* The ExtProc runtime: the tenant reconciler's configuration of it, the   *)
(* pods and the requests they route (external), and time.                  *)
(***************************************************************************)
\* providersForTenant: existing providers a live model references with weight.
Required ==
    {p \in Providers : /\ prov[p].phase = "live"
                       /\ \E c \in Via(p, Cand) : c[1] \in Live /\ ref[c] = "on"}

\* routingOverlayReady
OverlayReady == overlay # None /\ \A p \in Required : Via(p, overlay) # {}

\* resolvePraxisRuntimeCandidates and the Deployment it renders.
RolloutRuntime ==
    /\ tenant = "steady"
    /\ \/ Live = {} /\ RuntimeSet = {} /\ runtime' = None
       \/ RuntimeSet # {} /\ OverlayReady /\ runtime' = RuntimeSet
    /\ runtime' # runtime
    /\ UNCHANGED <<specVars, transport, routes, overlay, drain, pods, infl, mw, pw, disturb>>

frame == <<specVars, transport, routes, overlay, drain, mw, pw>>

\* A pod of the current ReplicaSet replaces one of an older one.
RestartPod(i) ==
    /\ \/ /\ runtime # None /\ overlay # None /\ pods[i].cfg # runtime
          /\ pods' = [pods EXCEPT ![i] = [serves |-> overlay, cfg |-> runtime, logged |-> TRUE]]
       \/ /\ runtime = None /\ pods[i].cfg # None
          /\ pods' = [pods EXCEPT ![i] = [serves |-> {}, cfg |-> None, logged |-> FALSE]]
    /\ UNCHANGED <<frame, runtime, infl, disturb>>

\* A running pod picks up the overlay and logs its revision.
ReloadPod(i) ==
    /\ overlay # None /\ pods[i].cfg # None
    /\ pods[i].serves # overlay
    /\ pods' = [pods EXCEPT ![i].serves = overlay, ![i].logged = TRUE]
    /\ UNCHANGED <<frame, runtime, infl, disturb>>

\* The revision scrolls out of the log lines that are read, or the read fails.
LoseLog(i) ==
    /\ Disturb("log") /\ pods[i].logged
    /\ pods' = [pods EXCEPT ![i].logged = FALSE]
    /\ UNCHANGED <<frame, runtime, infl>>

\* A request that a pod sends to a candidate whose rule and transport exist.
Request(c) ==
    /\ \E i \in Pods : c \in pods[i].serves
    /\ c \in routes /\ c[2] \in transport
    /\ infl[c] < RequestTimeout
    /\ infl' = [infl EXCEPT ![c] = RequestTimeout]
    /\ UNCHANGED <<frame, runtime, pods, disturb>>

\* Fault: the remaining time is not clamped.
LessUnclamped(n) == IF n >= 0 THEN n - 1 ELSE n

Less(n) == IF n > 0 THEN n - 1 ELSE 0

Tick ==
    /\ \E c \in Cand : infl[c] > 0 \/ (drain # None /\ drain.left > 0)
    /\ infl' = [c \in Cand |-> Less(infl[c])]
    /\ drain' = IF drain = None THEN None ELSE [drain EXCEPT !.left = Less(@)]
    /\ UNCHANGED <<specVars, transport, routes, overlay, mw, pw, runtime, pods, disturb>>

Dataplane == \/ RolloutRuntime \/ Tick
             \/ \E i \in Pods : RestartPod(i) \/ ReloadPod(i)

-----------------------------------------------------------------------------
(***************************************************************************)
(* Disturbances: spec edits, deletions, Secrets, the tenant, failures.     *)
(***************************************************************************)
editFrame == <<transport, overlay, drain, dataVars, mw, pw>>

\* An edit may change several references at once; a model has at least one.
EditModel ==
    /\ Disturb("ref")
    /\ \E m \in Live : \E w \in [Of(m, Cand) -> {"none", "off", "on"}] :
         /\ \E c \in Of(m, Cand) : w[c] # "none"
         /\ \E c \in Of(m, Cand) : w[c] # ref[c]
         /\ ref' = [c \in Cand |-> IF c[1] = m THEN w[c] ELSE ref[c]]
    /\ UNCHANGED <<tenant, model, prov, routes, editFrame>>

CreateModel ==
    /\ Disturb("create")
    /\ \E m \in Models :
         /\ model[m].phase = "gone"
         /\ model' = [model EXCEPT ![m].phase = "live"]
         /\ ref' = [c \in Cand |-> IF c[1] = m THEN "on" ELSE ref[c]]
    /\ UNCHANGED <<tenant, prov, routes, editFrame>>

\* Without the finalizer the model is gone at once, and with it its HTTPRoute.
DeleteModel ==
    /\ Disturb("delete")
    /\ \E m \in Live :
         IF model[m].fin
         THEN model' = [model EXCEPT ![m].phase = "deleting"] /\ UNCHANGED <<ref, routes>>
         ELSE /\ model' = [model EXCEPT ![m].phase = "gone"]
              /\ ref' = [c \in Cand |-> IF c[1] = m THEN "none" ELSE ref[c]]
              /\ routes' = routes \ Of(m, routes)
    /\ UNCHANGED <<tenant, prov, editFrame>>

DeleteProvider ==
    /\ Disturb("provider")
    /\ \E p \in Providers :
         /\ prov[p].phase = "live"
         /\ prov' = [prov EXCEPT ![p].phase = IF prov[p].fin THEN "deleting" ELSE "gone",
                                 ![p].ready = FALSE]
    /\ UNCHANGED <<tenant, model, ref, routes, editFrame>>

CreateProvider ==
    /\ Disturb("provider")
    /\ \E p \in Providers :
         prov[p].phase = "gone" /\ prov' = [prov EXCEPT ![p].phase = "live"]
    /\ UNCHANGED <<tenant, model, ref, routes, editFrame>>

\* The Secret a provider references is removed, broken or restored.
ChangeSecret ==
    /\ Disturb("secret")
    /\ \E p \in Providers : prov' = [prov EXCEPT ![p].valid = ~@]
    /\ UNCHANGED <<tenant, model, ref, routes, editFrame>>

ChangeTenant ==
    /\ Disturb("tenant")
    /\ \/ tenant = "steady" /\ tenant' \in {"pending", "ipp"}
       \/ tenant = "pending" /\ tenant' \in {"steady", "ipp"}
       \/ tenant = "ipp" /\ tenant' \in {"legacy", "pending"}
       \/ tenant = "legacy" /\ tenant' \in {"pending", "ipp"}
    /\ UNCHANGED <<model, ref, prov, routes, editFrame>>

\* An API call fails or the process dies: both workers start over.
Fail ==
    /\ Disturb("fail")
    /\ <<mw.pc, pw.pc>> # <<"idle", "idle">>
    /\ ModelEnds /\ ProviderEnds
    /\ UNCHANGED <<specVars, transport, routes, overlay, drain, dataVars>>

Edits == EditModel \/ CreateModel \/ DeleteModel \/ DeleteProvider \/ CreateProvider
         \/ ChangeSecret \/ ChangeTenant \/ Fail \/ \E i \in Pods : LoseLog(i)

-----------------------------------------------------------------------------
\* Every reference with weight is served; the runtime holds the others too.
Init ==
    /\ tenant = "steady"
    /\ model = [m \in Models |-> [phase |-> "live", fin |-> TRUE]]
    /\ ref = [c \in Cand |-> IF c \in Weighted THEN "on" ELSE "off"]
    /\ prov = [p \in Providers |-> [phase |-> "live", fin |-> TRUE, valid |-> TRUE, ready |-> TRUE]]
    /\ transport = Providers
    /\ routes = Weighted /\ overlay = Weighted /\ drain = None
    /\ runtime = Cand
    /\ pods = [i \in Pods |-> [serves |-> Weighted, cfg |-> Cand, logged |-> TRUE]]
    /\ infl = [c \in Cand |-> 0]
    /\ mw = IdleModelWorker /\ pw = IdleProviderWorker
    /\ disturb = 0

Next == \/ \E m \in Models : StartModel(m)
        \/ \E p \in Providers : StartProvider(p)
        \/ ModelStep \/ ProviderStep \/ Dataplane
        \/ \E c \in Traffic : Request(c)
        \/ Edits

Spec == Init /\ [][Next]_vars

(***************************************************************************)
(* Fairness: each work queue is served in order and every object is queued *)
(* again by a requeue, a watch or the resync; the Deployment rolls out,    *)
(* pods reload, time passes.                                               *)
(***************************************************************************)
Fairness ==
    /\ \A m \in Models : SF_vars(StartModel(m))
    /\ \A p \in Providers : SF_vars(StartProvider(p))
    /\ WF_vars(ModelStep) /\ WF_vars(ProviderStep)
    /\ WF_vars(RolloutRuntime) /\ WF_vars(Tick)
    /\ \A i \in Pods : WF_vars(RestartPod(i)) /\ WF_vars(ReloadPod(i))
FairSpec == Spec /\ Fairness

-----------------------------------------------------------------------------
\* Every variable stays in its range: what the two reconcilers, the tenant
\* reconciler and the pods write.
TypeOK ==
    /\ tenant \in TenantState
    /\ model \in [Models -> ModelObject]
    /\ ref \in [Cand -> {"none", "off", "on"}]
    /\ prov \in [Providers -> ProviderObject]
    /\ transport \in SUBSET Providers
    /\ routes \in SUBSET Cand
    /\ overlay \in {None} \cup SUBSET Cand
    /\ drain \in {None} \cup [rev: SUBSET Cand, left: 0..DrainDuration]
    /\ runtime \in {None} \cup SUBSET Cand
    /\ pods \in [Pods -> Pod]
    /\ infl \in [Cand -> 0..RequestTimeout]
    /\ mw \in ModelWork /\ pw \in ProviderWork
    /\ disturb \in 0..MaxDisturb

\* A pass prunes a candidate's rule, once published, only when no pod serves it
\* and no request uses it (transportRoutesForPublication,
\* finishProviderWithdrawal): only the immediate cleanups, and the deletion of a
\* model no pass has claimed yet, may cut it earlier.
DrainedBeforePrune ==
    [][\A c \in routes \ routes' : mw.pc \in {"apply", "prune"} /\ mw' # mw =>
          infl[c] = 0 /\ \A i \in Pods : c \notin pods[i].serves]_vars

\* Releasing the finalizer of a deleted model (reconcileDeletedModel) leaves no
\* rule and no published candidate of it.
DeletedModelLeavesNothing ==
    [][\A m \in Models : model[m].phase = "deleting" /\ model'[m].phase = "gone"
          => Of(m, routes') = {} /\ overlay' \in {None} \cup SUBSET (Cand \ Of(m, Cand))]_vars

\* Transport exists only under the provider's cleanup finalizer, whatever the
\* tenant switches to meanwhile (ReconcileProvider claims before it writes).
TransportFinalized == \A p \in transport : prov[p].fin

\* A candidate enters the overlay only once its rule is applied
\* (transportRoutesForPublication: additions reach Envoy before publication).
\* A model without the cleanup finalizer, which a sibling's reconcile serves
\* before its own has claimed it, may vanish with its HTTPRoute in between.
PublishedAfterRoute ==
    [][overlay' # None => \A c \in overlay' \ Published : c \in routes \/ ~model[c[1]].fin]_vars

\* DESIGN.md: deleting a provider "whose transport is used by published
\* candidates or applied routes is blocked".  A model pass that resolved the
\* provider earlier breaks it: see README.
DeletionBlockedInUse ==
    [][\A p \in transport \ transport' : prov[p].phase = "deleting" => ~InUse(p)]_vars

Healthy ==
    /\ tenant = "steady"
    /\ \A p \in Providers : prov[p].phase = "live" => prov[p].valid
    /\ Resolved # {} \/ (Live = {} /\ \A p \in Providers : prov[p].phase # "gone")

\* With the tenant steady, Secrets valid and something left to serve, every
\* deleted model is released and every deleted provider too: the requeues of
\* reconcileDeletedModel and reconcileDeletingProvider reach the end of the drain.
WithdrawalCompletes ==
    <>[]Healthy => <>[](/\ \A m \in Models : model[m].phase # "deleting"
                        /\ \A p \in Providers : prov[p].phase # "deleting")

\* Whatever a deletion raced with (reconcileDeletingProvider decides before it
\* removes the transport), serving heals: with the tenant steady, Secrets valid
\* and something left to serve, exactly the weighted references of live models
\* to live providers end up published, each over its provider's transport.
ServingHeals ==
    <>[]Healthy =>
        <>[](/\ Published = {c \in Cand : /\ model[c[1]].phase = "live" /\ ref[c] = "on"
                                          /\ prov[c[2]].phase = "live"}
             /\ \A c \in Published \cup routes : c[2] \in transport)

\* Whatever a pass was doing when the tenant chose IPP for good, the cleanup
\* catches up with it: cleanupUnselectedModel and ReconcileProvider's handoff
\* branch run again until no rule, overlay, transport or finalizer of Praxis is
\* left, also the transport written by a pass that found the tenant steady just
\* before (livePraxisBeforeWrite is one call ahead of applyProviderTransport).
HandoffCompletes ==
    <>[](tenant = "ipp") =>
        <>[](/\ routes = {} /\ overlay = None /\ transport = {}
             /\ \A m \in Models : ~model[m].fin
             /\ \A p \in Providers : ~prov[p].fin)
=============================================================================
