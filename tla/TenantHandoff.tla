---------------------------- MODULE TenantHandoff ----------------------------
(***************************************************************************)
(* The payload-processing backend swap of one tenant: the tenant           *)
(* reconciler of ai-gateway-controller (pkg/tenant/reconciler.go,          *)
(* migration.go, ownership.go, plugins_migration.go) against its peer      *)
(* maas-controller (external), the API server, the informer caches and the *)
(* user who edits the MaasTenantConfig.                                    *)
(*                                                                         *)
(* Both controllers deploy under the same object names, so the swap is     *)
(* guarded by an annotation of the MaasTenantConfig (MTC below), by a      *)
(* finalizer on it, by a live ownership check of every object and by a     *)
(* live fence on the owning AITenant.  Each API call is one step; the      *)
(* reconciler works on the copy of the MTC it read from its cache.         *)
(***************************************************************************)
EXTENDS Naturals, Sequences

CONSTANTS
    SharedRes,        \* object names both backends use in the Gateway namespace
    ExtRes,           \* ExternalModel ExtProc objects, only ever Praxis'
    Plugin,           \* the plugins ConfigMap, one of SharedRes
    GwNs,             \* Gateway namespaces an AITenant can be homed to
    NoGw,             \* AITenant unresolvable, unbound, or gatewayRef unset
    MaxLag,           \* how many MTC versions the informer cache may trail
    MaxDisturb,       \* bound on edits, faults, crashes and AITenant changes
    DeletionTimeout,  \* whether --deletion-timeout is non-zero
    Patient           \* whether the selector is edited only between handoffs

Res == SharedRes \cup ExtRes

ASSUME ResAssumption == Plugin \in SharedRes /\ SharedRes \cap ExtRes = {}
ASSUME GwAssumption == GwNs # {} /\ NoGw \notin GwNs
ASSUME BoundAssumption ==
    /\ MaxLag \in Nat /\ MaxDisturb \in Nat
    /\ DeletionTimeout \in BOOLEAN /\ Patient \in BOOLEAN

VARIABLES
    versions,  \* MTC versions from the cached one to the one the API server holds
    aitenant,  \* the owning AITenant as the API server holds it
    atCache,   \* the owning AITenant as the informer cache holds it
    obj,       \* who owns the object of each name in each Gateway namespace
    overdue,   \* the deletion timeout of the MTC has elapsed
    maas,      \* what maas-controller's worker is doing (external)
    pc,        \* where the tenant reconciler's worker is
    snap,      \* the MTC copy it works on
    fresh,     \* nobody wrote the MTC since the resourceVersion in snap
    atSnap,    \* the AITenant copy it resolved
    todo,      \* names still to prune, check, apply or delete
    rendered,  \* names of the rendered resources
    disturb    \* disturbances so far

mtcVars == <<versions, fresh>>
workVars == <<pc, snap, atSnap, todo, rendered>>
vars == <<versions, aitenant, atCache, obj, overdue, maas, pc, snap, fresh,
          atSnap, todo, rendered, disturb>>

Status == {"absent", "cleanup-complete", "steady"}
Mtc == [phase: {"live", "deleting", "gone"}, type: {"praxis", "ipp"},
        status: Status, fin: BOOLEAN, force: BOOLEAN]
\* id stands for metadata.uid and metadata.generation together.
AITenant == [id: Nat, ready: BOOLEAN, terminating: BOOLEAN,
             gw: GwNs \cup {NoGw}]
Owner == {"none", "ipp", "praxis", "released"}
Pc == {"idle", "finalizer", "resolve", "handshake", "overlay", "prune", "check",
       "plugins", "fence", "apply", "resolveCleanup", "clean", "mark", "release"}

NoMtc == [phase |-> "gone", type |-> "praxis", status |-> "absent",
          fin |-> FALSE, force |-> FALSE]
NoAITenant == [id |-> 0, ready |-> FALSE, terminating |-> FALSE, gw |-> NoGw]

cached == versions[1]
live == versions[Len(versions)]
UsesPraxis(m) == m.type # "ipp"
DeployReady(a) == a.ready

(***************************************************************************)
(* A write of the MTC appends a version; the cache trails by at most       *)
(* MaxLag of them (the oldest is then delivered with the write).           *)
(***************************************************************************)
Push(m) == LET s == Append(versions, m)
           IN  IF Len(s) > MaxLag + 1 THEN Tail(s) ELSE s

\* Fault: the selector's value is written in the status annotation.
SetStatusFromSelector(m, s) == [m EXCEPT !.status = m.type]

\* setPayloadProcessingStatus: the annotation maas-controller reads too.
SetStatus(m, s) == [m EXCEPT !.status = s]

\* A write by somebody else: the resourceVersion in snap is outdated.
Write(m) == versions' = Push(m) /\ fresh' = FALSE

\* A successful Patch through the reconciler's own copy, which the API
\* server's answer replaces.
WriteBack(m) == versions' = Push(m) /\ fresh' = TRUE /\ snap' = m

Deliver ==
    /\ Len(versions) > 1
    /\ versions' = Tail(versions)
    /\ UNCHANGED <<aitenant, atCache, obj, overdue, maas, fresh, workVars, disturb>>

DeliverAITenant ==
    /\ atCache # aitenant
    /\ atCache' = aitenant
    /\ UNCHANGED <<mtcVars, aitenant, obj, overdue, maas, workVars, disturb>>

-----------------------------------------------------------------------------
(***************************************************************************)
(* The tenant reconciler.  One worker: a reconcile runs to its end before  *)
(* the next one of this MTC starts.  An early return or an error ends it.  *)
(***************************************************************************)
Idle ==
    /\ pc' = "idle" /\ snap' = NoMtc /\ atSnap' = NoAITenant
    /\ todo' = {} /\ rendered' = {}

EndReconcile ==
    Idle /\ fresh' = FALSE /\ UNCHANGED <<versions, aitenant, atCache, obj, overdue, maas, disturb>>

GoOn(next) ==
    /\ pc' = next
    /\ UNCHANGED <<versions, aitenant, atCache, obj, overdue, maas, fresh, snap, disturb>>

\* Fault: the deletion timeout is never consulted.
DispatchWithoutTimeout(m) ==
    CASE m.phase = "gone" \/ (~m.fin /\ (m.phase = "deleting" \/ ~UsesPraxis(m))) -> "idle"
      [] m.fin /\ (m.phase = "deleting" \/ (m.phase = "live" /\ ~UsesPraxis(m))) -> "resolveCleanup"
      [] m.phase = "live" /\ UsesPraxis(m) -> "finalizer"

\* The branch Reconcile, reconcileDelete and reconcileNotPraxis take on the
\* cached MTC; "idle" is an early return.
Dispatch(m) ==
    CASE m.phase = "gone"                                     -> "idle"
      [] m.phase = "deleting" /\ ~m.fin                       -> "idle"
      [] m.phase = "deleting" /\ m.fin /\ overdue             -> "release"
      [] m.phase = "deleting" /\ m.fin /\ ~overdue            -> "resolveCleanup"
      [] m.phase = "live" /\ ~UsesPraxis(m) /\ ~m.fin         -> "idle"
      [] m.phase = "live" /\ ~UsesPraxis(m) /\ m.fin          -> "resolveCleanup"
      [] m.phase = "live" /\ UsesPraxis(m)                    -> "finalizer"

Reconcile ==
    /\ pc = "idle" /\ Dispatch(cached) # "idle"
    /\ pc' = Dispatch(cached)
    /\ snap' = cached
    /\ fresh' = (Len(versions) = 1)
    /\ UNCHANGED <<versions, aitenant, atCache, obj, overdue, maas, atSnap, todo, rendered, disturb>>

\* Fault: a Conflict of the patch is tolerated.
EnsureFinalizerBestEffort ==
    /\ pc = "finalizer" /\ pc' = "resolve"
    /\ IF ~snap.fin /\ fresh
       THEN WriteBack([live EXCEPT !.fin = TRUE])
       ELSE UNCHANGED <<versions, fresh, snap>>
    /\ UNCHANGED <<aitenant, atCache, obj, overdue, maas, atSnap, todo, rendered, disturb>>

\* ensureFinalizer: merge patch with the optimistic lock of snap.
EnsureFinalizer ==
    /\ pc = "finalizer"
    /\ \/ snap.fin /\ GoOn("resolve") /\ UNCHANGED <<atSnap, todo, rendered>>
       \/ /\ ~snap.fin /\ fresh
          /\ WriteBack([live EXCEPT !.fin = TRUE])
          /\ pc' = "resolve"
          /\ UNCHANGED <<aitenant, atCache, obj, overdue, maas, atSnap, todo, rendered, disturb>>
       \/ ~snap.fin /\ ~fresh /\ EndReconcile   \* Conflict

\* resolveOwningAITenant, GatewayRef and gatewayExists, on the cached AITenant.
ResolveOwner ==
    /\ pc = "resolve"
    /\ IF DeployReady(atCache) /\ atCache.gw # NoGw
       THEN GoOn("handshake") /\ atSnap' = atCache /\ UNCHANGED <<todo, rendered>>
       ELSE EndReconcile

\* EnsurePraxisMayDeploy and claimPraxisSteady: the claim re-reads the MTC
\* (from the cache) and is an Update that conflicts unless that copy is current.
EnsurePraxisMayDeploy ==
    /\ pc = "handshake"
    /\ \/ snap.status = "steady" /\ GoOn("overlay") /\ UNCHANGED <<atSnap, todo, rendered>>
       \/ /\ snap.status = "cleanup-complete"
          /\ Len(versions) = 1
          /\ live.phase # "gone" /\ UsesPraxis(live) /\ live.status = "cleanup-complete"
          /\ Write(SetStatus(live, "steady"))
          /\ snap' = [snap EXCEPT !.status = "steady"]
          /\ pc' = "overlay"
          /\ UNCHANGED <<aitenant, atCache, obj, overdue, maas, atSnap, todo, rendered, disturb>>
       \/ /\ snap.status = "cleanup-complete"
          /\ \/ Len(versions) > 1
             \/ live.phase = "gone" \/ ~UsesPraxis(live) \/ live.status # "cleanup-complete"
          /\ EndReconcile
       \/ snap.status = "absent" /\ EndReconcile

\* resolvePraxisRuntimeCandidates: whether the tenant serves ExternalModels.
\* If it does not, their objects leave the render and are deleted.
ResolveRuntime ==
    /\ pc = "overlay"
    /\ \E serving \in BOOLEAN :
         IF serving
         THEN GoOn("check") /\ rendered' = Res /\ todo' = Res
         ELSE GoOn("prune") /\ rendered' = SharedRes /\ todo' = ExtRes
    /\ UNCHANGED atSnap

\* shouldDeletePraxisResource, the answers it may give: not what maas-controller
\* owns; what it released with managed=false goes too, unless its field manager
\* is still the only one on the object.
ShouldDelete(owner) ==
    CASE owner = "praxis"         -> {TRUE}
      [] owner = "released"       -> {TRUE, FALSE}
      [] owner \in {"none", "ipp"} -> {FALSE}

\* deleteResourceIfOwned: live Get, ownership test, Delete with the UID read.
DeleteIfOwned(r) ==
    \E delete \in ShouldDelete(obj[atSnap.gw][r]) :
        obj' = [obj EXCEPT ![atSnap.gw][r] = IF delete THEN "none" ELSE @]

\* cleanupExternalModelResources
PruneExternalModel ==
    /\ pc = "prune"
    /\ IF todo = {}
       THEN GoOn("check") /\ todo' = rendered /\ UNCHANGED <<atSnap, rendered>>
       ELSE \E r \in todo :
              /\ DeleteIfOwned(r)
              /\ todo' = todo \ {r}
              /\ UNCHANGED <<versions, aitenant, atCache, overdue, maas, fresh,
                             pc, snap, atSnap, rendered, disturb>>

\* waitForForeignOwnership: one live Get per rendered resource.
ForeignOwned(r) ==
    LET owner == obj[atSnap.gw][r]
    IN  owner = "ipp" \/ (owner = "released" /\ r # Plugin)

WaitForForeignOwnership ==
    /\ pc = "check"
    /\ IF todo = {}
       THEN GoOn("plugins") /\ UNCHANGED <<atSnap, todo, rendered>>
       ELSE \E r \in todo :
              IF ForeignOwned(r)
              THEN EndReconcile
              ELSE GoOn("check") /\ todo' = todo \ {r} /\ UNCHANGED <<atSnap, rendered>>

\* Fault: a released plugins ConfigMap is taken for an ordinary one.
PluginsGateOpen ==
    /\ pc = "plugins"
    /\ GoOn("fence") /\ UNCHANGED <<atSnap, todo, rendered>>

\* ensurePluginsConfigMapMigrationAllowed: live Get; an IPP-shaped plugins
\* ConfigMap is one maas-controller owns or released with managed=false.
PluginsGate ==
    /\ pc = "plugins"
    /\ IF snap.force \/ obj[atSnap.gw][Plugin] \notin {"ipp", "released"}
       THEN GoOn("fence") /\ UNCHANGED <<atSnap, todo, rendered>>
       ELSE EndReconcile

\* aiTenantStillValidForApply: the live AITenant is still the resolved one.
StillValidForApply ==
    /\ ~aitenant.terminating
    /\ aitenant.id = atSnap.id
    /\ aitenant.gw = atSnap.gw
    /\ DeployReady(aitenant)

Fence ==
    /\ pc = "fence"
    /\ IF StillValidForApply
       THEN GoOn("apply") /\ todo' = rendered /\ UNCHANGED <<atSnap, rendered>>
       ELSE EndReconcile

\* render.Apply: server-side apply with ForceOwnership, one object at a time.
Apply ==
    /\ pc = "apply"
    /\ IF todo = {}
       THEN EndReconcile
       ELSE \E r \in todo :
              /\ obj' = [obj EXCEPT ![atSnap.gw][r] = "praxis"]
              /\ todo' = todo \ {r}
              /\ UNCHANGED <<versions, aitenant, atCache, overdue, maas, fresh,
                             pc, snap, atSnap, rendered, disturb>>

\* Fault: the status is marked before the objects are gone.
MarkBeforeCleanup ==
    /\ pc = "resolveCleanup" /\ atCache.gw # NoGw
    /\ WriteBack(SetStatus(live, "cleanup-complete"))
    /\ pc' = "clean" /\ atSnap' = atCache /\ todo' = Res
    /\ UNCHANGED <<aitenant, atCache, obj, overdue, maas, rendered, disturb>>

\* Fault: the names only Praxis uses are forgotten.
ResolveOwnedSharedOnly ==
    /\ pc = "resolveCleanup"
    /\ IF atCache.gw # NoGw
       THEN GoOn("clean") /\ atSnap' = atCache /\ todo' = SharedRes /\ UNCHANGED rendered
       ELSE EndReconcile

\* resolveOwnedAITenant for switch-away and delete: readiness is not required.
ResolveOwnedForCleanup ==
    /\ pc = "resolveCleanup"
    /\ IF atCache.gw # NoGw
       THEN GoOn("clean") /\ atSnap' = atCache /\ todo' = Res /\ UNCHANGED rendered
       ELSE EndReconcile

\* cleanup: every name of the tenant, in the Gateway namespace resolved now.
Cleanup ==
    /\ pc = "clean"
    /\ IF todo = {}
       THEN /\ GoOn(IF snap.phase = "deleting" THEN "release" ELSE "mark")
            /\ UNCHANGED <<atSnap, todo, rendered>>
       ELSE \E r \in todo :
              /\ DeleteIfOwned(r)
              /\ todo' = todo \ {r}
              /\ UNCHANGED <<versions, aitenant, atCache, overdue, maas, fresh,
                             pc, snap, atSnap, rendered, disturb>>

\* Fault: the finalizer goes without the status ever being marked.
MarkSkipped ==
    pc = "mark" /\ GoOn("release") /\ UNCHANGED <<atSnap, todo, rendered>>

\* MarkPayloadProcessingCleanupComplete: a merge patch without optimistic
\* lock, skipped when the copy already says cleanup-complete.
MarkCleanupComplete ==
    /\ pc = "mark"
    /\ \/ /\ snap.status = "cleanup-complete"
          /\ GoOn("release") /\ UNCHANGED <<atSnap, todo, rendered>>
       \/ /\ snap.status # "cleanup-complete" /\ live.phase # "gone"
          /\ IF live.status = "cleanup-complete"
             THEN snap' = live /\ fresh' = TRUE /\ UNCHANGED versions
             ELSE WriteBack(SetStatus(live, "cleanup-complete"))
          /\ pc' = "release"
          /\ UNCHANGED <<aitenant, atCache, obj, overdue, maas, atSnap, todo, rendered, disturb>>
       \/ snap.status # "cleanup-complete" /\ live.phase = "gone" /\ EndReconcile

\* removeFinalizer: merge patch with the optimistic lock of snap.
RemoveFinalizer ==
    /\ pc = "release"
    /\ IF snap.fin /\ fresh
       THEN /\ Write([live EXCEPT !.fin = FALSE])
            /\ Idle
            /\ UNCHANGED <<aitenant, atCache, obj, overdue, maas, disturb>>
       ELSE EndReconcile     \* nothing to remove, or Conflict

\* An API call fails, a routing overlay is not ready, guardrail status is
\* behind, or the process dies: the reconcile ends where it is.
\* After a restart the cache starts from a fresh list.
Fail ==
    /\ pc # "idle" /\ disturb < MaxDisturb
    /\ disturb' = disturb + 1
    /\ Idle /\ fresh' = FALSE
    /\ versions' \in {versions, <<live>>}
    /\ UNCHANGED <<aitenant, atCache, obj, overdue, maas>>

Worker ==
    \/ Reconcile \/ EnsureFinalizer \/ ResolveOwner \/ EnsurePraxisMayDeploy
    \/ ResolveRuntime \/ PruneExternalModel \/ WaitForForeignOwnership \/ PluginsGate
    \/ Fence \/ Apply \/ ResolveOwnedForCleanup \/ Cleanup \/ MarkCleanupComplete
    \/ RemoveFinalizer

-----------------------------------------------------------------------------
(***************************************************************************)
(* maas-controller, from the protocol the code in src/ relies on: with ipp *)
(* selected it claims cleanup-complete by deleting the annotation and      *)
(* deploys; with praxis selected and the annotation absent it deletes IPP  *)
(* and then writes cleanup-complete.  It may overwrite any shared name.    *)
(***************************************************************************)
maasFrame == <<aitenant, atCache, overdue, workVars, disturb>>
NoIPP == \A g \in GwNs, r \in Res : obj[g][r] # "ipp"

MaasClaim ==
    /\ maas = "idle"
    /\ live.phase = "live" /\ ~UsesPraxis(live) /\ live.status = "cleanup-complete"
    /\ Write([live EXCEPT !.status = "absent"])
    /\ maas' = "deploy"
    /\ UNCHANGED <<obj, maasFrame>>

MaasStart ==
    /\ maas = "idle"
    /\ \/ /\ live.phase = "live" /\ ~UsesPraxis(live) /\ live.status = "absent"
          /\ aitenant.gw # NoGw /\ \E r \in SharedRes : obj[aitenant.gw][r] # "ipp"
          /\ maas' = "deploy"
       \/ live.phase = "live" /\ UsesPraxis(live) /\ live.status = "absent" /\ maas' = "clean"
       \/ live.phase = "deleting" /\ ~NoIPP /\ maas' = "clean"
    /\ UNCHANGED <<mtcVars, obj, maasFrame>>

MaasDeploy ==
    /\ maas = "deploy" /\ aitenant.gw # NoGw
    /\ \E r \in SharedRes :
         /\ obj[aitenant.gw][r] # "ipp"
         /\ obj' = [obj EXCEPT ![aitenant.gw][r] = "ipp"]
    /\ UNCHANGED <<mtcVars, maas, maasFrame>>

MaasDeployDone ==
    /\ maas = "deploy"
    /\ aitenant.gw # NoGw => \A r \in SharedRes : obj[aitenant.gw][r] = "ipp"
    /\ maas' = "idle"
    /\ UNCHANGED <<mtcVars, obj, maasFrame>>

\* Cleaning up may leave a customised plugins ConfigMap, stamped managed=false.
MaasClean ==
    /\ maas = "clean"
    /\ \E g \in GwNs, r \in SharedRes :
         /\ obj[g][r] = "ipp"
         /\ \E left \in (IF r = Plugin THEN {"none", "released"} ELSE {"none"}) :
              obj' = [obj EXCEPT ![g][r] = left]
    /\ UNCHANGED <<mtcVars, maas, maasFrame>>

MaasCleanDone ==
    /\ maas = "clean" /\ NoIPP
    /\ maas' = "idle"
    /\ IF live.phase = "live" /\ UsesPraxis(live) /\ live.status = "absent"
       THEN Write([live EXCEPT !.status = "cleanup-complete"])
       ELSE UNCHANGED mtcVars
    /\ UNCHANGED <<obj, maasFrame>>

\* The AITenant reconciler publishes status for the current generation.
PublishAITenant ==
    /\ ~aitenant.ready \/ aitenant.gw = NoGw
    /\ \E g \in GwNs :
         /\ aitenant.gw \in {g, NoGw}
         /\ aitenant' = [aitenant EXCEPT !.ready = TRUE, !.gw = g]
    /\ UNCHANGED <<mtcVars, atCache, obj, overdue, maas, workVars, disturb>>

\* The last finalizer is gone: the API server removes the object.
MtcGone ==
    /\ live.phase = "deleting" /\ ~live.fin /\ NoIPP /\ maas = "idle"
    /\ Write([live EXCEPT !.phase = "gone"])
    /\ overdue' = FALSE
    /\ UNCHANGED <<aitenant, atCache, obj, maas, workVars, disturb>>

\* maas-controller creates the MTC, seeded with cleanup-complete.
MtcCreate ==
    /\ live.phase = "gone"
    /\ \E t \in {"praxis", "ipp"} :
         Write([phase |-> "live", type |-> t, status |-> "cleanup-complete",
                fin |-> FALSE, force |-> FALSE])
    /\ UNCHANGED <<aitenant, atCache, obj, overdue, maas, workVars, disturb>>

Maas == MaasClaim \/ MaasStart \/ MaasDeploy \/ MaasDeployDone \/ MaasClean
        \/ MaasCleanDone \/ MtcGone \/ MtcCreate

-----------------------------------------------------------------------------
(***************************************************************************)
(* Disturbances: edits of the MTC, changes of the AITenant, lost time.     *)
(***************************************************************************)
ServedBy(t) ==
    aitenant.gw # NoGw /\ \A r \in SharedRes : obj[aitenant.gw][r] = t

Disturb == disturb < MaxDisturb /\ disturb' = disturb + 1

\* The selected backend has taken over: what a patient operator waits for.
HandoffSettled ==
    IF UsesPraxis(live)
    THEN live.status = "steady"
    ELSE live.status = "absent" /\ ~live.fin /\ ServedBy("ipp")

SelectBackend ==
    /\ Disturb /\ live.phase = "live"
    /\ Patient => HandoffSettled
    /\ Write([live EXCEPT !.type = IF UsesPraxis(live) THEN "ipp" ELSE "praxis"])
    /\ UNCHANGED <<aitenant, atCache, obj, overdue, maas, workVars>>

ForceMigration ==
    /\ Disturb /\ live.phase = "live" /\ ~live.force
    /\ Write([live EXCEPT !.force = TRUE])
    /\ UNCHANGED <<aitenant, atCache, obj, overdue, maas, workVars>>

DeleteMtc ==
    /\ Disturb /\ live.phase = "live"
    /\ Write([live EXCEPT !.phase = "deleting"])
    /\ UNCHANGED <<aitenant, atCache, obj, overdue, maas, workVars>>

TimeoutElapses ==
    /\ DeletionTimeout /\ live.phase = "deleting" /\ ~overdue
    /\ overdue' = TRUE
    /\ UNCHANGED <<mtcVars, aitenant, atCache, obj, maas, workVars, disturb>>

\* Spec edit or delete and recreate (another id, status not current), a claim
\* that fails, a Gateway that moves, a delete in flight.
ChangeAITenant ==
    /\ Disturb
    /\ \/ aitenant' = [id |-> aitenant.id + 1, ready |-> FALSE, terminating |-> FALSE,
                       gw |-> aitenant.gw]
       \/ aitenant' = [id |-> aitenant.id + 1, ready |-> FALSE, terminating |-> FALSE,
                       gw |-> NoGw]
       \/ aitenant.ready /\ aitenant' = [aitenant EXCEPT !.ready = FALSE]
       \/ \E g \in GwNs \ {aitenant.gw} : aitenant' = [aitenant EXCEPT !.gw = g]
       \/ ~aitenant.terminating /\ aitenant' = [aitenant EXCEPT !.terminating = TRUE]
    /\ UNCHANGED <<mtcVars, atCache, obj, overdue, maas, workVars>>

Environment == SelectBackend \/ ForceMigration \/ DeleteMtc \/ ChangeAITenant \/ Fail

-----------------------------------------------------------------------------
\* A tenant maas-controller has just created, or one upgraded from a release
\* that served it with IPP (no status annotation, IPP deployed).
Init ==
    /\ \E g \in GwNs, t \in {"praxis", "ipp"}, s \in {"cleanup-complete", "absent"} :
         /\ versions = <<[phase |-> "live", type |-> t, status |-> s,
                          fin |-> FALSE, force |-> FALSE]>>
         /\ aitenant = [id |-> 0, ready |-> TRUE, terminating |-> FALSE, gw |-> g]
         /\ obj = [h \in GwNs |-> [r \in Res |->
                     IF s = "absent" /\ h = g /\ r \in SharedRes THEN "ipp" ELSE "none"]]
    /\ atCache = aitenant
    /\ overdue = FALSE /\ maas = "idle" /\ disturb = 0
    /\ pc = "idle" /\ snap = NoMtc /\ fresh = FALSE /\ atSnap = NoAITenant
    /\ todo = {} /\ rendered = {}

Next == Worker \/ Maas \/ PublishAITenant \/ TimeoutElapses \/ Environment \/ Deliver \/ DeliverAITenant

Spec == Init /\ [][Next]_vars

(***************************************************************************)
(* Fairness: the work queue retries after every error and requeue, watches *)
(* deliver, maas-controller's own loop runs, time passes.  Nobody need     *)
(* ever publish the AITenant's status.                                     *)
(***************************************************************************)
Fairness == /\ WF_vars(Worker) /\ WF_vars(Maas) /\ WF_vars(TimeoutElapses)
            /\ WF_vars(Deliver) /\ WF_vars(DeliverAITenant)
FairSpec == Spec /\ Fairness

-----------------------------------------------------------------------------
\* Every variable stays in its range: the MTC the reconciler patches, the cache
\* trailing it by at most MaxLag versions, and the worker's place in
\* reconcilePraxis, reconcileNotPraxis and reconcileDelete.
TypeOK ==
    /\ versions \in Seq(Mtc) /\ Len(versions) \in 1..(MaxLag + 1)
    /\ aitenant \in AITenant /\ atCache \in AITenant /\ atSnap \in AITenant
    /\ obj \in [GwNs -> [Res -> Owner]]
    /\ overdue \in BOOLEAN /\ fresh \in BOOLEAN
    /\ maas \in {"idle", "deploy", "clean"}
    /\ pc \in Pc /\ snap \in Mtc
    /\ todo \in SUBSET Res /\ rendered \in SUBSET Res
    /\ disturb \in 0..MaxDisturb

NoPraxis == \A g \in GwNs, r \in Res : obj[g][r] # "praxis"

\* While any object of the Praxis dataplane exists, the live MTC exists and
\* carries PraxisCleanupFinalizer: a partially applied tenant is guaranteed a
\* cleanup pass (comment of reconcilePraxis, ensureFinalizer, removeFinalizer).
NothingOrphaned == ~NoPraxis => live.phase # "gone" /\ live.fin

\* The dataplane a tenant sees.
Serving == IF ~NoPraxis THEN IF NoIPP THEN "praxis" ELSE "both"
           ELSE IF NoIPP THEN "none" ELSE "ipp"

Swap == INSTANCE DataplaneSwap WITH serving <- Serving

\* The two controllers' steps implement the swap as a tenant sees it: the
\* annotation handshake, waitForForeignOwnership and the ownership test of
\* every delete keep the dataplanes from ever overlapping or replacing each
\* other in one step.
OneDataplane == Swap!Spec

\* ensurePluginsConfigMapMigrationAllowed: a customised plugins ConfigMap that
\* maas-controller released (managed=false) is overwritten only by a reconcile
\* that saw the force annotation.
PluginsKept ==
    [][\A g \in GwNs : obj[g][Plugin] = "released" /\ obj'[g][Plugin] = "praxis"
                        => snap.force]_vars

\* The selector and a usable AITenant stay as they are.
Settled(t) ==
    /\ live.phase = "live" /\ live.type = t
    /\ DeployReady(aitenant) /\ aitenant.gw # NoGw /\ ~aitenant.terminating
Blocked ==
    aitenant.gw # NoGw /\ obj[aitenant.gw][Plugin] = "released" /\ ~live.force

\* Once the selector and the AITenant stop changing, the selected backend ends up serving every
\* shared name for good, through every requeue, conflict and restart; Praxis may
\* instead wait on a customised plugins ConfigMap nobody forced.
SwapCompletes ==
    /\ <>[]Settled("ipp") => <>[]ServedBy("ipp")
    /\ <>[]Settled("praxis") => <>[](ServedBy("praxis") \/ Blocked)

\* With --deletion-timeout set, reconcileDelete never holds a deleted MTC
\* forever, even if the owning AITenant can no longer be resolved.
DeletionCompletes == live.phase = "deleting" ~> live.phase = "gone"
=============================================================================
