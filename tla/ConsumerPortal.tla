--------------------------- MODULE ConsumerPortal ---------------------------
(***************************************************************************)
(* The consumer portal of the default AITenant: the reconciler of          *)
(* pkg/consumerportal (reconciler.go, credentials.go, render.go) against   *)
(* the API server, its informer caches, maas-controller, the dashboard     *)
(* operator and the administrators who edit what the portal is built from. *)
(*                                                                         *)
(* The portal's objects live in three namespaces other than the one of the *)
(* MaasTenantConfig (MTC below), so a finalizer on the MTC guards their    *)
(* removal.  The MTC and the AITenant are read from informer caches;       *)
(* everything else is read live.  Each write, and each group of reads      *)
(* between two writes, is one step.                                        *)
(***************************************************************************)
EXTENDS Naturals, Sequences

CONSTANTS
    InfraNs,         \* values of MTC status.infraNamespace
    GwNs,            \* namespaces status.gatewayRef can name
    DashNs,          \* namespaces the dashboard can run in
    DefaultDash,     \* DefaultDashboardNamespace
    DashFlag,        \* the --dashboard-namespace flag, or None
    Host,            \* external host names
    Tenants,         \* the contents the default AITenant may have
    Gateways,        \* the contents a Gateway (with its Routes) may have
    Data,            \* contents of the tenant's client Secret, Redis Secret, CA bundle
    DefaultRefresh,  \* DefaultRefreshInterval, in some unit of time
    DefaultExpire,   \* DefaultCookieExpire, in the same unit
    DsciWatched,     \* the DSCInitialization CRD is installed when the process starts
    InfraMoves,      \* status.infraNamespace may change once it is set
    MaxLag,          \* how many MTC versions the informer cache may trail
    Kinds,           \* disturbances of the run
    MaxDisturb,      \* bound on their number
    None             \* unset, missing or empty

\* What a listener, an address or a Route may hold that is no external name.
Odd == {"wildcard", "internal"}

AITenant ==
    [ready: BOOLEAN, enabled: BOOLEAN, issuer: BOOLEAN, clientId: BOOLEAN,
     ref: BOOLEAN, gw: GwNs \cup {None}, refresh: Nat, expire: Nat]
\* Any concrete name an administrator gives a listener is taken to be external.
Listener == [https: BOOLEAN, host: Host \cup {"wildcard", None}]
Address == [hostname: BOOLEAN, value: Host \cup Odd]
\* name 0 is GatewayRouteName, other names are ordered by their number.
Route == [name: Nat, host: Host \cup {"wildcard", None}, tls: BOOLEAN,
          subpath: BOOLEAN, fronts: BOOLEAN]

ASSUME PlaceAssumption ==
    /\ DefaultDash \in DashNs /\ DashFlag \in DashNs \cup {None}
    /\ None \notin InfraNs \cup GwNs \cup DashNs \cup Host \cup Data \cup Odd
    /\ Host \cap Odd = {}
ASSUME ContentAssumption ==
    /\ Tenants \subseteq AITenant /\ Data # {}
    /\ \A g \in Gateways : /\ g.listeners \in Seq(Listener)
                           /\ g.addresses \in Seq(Address)
                           /\ g.routes \subseteq Route
ASSUME BoundAssumption ==
    /\ DefaultRefresh \in Nat \ {0} /\ DefaultExpire \in Nat /\ DefaultRefresh < DefaultExpire
    /\ DsciWatched \in BOOLEAN /\ InfraMoves \in BOOLEAN
    /\ MaxLag \in Nat /\ MaxDisturb \in Nat

VARIABLES
    versions,   \* MTC versions from the cached one to the one the API server holds
    aitenant,   \* the default AITenant as the cache holds it
    gateway,    \* the Gateway of each Gateway namespace
    dsci,       \* DSCInitialization spec.applicationsNamespace, or None
    services,   \* dashboard namespaces with a maas-portal Service
    source,     \* the tenant's OIDC client Secret
    redis,      \* the Redis Secret of each infrastructure namespace
    bundle,     \* the CA bundle of each infrastructure namespace
    creds,      \* the credentials Secret of each infrastructure namespace
    minted,     \* cookie secrets generated so far
    objs,       \* the portal's objects
    queued,     \* the MTC is in the work queue, or an event for it on its way
    timer,      \* a RequeueAfter or a retry is pending
    pc,         \* where the worker is
    snap,       \* the MTC copy it works on
    fresh,      \* nobody wrote the MTC since the resourceVersion in snap
    ten,        \* the AITenant copy it works on
    plan,       \* the Params it has gathered
    stale,      \* history: a reconcile began on a copy with a finalizer that was gone
    applied,    \* the last reconcile ended with everything applied
    disturb     \* disturbances so far

mtcVars == <<versions, fresh>>
inputVars == <<gateway, dsci, services, source, redis, bundle>>
outVars == <<creds, minted, objs>>
workVars == <<pc, snap, ten, plan, applied, stale>>
vars == <<versions, aitenant, inputVars, outVars, queued, timer, workVars, fresh, disturb>>

Mtc == [phase: {"live", "deleting", "gone"}, default: BOOLEAN,
        infra: InfraNs \cup {None}, fin: BOOLEAN]
Pc == {"idle", "gate", "finalizer", "source", "secret", "inputs", "apply", "prune",
       "clean", "release"}

\* The objects of the manifests in the order they are applied, by what they
\* have in common: the auth proxy's Deployment, Service, ServiceAccount and
\* NetworkPolicy; the two HTTPRoutes; the ReferenceGrant; the DestinationRules
\* and the EnvoyFilter; the AuthPolicies.
ApplyOrder == <<"proxy", "routes", "grant", "mesh", "policies">>
CleanOrder == <<"routes", "grant", "policies", "mesh", "proxy", "creds">>

Cred == [client: Data \cup {None}, cookie: Nat, managed: BOOLEAN]
ASSUME SecretAssumption == None \notin Cred
Params == [infra: InfraNs, dash: DashNs, gw: GwNs, host: Host,
           client: Data \cup {None}, cookie: Nat, redis: Data \cup {None},
           bundle: Data \cup {None}, refresh: Nat, expire: Nat]
Object == [kind: {ApplyOrder[i] : i \in 1..5}, ns: InfraNs \cup DashNs \cup GwNs, of: Params]

NoMtc == [phase |-> "gone", default |-> FALSE, infra |-> None, fin |-> FALSE]
NoTenant == [ready |-> FALSE, enabled |-> FALSE, issuer |-> FALSE, clientId |-> FALSE,
             ref |-> FALSE, gw |-> None, refresh |-> 0, expire |-> 0]

cached == versions[1]
live == versions[Len(versions)]

-----------------------------------------------------------------------------
(***************************************************************************)
(* Pure parts: session lifetimes, the callback's host, the dashboard's     *)
(* namespace, the rendered objects.                                        *)
(***************************************************************************)
\* 0 stands for an unset, malformed or negative duration.
CookieExpire(a) == IF a.expire = 0 THEN DefaultExpire ELSE a.expire

\* Fault: a default above the lifetime is not cut.
RefreshIntervalUncut(a) ==
    IF a.refresh = 0 \/ a.refresh >= CookieExpire(a) THEN DefaultRefresh ELSE a.refresh

RefreshInterval(a) ==
    LET expire == CookieExpire(a)
        interval == IF a.refresh = 0 \/ a.refresh >= expire THEN DefaultRefresh ELSE a.refresh
    IN  IF interval >= expire THEN expire \div 2 ELSE interval

\* The field of the first element that passes a test, or None.
First(s, idx) == IF idx = {} THEN None ELSE s[CHOOSE i \in idx : \A j \in idx : i <= j]

hasHTTPSListener(g) == \E i \in DOMAIN g.listeners : g.listeners[i].https

ListenerHostname(g) ==
    LET l == First(g.listeners, {i \in DOMAIN g.listeners :
                 g.listeners[i].https /\ g.listeners[i].host \notin {None, "wildcard"}})
    IN  IF l = None THEN None ELSE l.host

\* Fault: cluster-internal names are taken.
gatewayStatusHostnameAny(g) ==
    LET n == First(g.addresses, {i \in DOMAIN g.addresses :
                 g.addresses[i].hostname /\ g.addresses[i].value # "wildcard"})
    IN  IF n = None THEN None ELSE n.value

gatewayStatusHostname(g) ==
    LET n == First(g.addresses, {i \in DOMAIN g.addresses :
                 g.addresses[i].hostname /\ g.addresses[i].value \notin Odd})
    IN  IF n = None THEN None ELSE n.value

\* The conventional name sorts first.
gatewayRouteHostname(g) ==
    LET usable == {r \in g.routes : /\ r.host \notin {None, "wildcard"}
                                    /\ r.tls /\ ~r.subpath /\ r.fronts}
    IN  IF usable = {} THEN None
        ELSE (CHOOSE r \in usable : \A q \in usable : r.name <= q.name).host

\* None where the code returns an error.
gatewayHostname(g) ==
    IF ~hasHTTPSListener(g) THEN None
    ELSE IF ListenerHostname(g) # None THEN ListenerHostname(g)
    ELSE IF gatewayStatusHostname(g) # None THEN gatewayStatusHostname(g)
    ELSE gatewayRouteHostname(g)

dashboardNamespace ==
    IF DashFlag # None THEN DashFlag
    ELSE IF dsci # None THEN dsci ELSE DefaultDash

Place(kind, p) ==
    CASE kind = "grant" -> p.dash
      [] kind = "mesh" -> p.gw
      [] kind \in {"proxy", "routes", "policies"} -> p.infra

Render(p, kind) == [kind |-> kind, ns |-> Place(kind, p), of |-> p]

-----------------------------------------------------------------------------
(***************************************************************************)
(* Writes of the MTC, and the cache that trails them.                      *)
(***************************************************************************)
Push(m) == LET s == Append(versions, m)
           IN  IF Len(s) > MaxLag + 1 THEN Tail(s) ELSE s

\* The MTC is the primary object: every version it delivers is an event.
Write(m) ==
    /\ versions' = Push(m) /\ fresh' = FALSE
    /\ queued' = (queued \/ MaxLag = 0)

WriteBack(m) ==
    /\ versions' = Push(m) /\ fresh' = TRUE /\ snap' = m
    /\ queued' = (queued \/ MaxLag = 0)

Deliver ==
    /\ Len(versions) > 1
    /\ versions' = Tail(versions) /\ queued' = TRUE
    /\ UNCHANGED <<aitenant, inputVars, outVars, timer, workVars, fresh, disturb>>

-----------------------------------------------------------------------------
(***************************************************************************)
(* The reconciler.  One worker.                                            *)
(***************************************************************************)
NoParams == [infra |-> None, dash |-> None, gw |-> None, host |-> None,
             client |-> None, cookie |-> 0, redis |-> None, bundle |-> None,
             refresh |-> 0, expire |-> 0]

\* again: the reconcile ends with RequeueAfter or an error.
End(again, done) ==
    /\ pc' = "idle" /\ snap' = NoMtc /\ ten' = NoTenant /\ plan' = NoParams
    /\ fresh' = FALSE
    /\ timer' = (timer \/ again) /\ applied' = done

\* What Reconcile decides on the cached copies alone.
Disable(m) == IF ~m.fin THEN "done" ELSE IF m.infra = None THEN "release" ELSE "clean"

Dispatch(m, a) ==
    CASE m.phase = "gone" -> "done"
      [] m.phase = "deleting" \/ (m.phase = "live" /\ ~m.default) -> Disable(m)
      [] m.phase = "live" /\ m.default /\ ~a.ready -> "wait"
      [] m.phase = "live" /\ m.default /\ a.ready /\ ~(a.enabled /\ a.issuer) -> Disable(m)
      [] m.phase = "live" /\ m.default /\ a.ready /\ a.enabled /\ a.issuer ->
             IF ~a.clientId \/ m.infra = None \/ a.gw = None THEN "wait" ELSE "gate"

Reconcile ==
    /\ pc = "idle" /\ queued /\ queued' = FALSE
    /\ stale' = (stale \/ (cached.fin /\ ~live.fin))
    /\ LET next == Dispatch(cached, aitenant)
       IN  IF next \in {"done", "wait"}
           THEN End(next = "wait", FALSE)
           ELSE /\ pc' = next /\ snap' = cached /\ ten' = aitenant
                /\ fresh' = (Len(versions) = 1)
                /\ UNCHANGED <<timer, plan, applied>>
    /\ UNCHANGED <<versions, aitenant, inputVars, outVars, disturb>>

\* The live reads that may end a reconcile: the Gateway's host, then the
\* dashboard's Service, whose absence disables a deployed portal.
Gate ==
    /\ pc = "gate"
    /\ LET host == gatewayHostname(gateway[ten.gw])
       IN  \/ host = None /\ End(TRUE, FALSE)
           \/ /\ host # None /\ dashboardNamespace \notin services
              /\ IF snap.fin
                 THEN pc' = "clean" /\ UNCHANGED <<snap, ten, plan, applied, fresh, timer>>
                 ELSE End(TRUE, FALSE)
           \/ /\ host # None /\ dashboardNamespace \in services
              /\ pc' = "finalizer"
              /\ plan' = [NoParams EXCEPT !.infra = snap.infra, !.dash = dashboardNamespace,
                             !.gw = ten.gw, !.host = host,
                             !.refresh = RefreshInterval(ten), !.expire = CookieExpire(ten)]
              /\ UNCHANGED <<snap, ten, applied, fresh, timer>>
    /\ UNCHANGED <<versions, aitenant, inputVars, outVars, queued, stale, disturb>>

\* Fault: a Conflict of the patch is tolerated.
EnsureFinalizerBestEffort ==
    /\ pc = "finalizer" /\ pc' = "source"
    /\ IF ~snap.fin /\ fresh /\ live.phase = "live"
       THEN WriteBack([live EXCEPT !.fin = TRUE])
       ELSE UNCHANGED <<versions, fresh, snap, queued>>
    /\ UNCHANGED <<aitenant, inputVars, outVars, timer, ten, plan, applied, stale, disturb>>

\* A merge patch with an optimistic lock; the API server refuses to add a
\* finalizer to an object being deleted.
EnsureFinalizer ==
    /\ pc = "finalizer"
    /\ \/ /\ snap.fin /\ pc' = "source"
          /\ UNCHANGED <<versions, fresh, snap, ten, plan, applied, timer, queued>>
       \/ /\ ~snap.fin /\ fresh /\ live.phase = "live" /\ pc' = "source"
          /\ WriteBack([live EXCEPT !.fin = TRUE])
          /\ UNCHANGED <<ten, plan, applied, timer>>
       \/ /\ ~snap.fin /\ (~fresh \/ live.phase # "live")
          /\ End(TRUE, FALSE) /\ UNCHANGED <<versions, queued>>
    /\ UNCHANGED <<aitenant, inputVars, outVars, stale, disturb>>

\* Fault: the cookie secret is generated anew each time.
KeepCookieNever(n) == minted + 1

\* The existing cookie secret, or a new one.
KeepCookie(n) ==
    IF creds[n] # None /\ creds[n].cookie # 0 THEN creds[n].cookie ELSE minted + 1

\* reconcileCredentials up to its write: an administrator's Secret is taken as
\* it is when the AITenant names no client Secret.
ReadCredentials ==
    /\ pc = "source"
    /\ LET n == plan.infra
       IN  \/ /\ ~ten.ref /\ creds[n] # None /\ pc' = "inputs"
              /\ plan' = [plan EXCEPT !.client = creds[n].client, !.cookie = creds[n].cookie]
              /\ UNCHANGED <<minted, snap, ten, applied, fresh, timer>>
           \/ /\ ten.ref /\ source # None /\ pc' = "secret"
              /\ plan' = [plan EXCEPT !.client = source, !.cookie = KeepCookie(n)]
              /\ minted' = IF KeepCookie(n) > minted THEN KeepCookie(n) ELSE minted
              /\ UNCHANGED <<snap, ten, applied, fresh, timer>>
           \/ /\ IF ten.ref THEN source = None ELSE creds[n] = None
              /\ End(TRUE, FALSE) /\ UNCHANGED minted
    /\ UNCHANGED <<versions, aitenant, inputVars, creds, objs, queued, stale, disturb>>

\* The Secret is applied with force, an existing one whoever made it; its own
\* event queues the MTC again when its content changes.
ApplyCredentials ==
    /\ pc = "secret" /\ pc' = "inputs"
    /\ LET n == plan.infra
           c == [client |-> plan.client, cookie |-> plan.cookie, managed |-> TRUE]
       IN  /\ creds' = [creds EXCEPT ![n] = c]
           /\ queued' = (queued \/ creds[n] # c)
    /\ UNCHANGED <<versions, aitenant, inputVars, minted, objs, timer, snap, ten, plan, applied, fresh, stale, disturb>>

\* redisConfig and providerCAKeys.
ReadInputs ==
    /\ pc = "inputs" /\ pc' = "apply"
    /\ plan' = [plan EXCEPT !.redis = redis[plan.infra], !.bundle = bundle[plan.infra]]
    /\ UNCHANGED <<versions, aitenant, inputVars, outVars, queued, timer, snap, ten, applied, fresh, stale, disturb>>

\* The first k objects of the order.
Applied(k) ==
    {x \in objs : \A i \in 1..k : x.kind # ApplyOrder[i] \/ x.ns # Place(ApplyOrder[i], plan)}
      \cup {Render(plan, ApplyOrder[i]) : i \in 1..k}

\* A route that changes is an event for the MTC its namespace belongs to.
RouteEvent == \E n \in InfraNs :
    /\ n = cached.infra
    /\ {o \in objs : o.kind = "routes" /\ o.ns = n} # {o \in objs' : o.kind = "routes" /\ o.ns = n}

ApplyObjects ==
    /\ pc = "apply" /\ pc' = "prune"
    /\ objs' = Applied(5)
    /\ queued' = (queued \/ RouteEvent)
    /\ UNCHANGED <<versions, aitenant, inputVars, creds, minted, timer, snap, ten, plan, applied, fresh, stale, disturb>>

\* Fault: the grants of other dashboard namespaces stay.
PruneStaleGrantsNone ==
    /\ pc = "prune" /\ End(TRUE, TRUE)
    /\ UNCHANGED <<versions, aitenant, inputVars, outVars, queued, stale, disturb>>

\* pruneStaleGrants, then routesReady, which only chooses the interval after
\* which the reconcile is repeated.
PruneStaleGrants ==
    /\ pc = "prune"
    /\ objs' = {o \in objs : o.kind = "grant" => o.ns = plan.dash}
    /\ End(TRUE, TRUE)
    /\ UNCHANGED <<versions, aitenant, inputVars, creds, minted, queued, stale, disturb>>

\* The objects left when the first k kinds are gone: the portal's own by label
\* in every namespace, the proxy and its managed credentials by name in the
\* infrastructure namespace of the copy in hand.
Remaining(k) ==
    {o \in objs : \A i \in 1..k : \/ CleanOrder[i] # o.kind
                                  \/ o.kind = "proxy" /\ o.ns # snap.infra}

\* Fault: the credentials Secret is not part of the cleanup.
RemainingCredsKept(k) == creds

RemainingCreds(k) ==
    IF k = 6 /\ creds[snap.infra] # None /\ creds[snap.infra].managed
    THEN [creds EXCEPT ![snap.infra] = None] ELSE creds

Cleanup ==
    /\ pc = "clean" /\ pc' = "release"
    /\ objs' = Remaining(6) /\ creds' = RemainingCreds(6)
    /\ queued' = (queued \/ RouteEvent \/ creds' # creds)
    /\ UNCHANGED <<versions, aitenant, inputVars, minted, timer, snap, ten, plan, applied, fresh, stale, disturb>>

\* Without the last finalizer an MTC being deleted is gone.
Release ==
    /\ pc = "release"
    /\ \/ /\ fresh /\ live.phase # "gone"
          /\ versions' = Push(IF live.phase = "deleting" THEN NoMtc ELSE [live EXCEPT !.fin = FALSE])
          /\ queued' = (queued \/ MaxLag = 0)
          /\ End(FALSE, FALSE)
       \/ /\ ~fresh \/ live.phase = "gone"
          /\ End(TRUE, FALSE) /\ UNCHANGED <<versions, queued>>
    /\ UNCHANGED <<aitenant, inputVars, outVars, stale, disturb>>

\* RequeueAfter, the resync and the retry of an error.
Tick ==
    /\ timer /\ timer' = FALSE /\ queued' = TRUE
    /\ UNCHANGED <<versions, aitenant, inputVars, outVars, workVars, fresh, disturb>>

Worker ==
    \/ Reconcile \/ Gate \/ EnsureFinalizer \/ ReadCredentials \/ ApplyCredentials
    \/ ReadInputs \/ ApplyObjects \/ PruneStaleGrants \/ Cleanup \/ Release

-----------------------------------------------------------------------------
(***************************************************************************)
(* Everybody else: at most MaxDisturb changes of the kinds of the run, each*)
(* with the event SetupWithManager maps it to.                             *)
(***************************************************************************)
Disturb(kind) == /\ kind \in Kinds /\ disturb < MaxDisturb /\ disturb' = disturb + 1

\* An AITenant that is missing, or annotated to another namespace, is NoTenant.
EditAITenant ==
    /\ Disturb("aitenant")
    /\ aitenant' \in (Tenants \cup {NoTenant}) \ {aitenant} /\ queued' = TRUE
    /\ UNCHANGED <<versions, fresh, inputVars, outVars, timer, workVars>>

DeleteMtc ==
    /\ Disturb("delete") /\ live.phase = "live"
    /\ Write(IF live.fin THEN [live EXCEPT !.phase = "deleting"] ELSE NoMtc)
    /\ UNCHANGED <<aitenant, inputVars, outVars, timer, workVars>>

CreateMtc ==
    /\ Disturb("create") /\ live.phase = "gone"
    /\ Write([NoMtc EXCEPT !.phase = "live", !.default = TRUE])
    /\ UNCHANGED <<aitenant, inputVars, outVars, timer, workVars>>

\* The label of the default tenant, or status.infraNamespace by maas-controller.
EditMtc ==
    /\ live.phase = "live"
    /\ \/ Disturb("default") /\ Write([live EXCEPT !.default = ~live.default])
       \/ /\ IF live.infra = None THEN UNCHANGED disturb ELSE InfraMoves /\ Disturb("infra")
          /\ \E n \in InfraNs \ {live.infra} : Write([live EXCEPT !.infra = n])
    /\ UNCHANGED <<aitenant, inputVars, outVars, timer, workVars>>

\* Neither the Gateway nor an OpenShift Route is watched.
EditGateway ==
    /\ Disturb("gateway")
    /\ \E n \in GwNs : \E g \in Gateways \ {gateway[n]} : gateway' = [gateway EXCEPT ![n] = g]
    /\ UNCHANGED <<versions, fresh, aitenant, dsci, services, source, redis, bundle, outVars,
                   queued, timer, workVars>>

\* maasTenantConfigForDSCI, when the watch was set up.
EditDsci ==
    /\ Disturb("dsci")
    /\ dsci' \in (DashNs \cup {None}) \ {dsci} /\ queued' = (queued \/ DsciWatched)
    /\ UNCHANGED <<versions, fresh, aitenant, gateway, services, source, redis, bundle, outVars,
                   timer, workVars>>

\* maasTenantConfigForPortalService.
EditService ==
    /\ Disturb("service")
    /\ \E n \in DashNs : services' = IF n \in services THEN services \ {n} ELSE services \cup {n}
    /\ queued' = TRUE
    /\ UNCHANGED <<versions, fresh, aitenant, gateway, dsci, source, redis, bundle, outVars,
                   timer, workVars>>

\* maasTenantConfigForSecret: the client Secret by the reference of the cached
\* AITenant, the Redis and the credentials Secret by name.
EditSource ==
    /\ Disturb("source")
    /\ source' \in (Data \cup {None}) \ {source} /\ queued' = (queued \/ aitenant.ref)
    /\ UNCHANGED <<versions, fresh, aitenant, gateway, dsci, services, redis, bundle, outVars,
                   timer, workVars>>

EditRedis ==
    /\ Disturb("redis")
    /\ \E n \in InfraNs : \E d \in (Data \cup {None}) \ {redis[n]} :
          redis' = [redis EXCEPT ![n] = d]
    /\ queued' = TRUE
    /\ UNCHANGED <<versions, fresh, aitenant, gateway, dsci, services, source, bundle, outVars,
                   timer, workVars>>

\* Fault: bundles are not mapped to the MTCs of their namespace.
maasTenantConfigForCABundleNone(n) == FALSE

maasTenantConfigForCABundle(n) == cached.infra = n

EditBundle ==
    /\ Disturb("bundle")
    /\ \E n \in InfraNs : \E d \in (Data \cup {None}) \ {bundle[n]} :
          /\ bundle' = [bundle EXCEPT ![n] = d]
          /\ queued' = (queued \/ maasTenantConfigForCABundle(n))
    /\ UNCHANGED <<versions, fresh, aitenant, gateway, dsci, services, source, redis, outVars,
                   timer, workVars>>

\* An administrator makes the credentials Secret, with a cookie secret or
\* without one, or deletes it.
EditCredentials ==
    /\ Disturb("creds")
    /\ \E n \in InfraNs :
          \/ /\ creds[n] # None /\ creds' = [creds EXCEPT ![n] = None] /\ UNCHANGED minted
          \/ \E d \in Data, c \in {0, minted + 1} :
                /\ creds[n] = None
                /\ creds' = [creds EXCEPT ![n] = [client |-> d, cookie |-> c, managed |-> FALSE]]
                /\ minted' = IF c = 0 THEN minted ELSE c
    /\ queued' = TRUE
    /\ UNCHANGED <<versions, fresh, aitenant, inputVars, objs, timer, workVars>>

\* An API call of the worker fails: what it wrote before stays, the reconcile
\* is retried.
Fail ==
    /\ Disturb("fail") /\ pc # "idle"
    /\ \/ pc = "apply" /\ (\E k \in 0..4 : objs' = Applied(k)) /\ UNCHANGED creds
       \/ pc = "clean" /\ (\E k \in 0..5 : objs' = Remaining(k) /\ creds' = RemainingCreds(k))
       \/ pc \notin {"apply", "clean"} /\ UNCHANGED <<objs, creds>>
    /\ queued' = (queued \/ RouteEvent)
    /\ End(TRUE, FALSE)
    /\ UNCHANGED <<versions, aitenant, inputVars, minted, stale>>

\* A new process lists the MTC, which queues it, and has no timers.
Restart ==
    /\ Disturb("restart")
    /\ versions' = <<live>> /\ queued' = TRUE
    /\ pc' = "idle" /\ snap' = NoMtc /\ ten' = NoTenant /\ plan' = NoParams
    /\ fresh' = FALSE /\ timer' = FALSE /\ applied' = FALSE
    /\ UNCHANGED <<aitenant, inputVars, outVars, stale>>

Env ==
    \/ EditAITenant \/ DeleteMtc \/ CreateMtc \/ EditMtc \/ EditGateway \/ EditDsci
    \/ EditService \/ EditSource \/ EditRedis \/ EditBundle \/ EditCredentials
    \/ Fail \/ Restart

-----------------------------------------------------------------------------
\* A cluster where the portal was never deployed.
Init ==
    /\ versions = <<[NoMtc EXCEPT !.phase = "live", !.default = TRUE]>>
    /\ aitenant \in Tenants
    /\ \E g \in Gateways : gateway = [n \in GwNs |-> g]
    /\ dsci = None /\ services = {DefaultDash}
    /\ source = CHOOSE d \in Data : TRUE
    /\ redis = [n \in InfraNs |-> None] /\ bundle = [n \in InfraNs |-> None]
    /\ creds = [n \in InfraNs |-> None] /\ minted = 0 /\ objs = {}
    /\ queued = TRUE /\ timer = FALSE
    /\ pc = "idle" /\ snap = NoMtc /\ ten = NoTenant /\ plan = NoParams
    /\ fresh = FALSE /\ applied = FALSE /\ stale = FALSE /\ disturb = 0

Next == Worker \/ Deliver \/ Tick \/ Env

Spec == Init /\ [][Next]_vars

\* The worker runs while it has work, watches deliver, timers fire.
Fairness == WF_vars(Worker) /\ WF_vars(Deliver) /\ WF_vars(Tick)

FairSpec == Spec /\ Fairness

-----------------------------------------------------------------------------
(***************************************************************************)
(* Properties.                                                             *)
(***************************************************************************)
\* Types.  In particular the callback's host of everything deployed is an
\* external, concrete name, whatever listeners, addresses and Routes say: a
\* wildcard or a cluster-internal address never becomes the callback.
TypeOK ==
    /\ versions \in Seq(Mtc) /\ Len(versions) \in 1..(MaxLag + 1)
    /\ aitenant \in Tenants \cup {NoTenant} /\ gateway \in [GwNs -> Gateways]
    /\ dsci \in DashNs \cup {None} /\ services \subseteq DashNs
    /\ source \in Data \cup {None}
    /\ redis \in [InfraNs -> Data \cup {None}] /\ bundle \in [InfraNs -> Data \cup {None}]
    /\ creds \in [InfraNs -> Cred \cup {None}] /\ minted \in Nat
    /\ objs \subseteq Object
    /\ queued \in BOOLEAN /\ timer \in BOOLEAN /\ fresh \in BOOLEAN /\ applied \in BOOLEAN
    /\ stale \in BOOLEAN
    /\ pc \in Pc /\ snap \in Mtc /\ ten \in Tenants \cup {NoTenant}
    /\ disturb \in 0..MaxDisturb

\* What the reconciler made in the three namespaces is guarded by the
\* finalizer (CleanupFinalizer), whatever failed, was retried or was edited
\* between its steps: the MTC cannot disappear, and the portal cannot be
\* disabled, leaving any of it behind.  Of clusters whose infrastructure
\* namespace never changes, and until a reconcile takes the cache's word for a
\* finalizer that is gone.
NothingOrphaned ==
    ~stale /\ (objs # {} \/ \E n \in InfraNs : creds[n] # None /\ creds[n].managed) => live.fin

\* reconcileCredentials: no step replaces the cookie secret of a Secret it
\* manages ("replacing it signs every user out").
SessionsKept == [][\A n \in InfraNs :
    creds[n] # None /\ creds'[n] # None /\ creds[n].managed
      => creds'[n].cookie = creds[n].cookie]_vars

\* RefreshInterval: every proxy deployed is one that starts.
ProxyCanStart == \A o \in objs : o.of.refresh < o.of.expire

\* The Params of a reconcile that sees the present state.
Current ==
    LET n == live.infra
    IN  [infra |-> n, dash |-> dashboardNamespace, gw |-> aitenant.gw,
         host |-> gatewayHostname(gateway[aitenant.gw]),
         client |-> creds[n].client, cookie |-> creds[n].cookie,
         redis |-> redis[n], bundle |-> bundle[n],
         refresh |-> RefreshInterval(aitenant), expire |-> CookieExpire(aitenant)]

\* SetupWithManager: between reconciles nothing that changes the rendered
\* portal goes without an event, the Gateway's host and an unwatched DSCI
\* aside, which only the resync looks at.
EventsSuffice ==
    pc = "idle" /\ ~queued /\ Len(versions) = 1 /\ applied =>
      LET p == Current
          seen(o) == [o.of EXCEPT !.host = p.host, !.dash = IF DsciWatched THEN @ ELSE p.dash]
      IN  /\ live.infra # None /\ creds[live.infra] # None
          /\ aitenant.ref => source = creds[live.infra].client
          /\ \A i \in 1..5 : \E o \in objs : o.kind = ApplyOrder[i] /\ seen(o) = p

\* When the portal is to be served, and when it is not to be there.
Configured ==
    /\ live.phase = "live" /\ live.default /\ live.infra # None
    /\ aitenant.ready /\ aitenant.enabled /\ aitenant.issuer /\ aitenant.clientId
    /\ aitenant.gw # None /\ gatewayHostname(gateway[aitenant.gw]) # None
Served ==
    /\ Configured /\ dashboardNamespace \in services
    /\ IF aitenant.ref THEN source # None ELSE creds[live.infra] # None
Removed ==
    \/ live.phase # "live" \/ ~live.default
    \/ aitenant.ready /\ ~(aitenant.enabled /\ aitenant.issuer)
    \/ Configured /\ dashboardNamespace \notin services

\* Once nobody changes anything, a portal to be served is deployed in full
\* from the present inputs with one ReferenceGrant, and one that is not to be
\* there has left nothing, the administrator's Secret aside.
Converges ==
    /\ <>[](Served =>
              /\ creds[live.infra] # None
              /\ \A i \in 1..5 : Render(Current, ApplyOrder[i]) \in objs
              /\ aitenant.ref => creds[live.infra].client = source
              /\ \A o \in objs : o.kind = "grant" => o.ns = dashboardNamespace)
    /\ <>[](Removed /\ ~stale => objs = {} /\ \A n \in InfraNs : creds[n] = None \/ ~creds[n].managed)
=============================================================================
