--------------------------- MODULE GuardrailBinding ---------------------------
(***************************************************************************)
(* From an AIGuardrail to the checks a tenant's dataplane enforces: the    *)
(* guardrail reconciler (pkg/guardrail), which judges a policy against its *)
(* NemoGuardrails provider and writes the verdict in the policy's status,  *)
(* and the guardrail part of the tenant reconciler (pkg/tenant/            *)
(* nemocaller.go, catalog.go), which compiles that status into callouts.   *)
(*                                                                         *)
(* The policy is read from the informer cache, its provider, the consumer  *)
(* Namespace and the tenant's translation setting live, each by a call of  *)
(* its own.  The verdict is a merge patch against the cached copy, without *)
(* an optimistic lock: only fields that differ from that copy are sent.    *)
(* One policy, one tenant; work queues are a flag, set again while a       *)
(* reconcile runs if an event arrives.                                     *)
(***************************************************************************)
EXTENDS Naturals, Sequences

CONSTANTS
    Providers,   \* NemoGuardrails names
    Specs,       \* AIGuardrail specs: prov, checks (name -> configId), output, fine
    Configs,     \* configuration names a provider may declare
    Places,      \* AI Gateway infrastructure namespaces
    Home,        \* the tenant's own, one of Places
    None,        \* no endpoint, no revision, nothing read
    MaxLag,      \* how many policy versions the cache may trail
    Kinds,       \* which disturbances happen
    MaxDisturb   \* how many of them

CheckNames == UNION {DOMAIN s.checks : s \in Specs}

ASSUME SpecAssumption ==
    /\ Specs # {}
    /\ \A s \in Specs : /\ s.prov \in Providers /\ s.output \in BOOLEAN /\ s.fine \in BOOLEAN
                        /\ \A k \in DOMAIN s.checks : s.checks[k] \in Configs
ASSUME PlaceAssumption == Home \in Places /\ None \notin Places
ASSUME BoundAssumption == MaxLag \in Nat /\ MaxDisturb \in Nat

VARIABLES
    versions,    \* AIGuardrail versions from the cached one to the live one
    prov,        \* NemoGuardrails objects; uid 0: does not exist
    label,       \* the consumer Namespace carries the selected label
    crd,         \* the API server serves the NemoGuardrails kind
    mapper,      \* the RESTMapper has resolved the kind
    watching,    \* the provider watch was registered at startup
    trans,       \* spec.apiTranslation of the MaasTenantConfig
    transCache,  \* the same in the informer cache
    selected,    \* checks of the policy that attachments select
    provEvents,  \* providers with an undelivered event
    nsEvent,     \* a Namespace label event is undelivered
    transEvent,  \* a MaasTenantConfig event is undelivered
    drift,       \* a change no watch reports
    gq, tq,      \* the policy, the tenant is queued
    gw, tw,      \* the guardrail worker, the tenant worker
    catalog,     \* the checks published in the tenant's configuration
    disturb      \* disturbances so far

polVars == versions
inputVars == <<prov, label, crd, trans, selected>>
eventVars == <<provEvents, nsEvent, transEvent, drift, transCache>>
vars == <<versions, prov, label, crd, mapper, watching, trans, transCache, selected,
          provEvents, nsEvent, transEvent, drift, gq, tq, gw, tw, catalog, disturb>>

CondTypes == {"refs", "compat", "ready", "accepted"}
NoCond == [st |-> "none", gen |-> 0, why |-> "none"]
NoStatus == [obs |-> 0, cond |-> [t \in CondTypes |-> NoCond], rev |-> None, endpoint |-> None]
AnySpec == CHOOSE s \in Specs : TRUE
NoPolicy == [phase |-> "gone", gen |-> 0, spec |-> AnySpec, st |-> NoStatus]
NoProvider == [uid |-> 0, allow |-> "closed", configs |-> {}, place |-> None]

cached == versions[1]
live == versions[Len(versions)]

-----------------------------------------------------------------------------
(***************************************************************************)
(* What a reader of the policy concludes from its status.                  *)
(***************************************************************************)
\* acceptedCondition: Accepted is True on a policy that is not deleted.
AcceptedTrue(p) == p.phase = "live" /\ p.st.cond["accepted"].st = "true"

BindingAccepted(p) ==
    AcceptedTrue(p) /\ p.st.cond["accepted"].gen = p.gen /\ p.st.rev # None

BindingStale(p) == AcceptedTrue(p) /\ p.st.cond["accepted"].gen # p.gen

\* Fault: the endpoint is not part of what wakes the tenant, nor the revision.
CalloutInputsWithoutStatus(p) == <<p.gen, p.phase = "deleting">>

\* calloutInputs
CalloutInputs(p) ==
    <<p.gen, p.phase = "deleting", BindingAccepted(p), p.st.rev, p.st.endpoint>>

\* nemoCalloutChanged; creation and deletion always pass.
CalloutChanged(old, new) ==
    \/ "gone" \in {old.phase, new.phase} /\ old # new
    \/ CalloutInputs(old) # CalloutInputs(new)

(***************************************************************************)
(* Writes of the policy append a version; the cache trails by at most      *)
(* MaxLag.  A version that reaches the cache queues the policy, and the    *)
(* tenant if its predicate lets the event through.                         *)
(***************************************************************************)
Arrive(vs) ==
    /\ versions' = Tail(vs)
    /\ gq' = TRUE
    /\ tq' = (tq \/ CalloutChanged(vs[1], vs[2]))

Write(p) ==
    LET vs == Append(versions, p)
    IN  IF Len(vs) > MaxLag + 1
        THEN Arrive(vs)
        ELSE versions' = vs /\ UNCHANGED <<gq, tq>>

Deliver ==
    /\ Len(versions) > 1 /\ Arrive(versions)
    /\ UNCHANGED <<inputVars, eventVars, mapper, watching, gw, tw, catalog, disturb>>

\* Fault: only accepted policies are woken.
DeliverProviderToAccepted(p) ==
    /\ p \in provEvents /\ provEvents' = provEvents \ {p}
    /\ gq' = (gq \/ (BindingAccepted(cached) /\ cached.spec.prov = p))
    /\ UNCHANGED <<polVars, inputVars, nsEvent, transEvent, drift, transCache, mapper, watching,
                   tq, gw, tw, catalog, disturb>>

\* guardrailsForProvider: the policies the index holds under this provider.
DeliverProvider(p) ==
    /\ p \in provEvents /\ provEvents' = provEvents \ {p}
    /\ gq' = (gq \/ (cached.phase # "gone" /\ cached.spec.prov = p))
    /\ UNCHANGED <<polVars, inputVars, nsEvent, transEvent, drift, transCache, mapper, watching,
                   tq, gw, tw, catalog, disturb>>

\* guardrailsInNamespace
DeliverNamespace ==
    /\ nsEvent /\ nsEvent' = FALSE
    /\ gq' = TRUE
    /\ UNCHANGED <<polVars, inputVars, provEvents, transEvent, drift, transCache, mapper, watching,
                   tq, gw, tw, catalog, disturb>>

\* The MaasTenantConfig event wakes both controllers (guardrailsBesideTenantConfig).
DeliverTranslation ==
    /\ transEvent /\ transEvent' = FALSE /\ transCache' = trans
    /\ gq' = TRUE /\ tq' = TRUE
    /\ UNCHANGED <<polVars, inputVars, provEvents, nsEvent, drift, mapper, watching,
                   gw, tw, catalog, disturb>>

\* RequeueAfter the resync interval.
Resync ==
    /\ gq' = TRUE /\ drift' = FALSE
    /\ UNCHANGED <<polVars, inputVars, provEvents, nsEvent, transEvent, transCache, mapper, watching,
                   tq, gw, tw, catalog, disturb>>

-----------------------------------------------------------------------------
(***************************************************************************)
(* The guardrail worker: Reconcile of the policy.                          *)
(***************************************************************************)
GwIdle == [pc |-> "idle", snap |-> NoPolicy, seen |-> NoProvider, out |-> NoStatus]

Cond(s, g, w) == [st |-> s, gen |-> g, why |-> w]

\* refuse: Accepted=False, no revision and no endpoint; the other conditions
\* stay as the caller left them.
Refuse(p, cond, why) ==
    [obs |-> p.gen, cond |-> [cond EXCEPT !["accepted"] = Cond("false", p.gen, why)],
     rev |-> None, endpoint |-> None]

\* Fault: a denial leaves Compatible and ProviderReady as they were.
DenyBindingKeeping(p, why) ==
    Refuse(p, [t \in CondTypes |->
        IF t = "refs" THEN Cond("false", p.gen, why)
        ELSE IF p.st.cond[t].st = "none" THEN Cond("unknown", p.gen, why) ELSE p.st.cond[t]], why)

\* denyBinding: Compatible and ProviderReady are reset.
DenyBinding(p, why) ==
    Refuse(p, [t \in CondTypes |->
        IF t = "refs" THEN Cond("false", p.gen, why) ELSE Cond("unknown", p.gen, why)], why)

\* computeBindingRevision: the digest stands for what it digests.
BindingRevision(p, n) ==
    [uid |-> n.uid, prov |-> p.spec.prov, place |-> n.place, allow |-> n.allow,
     configs |-> n.configs]

\* evaluateCompatible and evaluateNemoReady
Compatible(p, n) == \A k \in DOMAIN p.spec.checks : p.spec.checks[k] \in n.configs
NemoReady(n) == n.place # None

\* Accepted=True, with the endpoint and the revision of the binding.
Accept(p, n, cond) ==
    [obs |-> p.gen, cond |-> [cond EXCEPT !["accepted"] = Cond("true", p.gen, "accepted")],
     rev |-> BindingRevision(p, n), endpoint |-> <<p.spec.prov, n.place>>]

\* Fault: an undiscovered endpoint does not refuse the policy.
JudgeWithoutReadiness(p, n) ==
    IF ~Compatible(p, n) THEN Refuse(p, p.st.cond, "config") ELSE Accept(p, n, p.st.cond)

\* What Reconcile computes from an authorised provider.
Judge(p, n) ==
    LET Is(b, why) == Cond(IF b THEN "true" ELSE "false", p.gen, why)
        cond == [p.st.cond EXCEPT !["refs"] = Is(TRUE, "authorized"),
                                  !["compat"] = Is(Compatible(p, n), "checks"),
                                  !["ready"] = Is(NemoReady(n), "endpoint")]
    IN  IF ~Compatible(p, n) THEN Refuse(p, cond, "config")
        ELSE IF ~NemoReady(n) THEN Refuse(p, cond, "notready")
        ELSE Accept(p, n, cond)

\* providerCRDInstalled: the mapper reloads discovery on a miss only.
CrdInstalled == mapper \/ crd

\* providerCRDServed
CrdServed == crd

\* allowedConsumers.allows
Allows(n) == n.allow = "open" \/ (n.allow = "selector" /\ label)

gFrame == <<polVars, inputVars, eventVars, watching, tq, tw, catalog, disturb>>
Conclude(p, st) == gw' = [pc |-> "patch", snap |-> p, seen |-> NoProvider, out |-> st]

\* The policy is read from the cache, the mapper asked, the timeout and the
\* phases compared with what the dataplane can do.
StartGuardrail ==
    LET p == cached
    IN
    /\ gw.pc = "idle" /\ gq
    /\ gq' = FALSE
    /\ \/ p.phase = "gone" /\ UNCHANGED <<mapper, gw>>
       \/ /\ p.phase # "gone"
          /\ mapper' = CrdInstalled
          /\ \/ ~mapper' /\ Conclude(p, DenyBinding(p, "crd"))
             \/ mapper' /\ p.spec.fine /\ Conclude(p, Refuse(p, p.st.cond, "timeout"))
             \/ /\ mapper' /\ ~p.spec.fine /\ p.spec.output /\ trans
                /\ Conclude(p, Refuse(p, p.st.cond, "output"))
             \/ /\ mapper' /\ ~p.spec.fine /\ ~(p.spec.output /\ trans)
                /\ gw' = [pc |-> "provider", snap |-> p, seen |-> NoProvider, out |-> NoStatus]
    /\ UNCHANGED gFrame

\* Live Get of the provider, discovery if it is absent, parseAllowedConsumers.
ReadProvider ==
    LET p == gw.snap
        n == prov[p.spec.prov]
    IN
    /\ gw.pc = "provider"
    /\ \/ /\ n.uid = 0
          /\ Conclude(p, DenyBinding(p, IF CrdServed THEN "missing" ELSE "crd"))
       \/ n.uid # 0 /\ n.allow = "closed" /\ Conclude(p, DenyBinding(p, "denied"))
       \/ n.uid # 0 /\ n.allow = "open" /\ Conclude(p, Judge(p, n))
       \/ n.uid # 0 /\ n.allow = "selector" /\ gw' = [gw EXCEPT !.pc = "namespace", !.seen = n]
    /\ UNCHANGED <<gFrame, gq, mapper>>

\* Selector mode: live Get of the consumer Namespace.
ReadNamespace ==
    /\ gw.pc = "namespace"
    /\ LET p == gw.snap
           n == gw.seen
       IN  Conclude(p, IF Allows(n) THEN Judge(p, n) ELSE DenyBinding(p, "denied"))
    /\ UNCHANGED <<gFrame, gq, mapper>>

\* client.MergeFrom(original): a field is sent if it differs from the original's.
Merge(onto, original, computed) ==
    LET Field(f) == IF computed[f] # original[f] THEN computed[f] ELSE onto[f]
    IN  [obs |-> Field("obs"), cond |-> Field("cond"), rev |-> Field("rev"),
         endpoint |-> Field("endpoint")]

\* Status().Patch by name; an error, NotFound included, is retried.
PatchStatus ==
    LET st == Merge(live.st, gw.snap.st, gw.out)
    IN
    /\ gw.pc = "patch" /\ gw' = GwIdle
    /\ \/ live.phase = "gone" /\ gq' = TRUE /\ UNCHANGED <<versions, tq>>
       \/ live.phase # "gone" /\ st = live.st /\ UNCHANGED <<versions, gq, tq>>
       \/ live.phase # "gone" /\ st # live.st /\ Write([live EXCEPT !.st = st])
    /\ UNCHANGED <<inputVars, eventVars, mapper, watching, tw, catalog, disturb>>

GuardrailWorker == StartGuardrail \/ ReadProvider \/ ReadNamespace \/ PatchStatus

-----------------------------------------------------------------------------
(***************************************************************************)
(* The tenant worker: acceptedNemoCallouts, pinNemoCalloutsToInfra and     *)
(* what it publishes.  A closed check rejects the request selecting it.    *)
(***************************************************************************)
TwIdle == [pc |-> "idle", out |-> {}]
ClosedCheck(k) == [check |-> k, config |-> None, call |-> None]

\* nemoCalloutFrom: the endpoint is a Service of the provider the spec names.
CalloutBuilds(p) == ~p.spec.fine /\ p.st.endpoint[1] = p.spec.prov

\* pinNemoCalloutsToInfra
InInfra(endpoint) == endpoint[2] = Home

Callable(p, translated) ==
    /\ BindingAccepted(p) /\ p.st.endpoint # None
    /\ CalloutBuilds(p) /\ InInfra(p.st.endpoint)
    /\ ~(p.spec.output /\ translated)

\* applyAttachmentOrder, selectCalloutChecks: the declared checks among those
\* the attachments select.
SelectChecks(p, names) == names \cap DOMAIN p.spec.checks

\* acceptedNemoCallouts: each selected check is called or closed.
Callouts(p, translated, names) ==
    IF p.phase = "gone"
    THEN {}
    ELSE {IF Callable(p, translated)
          THEN [check |-> k, config |-> p.spec.checks[k], call |-> p.st.endpoint]
          ELSE ClosedCheck(k) : k \in SelectChecks(p, names)}

tFrame == <<polVars, inputVars, eventVars, mapper, watching, gq, gw, disturb>>

\* A stale binding keeps the published checks and requeues.
CompileCatalog ==
    /\ tw.pc = "idle" /\ tq
    /\ \/ selected # {} /\ BindingStale(cached) /\ UNCHANGED <<tq, tw>>
       \/ /\ selected = {} \/ ~BindingStale(cached)
          /\ tq' = FALSE
          /\ tw' = [pc |-> "publish", out |-> Callouts(cached, transCache, selected)]
    /\ UNCHANGED <<tFrame, catalog>>

\* render.Apply of the post-auth configuration.
PublishCatalog ==
    /\ tw.pc = "publish" /\ tw' = TwIdle
    /\ catalog' = tw.out
    /\ UNCHANGED <<tFrame, tq>>

TenantWorker == CompileCatalog \/ PublishCatalog

-----------------------------------------------------------------------------
(***************************************************************************)
(* Disturbances.                                                           *)
(***************************************************************************)
Disturb(kind) == kind \in Kinds /\ disturb < MaxDisturb /\ disturb' = disturb + 1
workFrame == <<mapper, watching, gw, tw, catalog>>

EditPolicy ==
    /\ Disturb("spec") /\ live.phase # "gone"
    /\ \E s \in Specs \ {live.spec} : Write([live EXCEPT !.gen = @ + 1, !.spec = s])
    /\ UNCHANGED <<inputVars, eventVars, workFrame>>

\* Deleted at once, or held by somebody's finalizer first.
DeletePolicy ==
    /\ Disturb("delete") /\ live.phase # "gone"
    /\ \/ Write(NoPolicy)
       \/ live.phase = "live" /\ Write([live EXCEPT !.phase = "deleting", !.gen = @ + 1])
    /\ UNCHANGED <<inputVars, eventVars, workFrame>>

CreatePolicy ==
    /\ Disturb("create") /\ live.phase = "gone"
    /\ \E s \in Specs : Write([phase |-> "live", gen |-> 1, spec |-> s, st |-> NoStatus])
    /\ UNCHANGED <<inputVars, eventVars, workFrame>>

\* A provider changes: an event if it is watched, drift otherwise.
Notice(p) ==
    IF watching
    THEN provEvents' = provEvents \cup {p} /\ UNCHANGED drift
    ELSE drift' = TRUE /\ UNCHANGED provEvents

EditProvider ==
    /\ Disturb("provider") /\ crd
    /\ \E p \in Providers :
         /\ Notice(p)
         /\ \/ \E a \in {"open", "selector", "closed"} :
                 prov[p].uid # 0 /\ prov' = [prov EXCEPT ![p].allow = a]
            \/ \E c \in SUBSET Configs : prov[p].uid # 0 /\ prov' = [prov EXCEPT ![p].configs = c]
            \/ \E l \in Places \cup {None} : prov[p].uid # 0 /\ prov' = [prov EXCEPT ![p].place = l]
            \/ prov[p].uid # 0 /\ prov' = [prov EXCEPT ![p] = NoProvider]
            \/ prov' = [prov EXCEPT ![p] = [uid |-> disturb + 2, allow |-> "open",
                                            configs |-> Configs, place |-> Home]]
    /\ prov' # prov
    /\ UNCHANGED <<polVars, label, crd, trans, selected, nsEvent, transEvent, transCache, gq, tq, workFrame>>

RelabelNamespace ==
    /\ Disturb("label")
    /\ label' = ~label /\ nsEvent' = TRUE
    /\ UNCHANGED <<polVars, prov, crd, trans, selected, provEvents, transEvent, drift, transCache, gq, tq, workFrame>>

\* The CRD comes or goes, and with it every provider.
ChangeCrd ==
    /\ Disturb("crd")
    /\ crd' = ~crd /\ drift' = TRUE
    /\ prov' = [p \in Providers |-> NoProvider]
    /\ provEvents' = IF watching THEN {p \in Providers : prov[p].uid # 0} \cup provEvents
                     ELSE provEvents
    /\ UNCHANGED <<polVars, label, trans, selected, nsEvent, transEvent, transCache, gq, tq, workFrame>>

EditTranslation ==
    /\ Disturb("translation")
    /\ trans' = ~trans /\ transEvent' = TRUE
    /\ UNCHANGED <<polVars, prov, label, crd, selected, provEvents, nsEvent, drift, transCache,
                   gq, tq, workFrame>>

\* An attachment is edited; its watch wakes the tenant with the cached change.
EditAttachment ==
    /\ Disturb("attach")
    /\ \E s \in SUBSET CheckNames : s # selected /\ selected' = s
    /\ tq' = TRUE
    /\ UNCHANGED <<polVars, prov, label, crd, trans, eventVars, gq, workFrame>>

\* An API call fails: the work queue retries.
FailGuardrail ==
    /\ Disturb("fail") /\ gw.pc # "idle"
    /\ gw' = GwIdle /\ gq' = TRUE
    /\ UNCHANGED <<polVars, inputVars, eventVars, mapper, watching, tq, tw, catalog>>

FailTenant ==
    /\ Disturb("fail") /\ tw.pc # "idle"
    /\ tw' = TwIdle /\ tq' = TRUE
    /\ UNCHANGED <<polVars, inputVars, eventVars, mapper, watching, gq, gw, catalog>>

\* The process restarts: caches are listed anew and everything is queued.
Restart ==
    /\ Disturb("restart")
    /\ versions' = <<live>> /\ transCache' = trans
    /\ mapper' = crd /\ watching' = crd
    /\ provEvents' = {} /\ nsEvent' = FALSE /\ transEvent' = FALSE /\ drift' = FALSE
    /\ gq' = TRUE /\ tq' = TRUE /\ gw' = GwIdle /\ tw' = TwIdle
    /\ UNCHANGED <<inputVars, catalog>>

Environment ==
    \/ EditPolicy \/ DeletePolicy \/ CreatePolicy \/ EditProvider \/ RelabelNamespace
    \/ ChangeCrd \/ EditTranslation \/ EditAttachment \/ FailGuardrail \/ FailTenant \/ Restart

-----------------------------------------------------------------------------
\* An accepted policy in a settled tenant, or a refused one: no TrustyAI, or a
\* timeout too fine.
InitStatus(p) ==
    IF ~crd THEN DenyBinding(p, "crd")
    ELSE IF p.spec.fine THEN Refuse(p, p.st.cond, "timeout") ELSE Judge(p, prov[p.spec.prov])

Init ==
    /\ crd \in BOOLEAN
    /\ prov = [p \in Providers |->
                 IF crd THEN [uid |-> 1, allow |-> "selector", configs |-> Configs, place |-> Home]
                 ELSE NoProvider]
    /\ \E s \in Specs :
         LET p == [phase |-> "live", gen |-> 1, spec |-> s, st |-> NoStatus]
             settled == [p EXCEPT !.st = InitStatus(p)]
         IN  /\ versions = <<settled>>
             /\ catalog = Callouts(settled, FALSE, CheckNames)
    /\ label = TRUE /\ mapper = crd /\ watching = crd
    /\ trans = FALSE /\ transCache = FALSE
    /\ selected = CheckNames
    /\ provEvents = {} /\ nsEvent = FALSE /\ transEvent = FALSE /\ drift = FALSE
    /\ gq = FALSE /\ tq = FALSE /\ gw = GwIdle /\ tw = TwIdle
    /\ disturb = 0

Events == \/ Deliver \/ DeliverNamespace \/ DeliverTranslation
          \/ \E p \in Providers : DeliverProvider(p)

Next == GuardrailWorker \/ TenantWorker \/ Events \/ Resync \/ Environment

Spec == Init /\ [][Next]_vars

(***************************************************************************)
(* Fairness: both work queues are served, watches deliver, and the resync  *)
(* is relied on only for what no watch reports.                            *)
(***************************************************************************)
Fairness ==
    /\ WF_vars(GuardrailWorker) /\ WF_vars(TenantWorker)
    /\ WF_vars(Events) /\ WF_vars(drift /\ Resync)
FairSpec == Spec /\ Fairness

-----------------------------------------------------------------------------
Endpoint == Providers \X Places
Revision == [uid: Nat \ {0}, prov: Providers, place: Places,
             allow: {"open", "selector"}, configs: SUBSET Configs]
ASSUME NoneAssumption == None \notin Endpoint /\ None \notin Revision

Condition == [st: {"none", "true", "false", "unknown"}, gen: Nat,
              why: {"none", "crd", "timeout", "output", "missing", "denied", "config",
                    "notready", "accepted", "authorized", "checks", "endpoint"}]
Status ==
    [obs: Nat, cond: [CondTypes -> Condition],
     rev: Revision \cup {None}, endpoint: Endpoint \cup {None}]
Policy == [phase: {"live", "deleting", "gone"}, gen: Nat, spec: Specs, st: Status]
Provider == [uid: Nat, allow: {"open", "selector", "closed"}, configs: SUBSET Configs,
             place: Places \cup {None}]
Catalog == SUBSET [check: CheckNames, config: Configs \cup {None}, call: Endpoint \cup {None}]

\* Every variable stays in its range: in particular a status never carries an
\* endpoint or a revision of a provider without a discovered endpoint.
TypeOK ==
    /\ versions \in Seq(Policy) /\ Len(versions) \in 1..(MaxLag + 1)
    /\ prov \in [Providers -> Provider]
    /\ label \in BOOLEAN /\ crd \in BOOLEAN /\ mapper \in BOOLEAN /\ watching \in BOOLEAN
    /\ trans \in BOOLEAN /\ transCache \in BOOLEAN /\ nsEvent \in BOOLEAN
    /\ transEvent \in BOOLEAN /\ drift \in BOOLEAN /\ gq \in BOOLEAN /\ tq \in BOOLEAN
    /\ selected \subseteq CheckNames /\ provEvents \subseteq Providers
    /\ gw \in [pc: {"idle", "provider", "namespace", "patch"}, snap: Policy,
                seen: Provider, out: Status]
    /\ tw \in [pc: {"idle", "publish"}, out: Catalog]
    /\ catalog \in Catalog
    /\ disturb \in 0..MaxDisturb

(***************************************************************************)
(* What the inputs alone call for, however the status got there.           *)
(***************************************************************************)
\* The provider exists, permits the namespace, declares the configurations and
\* has an endpoint, and the dataplane can run the policy.
Acceptable(p) ==
    LET n == prov[p.spec.prov]
    IN  /\ n.uid # 0
        /\ n.allow = "open" \/ (n.allow = "selector" /\ label)
        /\ \A k \in DOMAIN p.spec.checks : p.spec.checks[k] \in n.configs
        /\ n.place # None
        /\ ~p.spec.fine /\ ~(p.spec.output /\ trans)

Judged ==
    live.phase # "gone" =>
        /\ live.st.obs = live.gen
        /\ live.st.cond["accepted"].gen = live.gen
        /\ IF Acceptable(live)
           THEN /\ live.st.cond["accepted"].st = "true"
                /\ live.st.endpoint = <<live.spec.prov, prov[live.spec.prov].place>>
                /\ live.st.rev = BindingRevision(live, prov[live.spec.prov])
           ELSE live.st.cond["accepted"].st = "false" /\ live.st.endpoint = None /\ live.st.rev = None

\* Each selected check the policy declares is called where its provider is, if
\* that is the tenant's own infrastructure, and rejects the request otherwise.
Enforced ==
    catalog =
        IF live.phase = "gone" THEN {}
        ELSE {IF live.phase = "live" /\ Acceptable(live) /\ prov[live.spec.prov].place = Home
              THEN [check |-> k, config |-> live.spec.checks[k], call |-> <<live.spec.prov, Home>>]
              ELSE ClosedCheck(k) : k \in selected \cap DOMAIN live.spec.checks}

Quiet ==
    /\ Len(versions) = 1 /\ provEvents = {} /\ ~nsEvent /\ ~transEvent /\ ~drift
    /\ ~gq /\ ~tq /\ gw.pc = "idle" /\ tw.pc = "idle"

\* No wake-up is ever lost: with nothing queued, running or undelivered, the
\* status is the verdict on the current inputs and the catalog enforces it,
\* although reads are separate calls, patches are unlocked and the tenant's
\* predicate nemoCalloutChanged drops events.
NoLostUpdate == Quiet => Judged /\ Enforced

\* However specs, providers, permissions and processes change, once they stop
\* the dataplane ends up enforcing what the inputs call for: a revoked or
\* unready binding is closed, never dropped, and a granted one is called.
Converges == <>[](Judged /\ Enforced)

\* Each condition tells the truth of its own input, not only Accepted: with
\* nothing left to do, references are True iff the provider exists and permits
\* the namespace, and Compatible and ProviderReady are True only with them, so
\* nothing is left over from an earlier verdict (denyBinding). The refusals that
\* Reconcile returns before it reads the provider are exempt.
ConditionsFollow ==
    LET n == prov[live.spec.prov]
        permitted == n.uid # 0 /\ (n.allow = "open" \/ (n.allow = "selector" /\ label))
        True(t) == live.st.cond[t].st = "true"
    IN  Quiet /\ live.phase # "gone" /\ live.st.cond["accepted"].why \notin {"output", "timeout"}
        => /\ \A t \in CondTypes : live.st.cond[t].gen = live.gen
           /\ True("refs") <=> permitted
           /\ True("compat") <=> permitted /\ \A k \in DOMAIN live.spec.checks :
                                                 live.spec.checks[k] \in n.configs
           /\ True("ready") <=> permitted /\ n.place # None

\* constants.go: a condition is authoritative when its observedGeneration is
\* current, and denyBinding resets ProviderReady lest it tell a consumer "that
\* a missing provider is ready".  A refused Output check breaks it: see README.
ReadyMeansReady ==
    /\ Quiet /\ live.phase # "gone"
    /\ live.st.cond["ready"].st = "true" /\ live.st.cond["ready"].gen = live.gen
    => prov[live.spec.prov].uid # 0
=============================================================================
