# Formal models of ai-gateway-controller

TLA+ specifications of the controller's core: how a tenant's dataplane changes
hands, what the dataplane's installation consists of and how it follows its
settings, how models and providers are served and withdrawn, how a tenant shares
its overlay with models of other namespaces and how that overlay is published,
how guardrail policies become enforced checks, and how the consumer portal is
deployed. TLC checks them on small instances; TLAPS proves the theorems listed
below for every instance.

    cd tla
    tlc -config HandoffPatient.cfg MC_TenantHandoff      # one of the runs
    tlapm TenantHandoffProofs.tla                        # the proofs

`PROJECT.json` lists components, runs, the map from definitions to source lines,
hazards, findings, theorems, and for each property a mutant (a plausible bug of
the code, defined in the module with the comment "Fault") that breaks it.

## 1. The system

Every component is a controller-runtime reconciler: a work queue served by one
worker, watches that fill it, reads from an informer cache (or live, through
`APIReader`), and one API call per write. There are no locks between
controllers; they meet in Kubernetes objects.

| Component | State it keeps | Operations | What is hard |
|---|---|---|---|
| Tenant reconciler (`pkg/tenant/reconciler.go`, `migration.go`, `ownership.go`, `plugins_migration.go`) | status annotation and cleanup finalizer of the MaasTenantConfig, the objects of the Praxis dataplane | reconcile with Praxis selected, with IPP selected, with the MaasTenantConfig deleted | maas-controller deploys under the same names; cached reads; failures between calls; the AITenant changing during a reconcile |
| Model reconciler (`pkg/controller/reconciler.go`, `withdrawal.go`) | HTTPRoutes, the routing overlay, the drain annotation, finalizers of ExternalModels | resolve, apply, publish, staged withdrawal, immediate cleanup, deletion | the overlay, the routes, the pods and requests in flight change at different times |
| Provider reconciler (same files, `provider_endpoint.go`) | Service, ServiceEntry, DestinationRule and finalizer of each ExternalProvider | claim, write transport, report, deletion blocked in use | races with the model worker and with the tenant's selection |
| ExtProc runtime (`pkg/tenant/reconciler.go`, `runtime_inputs.go`) | the Deployment's configuration | resolve runtime candidates, roll out | the withdrawal waits for a rollout derived from the routes it withdraws |
| Guardrail reconciler (`pkg/guardrail`) | status of the AIGuardrail: four conditions, binding revision, endpoint | judge a policy against its NemoGuardrails provider | authorisation inputs change without touching the policy; unlocked patches against a cached copy |
| Guardrail catalog (`pkg/tenant/nemocaller.go`, `catalog.go`) | the checks in the tenant's post-auth configuration | compile accepted callouts, fail closed | a predicate that drops updates; stale acceptances |
| Gateway attachments (`pkg/controller/attachment.go`, `referencegrant.go`) | routes, credential copies and overlay share of models served by another tenant's Gateway | admission oldest first, capacity, garbage collection | capacity limits, two namespaces, partial failure |
| Resolver, envelope (`pkg/resolver`, `pkg/envelope`) | the overlay document, its revision and generation | resolve references, group candidates, weights, digest | rules over revisions |
| Publisher (`pkg/publisher`) | the overlay ConfigMap | compare, render the next revision, apply, clean up | a cached baseline, edits out of band, the last generation |
| Consumer portal (`pkg/consumerportal`) | the portal's objects in three namespaces, its credentials and finalizer | gates, credentials, render, apply, prune, disable | seven inputs with watches of their own; sessions must survive; partial failure |
| Rendering and tunables (`pkg/render`, `pkg/tenant/extproc*.go`, `autoscaling.go`, `rename.go`, `split.go`) | Deployments, configurations, filters, autoscalers of a tenant | resolve settings, render, apply object by object, remove autoscalers | limits computed in three places; an autoscaler that shares a field; pods that read their configuration once |
| Manager, API types | none | wire the process, validate | text, no control |

Interactions. maas-controller (external) and the tenant reconciler hand the
dataplane over through the annotation `payload-processing-status`. The model and
provider reconcilers read the tenant's selection before every write. The model
reconciler publishes the overlay that the ExtProc pods load, and reads pods and
their logs to learn when a withdrawal is safe; the tenant reconciler rolls the
pods out. The guardrail reconciler writes the status that the tenant reconciler
compiles into checks. The portal reconciler shares the MaasTenantConfig with the
tenant reconciler, each with a finalizer of its own.

## 2. Modules

| Module | Models | Used by |
|---|---|---|
| `TenantHandoff` | tenant reconciler, maas-controller, API server and caches | `MC_TenantHandoff`, `TenantHandoffProofs` |
| `DataplaneSwap` | abstract specification: what a tenant sees of the swap | refined by `TenantHandoff` |
| `ModelServing` | model, provider and runtime reconcilers, pods, requests, time | `MC_ModelServing`, `ModelServingProofs` |
| `Overlay` | pure: resolution of references, exclusion, admission, rendering of the overlay | `TenantOverlay` |
| `TenantOverlay` | home and attachment paths writing one tenant's overlay, routes, credential copies | `MC_TenantOverlay`, `TenantOverlayProofs`, `TenantSettledProofs` |
| `GuardrailBinding` | guardrail reconciler and the catalog part of the tenant reconciler | `MC_GuardrailBinding`, `GuardrailBindingProofs` |
| `OverlayPublisher` | publication of the overlay ConfigMap | `MC_OverlayPublisher`, `OverlayPublisherProofs` |
| `OverlayDocument` | abstract specification: the chain of revisions a reader of the overlay sees | refined by `OverlayPublisher` |
| `PraxisInstall` | settings, rendering, apply and autoscaling of the Praxis dataplane, down to the pods | `MC_PraxisInstall`, `PraxisInstallProofs` |
| `ConsumerPortal` | portal reconciler, its inputs and their watches | `MC_ConsumerPortal`, `ConsumerPortalProofs` |
| `TenantHandoffProofs`, `ModelServingProofs`, `TenantOverlayProofs`, `TenantSettledProofs`, `GuardrailBindingProofs`, `OverlayPublisherProofs`, `PraxisInstallProofs`, `ConsumerPortalProofs` | theorems | tlapm |

### TenantHandoff

`versions` is the MaasTenantConfig from the cached version to the live one, so
that `cached` may trail `live` by `MaxLag` writes; `fresh` says whether a patch
with the reconcile's resourceVersion would succeed. `obj` gives the owner of each
name in each Gateway namespace. `pc` and the worker's copies (`snap`, `atSnap`,
`todo`, `rendered`) are the local state of one reconcile. One action is one API
call with everything the code does up to the next one:

* `Dispatch` is the branch at the head of `Reconcile`; `EnsureFinalizer`,
  `ResolveOwner`, `EnsurePraxisMayDeploy`, `ResolveRuntime`,
  `PruneExternalModel`, `WaitForForeignOwnership`, `PluginsGate`, `Fence` and
  `Apply` are `reconcilePraxis` in its order;
* `ResolveOwnedForCleanup`, `Cleanup`, `MarkCleanupComplete` and
  `RemoveFinalizer` are `reconcileNotPraxis` and `reconcileDelete`;
* `Maas*`, `PublishAITenant`, `MtcGone` and `MtcCreate` are external, modelled
  from how the code and DESIGN.md use them.

### ModelServing

A candidate is a pair of a model and a provider; a rule, an overlay entry and a
runtime entry are sets of candidates. `mw` and `pw` are the two workers. `drain`
is the annotation that persists the drain: the overlay revision it was started
for (a digest, so the candidate set itself) and the time left. `pods` records for each replica the overlay it serves,
the configuration it runs and whether its log still shows the revision. `infl`
is the life left to the youngest request of a candidate; a request starts only
where a pod selects the candidate and rule and transport exist. HTTPRoutes are
deleted one model at a time, and a provider's transport is written one call after
the live look at the tenant (`LivePraxisBeforeWrite`, `WriteTransport`). Caches are
current in this module: the staleness the code meets here is that of values read
earlier in the same pass, which the workers' copies express.

### Overlay and TenantOverlay

`ModelServing` follows one home model's withdrawal down to pods and requests;
`TenantOverlay` follows the overlay that home and attached models share, with
what `ModelServing` leaves out: names, weights, formats, grants, credentials and
capacity. `Overlay` holds the pure part. `Outcome` is the order of tests of
`resolve`; `Rejected`, `Holder`, `Mine` and `Excluded` decide which models may
be published; `Admission` is `admitAttachments`, oldest first, with `Room` for
what the older ones leave; `Render` turns
kept candidates and routes into candidates with group, weight and profile, and
a policy.

`spec` and `world` are what users change. `overlay` is the published document,
`running` what the pods serve, `drain` the overlay the drain annotation is
about. `rules` are the own models' HTTPRoute rules, `route` the attached models'
HTTPRoutes with the Gateway's verdict, the withdrawal annotation (`evidence`)
and the credential-copy annotation (`uses`), `copies` the copied Secrets.
ExternalModel reconciles run one at a time, so there is one `pass`; its fields
are what the code read or decided and uses later. The home path is `HomeStart`
(reads), `HomeWrite` (routes), `HomePublish`, `HomeFinish` (drain, prune,
collect); the attachment path is `AttachStart` (route applied), `CopyCredentials`,
`AttachPublish` (at four places of the pass), `AttachDrain`, `AttachPrune`,
`AttachCollect`, `AttachRemove` and `AttachRelease`. A pass that only returns an
error is not a step. `Fail` is any failing call in between. `Leave` is the end of a
terminating own model, whose queued requests find nothing any more. An attachment
pass that is not excluded either serves its model or, when the route is not
accepted or there is no room, withdraws it (`kind`). `over` is a history variable:
the attached models some admission left out since they were last served.

There are two kinds of initial states: a tenant nothing was done for, and one that
is served as its models say, all of them valid.

Abstractions: one Gateway per attached model, a tenant that stays steady (its
translation flag may change), current caches; DestinationRules, the route
EnvoyFilter, overlay generations, provider transport and status are left out. An
own model that references a foreign provider brings its own Secret. The attachment
pass's candidate list is read together with its admission. When a route is
applied without rules to retain, the withdrawal annotation may stay or go,
depending on who wrote it last (server-side apply or merge patch), so both
happen. Requests in flight are `ModelServing`'s.

### GuardrailBinding

`versions` is the AIGuardrail from the cached to the live one. The provider, the
Namespace and the translation setting are read live, each by its own action
(`StartGuardrail`, `ReadProvider`, `ReadNamespace`), and `PatchStatus` is the
JSON merge patch whose base is the cached copy: `Merge` sends the fields that
differ from it. Conditions are one field, because a merge patch replaces lists
whole. A work queue is a flag; `CalloutChanged` is the predicate of the tenant's
watch. `drift` marks a change no watch reports (the provider watch is only set up
if the CRD exists at startup).

### OverlayPublisher and OverlayDocument

`versions` is the overlay ConfigMap from the cached to the live one, `wanted`
what the tenant's models resolve to. `Reconcile` resolves, `Check` is the live
read of `readPublishedEnvelope`, `Read` is `Publish` up to its comparison (cached
read, verification of label and digest, next generation, `Unchanged` if the bytes
are equal), `Apply` the force-owning write, `CleanupOverlay` and `Delete` the
removal. `Edit` and `Withdraw` change what the models resolve to, to another content
or to nothing. `Meddle` is somebody else editing, unlabelling or deleting the ConfigMap.
A digest is the content it digests. `blind` remembers that the worker acted on a
version that was not the live one; the refinement mapping shows such a state as
`Blind`, of which `OverlayDocument` promises nothing any more: the chain is
claimed up to the first stale read, and no further.

### PraxisInstall

`TenantHandoff` decides whether Praxis may be deployed and takes the objects as
names; `PraxisInstall` takes that decision as given (its gates are one refusal,
`Fail`) and follows the contents. `mtc` holds the settings, `runtime` what the
models ask of the ExternalModel processor. Pure operators translate the settings
as the code does, with defaults, clamps and rejected values:
`resolveIPPWorkloadScaling`, `resolveExtProcMaxBodyBytes`,
`resolveExtProcMaxRequests`, `Config`, `ConfigHash`, `GrpcRecv`, `Autoscaler`,
`Envoy`, `ExtEnvoy`; `Rendered` is the set of objects. `work` is the reconcile:
`Reconcile`, `PruneExternal`, `Render`, then `Apply` object by object in
kustomize's order (`Rank`), then `cleanupOrphanedIPPHPAs`. Server-side apply is
modelled where it matters: `spec.replicas` has a set of managers, and a field
whose only manager no longer applies it falls back to its default. `pods` are what
the pods of each Deployment run: the template, and the configuration read when
they started.

### ConsumerPortal

The MaasTenantConfig may trail by `MaxLag`; the worker's copies are `snap`, `ten`
and `plan`. `Reconcile`, `Dispatch`, `Gate`, `EnsureFinalizer`,
`ReadCredentials`, `ApplyCredentials`, `ReadInputs`, `ApplyObjects` and
`PruneStaleGrants` are the serving path in its order, `Disable`, `Cleanup` and
`Release` the removal. `gatewayHostname` with its three sources, `RefreshInterval`
and `dashboardNamespace` are pure. Each `Edit*` action changes one input and wakes
the reconciler exactly as the watch of `SetupWithManager` on it would. An object
is a record of the parameters it was rendered from. `stale` remembers a reconcile
that took the cache's word for a finalizer already gone.

## 3. Runs

| Run | Expect | Shows |
|---|---|---|
| `HandoffPatient` | pass | `TypeOK`; `NothingOrphaned`: Praxis objects never outlive the finalizer; `OneDataplane`: the steps implement `DataplaneSwap`, so the two dataplanes never overlap; `PluginsKept`: a released plugins ConfigMap is overwritten only when forced |
| `HandoffLiveness` | pass | `SwapCompletes` and `DeletionCompletes` |
| `ServingSafety` | pass | `DrainedBeforePrune`, `PublishedAfterRoute`, `DeletedModelLeavesNothing`, `TransportFinalized` |
| `ServingLiveness` | pass | `WithdrawalCompletes`: deleted models and providers are released; `ServingHeals`: what the specs ask for ends up published over existing transport, also after a deletion that raced with a publication; `HandoffCompletes`: a tenant that leaves for IPP loses every rule, overlay, transport and finalizer |
| `ServingStaleDrain` | violation | an old drain deadline counts for a later withdrawal of the same content |
| `GuardrailConverges` | pass | `NoLostUpdate`: nothing queued or undelivered means status and catalog are right; `ConditionsFollow`: each condition is true of its own input; `Converges`: that state is reached |
| `OverlaySafety` | pass | `PraxisContract`: every published overlay is one the ExtProc accepts; `CaughtUp`: a model nobody has queued is routed and published as its configuration says; `RuleKept`: attached rules outlive their candidates; `CredentialsExact`; `TrafficShares` |
| `AttachmentBlocked` | violation | one attached model's edit stops every publication of the tenant |
| `PublisherChain` | pass | `Chained`: the ConfigMap implements `OverlayDocument`; `Distributed`: what the models resolve to is distributed in the end |
| `PublisherStaleCache` | violation | `Distributed` without its exemption: the models go from one content to another and back, the cache still shows the first, and `Publish` returns Unchanged over the second |
| `InstallSettles` | pass | `HpaValid`, `BudgetFits`: message limits above body ceilings; `HpaInCharge`: no reconcile takes the replica count from the autoscaler; `Settles`: objects and pods end as the settings ask |
| `PortalServes` | pass | `NothingOrphaned`; `SessionsKept`: no reconcile replaces the cookie secret; `EventsSuffice`: no input of the render changes without an event; `ProxyCanStart`; `Converges` |

### Bounds

* Handoff: two shared names (the plugins ConfigMap, which has a gate of its own,
  and one that has not) and one ExternalModel name give every combination of
  partial apply and partial cleanup that the code tells apart. A cache one
  version behind reaches a stale copy at each single decision; at two versions even
  a patient operator can be overtaken, which the theorems of section 4 cover by
  their hypothesis `NotOvertaken`. `MaxDisturb` 3 allows a switch, a failure and a switch back.
  `Patient` restricts selector edits to moments between handoffs; without it the
  code has the stale-finalizer behaviour of section 5.
* Serving: two models on a shared provider, with another provider one of them
  has to itself; two pods, symmetric, since "every pod" needs two. A request
  lives one tick and the drain two, the relation of 300 s to 310 s. Two
  disturbances reach withdrawals that overlap a deletion; the behaviour of
  `ServingStaleDrain` needs four, so it is outside `ServingSafety`'s bound, not
  excluded by the model. `ServingLiveness` has two models with a provider each; the
  second reference starts with weight zero, so that two disturbances (a weight, a
  deletion) reach the race of a deletion with a publication, and a tenant change or
  a failing call may take the place of either. The same properties were checked with
  a shared provider without failing calls (401,000 states, beyond the time of a
  regular run). `PublishedAfterRoute` exempts models without finalizer,
  whose routes are already cut; `DrainedBeforePrune` is about the rules a pass
  cuts and exempts the deletion of a model no pass has claimed yet, which takes
  its routes along through the garbage collector.
* Overlay: an own model, two attached models of two namespaces that want one name
  and a provider in each of two namespaces; `Capacity` 3 is one less than they
  may ask for together, so admission has to leave someone out. Two changes from a
  settled tenant, or one while the tenant is served for the first time. Three
  changes were explored with part of the kinds at a time (edit, refuse and grant;
  edit, delete, translation and fail; edit and provider), 570,000 to 680,000
  states each. One own model means that the branches for a terminating own model
  beside a live one are not reached here; `ServingSafety` has them.
* Guardrail: two providers, an Input check, a policy with an Output check and one
  whose timeout is too fine, two infrastructure namespaces, the cache one version
  behind, two disturbances out of ten kinds. `NoLostUpdate` was also checked with
  three disturbances (10.2 million states). `ConditionsFollow` exempts the two
  refusals that return before the provider is read (section 5).
* Publisher: two models, two contents, three generations so that the last one is
  reached, a clock of two instants, a cache one version behind, three
  disturbances; 170,000 states.
* Install: one edit and one fault from a first install. The scalings hold a count
  above the maximum, a zero, missing requests and an absent field; the annotations
  are absent, at the ceiling or one above it. `Rank` is the order kustomize gives
  the manifests. One edit is enough for every pair of old and new settings, since a
  reconcile reads them once. 115,000 states.
* Portal: two Gateway and two dashboard namespaces, so that both can move, one
  infrastructure namespace (`InfraMoves` is FALSE, see section 5), a cache one
  version behind, two disturbances of fourteen kinds. Tenants include one with a
  session shorter than the default refresh; Gateways one with a listener host, one
  with only an address and one with only Routes. 300,000 states.

`CHECK_DEADLOCK FALSE` is set in all runs but `GuardrailConverges`, because a tenant
with everything done and no disturbance left has nothing to do.

### Fairness

Weak fairness of the workers is the work queue's: every error and requeue puts
the object back. Watches deliver, time passes, pods reload and the Deployment
rolls out. In `ModelServing` each object has strong fairness of its start,
because a FIFO queue cannot be overtaken for ever by other objects;
`TenantOverlay` has the same for `AttachmentBlocked`, and the Gateway looks at
routes. In
`GuardrailBinding` the resync is fair only while a change no watch reports is
pending, so that no property rests on polling where a watch should do. In `ConsumerPortal` timers fire (every pass ends in a requeue); in
`OverlayPublisher` the worker runs only while a model is queued, since the
ConfigMap has no watch; in `PraxisInstall` the resync starts reconciles, the
Deployment and autoscaler controllers act while a count is out of range or a
template is not rolled out. Nothing
obliges users or the AITenant to act: `SwapCompletes` and `WithdrawalCompletes`
assume in their statements that the specs settle, `DeletionCompletes` assumes
nothing but `--deletion-timeout`.

## 4. Proofs

All constants are arbitrary under the assumptions named in the modules.

**`TenantHandoffProofs`**

* `TypeCorrect`: `Spec => []TypeOK`. The lemma `PushFacts` says what appending a
  version does to the sequence; one step per action follows.
* `CleanupGuaranteed` (`NothingOrphaned`), for any names, Gateway namespaces, cache
  lag, number of disturbances and with the deletion timeout configured. Section 5
  shows that the code does not guarantee it of every behaviour, so the theorem names
  the behaviours in which it does, by three conditions on what happens: the tenant
  stays in one Gateway namespace (`Homed`), no deletion gives up at the timeout
  (`TimeoutUnused`), and Praxis is not selected again while the mark or the release
  of a switch-away pass can still take effect (`NotOvertaken`). `NothingOrphaned`
  alone is not inductive. `ChainInv` says that any version the cache may still
  deliver which would let a reconcile deploy has the finalizer the live object has;
  `PcInv` what each `pc` implies about the copy in hand; `HomeInv` where objects can
  be; `CleanInv` that a reconcile about to mark or release has cleaned everything up.
* `SwapImplemented` (`OneDataplane`) is the refinement of `DataplaneSwap`: in the same
  behaviours, if Praxis is also selected again only after maas-controller has taken
  `cleanup-complete` (`ClaimTaken`), the mapping `Serving` turns every step into an
  arrival, a departure or a stutter. `HandshakeInv` adds what each value of the
  annotation says about the objects and about maas-controller (`StatusInv`,
  `ClaimInv`) and that a reconcile that deploys or cleans up still has the annotation
  and the selection it went by, however old its copy (`PassInv`). `GateHolds`
  (`PluginsKept`) has the same hypotheses.
* `PatientOperator`: with a cache at most one version behind, an operator who edits
  the selector only between handoffs is enough for `NotOvertaken` and `ClaimTaken`.
  At lag 2 it is not, as TLC shows.

TLC checked the invariant first (lag 3, two Gateway namespaces, the timeout, four
disturbances, an impatient operator; 8.4 million states), and that each hypothesis is
needed: without `Homed`, `TimeoutUnused` or `NotOvertaken` it violates
`NothingOrphaned`, without `ClaimTaken` `OneDataplane` and `PluginsKept`.

**`ModelServingProofs`**, for any models, providers, replicas, times and number
of disturbances:

* `TypeCorrect`: `Spec => []TypeOK`, with what a busy worker's record holds.
* `TransportGuarded`: `Spec => []TransportFinalized`. Not inductive alone: a
  worker about to write transport must be known to have claimed the provider,
  and one about to release it to have removed the transport (`ProviderClaims`).
* `DeletionIsClean` (`DeletedModelLeavesNothing`) and `RoutesBeforeOverlay`
  (`PublishedAfterRoute`) are action properties; both follow from `ModelPass`,
  which says for each step of a model pass what it has already established:
  which model it is terminating, which rules exist beside the wanted ones, that
  nothing of a model remains when its finalizer is about to go, that wanted rules
  are there when the overlay is about to be written. TLC checked this invariant
  first, with three disturbances (1.9 million states).

* `RulesDrained` (`DrainedBeforePrune`): a drain vouches for every candidate
  outside the revision it was started for — no pod serves it, and no request of it
  outlives the drain (`DrainHolds`). Reloads, restarts, time and new requests keep
  that; a publication of something else breaks it, and the end of the same pass
  notices, because it compares the revision. So the theorem has one hypothesis,
  `Verified`: a pass that has published also gets to look at the rollout and can
  tell what the pods serve. Breaking it is how `ServingStaleDrain` cuts a rule in
  use; the theorem says that there is no other way. TLC checked the
  invariant first, with four disturbances (4.0 million states) and with three
  (3.8 million).

**`TenantOverlayProofs`**, for any models, namespaces, names, providers,
configurations, capacity and number of changes:

* `TypeCorrect`: `Spec => []TypeOK`, with what the pass carries from call to call.
* `DocumentsWellFormed`: `PraxisContract` without the size, under no hypothesis:
  whichever path publishes, modes, weights and groups agree over the candidates it
  kept from the last document and the ones it resolved. The home path decides its
  document one step before it publishes, so the invariant carries it (`HomePlan`).
* `ContractKept`: all of `PraxisContract`, if the tenant's own references fit
  (`OwnFits`; section 5 says why it is needed). Admission is a recursion over the
  attached models by age; that the admitted ones together stay within the capacity
  is an induction, made by taking the least counterexample.
* `RulesOutliveCandidates` (`RuleKept`): a rule leaves an accepted route only when
  neither the overlay nor the pods select its candidate. `StagedInv` says for each
  step of the withdrawal, as long as nothing it depends on has changed, that the
  pass still wants what the model asks for, that from the drain on the overlay has
  no other candidate of it, and from pruning on the pods have none either. The
  hypothesis `NoClash` (no model is rejected with its selection group) excludes the
  route cut while served of section 5. Attached models may share namespaces and
  names.

**`TenantSettledProofs`**, with the same generality, about a tenant in which nobody
is queued:

* `NothingMissed` (`CaughtUp`), `CopiesExact` (`CredentialsExact`) and `SharesKept`
  (`TrafficShares`). All three rest on `SettledInv`, which says of every state, not
  only of quiet ones, who still has to do what:
  * `Rested`: every live attached model is queued, is the pass's own, or is `Fine`:
    published as it is due or not at all, with its credentials, in proportion to its
    weights, and, unless left out for capacity, completely and with the exact route;
  * `PassInv`: an attachment pass whose model nobody queued again still has
    everything it read (`Underway`: otherwise its remaining steps would settle the
    wrong state and nobody would repeat them), each `kind` has its own steps
    (`Stages`), what the last publication left out has no candidate when copies are
    collected (`Collecting`), and a home pass, which decides the document two calls
    before it publishes, has the attached models as they are still due or they are
    queued (`Plan`);
  * `OwnInv`: the own models are queued, or about to be published as they resolve, or
    published so and in proportion. A terminating model's own pass counts although
    the model is queued again, because the request finds it gone;
  * `Parting` (a deleted attached model is queued until its route is gone) and
    `Accounted` (each copy is named by an accepted route, or somebody with a route is
    going to collect).

  The step from one state to the next splits into who may disturb what: a change from
  outside queues everybody it concerns (`Awake`, from the watches), a failed call
  queues its own model (`RetrySettled`), a publication shows every bystander as it is
  due (`FinePublished`, from `RenderNamed`, `RenderFresh` and `RenderKept`, which say
  what a rendered document contains of some models and that normalising kept
  candidates does not change what they count for), and a collection spares what a
  published model mounts (`CollectedFacts`). TLC checked `SettledInv` on
  `OverlaySafety`'s 101,808 states first.
* `SharesKept` needs `Balanced` besides, since attached models of one namespace and
  name share its traffic: the candidates of all live attached models nobody has to
  look at again (`Undisturbed`) count in proportion to their weights, not only those
  of each model. An edit takes its model out of that set, and only a publication,
  which weighs them all together, puts it back. TLC checked it with two attached
  models of one namespace and name (75,353 states).
* The hypothesis of all three is `NoClash` again: when two attached models of one
  namespace and name share a provider, what one is due depends on the other's
  references, and the other is then woken through the status writes of its namesake,
  which the module leaves out.

**`GuardrailBindingProofs`**, for any providers, policies, cache lag and number of
disturbances, under no hypothesis:

* `TypeCorrect`: a status never carries an endpoint of a provider that has none,
  though provider and Namespace are read at two moments (`ReadInv`).
* `NoUpdateLost` (`NoLostUpdate`) and `ConditionsTruthful` (`ConditionsFollow`).
  Neither is inductive: between a change and the status that accounts for it lie a
  watch, a queue, three reads and a patch. `VerdictInv` says that an existing policy
  has an event pending, or a reconcile on course (what it has read is still the
  truth, and its patch will merge into the verdict), or the verdict as its status;
  `HistoryInv` relates consecutive versions in the cache's backlog, so that the
  predicate `CalloutChanged` cannot drop an update that matters; `TenantInv` and
  `TransInv` say the same of the catalog and the translation setting.

**`OverlayPublisherProofs`**, for any models, contents, cache lag, number of
generations and disturbances:

* `TypeCorrect`: generations stay in range; `PublisherChains`: `Spec => Chained`,
  the refinement of `OverlayDocument`. The inductive invariant says what the
  worker holds at each step and, the part that carries the refinement, that the
  document about to be applied continues the copy it was rendered from: first
  generation over nothing or over a foreign map, next generation over a verified
  copy of other content. The step simulation then splits on whether that copy is
  still the live one; if not, the step is to `Blind`.

**`PraxisInstallProofs`**, for any settings (any integers), any candidates, any
order of application and any number of edits and faults:

* `TypeCorrect`; `AutoscalersValid` (`HpaValid`); `LimitsFit` (`BudgetFits`): the
  invariant relates the message limit of every rendered template, every
  Deployment and every pod to the configuration rendered with it;
  `HpaKeepsReplicas` (`HpaInCharge`), an action property, from the same invariant
  and an analysis of who owns `spec.replicas` before and after an apply. That the
  object applied next exists is an argument by well-foundedness of `Rank`.

**`ConsumerPortalProofs`**, for any namespaces, tenants, Gateways, Secrets, cache lag
and number of disturbances:

* `TypeCorrect`; `ProxiesStart` (`ProxyCanStart`): `Lifetimes` carries the relation
  of refresh and expiry from the plan to the objects; `SessionsSurvive`
  (`SessionsKept`), an action property: the apply is forced and checks no version,
  but `Cookies` says that a pass about to make it holds the cookie of the managed
  Secret that is there. `CookiesSurvive` extends it to Secrets an administrator made,
  in behaviours in which nobody creates or deletes the Secret between a pass's read
  and its apply (`SecretAlone`); TLC violates it without (section 5).
* `WatchesSuffice` (`EventsSuffice`): for each of the seven inputs, the copy a pass
  works with is current or an event is queued (`Views`), and what is deployed was
  rendered from current inputs when nothing is (`Suffices`). This is the theorem
  that the list of watches in `SetupWithManager` is long enough.
* `CleanupGuaranteed` (`NothingOrphaned`) where `status.infraNamespace` does not
  move (`InfraMoves = FALSE`; TLC has the counterexample of section 5 otherwise):
  the versions the cache may still deliver agree with the live object about the
  namespace under a finalizer (`FinalizerSeen`), and until a reconcile begins on a
  finalizer already gone (`stale`), whoever makes objects holds it, they are where
  the cleanup looks, and nothing is left when it is given up (`Guarded`).

Left to TLC: liveness (`SwapCompletes`, `DeletionCompletes`,
`WithdrawalCompletes`, `ServingHeals`, `HandoffCompletes`, `Converges` of both modules, `OwnServed`,
`Distributed`, `Settles`), which TLAPS cannot do under fairness.

## 5. Findings

Three places where the code does not do what its comments or DESIGN.md say have a
run whose counterexample shows how (`PROJECT.json`, "findings"): the stale drain
(`withdrawal.go:904`), the blocked tenant (`attachment.go:1137`) and the stale
baseline of a publication (`publisher.go:140`).

Four more, reproduced by changing the configuration of a passing run:

* Stale finalizer (`tenant/reconciler.go:1296`): `ensureFinalizer` returns when the
  cached copy shows the finalizer, also if the reconciler itself has removed it
  since; objects are then applied that no finalizer guards, against the comment at
  line 531. `HandoffPatient` with `Patient = FALSE` violates `NothingOrphaned`.
* Provider race (`controller/reconciler.go:3090`): a deletion decided on an unused
  provider removes its transport although a model pass has applied a rule for it
  since, against DESIGN.md:71. `DeletionBlockedInUse` under `ServingLiveness`'s
  constants shows it; `ServingHeals` shows that it does not last.
* Leftover readiness (`guardrail/reconciler.go:324`): a policy refused for its
  Output checks keeps `ProviderReady` True at the current generation after its
  provider is deleted, the state the comment at line 544 warns of.
  `ReadyMeansReady` with `Specs <- OutputSpec` shows it.
* Route cut while served (`attachment.go:803`): a model rejected with its selection
  group keeps its resolved routes, so none counts as withdrawn and the HTTPRoute
  goes before the overlay is reduced, against DESIGN.md:485. `OverlaySafety` with
  `ModelNamespace <- Neighbours`, `Version <- NeighbourEdits` and
  `Initial <- NeighbourStarts` violates `RuleKept`.

Others, without a run of their own:

* `MarkPayloadProcessingCleanupComplete` (`migration.go:97`) may write
  `cleanup-complete` again after maas-controller claimed it and deployed, while
  DESIGN.md:354 has it mean "clear to claim".
* When an AITenant moves to another Gateway namespace, `cleanup`
  (`tenant/reconciler.go:1329`) visits only the new one and the finalizer goes
  while objects remain in the old one: `HandoffPatient` with
  `GwNs = {gw1, gw2}` violates `NothingOrphaned`.
* The guardrail status patch (`guardrail/reconciler.go:517`) is computed against
  a cached copy, so an accepted status can pair the revision of one verdict with
  the endpoint of another until the cache catches up.
* When the last model goes, or every weight is zero, `republishHomeWithout` and
  `reconcileHomeModel` cut routes at once (`cleanupHomeModelServingState`), while
  DESIGN.md:134 promises a reduced overlay and a drain first.
  `DrainedBeforePrune` exempts these immediate cleanups.
* An attachment left out for capacity is not woken when there is room again, and
  its copies survive another model's collection; `CaughtUp` and
  `CredentialsExact` exempt it.
* The limit on candidates is applied to attached models only
  (`admitAttachments`, `attachment.go:1530`): own models alone can be published over
  it, in a document the ExtProc refuses. `ContractKept` therefore assumes that they
  fit, which `OverlaySafety`'s instance does.
* DESIGN.md:477 has own candidates kept verbatim by the attachment path;
  `Render` gives them groups and weights in weightedRandom mode, as the ExtProc
  requires.
* Publisher: under stale reads a generation can be given twice, to two contents,
  against `CheckRevisionTransition`'s rule (`envelope.go:684`); `Chained` claims
  nothing after the first one (`Blind`). `cleanupOverlay`
  (`controller/reconciler.go:1853`) has the weakness of the finding too: it leaves a
  ConfigMap its cache does not show yet.
* Install: kustomize puts Deployments before their ConfigMap, so pods of a new
  template can start from the old configuration when the apply fails or is slow in
  between, and the later ConfigMap does not roll them, nor does going back to a
  former setting after a pod restarted in between. `Settles` assumes such pods are
  gone; `SettlesAlways` under `InstallSettles`'s constants shows one that stays.
  `withdrawal.go:788` takes the template's hash as proof of what a pod runs.
* Install: switching a workload from a fixed count to autoscaling drops the only
  manager of `spec.replicas`, which resets the Deployment to one replica until the
  autoscaler acts (compare DESIGN.md:301). The pre-auth chain has no configuration
  hash and rolls only because the message limit in its environment changes.
* Portal: the cached finalizer has the same weakness as the tenant's (`stale`).
  When `status.infraNamespace` changes, proxy and credentials stay in the old one,
  and when it becomes empty a disabled portal loses its finalizer without a cleanup
  (`PortalServes` with `InfraMoves = TRUE` and `InfraNs = {i1, i2}` violates
  `NothingOrphaned`). Deleting the credentials Secret
  to rotate the cookie (the comment at `credentials.go:137`) is undone when a reconcile
  has just read it, and a Secret an administrator creates at that moment is
  overwritten: no property forbids the first, `SessionsKept` is about managed Secrets. Gateways and
  OpenShift Routes are not watched: a new host waits for the resync.

## 6. Not modelled

Names, selectors, volumes and the other text of rendered objects, the header lists
of `extproc_headers.go`, status wording, Kubernetes events and logging have no
control worth checking. The manager only wires the process. Of the components
that are modelled, these parts are left out:

* attachments: several Gateways per attached model, finalizers and transport of
  providers only attachments use, DestinationRules and the route EnvoyFilter;
* resolver: path templates and endpoint validation (one validity flag);
* catalog: the order of checks over several policies;
* installation: an autoscaler value out of int32's range, a tenant name too long to
  be a suffix, NetworkPolicies left when `SkipNetworkPolicy` flips;
* envelope: the wire format and its canonical encoding.

Places where a module is coarser than the code:

* `ModelServing`: `RuntimeSet` takes the models at the step, the code the list read
  earlier in the pass (`controller/reconciler.go:977`); `StartProvider` leaves out the
  cleanup for a provider already gone (502-512) and for a namespace without tenant
  (585-587), `Resolve` the live look at credentials (2265), which only fails earlier;
* `GuardrailBinding`: `StartGuardrail` joins the cached policy, the RESTMapper query
  and the live MaasTenantConfig (`guardrail/reconciler.go:279-327`);
* `TenantOverlay`: `AttachRelease` joins the deletion of the route, the collection of
  copies and the finalizer (`attachment.go:2511-2525`);
* `ConsumerPortal`: `ApplyObjects` and `Cleanup` (613-671) are single steps that `Fail`
  may cut at any object, so that other actors run before or after, not between;
* `PraxisInstall`: `Config` leaves out the NeMo callouts, which rewrite the external
  configuration and its hash (`tenant/reconciler.go:633-653`);
* `TenantOverlay`: that weightedRandom is left again when weights are equal is not
  stated; `TrafficShares` holds either way.

`ModelServing` and `TenantOverlay` have one home namespace, current caches and an
atomic publication, whose own behaviour is `OverlayPublisher`'s; `GuardrailBinding`
has one policy and a watch that never skips a version (a relist that merges a
deletion and a re-creation is left out). A provider whose Secret becomes invalid
loses its transport at once although rules use it: the code reports that on
purpose, so no property forbids it. An attachment displaced by the tenant's growth
is not woken when there is room again, and no document promises it.

## 7. Plan

Done: `TenantHandoff` with `DataplaneSwap`, `ModelServing`, `GuardrailBinding`,
`Overlay` with `TenantOverlay`, `OverlayPublisher` with `OverlayDocument`,
`PraxisInstall`, `ConsumerPortal`, the runs and theorems above. Next:

1. Proofs: the lemma that a model left out by `Admission` would not have fit; `NoClash`
   discharged for models of one namespace that share no provider.
2. Attachment-only providers and several Gateways; liveness of attachments.
3. Composition of `TenantHandoff` and `ModelServing` through the tenant state.
4. The order of checks (`applyAttachmentOrder`) as a pure operator against a
   reference.
