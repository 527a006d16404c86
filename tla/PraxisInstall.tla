--------------------------- MODULE PraxisInstall ---------------------------
(***************************************************************************)
(* What the tenant reconciler installs once it may deploy: the render of    *)
(* reconcilePraxis (src/pkg/tenant/reconciler.go), from the settings of the *)
(* MaasTenantConfig to the objects on the API server and to the ExtProc     *)
(* pods that run from them.                                                 *)
(*                                                                          *)
(* One reconcile takes one copy of the settings, resolves them (defaults,   *)
(* clamps, rejected values), prunes the ExternalModel processor when the    *)
(* tenant serves no model, renders, applies one object at a time in the     *)
(* order kustomize produced them (server-side apply with forced ownership)  *)
(* and deletes the autoscalers that are no longer wanted.  It can fail      *)
(* between any two calls, the settings can change at any time, the          *)
(* autoscaler writes the same replica count, and a pod reads its            *)
(* configuration only when it starts.                                       *)
(*                                                                          *)
(* Whether the reconciler may deploy at all (ownership, finalizer, handoff, *)
(* fence) is the subject of TenantHandoff; here the gates are one refusal.  *)
(***************************************************************************)
EXTENDS Integers

CONSTANTS
    None,           \* an absent setting or object
    NotReady,       \* the routing overlay is not ready for the processor
    Idle,           \* no model and no attachment to serve
    Candidates,     \* candidate sets the ExternalModel processor may serve
    Scalings,       \* what an administrator writes under a workload
    Bodies,         \* values of the body budget annotation
    Requests,       \* values of the concurrency annotation
    Rank,           \* the place of every object in kustomize's output
    Configured,     \* the scalings a tenant may have before its first reconcile
    MaxEdits,       \* bound on changes of the inputs
    MaxFaults       \* bound on failed calls, crashes and pod restarts

VARIABLES
    mtc,            \* the MaasTenantConfig: settings and infraNamespace
    runtime,        \* what resolvePraxisRuntimeCandidates answers
    crd,            \* is the optional ServiceMonitor kind installed
    work,           \* the reconcile under way, None between two
    dep,            \* the three Deployments
    conf,           \* the configuration each Deployment mounts
    envoy,          \* the shared EnvoyFilter
    extEnvoy,       \* the ExternalModel EnvoyFilter
    hpa,            \* the autoscalers of the two gateway workloads
    monitor,        \* the ServiceMonitor
    pods,           \* what the pods of each Deployment run
    edits, faults

install == <<dep, conf, envoy, extEnvoy, hpa, monitor>>
inputs == <<mtc, runtime, crd>>
vars == <<inputs, work, install, pods, edits, faults>>

Scaled == {"processing", "preProcessing"}
Workloads == Scaled \cup {"external"}
ExtObjects == {"external", "externalPlugins", "externalFilter"}
HpaOf == [processing |-> "processingHPA", preProcessing |-> "preProcessingHPA"]
Names == Workloads \cup ExtObjects
           \cup {"plugins", "filter", "monitor", "processingHPA", "preProcessingHPA"}

DefaultMaxReplicas == 10
BaseReplicas == 1
DefaultExtProcMaxBodyBytes == 10485760
MaxExtProcMaxBodyBytes == 33554432
DefaultExtProcMaxRequests == 8
MaxExtProcMaxRequests == 1024
FramingHeadroom == 1048576
TranslationOverhead == 65536

Setting == Int \cup {None}
Scaling == [replicas : Setting, auto : BOOLEAN, max : Setting,
            resources : {"none", "limits", "full"}]
Mtc == [scaling : [Scaled -> Scaling], body : Setting, requests : Setting,
        translation : BOOLEAN, infra : BOOLEAN]

ASSUME InstallAssumption ==
    /\ None \notin Int
    /\ None \notin Candidates
    /\ NotReady # Idle
    /\ {NotReady, Idle, None} \cap Candidates = {}
    /\ Scalings \subseteq Scaling
    /\ Configured \subseteq [Scaled -> Scaling]
    /\ Bodies \subseteq Setting
    /\ Requests \subseteq Setting
    /\ Rank \in [Names -> Nat]
    /\ \A m, n \in Names : Rank[m] = Rank[n] => m = n
    /\ MaxEdits \in Nat
    /\ MaxFaults \in Nat

----------------------------------------------------------------------------
(* The settings as the reconciler resolves them. *)

AtLeastOne(v) == IF v = None THEN FALSE ELSE v >= 1

\* Fault: maxReplicas below replicas is passed on.
ClampNever(replicas, max) == max

Clamp(replicas, max) == IF replicas # None /\ replicas > max THEN replicas ELSE max

\* A rejected number counts as absent; requests are needed under autoscaling.
resolveIPPWorkloadScaling(s) ==
    LET replicas == IF AtLeastOne(s.replicas) THEN s.replicas ELSE None
        max == IF s.auto /\ AtLeastOne(s.max) THEN s.max ELSE DefaultMaxReplicas
    IN [auto |-> s.auto,
        replicas |-> replicas,
        max |-> IF s.auto THEN Clamp(replicas, max) ELSE max,
        resources |-> IF s.auto /\ s.resources = "limits" THEN "none" ELSE s.resources]

\* Fault: the upper bound of an annotation is not enforced.
WithinUnbounded(v, default, max) ==
    IF v = None THEN default ELSE IF v < 1 THEN default ELSE v

Within(v, default, max) ==
    IF v = None THEN default ELSE IF v < 1 \/ v > max THEN default ELSE v

resolveExtProcMaxBodyBytes(m) ==
    Within(m.body, DefaultExtProcMaxBodyBytes, MaxExtProcMaxBodyBytes)
resolveExtProcMaxRequests(m) ==
    Within(m.requests, DefaultExtProcMaxRequests, MaxExtProcMaxRequests)

----------------------------------------------------------------------------
(* The render.  r is what a reconcile took: [mtc, runtime]. *)

\* The server body ceiling: translation keeps both copies of a request.
ServerBody(w, r) ==
    resolveExtProcMaxBodyBytes(r.mtc)
      + (IF w = "external" /\ r.mtc.translation THEN TranslationOverhead ELSE 0)

Config(w, r) ==
    [body |-> ServerBody(w, r),
     translation |-> w # "preProcessing" /\ r.mtc.translation,
     candidates |-> IF w = "external" THEN r.runtime ELSE None]

\* Fault: the pod template does not name the configuration.
ConfigHashNone(w, r) == None

\* The rollout hash; the vendored pre-auth chain has none.
ConfigHash(w, r) == IF w = "preProcessing" THEN None ELSE Config(w, r)

\* Fault: no room for the framing and the translation overhead.
GrpcRecvBare(w, r) == resolveExtProcMaxBodyBytes(r.mtc)

GrpcRecv(w, r) == resolveExtProcMaxBodyBytes(r.mtc) + FramingHeadroom

\* Fault: the vendored replica count is applied under autoscaling as well.
ReplicasKept(w, r) ==
    IF w = "external" THEN BaseReplicas
    ELSE LET s == resolveIPPWorkloadScaling(r.mtc.scaling[w])
         IN IF s.auto \/ s.replicas = None THEN BaseReplicas ELSE s.replicas

\* spec.replicas as rendered, None when it is left to the autoscaler.
Replicas(w, r) ==
    IF w = "external" THEN BaseReplicas
    ELSE LET s == resolveIPPWorkloadScaling(r.mtc.scaling[w])
         IN IF s.auto THEN None
            ELSE IF s.replicas = None THEN BaseReplicas ELSE s.replicas

Resources(w, r) ==
    IF w = "external" THEN "none"
    ELSE resolveIPPWorkloadScaling(r.mtc.scaling[w]).resources

MinReplicas(s) == IF s.replicas = None THEN 1 ELSE s.replicas

Autoscaler(w, r) ==
    LET s == resolveIPPWorkloadScaling(r.mtc.scaling[w])
    IN [min |-> MinReplicas(s), max |-> s.max]

Envoy(r) ==
    [mode |-> IF r.mtc.translation THEN "STREAMED" ELSE "BUFFERED",
     requests |-> resolveExtProcMaxRequests(r.mtc),
     qualified |-> r.mtc.infra]

ExtEnvoy(r) == [requests |-> resolveExtProcMaxRequests(r.mtc)]

Autoscaled(r) == {w \in Scaled : r.mtc.scaling[w].auto}

\* What is rendered: no ExternalModel objects without models, no kind that
\* the cluster does not have, an autoscaler per autoscaled workload.
Rendered(r, kind) ==
    {n \in Names :
        /\ n \in ExtObjects => r.runtime # Idle
        /\ n = "monitor" => kind
        /\ \A w \in Scaled : n = HpaOf[w] => w \in Autoscaled(r)}

\* Fault: apply alone is trusted to drop an autoscaler.
OrphanHpasNone(r) == {}

OrphanHpas(r) == {HpaOf[w] : w \in Scaled \ Autoscaled(r)}

----------------------------------------------------------------------------
(* The API server: server-side apply of spec.replicas, and pods. *)

Manager == "ai-gateway-controller"
Autoscalers == "hpa"

\* A field that is applied changes hands unless the value agrees.
KeptOwners(old, n) ==
    IF old = None THEN {} ELSE IF old.replicas = n THEN old.owners ELSE {}

\* A field a manager no longer applies is reset when nobody else owns it.
Released(old) ==
    IF old = None THEN 1 ELSE IF old.owners = {Manager} THEN 1 ELSE old.replicas

OtherOwners(old) == IF old = None THEN {} ELSE old.owners \ {Manager}

ApplyReplicas(old, n) == IF n = None THEN Released(old) ELSE n

ApplyOwners(old, n) ==
    IF n = None THEN OtherOwners(old) ELSE {Manager} \cup KeptOwners(old, n)

\* The Deployment a reconcile applies.  want is not part of the object: it
\* records the configuration that was rendered with it.
Deployment(w, r) ==
    [replicas |-> ApplyReplicas(dep[w], Replicas(w, r)),
     owners |-> ApplyOwners(dep[w], Replicas(w, r)),
     hash |-> ConfigHash(w, r), recv |-> GrpcRecv(w, r),
     resources |-> Resources(w, r), want |-> Config(w, r)]

Template(d) == [hash |-> d.hash, recv |-> d.recv, resources |-> d.resources]

----------------------------------------------------------------------------
Init ==
    /\ mtc \in [scaling : Configured, body : {None}, requests : {None},
                translation : {FALSE}, infra : {FALSE}]
    /\ runtime \in {NotReady, Idle} \cup Candidates
    /\ crd = FALSE
    /\ work = None
    /\ dep = [w \in Workloads |-> None]
    /\ conf = [w \in Workloads |-> None]
    /\ envoy = None
    /\ extEnvoy = None
    /\ hpa = [w \in Scaled |-> None]
    /\ monitor = FALSE
    /\ pods = [w \in Workloads |-> None]
    /\ edits = 0
    /\ faults = 0

First(todo) == CHOOSE n \in todo : \A m \in todo : Rank[n] <= Rank[m]

\* A reconcile starts on an event, a retry or the resync; while the overlay is
\* not ready it ends where it started.
Reconcile ==
    /\ work = None
    /\ runtime # NotReady
    /\ work' = [in |-> [mtc |-> mtc, runtime |-> runtime],
                stage |-> "prune",
                todo |-> IF runtime = Idle THEN ExtObjects ELSE {}]
    /\ UNCHANGED <<inputs, install, pods, edits, faults>>

\* cleanupExternalModelResources: Deployment, ConfigMap and filter, in turn.
PruneExternal ==
    /\ work # None
    /\ work.stage = "prune"
    /\ work.todo # {}
    /\ LET n == First(work.todo) IN
         /\ dep' = IF n = "external" THEN [dep EXCEPT !["external"] = None] ELSE dep
         /\ conf' = IF n = "externalPlugins" THEN [conf EXCEPT !["external"] = None] ELSE conf
         /\ extEnvoy' = IF n = "externalFilter" THEN None ELSE extEnvoy
         /\ work' = [work EXCEPT !.todo = @ \ {n}]
    /\ UNCHANGED <<inputs, envoy, hpa, monitor, pods, edits, faults>>

\* The render is complete once the optional kinds have been probed.
Render ==
    /\ work # None
    /\ work.stage = "prune"
    /\ work.todo = {}
    /\ work' = [work EXCEPT !.stage = "apply", !.todo = Rendered(work.in, crd)]
    /\ UNCHANGED <<inputs, install, pods, edits, faults>>

ApplyObject(n, r) ==
    /\ dep' = IF n \in Workloads THEN [dep EXCEPT ![n] = Deployment(n, r)] ELSE dep
    /\ conf' = [w \in Workloads |->
                  IF \/ n = "plugins" /\ w \in Scaled
                     \/ n = "externalPlugins" /\ w = "external"
                  THEN Config(w, r) ELSE conf[w]]
    /\ envoy' = IF n = "filter" THEN Envoy(r) ELSE envoy
    /\ extEnvoy' = IF n = "externalFilter" THEN ExtEnvoy(r) ELSE extEnvoy
    /\ hpa' = [w \in Scaled |-> IF n = HpaOf[w] THEN Autoscaler(w, r) ELSE hpa[w]]
    /\ monitor' = (monitor \/ n = "monitor")

\* After the last object the orphaned autoscalers, if any; then the reconcile
\* ends and asks for the next resync.
AfterApply(r) ==
    IF OrphanHpas(r) = {} THEN None
    ELSE [in |-> r, stage |-> "hpas", todo |-> OrphanHpas(r)]

Apply ==
    /\ work # None
    /\ work.stage = "apply"
    /\ LET n == First(work.todo) IN
         /\ ApplyObject(n, work.in)
         /\ work' = IF work.todo = {n} THEN AfterApply(work.in)
                    ELSE [work EXCEPT !.todo = @ \ {n}]
    /\ UNCHANGED <<inputs, pods, edits, faults>>

cleanupOrphanedIPPHPAs ==
    /\ work # None
    /\ work.stage = "hpas"
    /\ LET n == First(work.todo) IN
         /\ hpa' = [w \in Scaled |-> IF n = HpaOf[w] THEN None ELSE hpa[w]]
         /\ work' = IF work.todo = {n} THEN None ELSE [work EXCEPT !.todo = @ \ {n}]
    /\ UNCHANGED <<inputs, dep, conf, envoy, extEnvoy, monitor, pods, edits, faults>>

\* A call fails, a gate refuses the apply or the controller restarts: what was
\* written stays, the rest waits for the next reconcile.
Fail ==
    /\ work # None
    /\ faults < MaxFaults
    /\ work' = None
    /\ faults' = faults + 1
    /\ UNCHANGED <<inputs, install, pods, edits>>

----------------------------------------------------------------------------
(* The administrator and the rest of the cluster. *)

Edit == edits < MaxEdits /\ edits' = edits + 1

EditScaling ==
    /\ Edit
    /\ \E w \in Scaled : \E s \in Scalings \ {mtc.scaling[w]} :
         mtc' = [mtc EXCEPT !.scaling[w] = s]
    /\ UNCHANGED <<runtime, crd, work, install, pods, faults>>

EditBudgets ==
    /\ Edit
    /\ \/ \E b \in Bodies \ {mtc.body} : mtc' = [mtc EXCEPT !.body = b]
       \/ \E n \in Requests \ {mtc.requests} : mtc' = [mtc EXCEPT !.requests = n]
    /\ UNCHANGED <<runtime, crd, work, install, pods, faults>>

EditTranslation ==
    /\ Edit
    /\ mtc' = [mtc EXCEPT !.translation = ~ @]
    /\ UNCHANGED <<runtime, crd, work, install, pods, faults>>

PublishInfraNamespace ==
    /\ Edit
    /\ ~ mtc.infra
    /\ mtc' = [mtc EXCEPT !.infra = TRUE]
    /\ UNCHANGED <<runtime, crd, work, install, pods, faults>>

ChangeModels ==
    /\ Edit
    /\ runtime' \in ({NotReady, Idle} \cup Candidates) \ {runtime}
    /\ UNCHANGED <<mtc, crd, work, install, pods, faults>>

InstallKind ==
    /\ Edit
    /\ ~ crd
    /\ crd' = TRUE
    /\ UNCHANGED <<mtc, runtime, work, install, pods, faults>>

\* The autoscaler moves the Deployment to an end of its range.
Scale(w) ==
    /\ hpa[w] # None
    /\ dep[w] # None
    /\ \E n \in {hpa[w].min, hpa[w].max} \ {dep[w].replicas} :
         dep' = [dep EXCEPT ![w].replicas = n, ![w].owners = {Autoscalers}]
    /\ UNCHANGED <<inputs, work, conf, envoy, extEnvoy, hpa, monitor, pods, edits, faults>>

OutOfRange(w) ==
    IF hpa[w] = None \/ dep[w] = None THEN FALSE
    ELSE dep[w].replicas < hpa[w].min \/ dep[w].replicas > hpa[w].max

\* New pods for a new template; a pod waits for the ConfigMap it mounts and
\* reads it once.
Rollout(w) ==
    /\ dep[w] # None
    /\ conf[w] # None
    /\ pods[w] # None => pods[w].template # Template(dep[w])
    /\ pods' = [pods EXCEPT ![w] = [template |-> Template(dep[w]),
                                    conf |-> conf[w], want |-> dep[w].want]]
    /\ UNCHANGED <<inputs, work, install, edits, faults>>

\* A container restarts and reads the mounted file again.
RestartPods(w) ==
    /\ faults < MaxFaults
    /\ pods[w] # None
    /\ conf[w] # None
    /\ conf[w] # pods[w].conf
    /\ pods' = [pods EXCEPT ![w].conf = conf[w]]
    /\ faults' = faults + 1
    /\ UNCHANGED <<inputs, work, install, edits>>

CollectPods(w) ==
    /\ dep[w] = None
    /\ pods[w] # None
    /\ pods' = [pods EXCEPT ![w] = None]
    /\ UNCHANGED <<inputs, work, install, edits, faults>>

----------------------------------------------------------------------------
Worker == Reconcile \/ PruneExternal \/ Render \/ Apply \/ cleanupOrphanedIPPHPAs

Cluster == \/ \E w \in Scaled : Scale(w)
           \/ \E w \in Workloads : Rollout(w) \/ RestartPods(w) \/ CollectPods(w)

Environment == \/ EditScaling \/ EditBudgets \/ EditTranslation
               \/ PublishInfraNamespace \/ ChangeModels \/ InstallKind

Next == Worker \/ Fail \/ Cluster \/ Environment

Spec == Init /\ [][Next]_vars

\* The work queue runs every reconcile to its end and the resync starts the
\* next one; the cluster rolls Deployments out and keeps them in range.
FairSpec ==
    /\ Spec
    /\ WF_vars(Worker)
    /\ WF_vars(\E w \in Scaled : OutOfRange(w) /\ Scale(w))
    /\ WF_vars(\E w \in Workloads : Rollout(w) \/ CollectPods(w))

----------------------------------------------------------------------------
(* Properties *)

Inputs == [mtc : Mtc, runtime : {Idle} \cup Candidates]
Works == [in : Inputs, stage : {"prune", "apply", "hpas"}, todo : SUBSET Names]
Overrides == {"none", "limits", "full"}
Configs == [body : Nat \ {0}, translation : BOOLEAN,
            candidates : {None, Idle} \cup Candidates]
Deployments == [replicas : Nat \ {0}, owners : SUBSET {Manager, Autoscalers},
                hash : Configs \cup {None}, recv : Nat, resources : Overrides,
                want : Configs]
Templates == [hash : Configs \cup {None}, recv : Nat, resources : Overrides]
Pods == [template : Templates, conf : Configs, want : Configs]
Envoys == [mode : {"STREAMED", "BUFFERED"}, requests : 1..MaxExtProcMaxRequests,
           qualified : BOOLEAN]

\* Type invariant: every object on the server is one the render produces.
TypeOK ==
    /\ mtc \in Mtc
    /\ runtime \in {NotReady, Idle} \cup Candidates
    /\ crd \in BOOLEAN
    /\ work \in Works \cup {None}
    /\ dep \in [Workloads -> Deployments \cup {None}]
    /\ conf \in [Workloads -> Configs \cup {None}]
    /\ envoy \in Envoys \cup {None}
    /\ extEnvoy \in [requests : 1..MaxExtProcMaxRequests] \cup {None}
    /\ hpa \in [Scaled -> [min : Nat, max : Nat] \cup {None}]
    /\ monitor \in BOOLEAN
    /\ pods \in [Workloads -> Pods \cup {None}]
    /\ edits \in 0..MaxEdits
    /\ faults \in 0..MaxFaults

\* An autoscaler the controller wrote is one the API server accepts and the
\* autoscaler can follow, whatever replicas and maxReplicas the administrator
\* combined (the clamp of resolveIPPWorkloadScaling).
HpaValid ==
    \A w \in Scaled :
        hpa[w] # None => 1 <= hpa[w].min /\ hpa[w].min <= hpa[w].max

\* A pod that started from the configuration rendered with its template.
Unmixed(w) == pods[w] = None \/ pods[w].conf = pods[w].want

\* A pod that started from the configuration rendered with its template takes
\* in every message its chain is allowed to buffer: GRPC_MAX_RECV_MSG_SIZE
\* stays above the server's max_body_bytes, with and without the translation
\* overhead and for every annotation value (configureExtProcBodyLimits).
BudgetFits ==
    \A w \in Workloads :
        pods[w] # None /\ Unmixed(w) => pods[w].template.recv > pods[w].conf.body

Now == [mtc |-> mtc, runtime |-> runtime]

\* While the tenant asks for autoscaling and the reconcile under way knows it,
\* a replica count the autoscaler chose changes only within the autoscaler's
\* range: no reconcile, resync or retry takes the field back
\* (patchIPPDeploymentScaling omits spec.replicas, DESIGN.md:301).
HpaInCharge ==
    [][\A w \in Scaled :
         /\ dep[w] # None
         /\ dep[w].owners = {Autoscalers}
         /\ w \in Autoscaled(Now)
         /\ work # None => w \in Autoscaled(work.in)
         => \/ dep'[w].replicas = dep[w].replicas
            \/ hpa[w] # None /\ dep'[w].replicas \in {hpa[w].min, hpa[w].max}]_vars

DeploymentCurrent(w) ==
    /\ dep[w] # None
    /\ Template(dep[w]) = [hash |-> ConfigHash(w, Now), recv |-> GrpcRecv(w, Now),
                           resources |-> Resources(w, Now)]
    /\ Replicas(w, Now) # None => dep[w].replicas = Replicas(w, Now)
    /\ conf[w] = Config(w, Now)
    /\ pods[w] # None
    /\ pods[w].conf = Config(w, Now)
    /\ pods[w].template = Template(dep[w])

AutoscalerCurrent(w) ==
    IF w \in Autoscaled(Now)
    THEN /\ hpa[w] = Autoscaler(w, Now)
         /\ ~ OutOfRange(w)
         /\ dep[w].resources # "limits"
    ELSE hpa[w] = None

Installed ==
    /\ \A w \in Scaled : DeploymentCurrent(w) /\ AutoscalerCurrent(w)
    /\ envoy = Envoy(Now)
    /\ crd => monitor
    /\ IF runtime = Idle
       THEN /\ {dep["external"], conf["external"], pods["external"], extEnvoy} = {None}
       ELSE DeploymentCurrent("external") /\ extEnvoy = ExtEnvoy(Now)

\* Once the pods that started from a half-applied render are gone, the install
\* follows the settings: every Deployment, configuration, filter, autoscaler
\* and running pod ends as the last edit asks, the objects of an idle tenant
\* and the autoscalers that were switched off are gone, whatever failed on the
\* way (reconcilePraxis with its resync, SSA never deletes on its own).
Settles ==
    <>[](\A w \in Workloads : Unmixed(w)) => <>[](runtime # NotReady => Installed)

\* The same without the condition on pods.  It does not hold: see README.
SettlesAlways == <>[](runtime # NotReady => Installed)

=============================================================================
