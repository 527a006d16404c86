------------------------ MODULE PraxisInstallProofs ------------------------
(***************************************************************************)
(* Proofs about PraxisInstall for every value of the settings, every order *)
(* in which the rendered objects are applied and every number of edits and *)
(* faults: its types, valid autoscalers, message limits above the body     *)
(* ceilings, and an autoscaler nobody takes the replica count from.        *)
(***************************************************************************)
EXTENDS PraxisInstall, WellFoundedInduction, TLAPS

\* An annotation resolves into its range whatever was written.
LEMMA WithinRange ==
    ASSUME NEW v \in Setting, NEW max \in Nat, NEW default \in Nat,
           1 <= default, default <= max
    PROVE  /\ Within(v, default, max) \in Nat \ {0}
           /\ Within(v, default, max) <= max
  BY InstallAssumption DEF Within, Setting

LEMMA BodyRange ==
    ASSUME NEW m \in Mtc
    PROVE  resolveExtProcMaxBodyBytes(m) \in Nat \ {0}
  <1>1. m.body \in Setting
    BY DEF Mtc
  <1>2. /\ MaxExtProcMaxBodyBytes \in Nat /\ DefaultExtProcMaxBodyBytes \in Nat
        /\ 1 <= DefaultExtProcMaxBodyBytes
        /\ DefaultExtProcMaxBodyBytes <= MaxExtProcMaxBodyBytes
    BY SMT DEF MaxExtProcMaxBodyBytes, DefaultExtProcMaxBodyBytes
  <1> QED
    BY <1>1, <1>2, WithinRange DEF resolveExtProcMaxBodyBytes

LEMMA RequestsRange ==
    ASSUME NEW m \in Mtc
    PROVE  resolveExtProcMaxRequests(m) \in 1..MaxExtProcMaxRequests
  <1>1. m.requests \in Setting
    BY DEF Mtc
  <1>2. /\ MaxExtProcMaxRequests \in Nat /\ DefaultExtProcMaxRequests \in Nat
        /\ 1 <= DefaultExtProcMaxRequests
        /\ DefaultExtProcMaxRequests <= MaxExtProcMaxRequests
    BY SMT DEF MaxExtProcMaxRequests, DefaultExtProcMaxRequests
  <1> QED
    BY <1>1, <1>2, WithinRange DEF resolveExtProcMaxRequests

Count == Nat \ {0}

\* A resolved scaling: counts of at least one, and under autoscaling a
\* maximum that is not below the minimum.
LEMMA ScalingFacts ==
    ASSUME NEW s \in Scaling
    PROVE  LET c == resolveIPPWorkloadScaling(s)
           IN /\ c.auto = s.auto
              /\ c.replicas \in Count \cup {None}
              /\ c.max \in Count
              /\ c.resources \in Overrides
              /\ s.auto => MinReplicas(c) \in Count /\ MinReplicas(c) <= c.max
  <1> DEFINE c == resolveIPPWorkloadScaling(s)
             given == IF AtLeastOne(s.replicas) THEN s.replicas ELSE None
             top == IF s.auto /\ AtLeastOne(s.max) THEN s.max ELSE DefaultMaxReplicas
  <1>1. /\ s.replicas \in Setting /\ s.max \in Setting /\ s.auto \in BOOLEAN
        /\ s.resources \in Overrides
    BY DEF Scaling, Overrides
  <1>2. given \in Count \cup {None}
    BY <1>1 DEF AtLeastOne, Setting, Count
  <1>3. top \in Count
    BY <1>1 DEF AtLeastOne, Setting, Count, DefaultMaxReplicas
  <1>4. Clamp(given, top) \in Count
    BY <1>2, <1>3 DEF Clamp, Count
  <1>5. given # None => given <= Clamp(given, top)
    BY <1>2, <1>3 DEF Clamp, Count
  <1>6. /\ c.auto = s.auto /\ c.replicas = given
        /\ c.max = (IF s.auto THEN Clamp(given, top) ELSE top)
        /\ c.resources = (IF s.auto /\ s.resources = "limits" THEN "none" ELSE s.resources)
    BY DEF resolveIPPWorkloadScaling
  <1>7. c.resources \in Overrides
    BY <1>1, <1>6 DEF Overrides
  <1>8. c.max \in Count
    BY <1>3, <1>4, <1>6
  <1>9. ASSUME s.auto PROVE MinReplicas(c) \in Count /\ MinReplicas(c) <= c.max
    <2>1. CASE given = None
      BY <1>6, <1>8, <2>1 DEF MinReplicas, Count
    <2>2. CASE given # None
      BY <1>2, <1>5, <1>6, <1>9, <2>2 DEF MinReplicas
    <2> QED
      BY <2>1, <2>2
  <1> QED
    BY <1>2, <1>6, <1>7, <1>8, <1>9

\* The rendered configuration, and the message limit above its ceiling.
LEMMA ConfigFacts ==
    ASSUME NEW w \in Workloads, NEW r \in Inputs
    PROVE  /\ Config(w, r) \in Configs
           /\ ConfigHash(w, r) \in Configs \cup {None}
           /\ GrpcRecv(w, r) \in Nat
           /\ GrpcRecv(w, r) > Config(w, r).body
  <1>1. r.mtc \in Mtc /\ r.runtime \in {Idle} \cup Candidates
    BY DEF Inputs
  <1>2. r.mtc.translation \in BOOLEAN
    BY <1>1 DEF Mtc
  <1>3. resolveExtProcMaxBodyBytes(r.mtc) \in Nat \ {0}
    BY <1>1, BodyRange
  <1>4. /\ ServerBody(w, r) \in Nat \ {0}
        /\ ServerBody(w, r) <= resolveExtProcMaxBodyBytes(r.mtc) + TranslationOverhead
    BY <1>3, SMT DEF ServerBody, TranslationOverhead
  <1>5. Config(w, r) \in Configs /\ Config(w, r).body = ServerBody(w, r)
    BY <1>1, <1>2, <1>4 DEF Config, Configs
  <1>6. GrpcRecv(w, r) \in Nat /\ GrpcRecv(w, r) > ServerBody(w, r)
    BY <1>3, <1>4, SMT DEF GrpcRecv, FramingHeadroom, TranslationOverhead
  <1> QED
    BY <1>5, <1>6 DEF ConfigHash

\* The rendered scaling of a workload.
LEMMA RenderedScaling ==
    ASSUME NEW w \in Workloads, NEW r \in Inputs
    PROVE  /\ Replicas(w, r) \in Count \cup {None}
           /\ Resources(w, r) \in Overrides
           /\ w \in Scaled /\ r.mtc.scaling[w].auto =>
                /\ Replicas(w, r) = None
                /\ Autoscaler(w, r) \in [min : Nat, max : Nat]
                /\ 1 <= Autoscaler(w, r).min
                /\ Autoscaler(w, r).min <= Autoscaler(w, r).max
  <1>1. CASE w = "external"
    BY <1>1 DEF Replicas, Resources, Overrides, Count, BaseReplicas, Scaled
  <1>2. CASE w \in Scaled
    <2> DEFINE s == r.mtc.scaling[w]
               c == resolveIPPWorkloadScaling(s)
    <2>1. s \in Scaling
      BY <1>2 DEF Inputs, Mtc
    <2>2. /\ c.auto = s.auto /\ c.replicas \in Count \cup {None} /\ c.max \in Count
          /\ c.resources \in Overrides
          /\ s.auto => MinReplicas(c) \in Count /\ MinReplicas(c) <= c.max
      BY <2>1, ScalingFacts
    <2>3. w # "external"
      BY <1>2 DEF Scaled
    <2>4. /\ Replicas(w, r) = (IF c.auto THEN None
                               ELSE IF c.replicas = None THEN BaseReplicas ELSE c.replicas)
          /\ Resources(w, r) = c.resources
      BY <2>3 DEF Replicas, Resources
    <2>5. Autoscaler(w, r) = [min |-> MinReplicas(c), max |-> c.max]
      BY DEF Autoscaler
    <2> HIDE DEF s, c
    <2>6. Replicas(w, r) \in Count \cup {None}
      BY <2>2, <2>4 DEF Count, BaseReplicas
    <2>7. ASSUME s.auto
          PROVE  /\ Replicas(w, r) = None
                 /\ Autoscaler(w, r) \in [min : Nat, max : Nat]
                 /\ 1 <= Autoscaler(w, r).min
                 /\ Autoscaler(w, r).min <= Autoscaler(w, r).max
      BY <2>2, <2>4, <2>5, <2>7 DEF Count
    <2> QED
      BY <2>2, <2>4, <2>6, <2>7 DEF s
  <1> QED
    BY <1>1, <1>2 DEF Workloads

\* The Deployment a reconcile applies, over whatever was there before.
LEMMA DeploymentFacts ==
    ASSUME TypeOK, NEW w \in Workloads, NEW r \in Inputs
    PROVE  /\ Deployment(w, r) \in Deployments
           /\ Deployment(w, r).recv > Deployment(w, r).want.body
  <1> DEFINE n == Replicas(w, r)
  <1>1. n \in Count \cup {None} /\ Resources(w, r) \in Overrides
    BY RenderedScaling
  <1>2. dep[w] \in Deployments \cup {None}
    BY DEF TypeOK
  <1>3. dep[w] # None => /\ dep[w].replicas \in Count
                         /\ dep[w].owners \in SUBSET {Manager, Autoscalers}
    BY <1>2 DEF Deployments, Count
  <1> HIDE DEF n
  <1>4. ApplyReplicas(dep[w], n) \in Count
    BY <1>1, <1>3 DEF ApplyReplicas, Released, Count
  <1>5. ApplyOwners(dep[w], n) \in SUBSET {Manager, Autoscalers}
    BY <1>3 DEF ApplyOwners, OtherOwners, KeptOwners
  <1>6. /\ Config(w, r) \in Configs /\ ConfigHash(w, r) \in Configs \cup {None}
        /\ GrpcRecv(w, r) \in Nat /\ GrpcRecv(w, r) > Config(w, r).body
    BY ConfigFacts
  <1> QED
    BY <1>1, <1>4, <1>5, <1>6 DEF Deployment, Deployments, Count, n

\* The object that is next belongs to the ones that are left.
LEMMA FirstFacts ==
    ASSUME NEW todo \in SUBSET Names, todo # {}
    PROVE  First(todo) \in todo
  <1> DEFINE ranks == {Rank[n] : n \in todo}
  <1>1. ranks \subseteq Nat /\ ranks # {}
    BY InstallAssumption
  <1>2. PICK k \in ranks : \A j \in ranks : ~(<<j, k>> \in OpToRel(<, Nat))
    <2>1. IsWellFoundedOn(OpToRel(<, Nat), Nat)
      BY NatLessThanWellFounded
    <2> HIDE DEF ranks
    <2> QED
      BY <1>1, <2>1, WFMin
  <1>3. \A j \in ranks : k <= j
    <2> TAKE j \in ranks
    <2>1. j \in Nat /\ k \in Nat
      BY <1>1
    <2>2. ~(j < k)
      BY <1>2, <2>1, Zenon DEF OpToRel
    <2> QED
      BY <2>1, <2>2
  <1>4. PICK n \in todo : Rank[n] = k
    BY <1>2
  <1>5. \A m \in todo : Rank[n] <= Rank[m]
    BY <1>3, <1>4
  <1> QED
    BY <1>5 DEF First

----------------------------------------------------------------------------
\* The reconcile under way holds an object to apply, and an autoscaler only
\* for a workload that is autoscaled in the settings it took.
WorkOK ==
    work # None /\ work.stage = "apply" =>
        /\ work.todo # {}
        /\ \A w \in Scaled : HpaOf[w] \in work.todo => work.in.mtc.scaling[w].auto

\* The message limit is above the ceiling of the configuration rendered with
\* it, on the server and in the pods.
Budgets ==
    /\ \A w \in Workloads : dep[w] # None => dep[w].recv > dep[w].want.body
    /\ \A w \in Workloads : pods[w] # None => pods[w].template.recv > pods[w].want.body

IInv == TypeOK /\ WorkOK /\ HpaValid /\ Budgets

LEMMA InitIInv == Init => IInv
  <1> SUFFICES ASSUME Init PROVE IInv
    OBVIOUS
  <1>1. mtc \in Mtc
    BY InstallAssumption DEF Init, Mtc, Setting
  <1>2. /\ dep \in [Workloads -> Deployments \cup {None}]
        /\ conf \in [Workloads -> Configs \cup {None}]
        /\ hpa \in [Scaled -> [min : Nat, max : Nat] \cup {None}]
        /\ pods \in [Workloads -> Pods \cup {None}]
    BY DEF Init
  <1>3. /\ edits \in 0..MaxEdits /\ faults \in 0..MaxFaults
    BY InstallAssumption DEF Init
  <1>4. /\ runtime \in {NotReady, Idle} \cup Candidates
        /\ crd \in BOOLEAN /\ monitor \in BOOLEAN
        /\ work = None /\ envoy = None /\ extEnvoy = None
    BY DEF Init
  <1>5. TypeOK
    BY <1>1, <1>2, <1>3, <1>4 DEF TypeOK
  <1>6. WorkOK /\ HpaValid /\ Budgets
    BY DEF Init, WorkOK, HpaValid, Budgets
  <1> QED
    BY <1>5, <1>6 DEF IInv

----------------------------------------------------------------------------
\* The worker.

LEMMA ReconcileKeeps == IInv /\ Reconcile => IInv'
  <1> SUFFICES ASSUME IInv, Reconcile PROVE IInv'
    OBVIOUS
  <1>1. work' \in Works /\ work'.stage = "prune"
    <2>1. [mtc |-> mtc, runtime |-> runtime] \in Inputs
      BY DEF IInv, TypeOK, Reconcile, Inputs
    <2>2. (IF runtime = Idle THEN ExtObjects ELSE {}) \in SUBSET Names
      BY DEF Names, ExtObjects
    <2> QED
      BY <2>1, <2>2 DEF Reconcile, Works
  <1>2. TypeOK'
    BY <1>1 DEF IInv, TypeOK, Reconcile, inputs, install
  <1>3. WorkOK'
    BY <1>1 DEF WorkOK
  <1>4. HpaValid' /\ Budgets'
    BY DEF IInv, HpaValid, Budgets, Reconcile, install
  <1> QED
    BY <1>2, <1>3, <1>4 DEF IInv

LEMMA PruneKeeps == IInv /\ PruneExternal => IInv'
  <1> SUFFICES ASSUME IInv, PruneExternal PROVE IInv'
    OBVIOUS
  <1> DEFINE n == First(work.todo)
  <1>1. work \in Works /\ work.stage = "prune"
    BY DEF IInv, TypeOK, PruneExternal
  <1>2. work' \in Works /\ work'.stage = "prune"
    BY <1>1 DEF PruneExternal, Works
  <1>3. /\ dep' = IF n = "external" THEN [dep EXCEPT !["external"] = None] ELSE dep
        /\ conf' = IF n = "externalPlugins" THEN [conf EXCEPT !["external"] = None] ELSE conf
        /\ extEnvoy' = IF n = "externalFilter" THEN None ELSE extEnvoy
        /\ UNCHANGED <<mtc, runtime, crd, envoy, hpa, monitor, pods, edits, faults>>
    BY DEF PruneExternal, inputs
  <1> HIDE DEF n
  <1>4. /\ dep' \in [Workloads -> Deployments \cup {None}]
        /\ conf' \in [Workloads -> Configs \cup {None}]
        /\ extEnvoy' \in [requests : 1..MaxExtProcMaxRequests] \cup {None}
    BY <1>3 DEF IInv, TypeOK
  <1>5. TypeOK'
    BY <1>2, <1>3, <1>4 DEF IInv, TypeOK
  <1>6. \A w \in Workloads : dep'[w] = None \/ dep'[w] = dep[w]
    BY <1>3 DEF IInv, TypeOK
  <1>7. Budgets'
    BY <1>3, <1>6 DEF IInv, Budgets
  <1>8. WorkOK' /\ HpaValid'
    BY <1>2, <1>3 DEF IInv, WorkOK, HpaValid
  <1> QED
    BY <1>5, <1>7, <1>8 DEF IInv

LEMMA RenderKeeps == IInv /\ Render => IInv'
  <1> SUFFICES ASSUME IInv, Render PROVE IInv'
    OBVIOUS
  <1> DEFINE todo == Rendered(work.in, crd)
  <1>1. work \in Works
    BY DEF IInv, TypeOK, Render
  <1>2. todo \in SUBSET Names
    BY DEF Rendered
  <1>3. \A w \in Scaled : HpaOf[w] \in todo => work.in.mtc.scaling[w].auto
    <2> TAKE w \in Scaled
    <2>1. HpaOf[w] \in todo => w \in Autoscaled(work.in)
      BY DEF Rendered
    <2> QED
      BY <2>1 DEF Autoscaled
  <1>4. "processing" \in todo
    BY DEF Rendered, Names, Workloads, Scaled, ExtObjects, HpaOf
  <1>5. work' = [work EXCEPT !.stage = "apply", !.todo = todo]
    BY DEF Render
  <1> HIDE DEF todo
  <1>6. /\ work' \in Works /\ work'.in = work.in /\ work'.todo = todo
    BY <1>1, <1>2, <1>5 DEF Works
  <1>7. WorkOK'
    BY <1>3, <1>4, <1>6 DEF WorkOK
  <1>8. TypeOK'
    BY <1>6 DEF IInv, TypeOK, Render, inputs, install
  <1>9. HpaValid' /\ Budgets'
    BY DEF IInv, HpaValid, Budgets, Render, install
  <1> QED
    BY <1>7, <1>8, <1>9 DEF IInv

\* The object n as the reconcile applies it.
LEMMA ApplyKeeps == IInv /\ Apply => IInv'
  <1> SUFFICES ASSUME IInv, Apply PROVE IInv'
    OBVIOUS
  <1> DEFINE n == First(work.todo)
             r == work.in
  <1>1. /\ work \in Works /\ r \in Inputs /\ work.todo \in SUBSET Names
        /\ work.stage = "apply" /\ work.todo # {} /\ TypeOK
        /\ \A w \in Scaled : HpaOf[w] \in work.todo => r.mtc.scaling[w].auto
    BY DEF IInv, TypeOK, WorkOK, Apply, Works
  <1>2. n \in work.todo
    BY <1>1, FirstFacts
  <1>3. /\ ApplyObject(n, r)
        /\ work' = IF work.todo = {n} THEN AfterApply(r) ELSE [work EXCEPT !.todo = @ \ {n}]
        /\ UNCHANGED <<mtc, runtime, crd, pods, edits, faults>>
    BY DEF Apply, inputs
  <1> HIDE DEF n, r
  <1>4. /\ dep' \in [Workloads -> Deployments \cup {None}]
        /\ \A w \in Workloads : dep'[w] # None => dep'[w].recv > dep'[w].want.body
    <2>1. CASE n \in Workloads
      <3>1. /\ Deployment(n, r) \in Deployments
            /\ Deployment(n, r).recv > Deployment(n, r).want.body
        BY <1>1, <2>1, DeploymentFacts
      <3>2. dep' = [dep EXCEPT ![n] = Deployment(n, r)]
        BY <1>3, <2>1 DEF ApplyObject
      <3> QED
        BY <1>1, <2>1, <3>1, <3>2 DEF TypeOK, IInv, Budgets
    <2>2. CASE n \notin Workloads
      BY <1>1, <1>3, <2>2 DEF ApplyObject, TypeOK, IInv, Budgets
    <2> QED
      BY <2>1, <2>2
  <1>5. conf' \in [Workloads -> Configs \cup {None}]
    <2>1. \A w \in Workloads : Config(w, r) \in Configs
      BY <1>1, ConfigFacts
    <2> QED
      BY <1>1, <1>3, <2>1 DEF ApplyObject, TypeOK
  <1>6. /\ envoy' \in Envoys \cup {None}
        /\ extEnvoy' \in [requests : 1..MaxExtProcMaxRequests] \cup {None}
        /\ monitor' \in BOOLEAN
    <2>1. r.mtc \in Mtc /\ r.mtc.infra \in BOOLEAN
      BY <1>1 DEF Inputs, Mtc
    <2>2. resolveExtProcMaxRequests(r.mtc) \in 1..MaxExtProcMaxRequests
      BY <2>1, RequestsRange
    <2>3. Envoy(r) \in Envoys /\ ExtEnvoy(r) \in [requests : 1..MaxExtProcMaxRequests]
      BY <2>1, <2>2 DEF Envoy, ExtEnvoy, Envoys
    <2> QED
      BY <1>1, <1>3, <2>3 DEF ApplyObject, TypeOK
  <1>7. /\ hpa' \in [Scaled -> [min : Nat, max : Nat] \cup {None}]
        /\ HpaValid'
    <2>1. hpa' = [w \in Scaled |-> IF n = HpaOf[w] THEN Autoscaler(w, r) ELSE hpa[w]]
      BY <1>3 DEF ApplyObject
    <2>2. ASSUME NEW w \in Scaled, n = HpaOf[w]
          PROVE  /\ Autoscaler(w, r) \in [min : Nat, max : Nat]
                 /\ 1 <= Autoscaler(w, r).min
                 /\ Autoscaler(w, r).min <= Autoscaler(w, r).max
      <3>1. r.mtc.scaling[w].auto
        BY <1>1, <1>2, <2>2
      <3>2. w \in Workloads
        BY DEF Workloads
      <3> QED
        BY <1>1, <3>1, <3>2, RenderedScaling
    <2> QED
      BY <1>1, <2>1, <2>2 DEF TypeOK, IInv, HpaValid
  <1>8. /\ work' \in Works \cup {None}
        /\ WorkOK'
    <2>1. CASE work.todo = {n}
      <3>1. OrphanHpas(r) \in SUBSET Names
        BY DEF OrphanHpas, Names, HpaOf, Scaled
      <3>2. work' = None \/ work' = [in |-> r, stage |-> "hpas", todo |-> OrphanHpas(r)]
        BY <1>3, <2>1 DEF AfterApply
      <3> QED
        BY <1>1, <3>1, <3>2 DEF Works, WorkOK
    <2>2. CASE work.todo # {n}
      <3>1. work' = [work EXCEPT !.todo = work.todo \ {n}]
        BY <1>3, <2>2
      <3>2. work.todo \ {n} # {} /\ work.todo \ {n} \in SUBSET Names
        BY <1>1, <1>2, <2>2
      <3>3. work' \in Works /\ work'.in = r /\ work'.todo = work.todo \ {n}
        BY <1>1, <3>1, <3>2 DEF Works, r
      <3> QED
        BY <1>1, <3>2, <3>3 DEF WorkOK
    <2> QED
      BY <2>1, <2>2
  <1>9. TypeOK'
    BY <1>1, <1>3, <1>4, <1>5, <1>6, <1>7, <1>8 DEF TypeOK
  <1>10. Budgets'
    BY <1>3, <1>4 DEF IInv, Budgets
  <1> QED
    BY <1>7, <1>8, <1>9, <1>10 DEF IInv

LEMMA OrphansKeep == IInv /\ cleanupOrphanedIPPHPAs => IInv'
  <1> SUFFICES ASSUME IInv, cleanupOrphanedIPPHPAs PROVE IInv'
    OBVIOUS
  <1> DEFINE n == First(work.todo)
  <1>1. work \in Works /\ work.stage = "hpas"
    BY DEF IInv, TypeOK, cleanupOrphanedIPPHPAs
  <1>2. /\ hpa' = [w \in Scaled |-> IF n = HpaOf[w] THEN None ELSE hpa[w]]
        /\ work' = IF work.todo = {n} THEN None ELSE [work EXCEPT !.todo = @ \ {n}]
        /\ UNCHANGED <<mtc, runtime, crd, dep, conf, envoy, extEnvoy, monitor, pods,
                        edits, faults>>
    BY DEF cleanupOrphanedIPPHPAs, inputs
  <1> HIDE DEF n
  <1>3. work' = None \/ (work' \in Works /\ work'.stage = "hpas")
    BY <1>1, <1>2 DEF Works
  <1>4. hpa' \in [Scaled -> [min : Nat, max : Nat] \cup {None}] /\ HpaValid'
    BY <1>2 DEF IInv, TypeOK, HpaValid
  <1>5. TypeOK'
    BY <1>2, <1>3, <1>4 DEF IInv, TypeOK
  <1>6. WorkOK' /\ Budgets'
    BY <1>2, <1>3 DEF IInv, WorkOK, Budgets
  <1> QED
    BY <1>4, <1>5, <1>6 DEF IInv

LEMMA FailKeeps == IInv /\ Fail => IInv'
  <1> SUFFICES ASSUME IInv, Fail PROVE IInv'
    OBVIOUS
  <1>1. faults' \in 0..MaxFaults
    BY InstallAssumption DEF IInv, TypeOK, Fail
  <1>2. TypeOK'
    BY <1>1 DEF IInv, TypeOK, Fail, inputs, install
  <1>3. WorkOK' /\ HpaValid' /\ Budgets'
    BY DEF IInv, WorkOK, HpaValid, Budgets, Fail, install
  <1> QED
    BY <1>2, <1>3 DEF IInv

----------------------------------------------------------------------------
\* The administrator and the cluster.

LEMMA EnvironmentKeeps == IInv /\ Environment => IInv'
  <1> SUFFICES ASSUME IInv, Environment PROVE IInv'
    OBVIOUS
  <1>1. /\ edits' \in 0..MaxEdits
        /\ UNCHANGED <<work, install, pods, faults>>
    BY InstallAssumption DEF IInv, TypeOK, Environment, Edit, EditScaling, EditBudgets,
       EditTranslation, PublishInfraNamespace, ChangeModels, InstallKind
  <1>2. mtc' \in Mtc
    <2>0. mtc \in Mtc
      BY DEF IInv, TypeOK
    <2>1. CASE EditScaling
      <3>1. PICK w \in Scaled, s \in Scalings : mtc' = [mtc EXCEPT !.scaling[w] = s]
        BY <2>1 DEF EditScaling
      <3>2. s \in Scaling
        BY InstallAssumption
      <3> QED
        BY <2>0, <3>1, <3>2 DEF Mtc
    <2>2. CASE EditBudgets
      <3>1. \/ \E b \in Setting : mtc' = [mtc EXCEPT !.body = b]
            \/ \E k \in Setting : mtc' = [mtc EXCEPT !.requests = k]
        BY <2>2, InstallAssumption DEF EditBudgets
      <3> QED
        BY <2>0, <3>1 DEF Mtc
    <2>3. CASE EditTranslation \/ PublishInfraNamespace
      BY <2>0, <2>3 DEF EditTranslation, PublishInfraNamespace, Mtc
    <2>4. CASE ChangeModels \/ InstallKind
      BY <2>0, <2>4 DEF ChangeModels, InstallKind
    <2> QED
      BY <2>1, <2>2, <2>3, <2>4 DEF Environment
  <1>3. runtime' \in {NotReady, Idle} \cup Candidates /\ crd' \in BOOLEAN
    BY DEF IInv, TypeOK, Environment, EditScaling, EditBudgets,
       EditTranslation, PublishInfraNamespace, ChangeModels, InstallKind
  <1>4. TypeOK'
    BY <1>1, <1>2, <1>3 DEF IInv, TypeOK, install
  <1>5. WorkOK' /\ HpaValid' /\ Budgets'
    BY <1>1 DEF IInv, WorkOK, HpaValid, Budgets, install
  <1> QED
    BY <1>4, <1>5 DEF IInv

LEMMA ScaleKeeps ==
    ASSUME IInv, NEW w \in Scaled, Scale(w)
    PROVE  IInv'
  <1>1. /\ hpa[w] \in [min : Nat, max : Nat] /\ 1 <= hpa[w].min /\ hpa[w].min <= hpa[w].max
        /\ dep[w] \in Deployments
        /\ w \in Workloads
    BY DEF IInv, TypeOK, HpaValid, Scale, Workloads
  <1>2. PICK n \in {hpa[w].min, hpa[w].max} :
          dep' = [dep EXCEPT ![w].replicas = n, ![w].owners = {Autoscalers}]
    BY DEF Scale
  <1>3. UNCHANGED <<mtc, runtime, crd, work, conf, envoy, extEnvoy, hpa, monitor, pods,
                    edits, faults>>
    BY DEF Scale, inputs
  <1>4. n \in Nat \ {0}
    BY <1>1, <1>2
  <1>5. dep' = [dep EXCEPT ![w] = [dep[w] EXCEPT !.replicas = n, !.owners = {Autoscalers}]]
    BY <1>1, <1>2 DEF IInv, TypeOK
  <1>6. [dep[w] EXCEPT !.replicas = n, !.owners = {Autoscalers}] \in Deployments
    BY <1>1, <1>4 DEF Deployments
  <1>7. dep' \in [Workloads -> Deployments \cup {None}]
    BY <1>5, <1>6 DEF IInv, TypeOK
  <1>8. TypeOK'
    BY <1>3, <1>7 DEF IInv, TypeOK
  <1>9. [dep[w] EXCEPT !.replicas = n, !.owners = {Autoscalers}].recv = dep[w].recv
        /\ [dep[w] EXCEPT !.replicas = n, !.owners = {Autoscalers}].want = dep[w].want
    BY <1>1 DEF Deployments
  <1>10. Budgets'
    <2>1. dep[w] # None
      BY DEF Scale
    <2>2. dep[w].recv > dep[w].want.body
      BY <1>1, <2>1 DEF IInv, Budgets
    <2>3. \A v \in Workloads : dep'[v] # None => dep'[v].recv > dep'[v].want.body
      BY <1>1, <1>5, <1>9, <2>2 DEF IInv, TypeOK, Budgets
    <2> QED
      BY <1>3, <2>3 DEF IInv, Budgets
  <1>11. WorkOK' /\ HpaValid'
    BY <1>3 DEF IInv, WorkOK, HpaValid
  <1> QED
    BY <1>8, <1>10, <1>11 DEF IInv

\* Pods come and go; the object on the server stays as it is.
LEMMA PodsKeep ==
    ASSUME IInv, NEW w \in Workloads, Rollout(w) \/ RestartPods(w) \/ CollectPods(w)
    PROVE  IInv'
  <1>1. /\ UNCHANGED <<mtc, runtime, crd, work, dep, conf, envoy, extEnvoy, hpa, monitor, edits>>
        /\ faults' \in 0..MaxFaults
    BY InstallAssumption DEF IInv, TypeOK, Rollout, RestartPods, CollectPods, inputs, install
  <1>2. /\ pods' \in [Workloads -> Pods \cup {None}]
        /\ \A v \in Workloads : pods'[v] # None => pods'[v].template.recv > pods'[v].want.body
    <2>0. /\ pods \in [Workloads -> Pods \cup {None}]
          /\ dep[w] \in Deployments \cup {None}
          /\ conf[w] \in Configs \cup {None}
          /\ \A v \in Workloads : pods[v] # None => pods[v].template.recv > pods[v].want.body
      BY DEF IInv, TypeOK, Budgets
    <2>1. CASE Rollout(w)
      <3> DEFINE p == [template |-> Template(dep[w]), conf |-> conf[w], want |-> dep[w].want]
      <3>1. dep[w] \in Deployments /\ conf[w] \in Configs /\ dep[w].recv > dep[w].want.body
        BY <2>0, <2>1 DEF Rollout, IInv, Budgets
      <3>2. p \in Pods
        BY <3>1 DEF Pods, Template, Templates, Deployments
      <3>3. p.template.recv > p.want.body
        BY <3>1 DEF Template
      <3>4. pods' = [pods EXCEPT ![w] = p]
        BY <2>1 DEF Rollout
      <3> HIDE DEF p
      <3> QED
        BY <2>0, <3>2, <3>3, <3>4
    <2>2. CASE RestartPods(w)
      <3> DEFINE p == [pods[w] EXCEPT !.conf = conf[w]]
      <3>1. pods[w] \in Pods /\ pods[w] # None /\ conf[w] \in Configs
        BY <2>0, <2>2 DEF RestartPods
      <3>2. p \in Pods /\ p.template = pods[w].template /\ p.want = pods[w].want
        BY <3>1 DEF Pods
      <3>3. pods' = [pods EXCEPT ![w] = p]
        BY <2>0, <2>2 DEF RestartPods
      <3> HIDE DEF p
      <3> QED
        BY <2>0, <3>1, <3>2, <3>3
    <2>3. CASE CollectPods(w)
      BY <2>0, <2>3 DEF CollectPods
    <2> QED
      BY <2>1, <2>2, <2>3
  <1>3. TypeOK'
    BY <1>1, <1>2 DEF IInv, TypeOK
  <1>4. WorkOK' /\ HpaValid' /\ Budgets'
    BY <1>1, <1>2 DEF IInv, WorkOK, HpaValid, Budgets
  <1> QED
    BY <1>3, <1>4 DEF IInv

LEMMA NextKeeps == IInv /\ [Next]_vars => IInv'
  <1> SUFFICES ASSUME IInv, [Next]_vars PROVE IInv'
    OBVIOUS
  <1>1. CASE Worker
    BY <1>1, ReconcileKeeps, PruneKeeps, RenderKeeps, ApplyKeeps, OrphansKeep DEF Worker
  <1>2. CASE Fail
    BY <1>2, FailKeeps
  <1>3. CASE Cluster
    BY <1>3, ScaleKeeps, PodsKeep DEF Cluster
  <1>4. CASE Environment
    BY <1>4, EnvironmentKeeps
  <1>5. CASE UNCHANGED vars
    <2>1. TypeOK'
      BY <1>5 DEF IInv, TypeOK, vars, inputs, install
    <2>2. WorkOK' /\ HpaValid' /\ Budgets'
      BY <1>5 DEF IInv, WorkOK, HpaValid, Budgets, vars, inputs, install
    <2> QED
      BY <2>1, <2>2 DEF IInv
  <1> QED
    BY <1>1, <1>2, <1>3, <1>4, <1>5 DEF Next

----------------------------------------------------------------------------
\* The inductive invariant holds of every behaviour.
THEOREM Invariance == Spec => []IInv
  BY InitIInv, NextKeeps, PTL DEF Spec

\* Whatever an administrator writes and wherever a reconcile stops, the server
\* holds only objects the render produces (reconcilePraxis).
THEOREM TypeCorrect == Spec => []TypeOK
  <1>1. IInv => TypeOK
    BY DEF IInv
  <1> QED
    BY <1>1, Invariance, PTL

\* No combination of replicas and maxReplicas yields an autoscaler whose range
\* is empty or starts at zero (resolveIPPWorkloadScaling).
THEOREM AutoscalersValid == Spec => []HpaValid
  <1>1. IInv => HpaValid
    BY DEF IInv
  <1> QED
    BY <1>1, Invariance, PTL

\* For every annotation and every translation setting the message limit of a
\* pod is above the body ceiling it enforces (configureExtProcBodyLimits).
THEOREM LimitsFit == Spec => []BudgetFits
  <1>1. IInv => BudgetFits
    <2> SUFFICES ASSUME IInv, NEW w \in Workloads, pods[w] # None, Unmixed(w)
                 PROVE  pods[w].template.recv > pods[w].conf.body
      BY DEF BudgetFits
    <2>1. pods[w].conf = pods[w].want
      BY DEF Unmixed
    <2> QED
      BY <2>1 DEF IInv, Budgets
  <1> QED
    BY <1>1, Invariance, PTL

\* One step of a reconcile or of the cluster leaves the replica count with the
\* autoscaler that owns it.
LEMMA StepLeavesReplicas ==
    ASSUME IInv, [Next]_vars, NEW w \in Scaled, dep[w] # None,
           dep[w].owners = {Autoscalers}, w \in Autoscaled(Now),
           work # None => w \in Autoscaled(work.in)
    PROVE  \/ dep'[w].replicas = dep[w].replicas
           \/ hpa[w] # None /\ dep'[w].replicas \in {hpa[w].min, hpa[w].max}
  <1>0. /\ dep \in [Workloads -> Deployments \cup {None}]
        /\ w \in Workloads /\ w # "external" /\ dep[w] \in Deployments
    BY DEF IInv, TypeOK, Workloads, Scaled
  <1>1. CASE dep' = dep
    BY <1>1
  <1>2. CASE PruneExternal
    <2>1. dep' = [dep EXCEPT !["external"] = None] \/ dep' = dep
      BY <1>2 DEF PruneExternal
    <2> QED
      BY <1>0, <2>1
  <1>3. CASE Apply
    <2> DEFINE n == First(work.todo)
    <2>1. dep' = IF n \in Workloads THEN [dep EXCEPT ![n] = Deployment(n, work.in)] ELSE dep
      BY <1>3 DEF Apply, ApplyObject
    <2> HIDE DEF n
    <2>2. CASE n = w
      <3>1. /\ work \in Works /\ work # None
        BY <1>3 DEF IInv, TypeOK, Apply
      <3>2. work.in \in Inputs /\ work.in.mtc.scaling[w].auto
        BY <3>1 DEF Works, Autoscaled
      <3>3. Replicas(w, work.in) = None
        BY <1>0, <3>2, RenderedScaling
      <3>4. Released(dep[w]) = dep[w].replicas
        BY DEF Released, Manager, Autoscalers
      <3>5. Deployment(w, work.in).replicas = dep[w].replicas
        BY <3>3, <3>4 DEF Deployment, ApplyReplicas
      <3>6. dep'[w] = Deployment(w, work.in)
        BY <1>0, <2>1, <2>2
      <3> QED
        BY <3>5, <3>6
    <2>3. CASE n # w
      BY <1>0, <2>1, <2>3
    <2> QED
      BY <2>2, <2>3
  <1>4. ASSUME NEW v \in Scaled, Scale(v)
        PROVE  \/ dep'[w].replicas = dep[w].replicas
               \/ hpa[w] # None /\ dep'[w].replicas \in {hpa[w].min, hpa[w].max}
    <2>1. PICK k \in {hpa[v].min, hpa[v].max} :
            dep' = [dep EXCEPT ![v].replicas = k, ![v].owners = {Autoscalers}]
      BY <1>4 DEF Scale
    <2>2. hpa[v] # None
      BY <1>4 DEF Scale
    <2>3. CASE v # w
      BY <1>0, <2>1, <2>3
    <2>4. CASE v = w
      <3>1. dep'[w].replicas = k
        BY <1>0, <2>1, <2>4 DEF Deployments
      <3> QED
        BY <2>1, <2>2, <2>4, <3>1
    <2> QED
      BY <2>3, <2>4
  <1>5. CASE Reconcile \/ Render \/ cleanupOrphanedIPPHPAs \/ Fail \/ Environment
    <2>1. dep' = dep
      BY <1>5 DEF Reconcile, Render, cleanupOrphanedIPPHPAs, Fail, Environment,
         EditScaling, EditBudgets, EditTranslation, PublishInfraNamespace, ChangeModels,
         InstallKind, install
    <2> QED
      BY <2>1
  <1>6. ASSUME NEW v \in Workloads, Rollout(v) \/ RestartPods(v) \/ CollectPods(v)
        PROVE  dep'[w].replicas = dep[w].replicas
    BY <1>6 DEF Rollout, RestartPods, CollectPods, install
  <1>7. CASE UNCHANGED vars
    BY <1>7 DEF vars, install
  <1> QED
    BY <1>2, <1>3, <1>4, <1>5, <1>6, <1>7 DEF Next, Worker, Cluster

\* While autoscaling is asked for, no reconcile, retry or resync takes the
\* replica count back from the autoscaler (patchIPPDeploymentScaling).
THEOREM HpaKeepsReplicas == Spec => HpaInCharge
  <1> DEFINE Left ==
         \A w \in Scaled :
           /\ dep[w] # None
           /\ dep[w].owners = {Autoscalers}
           /\ w \in Autoscaled(Now)
           /\ work # None => w \in Autoscaled(work.in)
           => \/ dep'[w].replicas = dep[w].replicas
              \/ hpa[w] # None /\ dep'[w].replicas \in {hpa[w].min, hpa[w].max}
  <1>1. IInv /\ [Next]_vars => [Left]_vars
    BY StepLeavesReplicas
  <1>2. HpaInCharge <=> [][Left]_vars
    BY PTL DEF HpaInCharge
  <1> QED
    BY <1>1, <1>2, Invariance, PTL DEF Spec

=============================================================================
