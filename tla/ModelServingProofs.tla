------------------------- MODULE ModelServingProofs -------------------------
(***************************************************************************)
(* Proofs about ModelServing for any models, providers, candidates, pods,  *)
(* timeouts and number of disturbances: its types, that transport is       *)
(* always under the provider's finalizer, that a deleted model leaves      *)
(* nothing behind, that rules are applied before they are published and    *)
(* when they are pruned only after the drain.                              *)
(***************************************************************************)
EXTENDS ModelServing, TLAPS

\* A worker that is not idle works on an object.
WorkersBusy ==
    /\ mw.pc # "idle" => mw.cur \in Models
    /\ pw.pc # "idle" => pw.cur \in Providers

\* The provider worker writes transport of a claimed provider only and gives
\* the claim up only after the transport is gone.
ProviderClaims ==
    /\ TransportFinalized
    /\ pw.pc \in {"recheck", "write"} => prov[pw.cur].fin
    /\ pw.pc = "release" => pw.cur \notin transport

\* A pass over a terminating model never wants its candidates, ...
Terminating ==
    /\ mw.pc # "idle" /\ mw.del => model[mw.cur].phase = "deleting"
    /\ mw.pc \in {"apply", "publish", "finish", "prune"} /\ mw.del => Of(mw.cur, mw.want) = {}

\* ... the rules stay within what the pass wants or keeps, ...
RulesBounded ==
    /\ mw.pc \in {"apply", "publish", "finish"} => routes \subseteq mw.union
    /\ mw.pc = "prune" => \A c \in routes : c[1] \in mw.todo \/ c \in mw.want
    /\ mw.pc \in {"finish", "prune"} => overlay = mw.want
    /\ mw.pc = "cutOverlay" => routes = {}

\* ... and when it comes to the finalizer nothing of the model is left.
NothingLeft ==
    mw.pc = "release" /\ mw.del =>
        Of(mw.cur, routes) = {} /\ overlay \in {None} \cup SUBSET (Cand \ Of(mw.cur, Cand))

\* What is about to be published has its rules, or had them while its model existed.
RulesFirst ==
    /\ mw.pc = "apply" =>
         /\ mw.want \subseteq mw.union
         /\ \A c \in mw.union : c[1] \in mw.todo \/ c \in routes \/ ~model[c[1]].fin
    /\ mw.pc = "publish" => \A c \in mw.want : c \in routes \/ ~model[c[1]].fin
    /\ mw.pc \in {"exclude", "reduce"} => mw.want \subseteq Published

\* The inductive invariant of the model worker.
ModelPass == Terminating /\ RulesBounded /\ NothingLeft /\ RulesFirst

-----------------------------------------------------------------------------
\* The candidates' components, and the sets the reconcilers compute from them.
LEMMA CandTypes ==
    ASSUME NEW S \in SUBSET Cand
    PROVE  /\ {c[1] : c \in S} \in SUBSET Models
           /\ \A c \in S : c \in Cand /\ c[1] \in Models /\ c[2] \in Providers
  BY CandAssumption

LEMMA SetTypes ==
    ASSUME TypeOK
    PROVE  /\ Published \in SUBSET Cand /\ Resolved \in SUBSET Cand /\ RuntimeSet \in SUBSET Cand
           /\ \A W \in SUBSET Cand : TransportRoutes(W) \in SUBSET Cand
           /\ Live \in SUBSET Models
  BY DEF TypeOK, Published, Resolved, RuntimeSet, AllReady, TransportRoutes, Live

\* The idle workers are well typed.
LEMMA IdleTypes ==
    /\ IdleModelWorker \in ModelWork /\ IdleModelWorker.pc = "idle"
    /\ IdleProviderWorker \in ProviderWork /\ IdleProviderWorker.pc = "idle"
  BY DEF IdleModelWorker, IdleProviderWorker, ModelWork, ProviderWork, MPc, PPc

\* The initial states are well typed.
LEMMA InitType == Init => TypeOK /\ WorkersBusy
  BY IdleTypes, DrainAssumption, WeightedAssumption DEF Init, TypeOK, WorkersBusy, TenantState, Phase,
     ModelObject, ProviderObject, Pod

\* A disturbance counts.
LEMMA DisturbType ==
    ASSUME TypeOK, NEW k, Disturb(k) PROVE disturb' \in 0..MaxDisturb
  BY DrainAssumption DEF TypeOK, Disturb

\* Every step keeps the types and the objects of the workers.
LEMMA TypeStep == TypeOK /\ WorkersBusy /\ [Next]_vars => (TypeOK /\ WorkersBusy)'
  <1> SUFFICES ASSUME TypeOK, WorkersBusy, [Next]_vars PROVE (TypeOK /\ WorkersBusy)'
    OBVIOUS
  <1>1. CASE UNCHANGED vars
    BY <1>1 DEF vars, TypeOK, WorkersBusy
  <1>2. ASSUME NEW m \in Models, StartModel(m) PROVE (TypeOK /\ WorkersBusy)'
    <2>1. model' \in [Models -> ModelObject]
      <3>1. [model[m] EXCEPT !.fin = TRUE] \in ModelObject
        BY DEF TypeOK, ModelObject
      <3>2. model' = model \/ model' = [model EXCEPT ![m] = [model[m] EXCEPT !.fin = TRUE]]
        BY <1>2 DEF StartModel
      <3> QED
        BY <3>1, <3>2 DEF TypeOK
    <2>2. mw' \in ModelWork /\ (mw'.pc # "idle" => mw'.cur \in Models)
      BY <1>2, IdleTypes DEF StartModel, Begin, IdleModelWorker, TypeOK, WorkersBusy, ModelWork, MPc
    <2> QED
      BY <1>2, <2>1, <2>2 DEF TypeOK, WorkersBusy, StartModel, dataVars
  <1>3. ASSUME NEW p \in Providers, StartProvider(p) PROVE (TypeOK /\ WorkersBusy)'
    <2>1. prov' \in [Providers -> ProviderObject]
      <3> DEFINE r == [prov[p] EXCEPT !.ready = FALSE]
                 c == [prov[p] EXCEPT !.fin = TRUE]
                 d == [prov[p] EXCEPT !.fin = TRUE, !.ready = FALSE]
      <3>1. {r, c, d} \subseteq ProviderObject
        BY DEF TypeOK, ProviderObject
      <3>2. \/ prov' = prov \/ prov' = [prov EXCEPT ![p] = r]
            \/ prov' = [prov EXCEPT ![p] = c] \/ prov' = [prov EXCEPT ![p] = d]
        BY <1>3 DEF StartProvider, StartDeleting, StartReleased, StartClaimed
      <3> QED
        BY <3>1, <3>2 DEF TypeOK
    <2>2. pw' \in ProviderWork /\ (pw'.pc # "idle" => pw'.cur \in Providers)
      <3>1. pw' = pw \/ \E n \in {"recheck", "clean", "failClean"} : Take(p, n)
        BY <1>3 DEF StartProvider, StartDeleting, StartReleased, StartClaimed
      <3> QED
        <4>1. ASSUME NEW n \in {"recheck", "clean", "failClean"}, Take(p, n)
              PROVE  pw' \in ProviderWork /\ pw'.cur \in Providers
          <5> DEFINE b == prov[p].phase = "deleting"
          <5>1. b \in BOOLEAN /\ pw' = [pc |-> n, cur |-> p, del |-> b]
            BY <4>1 DEF Take
          <5> HIDE DEF b
          <5> QED
            BY <5>1 DEF ProviderWork, PPc
        <4> QED
          BY <3>1, <4>1 DEF TypeOK, WorkersBusy
    <2> QED
      BY <1>3, <2>1, <2>2 DEF TypeOK, WorkersBusy, StartProvider, dataVars
  <1>4. CASE Resolve
    <2>1. PICK T \in SUBSET Models : T = {c[1] : c \in TransportRoutes(Resolved) \cup routes}
      <3>1. TransportRoutes(Resolved) \cup routes \in SUBSET Cand
        BY SetTypes DEF TypeOK
      <3> QED
        BY <3>1, CandTypes
    <2>2. PICK S \in SUBSET Models : S = {c[1] : c \in routes} \ (Live \ WeightDisabled)
      BY CandTypes DEF TypeOK
    <2>3. PICK K \in SUBSET Cand : K = {c \in Published : c[1] \notin WeightDisabled}
      BY SetTypes
    <2>4. mw' \in ModelWork /\ (mw'.pc # "idle" => mw'.cur \in Models)
      <3>1. \/ mw' = IdleModelWorker
            \/ mw' = [mw EXCEPT !.pc = "apply", !.want = Resolved,
                                !.union = TransportRoutes(Resolved), !.todo = T]
            \/ mw' = [mw EXCEPT !.pc = "cutRoutes"]
            \/ mw' = [mw EXCEPT !.pc = "exclude", !.want = K, !.todo = S]
        BY <1>4, <2>1, <2>2, <2>3 DEF Resolve, ModelEnds, ModelGoes
      <3>2. TransportRoutes(Resolved) \in SUBSET Cand /\ Resolved \in SUBSET Cand
        BY SetTypes
      <3>3. mw.cur \in Models
        BY <1>4 DEF Resolve, WorkersBusy
      <3>4. CASE mw' = IdleModelWorker
        BY <3>4, IdleTypes
      <3>5. CASE mw' # IdleModelWorker
        BY <3>1, <3>2, <3>3, <3>5 DEF TypeOK, ModelWork, MPc
      <3> QED
        BY <3>4, <3>5
    <2> QED
      BY <1>4, <2>4 DEF TypeOK, WorkersBusy, Resolve, dataVars, specVars
  <1>5. CASE ApplyRoute
    <2>1. routes' \in SUBSET Cand
      BY <1>5 DEF ApplyRoute, Of, TypeOK, ModelWork
    <2>2. mw' \in ModelWork /\ (mw'.pc # "idle" => mw'.cur \in Models)
      <3>1. PICK m \in mw.todo : mw' = [mw EXCEPT !.todo = mw.todo \ {m}]
        BY <1>5 DEF ApplyRoute
      <3> QED
        BY <1>5, <3>1 DEF ApplyRoute, TypeOK, WorkersBusy, ModelWork
    <2> QED
      BY <1>5, <2>1, <2>2 DEF TypeOK, WorkersBusy, ApplyRoute, dataVars, specVars
  <1>6. CASE RoutesApplied
    <2>1. mw' \in ModelWork /\ (mw'.pc # "idle" => mw'.cur \in Models)
      BY <1>6 DEF RoutesApplied, ModelGoes, TypeOK, WorkersBusy, ModelWork, MPc
    <2> QED
      BY <1>6, <2>1 DEF TypeOK, WorkersBusy, RoutesApplied, dataVars, specVars
  <1>7. CASE Publish
    <2>1. overlay' \in SUBSET Cand
      BY <1>7 DEF Publish, TypeOK, ModelWork
    <2>2. mw' \in ModelWork /\ (mw'.pc # "idle" => mw'.cur \in Models)
      BY <1>7 DEF Publish, ModelGoes, TypeOK, WorkersBusy, ModelWork, MPc
    <2> QED
      BY <1>7, <2>1, <2>2 DEF TypeOK, WorkersBusy, Publish, dataVars, specVars
  <1>8. CASE FinishWithdrawal
    <2>1. PICK T \in SUBSET Models : T = {c[1] : c \in routes}
      BY CandTypes DEF TypeOK
    <2>2. mw' \in ModelWork /\ (mw'.pc # "idle" => mw'.cur \in Models)
      <3>1. \/ mw' = IdleModelWorker \/ mw' = [mw EXCEPT !.pc = "release"]
            \/ mw' = [mw EXCEPT !.pc = "prune", !.todo = T]
        BY <1>8, <2>1 DEF FinishWithdrawal, Done, ModelEnds, ModelGoes
      <3>2. mw.cur \in Models
        BY <1>8 DEF FinishWithdrawal, WorkersBusy
      <3> QED
        BY <3>1, <3>2, IdleTypes DEF TypeOK, ModelWork, MPc
    <2>3. [rev |-> mw.want, left |-> DrainDuration] \in [rev: SUBSET Cand, left: 0..DrainDuration]
      BY DrainAssumption DEF TypeOK, ModelWork
    <2>4. drain' \in {None} \cup [rev: SUBSET Cand, left: 0..DrainDuration]
      BY <1>8, <2>3 DEF FinishWithdrawal, TypeOK
    <2> QED
      BY <1>8, <2>2, <2>4 DEF TypeOK, WorkersBusy, FinishWithdrawal, dataVars, specVars
  <1>9. CASE RoutesPruned
    <2>1. mw' \in ModelWork /\ (mw'.pc # "idle" => mw'.cur \in Models)
      BY <1>9, IdleTypes DEF RoutesPruned, Done, ModelEnds, ModelGoes, TypeOK, WorkersBusy, ModelWork, MPc
    <2> QED
      BY <1>9, <2>1 DEF TypeOK, WorkersBusy, RoutesPruned, dataVars, specVars
  <1>10. CASE CutRoutes
    <2>1. mw' \in ModelWork /\ (mw'.pc # "idle" => mw'.cur \in Models)
      BY <1>10 DEF CutRoutes, ModelGoes, TypeOK, WorkersBusy, ModelWork, MPc
    <2>2. routes' \in SUBSET Cand
      BY <1>10 DEF CutRoutes, TypeOK
    <2> QED
      BY <1>10, <2>1, <2>2 DEF TypeOK, WorkersBusy, CutRoutes, dataVars, specVars
  <1>11. CASE CutOverlay
    <2>1. mw' \in ModelWork /\ (mw'.pc # "idle" => mw'.cur \in Models)
      BY <1>11, IdleTypes DEF CutOverlay, Done, ModelEnds, ModelGoes, TypeOK, WorkersBusy, ModelWork, MPc
    <2> QED
      BY <1>11, <2>1 DEF TypeOK, WorkersBusy, CutOverlay, dataVars, specVars
  <1>12. CASE ExcludeRoutes
    <2>1. routes' \in SUBSET Cand
      BY <1>12 DEF ExcludeRoutes, TypeOK
    <2>2. mw' \in ModelWork /\ (mw'.pc # "idle" => mw'.cur \in Models)
      BY <1>12 DEF ExcludeRoutes, ModelGoes, TypeOK, WorkersBusy, ModelWork, MPc
    <2> QED
      BY <1>12, <2>1, <2>2 DEF TypeOK, WorkersBusy, ExcludeRoutes, dataVars, specVars
  <1>13. CASE ReduceOverlay
    <2>1. overlay' \in {None} \cup SUBSET Cand
      BY <1>13 DEF ReduceOverlay, TypeOK, ModelWork
    <2>2. mw' \in ModelWork /\ (mw'.pc # "idle" => mw'.cur \in Models)
      BY <1>13, IdleTypes DEF ReduceOverlay, ModelEnds, TypeOK
    <2> QED
      BY <1>13, <2>1, <2>2 DEF TypeOK, WorkersBusy, ReduceOverlay, dataVars, specVars
  <1>14. CASE ReleaseModel
    <2>1. model' \in [Models -> ModelObject]
      <3>1. mw.cur \in Models
        BY <1>14 DEF ReleaseModel, WorkersBusy
      <3>2. [phase |-> "gone", fin |-> FALSE] \in ModelObject
            /\ [model[mw.cur] EXCEPT !.fin = FALSE] \in ModelObject
        BY <3>1 DEF TypeOK, ModelObject, Phase
      <3>3. \/ model' = model \/ model' = [model EXCEPT ![mw.cur] = [phase |-> "gone", fin |-> FALSE]]
            \/ model' = [model EXCEPT ![mw.cur] = [model[mw.cur] EXCEPT !.fin = FALSE]]
        BY <1>14 DEF ReleaseModel
      <3> QED
        BY <3>2, <3>3 DEF TypeOK
    <2>2. ref' \in [Cand -> {"none", "off", "on"}]
      BY <1>14 DEF ReleaseModel, TypeOK
    <2>3. mw' \in ModelWork /\ (mw'.pc # "idle" => mw'.cur \in Models)
      BY <1>14, IdleTypes DEF ReleaseModel, ModelEnds
    <2> QED
      BY <1>14, <2>1, <2>2, <2>3 DEF TypeOK, WorkersBusy, ReleaseModel, dataVars
  <1>15. CASE LivePraxisBeforeWrite \/ WriteTransport
    <2>1. pw' \in ProviderWork /\ (pw'.pc # "idle" => pw'.cur \in Providers)
      BY <1>15, IdleTypes
      DEF LivePraxisBeforeWrite, WriteTransport, ProviderEnds, ProviderGoes, TypeOK, WorkersBusy, ProviderWork, PPc
    <2>2. transport' \in SUBSET Providers
      BY <1>15 DEF LivePraxisBeforeWrite, WriteTransport, TypeOK, WorkersBusy
    <2>3. disturb' \in 0..MaxDisturb
      BY <1>15, DisturbType DEF LivePraxisBeforeWrite, WriteTransport, TypeOK
    <2> QED
      BY <1>15, <2>1, <2>2, <2>3 DEF TypeOK, WorkersBusy, LivePraxisBeforeWrite, WriteTransport,
         providerFrame, dataVars
  <1>16. CASE ReportProvider
    <2>1. prov' \in [Providers -> ProviderObject]
      <3> DEFINE b == pw.pc = "ready"
      <3>1. [prov[pw.cur] EXCEPT !.ready = b] \in ProviderObject
        <4>1. prov[pw.cur] \in ProviderObject /\ b \in BOOLEAN
          BY <1>16 DEF ReportProvider, WorkersBusy, TypeOK
        <4> HIDE DEF b
        <4> QED
          BY <4>1 DEF ProviderObject
      <3>2. prov' = [prov EXCEPT ![pw.cur] = [prov[pw.cur] EXCEPT !.ready = b]]
        BY <1>16 DEF ReportProvider
      <3> HIDE DEF b
      <3> QED
        BY <3>1, <3>2 DEF TypeOK
    <2>2. pw' \in ProviderWork /\ (pw'.pc # "idle" => pw'.cur \in Providers)
      BY <1>16, IdleTypes DEF ReportProvider, ProviderEnds
    <2> QED
      BY <1>16, <2>1, <2>2 DEF TypeOK, WorkersBusy, ReportProvider, providerFrame, dataVars
  <1>17. CASE CleanTransport
    <2>1. pw' \in ProviderWork /\ (pw'.pc # "idle" => pw'.cur \in Providers)
      BY <1>17 DEF CleanTransport, ProviderGoes, TypeOK, WorkersBusy, ProviderWork, PPc
    <2> QED
      BY <1>17, <2>1 DEF TypeOK, WorkersBusy, CleanTransport, providerFrame, dataVars
  <1>18. CASE ReleaseProvider
    <2>1. prov' \in [Providers -> ProviderObject]
      <3> DEFINE g == [prov[pw.cur] EXCEPT !.phase = "gone", !.fin = FALSE, !.ready = FALSE]
                 r == [prov[pw.cur] EXCEPT !.fin = FALSE]
      <3>1. prov[pw.cur] \in ProviderObject
        BY <1>18 DEF ReleaseProvider, WorkersBusy, TypeOK
      <3>2. {g, r} \subseteq ProviderObject
        BY <3>1 DEF ProviderObject, Phase
      <3>3. \/ prov' = prov \/ prov' = [prov EXCEPT ![pw.cur] = g]
            \/ prov' = [prov EXCEPT ![pw.cur] = r]
        BY <1>18 DEF ReleaseProvider
      <3> QED
        BY <3>2, <3>3 DEF TypeOK
    <2>2. pw' \in ProviderWork /\ (pw'.pc # "idle" => pw'.cur \in Providers)
      BY <1>18, IdleTypes DEF ReleaseProvider, ProviderEnds
    <2> QED
      BY <1>18, <2>1, <2>2 DEF TypeOK, WorkersBusy, ReleaseProvider, providerFrame, dataVars
  <1>19. CASE RolloutRuntime
    BY <1>19, SetTypes DEF RolloutRuntime, specVars, TypeOK, WorkersBusy
  <1>20. CASE Tick
    <2>1. \A n \in Nat, k \in Nat : n \in 0..k => Less(n) \in 0..k
      BY DEF Less
    <2>2. infl' \in [Cand -> 0..RequestTimeout]
      BY <1>20, <2>1, DrainAssumption DEF Tick, TypeOK
    <2>3. drain' \in {None} \cup [rev: SUBSET Cand, left: 0..DrainDuration]
      BY <1>20, <2>1, DrainAssumption DEF Tick, TypeOK
    <2> QED
      BY <1>20, <2>2, <2>3 DEF Tick, specVars, TypeOK, WorkersBusy
  <1>21. ASSUME NEW i \in Pods, RestartPod(i) PROVE (TypeOK /\ WorkersBusy)'
    <2>1. pods' \in [Pods -> Pod]
      <3> DEFINE a == [serves |-> overlay, cfg |-> runtime, logged |-> TRUE]
                 z == [serves |-> {}, cfg |-> None, logged |-> FALSE]
      <3>1. \/ overlay # None /\ pods' = [pods EXCEPT ![i] = a]
            \/ pods' = [pods EXCEPT ![i] = z]
        BY <1>21 DEF RestartPod
      <3>2. (overlay # None => a \in Pod) /\ z \in Pod
        BY DEF TypeOK, Pod
      <3> QED
        BY <3>1, <3>2 DEF TypeOK
    <2> QED
      BY <1>21, <2>1 DEF TypeOK, WorkersBusy, RestartPod, frame, specVars
  <1>22. ASSUME NEW i \in Pods, ReloadPod(i) PROVE (TypeOK /\ WorkersBusy)'
    <2>1. pods' \in [Pods -> Pod]
      <3> DEFINE a == [pods[i] EXCEPT !.serves = overlay, !.logged = TRUE]
      <3>1. overlay # None /\ pods' = [pods EXCEPT ![i] = a]
        BY <1>22 DEF ReloadPod
      <3>2. a \in Pod
        BY <3>1 DEF TypeOK, Pod
      <3> QED
        BY <3>1, <3>2 DEF TypeOK
    <2> QED
      BY <1>22, <2>1 DEF TypeOK, WorkersBusy, ReloadPod, frame, specVars
  <1>23. ASSUME NEW c \in Cand, Request(c) PROVE (TypeOK /\ WorkersBusy)'
    <2>1. infl' \in [Cand -> 0..RequestTimeout]
      BY <1>23, DrainAssumption DEF Request, TypeOK
    <2> QED
      BY <1>23, <2>1 DEF TypeOK, WorkersBusy, Request, frame, specVars
  <1>24. CASE EditModel
    <2>1. ref' \in [Cand -> {"none", "off", "on"}]
      BY <1>24 DEF EditModel, TypeOK, Of
    <2>2. disturb' \in 0..MaxDisturb
      BY <1>24, DisturbType DEF EditModel
    <2> QED
      BY <1>24, <2>1, <2>2 DEF TypeOK, WorkersBusy, EditModel, editFrame, dataVars
  <1>25. CASE CreateModel
    <2>1. ref' \in [Cand -> {"none", "off", "on"}]
      BY <1>25 DEF CreateModel, TypeOK
    <2>2. model' \in [Models -> ModelObject]
      BY <1>25 DEF CreateModel, TypeOK, Phase, ModelObject
    <2>3. disturb' \in 0..MaxDisturb
      BY <1>25, DisturbType DEF CreateModel
    <2> QED
      BY <1>25, <2>1, <2>2, <2>3 DEF TypeOK, WorkersBusy, CreateModel, editFrame, dataVars
  <1>26. CASE DeleteModel
    <2>1. ref' \in [Cand -> {"none", "off", "on"}]
      BY <1>26 DEF DeleteModel, TypeOK
    <2>2. model' \in [Models -> ModelObject]
      BY <1>26 DEF DeleteModel, TypeOK, Phase, Live, ModelObject
    <2>3. routes' \in SUBSET Cand
      BY <1>26 DEF DeleteModel, TypeOK
    <2>4. disturb' \in 0..MaxDisturb
      BY <1>26, DisturbType DEF DeleteModel
    <2> QED
      BY <1>26, <2>1, <2>2, <2>3, <2>4 DEF TypeOK, WorkersBusy, DeleteModel, editFrame, dataVars
  <1>27. CASE DeleteProvider
    <2>1. prov' \in [Providers -> ProviderObject]
      <3>1. PICK p \in Providers, f \in {"deleting", "gone"} :
              prov' = [prov EXCEPT ![p].phase = f, ![p].ready = FALSE]
        BY <1>27 DEF DeleteProvider
      <3>2. [prov[p] EXCEPT !.phase = f, !.ready = FALSE] \in ProviderObject
        BY DEF TypeOK, ProviderObject, Phase
      <3> QED
        BY <3>1, <3>2 DEF TypeOK
    <2>2. disturb' \in 0..MaxDisturb
      BY <1>27, DisturbType DEF DeleteProvider
    <2> QED
      BY <1>27, <2>1, <2>2 DEF TypeOK, WorkersBusy, DeleteProvider, editFrame, dataVars
  <1>28. CASE CreateProvider
    <2>1. prov' \in [Providers -> ProviderObject]
      BY <1>28 DEF CreateProvider, TypeOK, Phase, ProviderObject
    <2>2. disturb' \in 0..MaxDisturb
      BY <1>28, DisturbType DEF CreateProvider
    <2> QED
      BY <1>28, <2>1, <2>2 DEF TypeOK, WorkersBusy, CreateProvider, editFrame, dataVars
  <1>29. CASE ChangeSecret
    <2>1. prov' \in [Providers -> ProviderObject]
      <3>1. PICK p \in Providers :
              prov' = [prov EXCEPT ![p] = [prov[p] EXCEPT !.valid = ~prov[p].valid]]
        BY <1>29 DEF ChangeSecret
      <3> DEFINE b == ~prov[p].valid
      <3>2. b \in BOOLEAN /\ prov[p] \in ProviderObject
        BY DEF TypeOK
      <3>3. prov' = [prov EXCEPT ![p] = [prov[p] EXCEPT !.valid = b]]
        BY <3>1
      <3> HIDE DEF b
      <3>4. [prov[p] EXCEPT !.valid = b] \in ProviderObject
        BY <3>2 DEF ProviderObject
      <3> QED
        BY <3>3, <3>4 DEF TypeOK
    <2>2. disturb' \in 0..MaxDisturb
      BY <1>29, DisturbType DEF ChangeSecret
    <2> QED
      BY <1>29, <2>1, <2>2 DEF TypeOK, WorkersBusy, ChangeSecret, editFrame, dataVars
  <1>30. CASE ChangeTenant
    <2>1. tenant' \in TenantState
      BY <1>30 DEF ChangeTenant, TenantState
    <2>2. disturb' \in 0..MaxDisturb
      BY <1>30, DisturbType DEF ChangeTenant
    <2> QED
      BY <1>30, <2>1, <2>2 DEF TypeOK, WorkersBusy, ChangeTenant, editFrame, dataVars
  <1>31. CASE Fail
    <2>1. disturb' \in 0..MaxDisturb
      BY <1>31, DisturbType DEF Fail
    <2>2. mw' = IdleModelWorker /\ pw' = IdleProviderWorker
      BY <1>31 DEF Fail, ModelEnds, ProviderEnds
    <2> QED
      BY <1>31, <2>1, <2>2, IdleTypes DEF TypeOK, WorkersBusy, Fail, dataVars, specVars
  <1>32. ASSUME NEW i \in Pods, LoseLog(i) PROVE (TypeOK /\ WorkersBusy)'
    <2>1. pods' \in [Pods -> Pod]
      BY <1>32 DEF LoseLog, TypeOK, Pod
    <2>2. disturb' \in 0..MaxDisturb
      BY <1>32, DisturbType DEF LoseLog
    <2> QED
      BY <1>32, <2>1, <2>2 DEF TypeOK, WorkersBusy, LoseLog, frame, specVars
  <1> QED
    BY <1>1, <1>2, <1>3, <1>4, <1>5, <1>6, <1>7, <1>8, <1>9, <1>10, <1>11, <1>12, <1>13, <1>14, <1>15, <1>16,
       <1>17, <1>18, <1>19, <1>20, <1>21, <1>22, <1>23, <1>24, <1>25, <1>26, <1>27, <1>28, <1>29, <1>30, <1>31, <1>32,
       CandAssumption
    DEF Next, ModelStep, ProviderStep, Dataplane, Edits

\* Every reachable state of the two reconcilers, the runtime and the pods is
\* well typed.
THEOREM TypeCorrect == Spec => []TypeOK
  <1>1. Init => TypeOK /\ WorkersBusy
    BY InitType
  <1>2. TypeOK /\ WorkersBusy /\ [Next]_vars => (TypeOK /\ WorkersBusy)'
    BY TypeStep
  <1> QED
    BY <1>1, <1>2, PTL DEF Spec

-----------------------------------------------------------------------------
\* Steps of others leave the providers, their transport and their worker alone.
LEMMA ProviderFrame ==
    ASSUME [Next]_vars
    PROVE  \/ UNCHANGED <<prov, pw, transport>>
           \/ \E p \in Providers : StartProvider(p)
           \/ ProviderStep \/ DeleteProvider \/ CreateProvider \/ ChangeSecret \/ Fail
  BY DEF Next, vars, ModelStep, Dataplane, Edits, StartModel, Resolve, ApplyRoute, RoutesApplied,
     Publish, FinishWithdrawal, RoutesPruned, CutRoutes, CutOverlay, ExcludeRoutes, ReduceOverlay,
     ReleaseModel, RolloutRuntime, Tick, RestartPod, ReloadPod, LoseLog, Request, EditModel,
     CreateModel, DeleteModel, ChangeTenant, frame, editFrame, specVars

\* The provider's claim and its transport are kept in order by every step.
LEMMA ClaimStep ==
    TypeOK /\ WorkersBusy /\ ProviderClaims /\ [Next]_vars => ProviderClaims'
  <1> SUFFICES ASSUME TypeOK, WorkersBusy, ProviderClaims, [Next]_vars PROVE ProviderClaims'
    OBVIOUS
  <1> USE DEF ProviderClaims, TransportFinalized
  <1>1. CASE UNCHANGED <<prov, pw, transport>>
    BY <1>1
  <1>2. ASSUME NEW p \in Providers, StartProvider(p) PROVE ProviderClaims'
    <2>1. transport' = transport /\ pw.pc = "idle"
      BY <1>2 DEF StartProvider
    <2>2. CASE StartDeleting(p)
      BY <1>2, <2>1, <2>2 DEF StartDeleting, Take, TypeOK, ProviderObject
    <2>3. CASE StartReleased(p)
      BY <1>2, <2>1, <2>3 DEF StartReleased, Take
    <2>4. CASE StartClaimed(p)
      <3>1. \A q \in Providers : prov[q].fin => prov'[q].fin
        BY <2>4 DEF StartClaimed, TypeOK, ProviderObject
      <3>2. prov'[p].fin
        BY <2>4 DEF StartClaimed, TypeOK, ProviderObject
      <3>3. pw' = pw \/ (pw'.cur = p /\ pw'.pc \in {"recheck", "failClean"})
        BY <2>4 DEF StartClaimed, Take
      <3> QED
        BY <2>1, <3>1, <3>2, <3>3 DEF TypeOK
    <2> QED
      BY <1>2, <2>2, <2>3, <2>4 DEF StartProvider
  <1>3. CASE LivePraxisBeforeWrite \/ WriteTransport
    BY <1>3, IdleTypes
    DEF LivePraxisBeforeWrite, WriteTransport, ProviderEnds, ProviderGoes, TypeOK, ProviderWork
  <1>4. CASE ReportProvider
    <2>1. \A q \in Providers : prov'[q].fin = prov[q].fin
      BY <1>4 DEF ReportProvider, TypeOK, ProviderObject
    <2> QED
      BY <1>4, <2>1, IdleTypes DEF ReportProvider, ProviderEnds, TypeOK
  <1>5. CASE CleanTransport
    BY <1>5 DEF CleanTransport, ProviderGoes, TypeOK, ProviderWork
  <1>6. CASE ReleaseProvider
    <2>1. \A q \in Providers \ {pw.cur} : prov'[q].fin = prov[q].fin
      BY <1>6 DEF ReleaseProvider, TypeOK, ProviderObject
    <2> QED
      BY <1>6, <2>1, IdleTypes DEF ReleaseProvider, ProviderEnds, TypeOK
  <1>7. ASSUME DeleteProvider \/ CreateProvider \/ ChangeSecret PROVE ProviderClaims'
    <2>1. \A q \in Providers : prov'[q].fin = prov[q].fin
      <3>1. CASE DeleteProvider
        BY <3>1 DEF DeleteProvider, TypeOK, ProviderObject
      <3>2. CASE CreateProvider
        BY <3>2 DEF CreateProvider, TypeOK, ProviderObject
      <3>3. CASE ChangeSecret
        BY <3>3 DEF ChangeSecret, TypeOK, ProviderObject
      <3> QED
        BY <1>7, <3>1, <3>2, <3>3
    <2>2. UNCHANGED <<transport, pw>>
      BY <1>7 DEF DeleteProvider, CreateProvider, ChangeSecret, editFrame
    <2> QED
      BY <2>1, <2>2 DEF TypeOK, WorkersBusy
  <1>8. CASE Fail
    BY <1>8, IdleTypes DEF Fail, ProviderEnds, specVars
  <1> QED
    BY <1>1, <1>2, <1>3, <1>4, <1>5, <1>6, <1>7, <1>8, ProviderFrame DEF ProviderStep

\* Service, ServiceEntry and DestinationRule of a provider exist only under its
\* cleanup finalizer: ReconcileProvider claims before it writes and releases
\* after it deletes, whatever the tenant and the users do in between.
THEOREM TransportGuarded == Spec => []TransportFinalized
  <1> DEFINE I == TypeOK /\ WorkersBusy /\ ProviderClaims
  <1>1. Init => I
    BY InitType, IdleTypes DEF Init, ProviderClaims, TransportFinalized
  <1>2. I /\ [Next]_vars => I'
    BY TypeStep, ClaimStep
  <1>3. I => TransportFinalized
    BY DEF ProviderClaims
  <1> QED
    BY <1>1, <1>2, <1>3, PTL DEF Spec

-----------------------------------------------------------------------------
\* Steps of others leave the models' finalizers and phases, the rules, the
\* overlay and the model worker alone.
LEMMA ModelFrame ==
    ASSUME [Next]_vars
    PROVE  \/ UNCHANGED <<mw, model, routes, overlay>>
           \/ \E m \in Models : StartModel(m)
           \/ ModelStep \/ CreateModel \/ DeleteModel \/ Fail
  BY DEF Next, vars, ProviderStep, Dataplane, Edits, StartProvider, LivePraxisBeforeWrite,
     WriteTransport, ReportProvider,
     CleanTransport, ReleaseProvider, RolloutRuntime, Tick, RestartPod, ReloadPod, LoseLog, Request,
     EditModel, DeleteProvider, CreateProvider, ChangeSecret, ChangeTenant, frame, editFrame,
     specVars, providerFrame

\* An idle worker promises nothing.
LEMMA IdlePass ==
    ASSUME mw'.pc = "idle" PROVE ModelPass'
  BY DEF ModelPass, Terminating, RulesBounded, NothingLeft, RulesFirst

\* A worker at the start of a pass promises only that its copy is not newer
\* than the model.
LEMMA EarlyPass ==
    ASSUME mw'.pc \in {"resolve", "exclude", "cutRoutes"},
           mw'.del => model'[mw'.cur].phase = "deleting",
           mw'.pc = "exclude" => mw'.want \subseteq Published'
    PROVE  ModelPass'
  BY DEF ModelPass, Terminating, RulesBounded, NothingLeft, RulesFirst

\* Every step keeps what a pass of the model worker relies on.
LEMMA PassStep ==
    TypeOK /\ WorkersBusy /\ ModelPass /\ [Next]_vars => ModelPass'
  <1> SUFFICES ASSUME TypeOK, WorkersBusy, ModelPass, [Next]_vars PROVE ModelPass'
    OBVIOUS
  <1>1. CASE UNCHANGED <<mw, model, routes, overlay>>
    BY <1>1 DEF ModelPass, Terminating, RulesBounded, NothingLeft, RulesFirst, Published
  <1>2. ASSUME NEW m \in Models, StartModel(m) PROVE ModelPass'
    <2>1. /\ mw'.pc \in {"resolve", "cutRoutes"} /\ mw'.cur = m
          /\ mw'.del = (model[m].phase = "deleting")
      BY <1>2 DEF StartModel, Begin, IdleModelWorker
    <2>2. model'[m].phase = model[m].phase
      BY <1>2 DEF StartModel, TypeOK, ModelObject
    <2> QED
      BY <2>1, <2>2, EarlyPass
  <1>3. CASE Resolve
    <2>1. UNCHANGED <<model, routes, overlay>> /\ mw.pc = "resolve"
      BY <1>3 DEF Resolve, specVars
    <2>2. CASE mw'.pc = "apply"
      <3>1. /\ mw'.want = Resolved /\ mw'.union = TransportRoutes(Resolved)
            /\ mw'.todo = {c[1] : c \in TransportRoutes(Resolved) \cup routes}
            /\ mw'.del = mw.del /\ mw'.cur = mw.cur
        BY <1>3, <2>2, IdleTypes DEF Resolve, ModelEnds, ModelGoes, TypeOK, ModelWork
      <3>2. mw.del => model[mw.cur].phase = "deleting"
        BY <2>1 DEF ModelPass, Terminating
      <3>3. mw.del => Of(mw.cur, Resolved) = {}
        BY <3>2 DEF Of, Resolved, Live
      <3>4. routes \subseteq TransportRoutes(Resolved) /\ Resolved \subseteq TransportRoutes(Resolved)
        BY DEF TransportRoutes
      <3> QED
        BY <2>1, <2>2, <3>1, <3>2, <3>3, <3>4
        DEF ModelPass, Terminating, RulesBounded, NothingLeft, RulesFirst, Of
    <2>3. CASE mw'.pc # "apply"
      <3>1. PICK K : K = {c \in Published : c[1] \notin WeightDisabled}
        OBVIOUS
      <3>2. \/ mw' = IdleModelWorker \/ mw' = [mw EXCEPT !.pc = "cutRoutes"]
            \/ \E T : mw' = [mw EXCEPT !.pc = "exclude", !.want = K, !.todo = T]
        BY <1>3, <2>3, <3>1 DEF Resolve, ModelEnds, ModelGoes, TypeOK, ModelWork
      <3>3. \/ mw'.pc = "idle"
            \/ /\ mw'.pc \in {"cutRoutes", "exclude"} /\ mw'.del = mw.del /\ mw'.cur = mw.cur
               /\ mw'.pc = "exclude" => mw'.want = K
        BY <3>2, IdleTypes DEF TypeOK, ModelWork
      <3> QED
        BY <2>1, <3>1, <3>3, IdlePass, EarlyPass DEF ModelPass, Terminating, Published
    <2> QED
      BY <2>2, <2>3
  <1>4. CASE ApplyRoute
    <2> DEFINE target == IF mw.pc = "apply" THEN mw.union ELSE mw.want
    <2>1. PICK m \in mw.todo : /\ routes' = (routes \ Of(m, routes)) \cup Of(m, target)
                               /\ mw' = [mw EXCEPT !.todo = mw.todo \ {m}]
      BY <1>4 DEF ApplyRoute
    <2>2. UNCHANGED <<model, overlay>> /\ mw.pc \in {"apply", "prune"}
      BY <1>4 DEF ApplyRoute, specVars
    <2>3. /\ mw'.pc = mw.pc /\ mw'.del = mw.del /\ mw'.cur = mw.cur /\ mw'.want = mw.want
          /\ mw'.union = mw.union /\ mw'.todo = mw.todo \ {m}
      BY <2>1 DEF TypeOK, ModelWork
    <2>4. Terminating' /\ NothingLeft'
      BY <2>2, <2>3 DEF ModelPass, Terminating, NothingLeft, Of
    <2>5. RulesBounded'
      BY <2>1, <2>2, <2>3 DEF ModelPass, RulesBounded, Of
    <2>6. RulesFirst'
      BY <2>1, <2>2, <2>3 DEF ModelPass, RulesFirst, Of
    <2> QED
      BY <2>4, <2>5, <2>6 DEF ModelPass
  <1>5. CASE RoutesApplied
    <2>1. /\ mw'.pc = "publish" /\ mw'.del = mw.del /\ mw'.cur = mw.cur /\ mw'.want = mw.want
          /\ mw'.union = mw.union /\ mw.pc = "apply" /\ mw.todo = {}
          /\ UNCHANGED <<model, routes, overlay>>
      BY <1>5 DEF RoutesApplied, ModelGoes, TypeOK, ModelWork, specVars
    <2> QED
      BY <2>1 DEF ModelPass, Terminating, RulesBounded, NothingLeft, RulesFirst, Of
  <1>6. CASE Publish
    <2>1. /\ mw'.pc = "finish" /\ mw'.del = mw.del /\ mw'.cur = mw.cur /\ mw'.want = mw.want
          /\ mw'.union = mw.union /\ mw.pc = "publish" /\ overlay' = mw.want
          /\ UNCHANGED <<model, routes>>
      BY <1>6 DEF Publish, ModelGoes, TypeOK, ModelWork, specVars
    <2> QED
      BY <2>1 DEF ModelPass, Terminating, RulesBounded, NothingLeft, RulesFirst, Of
  <1>7. CASE FinishWithdrawal
    <2>1. UNCHANGED <<model, routes, overlay>> /\ mw.pc = "finish"
      BY <1>7 DEF FinishWithdrawal, specVars
    <2>2. \/ mw'.pc = "idle"
          \/ mw.union = mw.want /\ mw' = [mw EXCEPT !.pc = "release"]
          \/ mw' = [mw EXCEPT !.pc = "prune", !.todo = {c[1] : c \in routes}]
      BY <1>7, IdleTypes DEF FinishWithdrawal, Done, ModelEnds, ModelGoes
    <2>3. overlay = mw.want /\ mw.want \in SUBSET Cand
      BY <2>1 DEF ModelPass, RulesBounded, TypeOK, ModelWork
    <2>4. CASE mw'.pc = "idle"
      BY <2>4, IdlePass
    <2>5. CASE mw.union = mw.want /\ mw' = [mw EXCEPT !.pc = "release"]
      <3>1. mw'.pc = "release" /\ mw'.del = mw.del /\ mw'.cur = mw.cur
        BY <2>5 DEF TypeOK, ModelWork
      <3>2. mw.del => Of(mw.cur, mw.want) = {} /\ model[mw.cur].phase = "deleting"
        BY <2>1 DEF ModelPass, Terminating
      <3>3. routes \subseteq mw.want
        BY <2>1, <2>5 DEF ModelPass, RulesBounded
      <3>4. NothingLeft'
        BY <2>1, <2>3, <3>1, <3>2, <3>3 DEF NothingLeft, Of
      <3> QED
        BY <2>1, <3>1, <3>2, <3>4 DEF ModelPass, Terminating, RulesBounded, RulesFirst
    <2>6. CASE mw' = [mw EXCEPT !.pc = "prune", !.todo = {c[1] : c \in routes}]
      <3>1. /\ mw'.pc = "prune" /\ mw'.del = mw.del /\ mw'.cur = mw.cur /\ mw'.want = mw.want
            /\ mw'.todo = {c[1] : c \in routes}
        BY <2>6 DEF TypeOK, ModelWork
      <3> QED
        BY <2>1, <2>3, <3>1 DEF ModelPass, Terminating, RulesBounded, NothingLeft, RulesFirst, Of
    <2> QED
      BY <2>2, <2>4, <2>5, <2>6
  <1>8. CASE RoutesPruned
    <2>1. /\ UNCHANGED <<model, routes, overlay>> /\ mw.pc = "prune" /\ mw.todo = {}
          /\ \/ mw'.pc = "idle"
             \/ mw'.pc = "release" /\ mw'.del = mw.del /\ mw'.cur = mw.cur
      BY <1>8, IdleTypes DEF RoutesPruned, Done, ModelEnds, ModelGoes, TypeOK, ModelWork, specVars
    <2>2. CASE mw'.pc = "idle"
      BY <2>2, IdlePass
    <2>3. CASE mw'.pc = "release" /\ mw'.del = mw.del /\ mw'.cur = mw.cur
      <3>1. mw.del => Of(mw.cur, mw.want) = {} /\ model[mw.cur].phase = "deleting"
        BY <2>1 DEF ModelPass, Terminating
      <3>2. routes \subseteq mw.want /\ overlay = mw.want /\ mw.want \in SUBSET Cand
        BY <2>1 DEF ModelPass, RulesBounded, TypeOK, ModelWork
      <3>3. NothingLeft'
        BY <2>1, <2>3, <3>1, <3>2 DEF NothingLeft, Of
      <3> QED
        BY <2>1, <2>3, <3>1, <3>3 DEF ModelPass, Terminating, RulesBounded, RulesFirst
    <2> QED
      BY <2>1, <2>2, <2>3
  <1>9. CASE CutRoutes
    <2>1. /\ mw'.pc \in {"cutRoutes", "cutOverlay"} /\ mw'.del = mw.del /\ mw'.cur = mw.cur
          /\ mw.pc = "cutRoutes" /\ (mw'.pc = "cutOverlay" => routes' = {}) /\ UNCHANGED model
      BY <1>9 DEF CutRoutes, ModelGoes, TypeOK, ModelWork, specVars
    <2> QED
      BY <2>1 DEF ModelPass, Terminating, RulesBounded, NothingLeft, RulesFirst
  <1>10. CASE CutOverlay
    <2>1. /\ mw.pc = "cutOverlay" /\ overlay' = None /\ UNCHANGED <<model, routes>>
          /\ \/ mw'.pc = "idle"
             \/ mw'.pc = "release" /\ mw'.del = mw.del /\ mw'.cur = mw.cur
      BY <1>10, IdleTypes DEF CutOverlay, Done, ModelEnds, ModelGoes, TypeOK, ModelWork, specVars
    <2> QED
      BY <2>1 DEF ModelPass, Terminating, RulesBounded, NothingLeft, RulesFirst, Of
  <1>11. CASE ExcludeRoutes
    <2>1. /\ mw'.pc \in {"exclude", "reduce"} /\ mw'.del = mw.del /\ mw'.cur = mw.cur
          /\ mw.pc = "exclude" /\ mw'.want = mw.want /\ UNCHANGED <<model, overlay>>
      BY <1>11 DEF ExcludeRoutes, ModelGoes, TypeOK, ModelWork, specVars
    <2> QED
      BY <2>1 DEF ModelPass, Terminating, RulesBounded, NothingLeft, RulesFirst, Published
  <1>12. CASE ReduceOverlay \/ ReleaseModel \/ Fail
    BY <1>12, IdlePass, IdleTypes DEF ReduceOverlay, ReleaseModel, Fail, ModelEnds
  <1>13. CASE CreateModel
    <2>1. UNCHANGED <<mw, routes, overlay>>
      BY <1>13 DEF CreateModel, editFrame
    <2>2. \A m \in Models : /\ model'[m].fin = model[m].fin
                            /\ model[m].phase = "deleting" => model'[m].phase = "deleting"
      BY <1>13 DEF CreateModel, TypeOK, ModelObject
    <2>3. RulesFirst'
      BY <2>1, <2>2, CandTypes DEF ModelPass, RulesFirst, Published, TypeOK, ModelWork
    <2> QED
      BY <2>1, <2>2, <2>3 DEF ModelPass, Terminating, RulesBounded, NothingLeft, WorkersBusy
  <1>14. CASE DeleteModel
    <2>1. UNCHANGED <<mw, overlay>>
      BY <1>14 DEF DeleteModel, editFrame
    <2>2. PICK m \in Live : /\ routes' = routes \/ (routes' = routes \ Of(m, routes) /\ ~model[m].fin)
                            /\ \/ model' = [model EXCEPT ![m].phase = "deleting"]
                               \/ model' = [model EXCEPT ![m].phase = "gone"]
      BY <1>14 DEF DeleteModel
    <2>3. \A k \in Models : /\ model'[k].fin = model[k].fin
                            /\ model[k].phase = "deleting" => model'[k].phase = "deleting"
      BY <2>2 DEF Live, TypeOK, ModelObject
    <2>4. RulesFirst'
      BY <2>1, <2>2, <2>3, CandTypes DEF ModelPass, RulesFirst, Published, TypeOK, ModelWork, Of
    <2>5. Terminating' /\ RulesBounded' /\ NothingLeft'
      BY <2>1, <2>2, <2>3 DEF ModelPass, Terminating, RulesBounded, NothingLeft, WorkersBusy, Of
    <2> QED
      BY <2>4, <2>5 DEF ModelPass
  <1> QED
    BY <1>1, <1>2, <1>3, <1>4, <1>5, <1>6, <1>7, <1>8, <1>9, <1>10, <1>11, <1>12, <1>13, <1>14,
       ModelFrame DEF ModelStep

\* Along every behaviour a pass of the model worker can rely on ModelPass.
LEMMA PassInvariant == Spec => [](TypeOK /\ WorkersBusy /\ ModelPass)
  <1> DEFINE I == TypeOK /\ WorkersBusy /\ ModelPass
  <1>1. Init => I
    BY InitType, IdleTypes
    DEF Init, ModelPass, Terminating, RulesBounded, NothingLeft, RulesFirst
  <1>2. I /\ [Next]_vars => I'
    BY TypeStep, PassStep
  <1> QED
    BY <1>1, <1>2, PTL DEF Spec

\* Releasing the finalizer of a deleted ExternalModel leaves no rule of it and
\* no published candidate, whichever path reconcileDeletedModel took and
\* whatever failed on the way.
THEOREM DeletionIsClean == Spec => DeletedModelLeavesNothing
  <1> DEFINE A == \A m \in Models : model[m].phase = "deleting" /\ model'[m].phase = "gone"
                    => Of(m, routes') = {} /\ overlay' \in {None} \cup SUBSET (Cand \ Of(m, Cand))
  <1>1. ASSUME TypeOK, WorkersBusy, ModelPass, [Next]_vars PROVE A
    <2> SUFFICES ASSUME NEW m \in Models,
                        model[m].phase = "deleting", model'[m].phase = "gone"
                 PROVE  /\ Of(m, routes') = {}
                        /\ overlay' \in {None} \cup SUBSET (Cand \ Of(m, Cand))
      OBVIOUS
    <2>1. ReleaseModel
      <3>1. model' # model
        OBVIOUS
      <3>2. ~CreateModel
        BY <1>1 DEF CreateModel, TypeOK, ModelObject
      <3>3. ~DeleteModel
        BY <1>1 DEF DeleteModel, Live, TypeOK, ModelObject
      <3>4. ASSUME NEW k \in Models PROVE ~StartModel(k)
        BY <1>1 DEF StartModel, TypeOK, ModelObject
      <3> QED
        BY <1>1, <3>1, <3>2, <3>3, <3>4, ModelFrame
        DEF ModelStep, Resolve, ApplyRoute, RoutesApplied, Publish, FinishWithdrawal, RoutesPruned,
            CutRoutes, CutOverlay, ExcludeRoutes, ReduceOverlay, Fail, specVars
    <2>2. mw.pc = "release" /\ UNCHANGED <<routes, overlay>>
      BY <2>1 DEF ReleaseModel
    <2>3. mw.del /\ mw.cur = m
      BY <1>1, <2>1 DEF ReleaseModel, TypeOK, ModelObject
    <2> QED
      BY <1>1, <2>2, <2>3 DEF ModelPass, NothingLeft
  <1>2. TypeOK /\ WorkersBusy /\ ModelPass /\ [Next]_vars => [A]_vars
    BY <1>1
  <1> QED
    BY <1>2, PassInvariant, PTL DEF Spec, DeletedModelLeavesNothing

\* A candidate enters the published overlay only after its rule was applied in
\* the same pass, through every failure and every concurrent edit.
THEOREM RoutesBeforeOverlay == Spec => PublishedAfterRoute
  <1> DEFINE A == overlay' # None =>
                    \A c \in overlay' \ Published : c \in routes \/ ~model[c[1]].fin
  <1>1. ASSUME TypeOK, WorkersBusy, ModelPass, [Next]_vars PROVE A
    <2>1. CASE overlay' = overlay
      BY <2>1 DEF Published
    <2>2. CASE overlay' # overlay
      <3>1. Publish \/ CutOverlay \/ ReduceOverlay
        BY <1>1, <2>2, ModelFrame
        DEF ModelStep, StartModel, Resolve, ApplyRoute, RoutesApplied, FinishWithdrawal,
            RoutesPruned, CutRoutes, ExcludeRoutes, ReleaseModel, CreateModel, DeleteModel, Fail,
            editFrame
      <3>2. CASE Publish
        BY <1>1, <3>2 DEF Publish, ModelPass, RulesFirst
      <3>3. CASE CutOverlay
        BY <3>3 DEF CutOverlay
      <3>4. CASE ReduceOverlay
        BY <1>1, <3>4 DEF ReduceOverlay, ModelPass, RulesFirst
      <3> QED
        BY <3>1, <3>2, <3>3, <3>4
    <2> QED
      BY <2>1, <2>2
  <1>2. TypeOK /\ WorkersBusy /\ ModelPass /\ [Next]_vars => [A]_vars
    BY <1>1
  <1> QED
    BY <1>2, PassInvariant, PTL DEF Spec, PublishedAfterRoute

-----------------------------------------------------------------------------
(***************************************************************************)
(* The drain.                                                              *)
(***************************************************************************)
Unserved(c) == \A i \in Pods : c \notin pods[i].serves

\* A drain vouches for every candidate outside the overlay it was started for:
\* no pod serves it, and no request of it outlives the drain.  It stops to
\* when something else is published, which the end of the same pass notices.
DrainHolds ==
    drain # None =>
        \/ mw.pc = "finish" /\ ~(Published \subseteq drain.rev)
        \/ /\ Published \subseteq drain.rev
           /\ \A c \in Cand \ drain.rev : Unserved(c) /\ infl[c] <= drain.left

\* Rules are pruned when the drain for what is published has elapsed.
PruneDrained == mw.pc = "prune" => drain # None /\ drain.rev = mw.want /\ drain.left = 0

DrainInv == DrainHolds /\ PruneDrained

\* A pass that has published gets to look at the rollout, and can tell what the
\* pods serve: it does not fail in between, and the logs are there.
Verified == mw.pc = "finish" /\ mw' # mw => FinishWithdrawal /\ ~Unknown

\* Steps of others leave the drain and what it is about alone.
LEMMA DrainFrame ==
    ASSUME [Next]_vars
    PROVE  \/ UNCHANGED <<mw, overlay, drain, pods, infl>>
           \/ \E m \in Models : StartModel(m)
           \/ ModelStep \/ Fail \/ Tick
           \/ \E i \in Pods : RestartPod(i) \/ ReloadPod(i) \/ LoseLog(i)
           \/ \E c \in Traffic : Request(c)
  BY DEF Next, vars, ProviderStep, Dataplane, Edits, StartProvider, LivePraxisBeforeWrite,
     WriteTransport, ReportProvider,
     CleanTransport, ReleaseProvider, RolloutRuntime, EditModel, CreateModel, DeleteModel,
     DeleteProvider, CreateProvider, ChangeSecret, ChangeTenant, frame, editFrame, dataVars,
     specVars, providerFrame

\* A pass that has not just published can go on to anything but pruning.
LEMMA DrainQuiet ==
    ASSUME DrainInv, UNCHANGED <<overlay, drain, pods, infl>>,
           mw.pc # "finish", mw'.pc # "prune"
    PROVE  DrainInv'
  BY DEF DrainInv, DrainHolds, PruneDrained, Published, Unserved

\* The end of a pass keeps a drain that vouches, starts one when every pod
\* serves what is published, or clears it.
LEMMA DrainFinish ==
    ASSUME TypeOK, ModelPass, DrainInv, FinishWithdrawal, ~Unknown
    PROVE  DrainInv'
  <1>1. /\ mw.pc = "finish" /\ overlay = mw.want /\ UNCHANGED <<overlay, pods, infl>>
        /\ mw.want \in SUBSET Cand /\ overlay # None
    BY NoneAssumption DEF FinishWithdrawal, ModelPass, RulesBounded, dataVars, TypeOK, ModelWork
  <1>2. CASE drain' = None /\ (Done \/ ModelEnds)
    <2>1. mw'.pc # "prune"
      BY <1>2, IdleTypes DEF Done, ModelEnds, ModelGoes, TypeOK, ModelWork
    <2> QED
      BY <1>2, <2>1 DEF DrainInv, DrainHolds, PruneDrained
  <1>3. CASE /\ RolloutSafe /\ ModelEnds
             /\ drain' = [rev |-> mw.want, left |-> DrainDuration]
    <2>1. \A i \in Pods : pods[i].serves = mw.want
      BY <1>1, <1>3 DEF RolloutSafe
    <2>2. \A c \in Cand : infl[c] <= DrainDuration
      BY DrainAssumption DEF TypeOK
    <2>3. Published' = mw.want
      BY <1>1 DEF Published
    <2>4. mw'.pc = "idle"
      BY <1>3, IdleTypes DEF ModelEnds
    <2> QED
      BY <1>1, <1>3, <2>1, <2>2, <2>3, <2>4 DEF DrainInv, DrainHolds, PruneDrained, Unserved
  <1>4. CASE Draining(mw.want) /\ UNCHANGED drain
             /\ \/ ModelEnds
                \/ /\ ~(drain.left > 0)
                   /\ mw' = [mw EXCEPT !.pc = "prune", !.todo = {c[1] : c \in routes}]
    <2>1. drain # None /\ drain.rev = mw.want /\ Published = mw.want /\ Published' = mw.want
      BY <1>1, <1>4 DEF Draining, Published
    <2>2. \A c \in Cand \ drain.rev : Unserved(c) /\ infl[c] <= drain.left
      BY <2>1 DEF DrainInv, DrainHolds
    <2>3. DrainHolds'
      BY <1>1, <1>4, <2>1, <2>2 DEF DrainHolds, Unserved
    <2>4. mw'.pc = "prune" => mw'.want = mw.want /\ drain.left = 0
      <3>1. drain.left \in Nat
        BY <2>1, DrainAssumption DEF TypeOK
      <3>2. CASE ModelEnds
        BY <3>2, IdleTypes DEF ModelEnds
      <3>3. CASE ~ModelEnds
        <4>1. mw' = [[mw EXCEPT !.pc = "prune"] EXCEPT !.todo = {c[1] : c \in routes}]
          BY <1>4, <3>3
        <4>2. mw'.want = mw.want
          BY <4>1 DEF TypeOK, ModelWork
        <4> QED
          BY <1>4, <3>1, <3>3, <4>2
      <3> QED
        BY <3>2, <3>3
    <2> QED
      BY <1>4, <2>1, <2>3, <2>4 DEF DrainInv, PruneDrained
  <1> QED
    BY <1>1, <1>2, <1>3, <1>4 DEF FinishWithdrawal

\* Steps of the model worker.
LEMMA DrainModelStep ==
    ASSUME TypeOK, ModelPass, DrainInv, Verified, ModelStep
    PROVE  DrainInv'
  <1>1. CASE Resolve \/ RoutesApplied \/ CutRoutes \/ ExcludeRoutes \/ ReleaseModel
    <2>1. UNCHANGED <<overlay, drain, pods, infl>> /\ mw.pc # "finish" /\ mw'.pc # "prune"
      BY <1>1, IdleTypes
      DEF Resolve, RoutesApplied, CutRoutes, ExcludeRoutes, ReleaseModel, ModelGoes, ModelEnds,
          dataVars, TypeOK, ModelWork
    <2> QED
      BY <2>1, DrainQuiet
  <1>2. CASE ApplyRoute
    <2>1. /\ UNCHANGED <<overlay, drain, pods, infl>> /\ mw.pc \in {"apply", "prune"}
          /\ mw'.pc = mw.pc /\ mw'.want = mw.want
      BY <1>2 DEF ApplyRoute, dataVars, TypeOK, ModelWork
    <2> QED
      BY <2>1 DEF DrainInv, DrainHolds, PruneDrained, Published, Unserved
  <1>3. CASE Publish
    <2>1. /\ mw.pc = "publish" /\ mw'.pc = "finish" /\ overlay' = mw.want
          /\ UNCHANGED <<drain, pods, infl>>
      BY <1>3 DEF Publish, ModelGoes, dataVars, TypeOK, ModelWork
    <2> QED
      BY <2>1 DEF DrainInv, DrainHolds, PruneDrained, Unserved
  <1>4. CASE FinishWithdrawal
    <2>1. CASE mw' # mw
      BY <1>4, <2>1, DrainFinish DEF Verified, FinishWithdrawal
    <2>2. CASE mw' = mw
      <3>1. mw'.pc # "finish"
        BY <1>4, IdleTypes DEF FinishWithdrawal, Done, ModelGoes, ModelEnds, TypeOK, ModelWork
      <3> QED
        BY <1>4, <2>2, <3>1 DEF FinishWithdrawal
    <2> QED
      BY <2>1, <2>2
  <1>5. CASE RoutesPruned \/ CutOverlay
    <2>1. drain' = None /\ (Done \/ ModelEnds)
      BY <1>5 DEF RoutesPruned, CutOverlay
    <2>2. mw'.pc # "prune"
      BY <2>1, IdleTypes DEF Done, ModelEnds, ModelGoes, TypeOK, ModelWork
    <2> QED
      BY <2>1, <2>2 DEF DrainInv, DrainHolds, PruneDrained
  <1>6. CASE ReduceOverlay
    <2>1. /\ mw.pc = "reduce" /\ mw'.pc = "idle" /\ UNCHANGED <<pods, infl>>
          /\ mw.want \subseteq Published
          /\ \/ drain' = None
             \/ overlay' = mw.want /\ UNCHANGED drain
      BY <1>6, IdleTypes DEF ReduceOverlay, ModelEnds, dataVars, ModelPass, RulesFirst
    <2>2. drain' # None => Published' \subseteq Published
      BY <2>1 DEF Published
    <2> QED
      BY <2>1, <2>2 DEF DrainInv, DrainHolds, PruneDrained, Unserved
  <1> QED
    BY <1>1, <1>2, <1>3, <1>4, <1>5, <1>6 DEF ModelStep

\* Steps of pods, requests and time: a pod comes to serve nothing but what is
\* published, a request starts only where a pod serves, and both clocks run.
LEMMA DrainDataplane ==
    ASSUME TypeOK, DrainInv,
           \/ Tick
           \/ \E i \in Pods : RestartPod(i) \/ ReloadPod(i) \/ LoseLog(i)
           \/ \E c \in Traffic : Request(c)
    PROVE  DrainInv'
  <1>1. UNCHANGED <<mw, overlay>>
    BY DEF Tick, RestartPod, ReloadPod, LoseLog, Request, frame
  <1>2. Published' = Published
    BY <1>1 DEF Published
  <1>3. CASE Tick
    <2>1. UNCHANGED pods /\ infl' = [c \in Cand |-> Less(infl[c])]
      BY <1>3 DEF Tick
    <2>2. CASE drain = None
      BY <1>1, <1>3, <2>2 DEF Tick, DrainInv, DrainHolds, PruneDrained
    <2>3. CASE drain # None
      <3>1. drain \in [rev: SUBSET Cand, left: 0..DrainDuration] /\ drain.left \in Nat
        BY <2>3, DrainAssumption DEF TypeOK
      <3>2. drain'.rev = drain.rev /\ drain'.left = Less(drain.left)
        BY <1>3, <2>3, <3>1 DEF Tick
      <3>3. \A c \in Cand : infl[c] \in Nat /\ infl'[c] = Less(infl[c])
        BY <2>1, DrainAssumption DEF TypeOK
      <3>4. \A c \in Cand : infl[c] <= drain.left => infl'[c] <= drain'.left
        BY <3>1, <3>2, <3>3 DEF Less
      <3>5. drain.left = 0 => drain'.left = 0
        BY <3>2 DEF Less
      <3>6. \A c : Unserved(c) => Unserved(c)'
        BY <2>1 DEF Unserved
      <3>7. DrainHolds'
        BY <1>1, <1>2, <2>3, <3>2, <3>4, <3>6 DEF DrainInv, DrainHolds
      <3>8. drain' # None
        <4>1. drain' = [drain EXCEPT !.left = Less(drain.left)]
          BY <1>3, <2>3 DEF Tick
        <4>2. Less(drain.left) \in 0..DrainDuration
          BY <3>1, DrainAssumption DEF Less
        <4>3. drain' \in [rev: SUBSET Cand, left: 0..DrainDuration]
          BY <3>1, <4>1, <4>2
        <4> QED
          BY <4>3, NoneAssumption
      <3>9. PruneDrained'
        BY <1>1, <3>2, <3>5, <3>8 DEF DrainInv, PruneDrained
      <3> QED
        BY <3>7, <3>9 DEF DrainInv
    <2> QED
      BY <2>2, <2>3
  <1>4. ASSUME NEW i \in Pods, RestartPod(i) \/ ReloadPod(i) \/ LoseLog(i)
        PROVE  DrainInv'
    <2>1. UNCHANGED <<drain, infl>>
      BY <1>4 DEF RestartPod, ReloadPod, LoseLog, frame
    <2>2. \A k \in Pods : pods'[k].serves \subseteq pods[k].serves \cup Published
      BY <1>4 DEF RestartPod, ReloadPod, LoseLog, Published, TypeOK, Pod
    <2>3. \A c : Unserved(c) /\ c \notin Published => Unserved(c)'
      BY <2>2 DEF Unserved
    <2> QED
      BY <1>1, <1>2, <2>1, <2>3 DEF DrainInv, DrainHolds, PruneDrained
  <1>5. ASSUME NEW c \in Traffic, Request(c) PROVE DrainInv'
    <2>1. UNCHANGED <<drain, pods>> /\ ~Unserved(c)
      BY <1>5 DEF Request, frame, Unserved
    <2>2. \A d \in Cand : Unserved(d) => infl'[d] = infl[d] /\ Unserved(d)'
      BY <1>5, <2>1 DEF Request, Unserved, TypeOK
    <2> QED
      BY <1>1, <1>2, <2>1, <2>2 DEF DrainInv, DrainHolds, PruneDrained
  <1> QED
    BY <1>3, <1>4, <1>5

\* Every step keeps what a drain vouches for.
LEMMA DrainStep ==
    TypeOK /\ ModelPass /\ DrainInv /\ Verified /\ [Next]_vars => DrainInv'
  <1> SUFFICES ASSUME TypeOK, ModelPass, DrainInv, Verified, [Next]_vars PROVE DrainInv'
    OBVIOUS
  <1>1. CASE UNCHANGED <<mw, overlay, drain, pods, infl>>
    BY <1>1 DEF DrainInv, DrainHolds, PruneDrained, Published, Unserved
  <1>2. CASE \E m \in Models : StartModel(m)
    <2>1. UNCHANGED <<overlay, drain, pods, infl>> /\ mw.pc # "finish" /\ mw'.pc # "prune"
      BY <1>2 DEF StartModel, Begin, IdleModelWorker, dataVars
    <2> QED
      BY <2>1, DrainQuiet
  <1>3. CASE Fail
    <2>1. /\ UNCHANGED <<overlay, drain, pods, infl>> /\ mw'.pc = "idle"
          /\ disturb' # disturb
      BY <1>3, IdleTypes DEF Fail, ModelEnds, Disturb, dataVars, TypeOK
    <2>2. mw.pc # "finish"
      BY <2>1 DEF Verified, FinishWithdrawal
    <2> QED
      BY <2>1, <2>2, DrainQuiet
  <1> QED
    BY <1>1, <1>2, <1>3, DrainModelStep, DrainDataplane, DrainFrame

\* The step of a pass that removes a rule, as DrainedBeforePrune asks.
PrunesDrained ==
    \A c \in routes \ routes' : mw.pc \in {"apply", "prune"} /\ mw' # mw =>
        infl[c] = 0 /\ \A i \in Pods : c \notin pods[i].serves

LEMMA PruneStep == TypeOK /\ ModelPass /\ DrainInv /\ [Next]_vars => PrunesDrained
  <1> SUFFICES ASSUME TypeOK, ModelPass, DrainInv, [Next]_vars, NEW c \in routes \ routes',
                      mw.pc \in {"apply", "prune"}, mw' # mw
               PROVE  infl[c] = 0 /\ \A i \in Pods : c \notin pods[i].serves
    BY DEF PrunesDrained
  <1>1. ApplyRoute
    BY ModelFrame
    DEF ModelStep, StartModel, Resolve, RoutesApplied, Publish, FinishWithdrawal, RoutesPruned,
        CutRoutes, CutOverlay, ExcludeRoutes, ReduceOverlay, ReleaseModel, CreateModel,
        DeleteModel, Fail, editFrame
  <1>2. c \in Cand /\ routes \subseteq Cand
    BY DEF TypeOK
  <1>3. CASE mw.pc = "apply"
    <2>1. routes \subseteq mw.union
      BY <1>3 DEF ModelPass, RulesBounded
    <2>2. PICK m \in mw.todo : routes' = (routes \ Of(m, routes)) \cup Of(m, mw.union)
      BY <1>1, <1>3 DEF ApplyRoute
    <2> QED
      BY <2>1, <2>2 DEF Of
  <1>4. CASE mw.pc = "prune"
    <2>1. drain # None /\ drain.rev = mw.want /\ drain.left = 0
      BY <1>4 DEF DrainInv, PruneDrained
    <2>2. PICK m \in mw.todo : routes' = (routes \ Of(m, routes)) \cup Of(m, mw.want)
      BY <1>1, <1>4 DEF ApplyRoute
    <2>3. c \notin mw.want
      BY <2>2 DEF Of
    <2>4. Unserved(c) /\ infl[c] <= 0
      BY <1>2, <1>4, <2>1, <2>3 DEF DrainInv, DrainHolds
    <2>5. infl[c] \in Nat
      BY <1>2, DrainAssumption DEF TypeOK
    <2> QED
      BY <2>4, <2>5 DEF Unserved
  <1> QED
    BY <1>3, <1>4

\* A rule goes only when no pod serves its candidate and no request uses it, as
\* long as every pass that publishes also gets to check the rollout.  Failures
\* anywhere else, and any edits, deletions and tenant changes, do no harm: the
\* stale drain of ServingStaleDrain is the only way a rule is cut too early.
THEOREM RulesDrained == Spec /\ [][Verified]_vars => DrainedBeforePrune
  <1> DEFINE I == TypeOK /\ WorkersBusy /\ ModelPass
  <1>1. Init => DrainInv
    BY IdleTypes DEF Init, DrainInv, DrainHolds, PruneDrained
  <1>2. I /\ DrainInv /\ [Next]_vars /\ [Verified]_vars => DrainInv'
    <2> SUFFICES ASSUME I, DrainInv, [Next]_vars, [Verified]_vars PROVE DrainInv'
      OBVIOUS
    <2>1. Verified
      BY DEF vars, Verified
    <2> QED
      BY <2>1, DrainStep
  <1>3. I /\ DrainInv /\ [Next]_vars => [PrunesDrained]_vars
    BY PruneStep
  <1>4. Spec => []I
    BY PassInvariant
  <1> HIDE DEF I
  <1>5. Spec /\ [][Verified]_vars => [][PrunesDrained]_vars
    BY <1>1, <1>2, <1>3, <1>4, PTL DEF Spec
  <1> QED
    BY <1>5, PTL DEF DrainedBeforePrune, PrunesDrained
=============================================================================
