------------------------ MODULE TenantHandoffProofs ------------------------
(***************************************************************************)
(* Proofs about TenantHandoff for every set of objects and Gateway         *)
(* namespaces, every number of versions the cache may trail and every      *)
(* bound on disturbances: its types; that the cleanup finalizer outlives   *)
(* the objects it guards; that the two controllers implement               *)
(* DataplaneSwap; and that released plugins are not overwritten.  The last *)
(* three hold of the behaviours that meet the hypotheses defined below     *)
(* (the tenant keeps its Gateway namespace, no reconcile gives up at the   *)
(* deletion timeout, praxis is not selected again in the middle of a       *)
(* switch away); TLC finds a counterexample when one of them is dropped.   *)
(* The last theorem shows what a patient operator contributes to them.     *)
(***************************************************************************)
EXTENDS TenantHandoff, TLAPS

\* What an append of a version leaves: a non-empty sequence of MTCs no longer
\* than the cache may trail, whose last element is the one written.
LEMMA PushFacts ==
    ASSUME TypeOK, NEW m \in Mtc
    PROVE  /\ Push(m) \in Seq(Mtc) /\ Len(Push(m)) \in 1..(MaxLag + 1)
           /\ Push(m)[Len(Push(m))] = m
  <1> DEFINE s == Append(versions, m)
  <1>1. /\ s \in Seq(Mtc) /\ Len(s) = Len(versions) + 1 /\ s[Len(s)] = m
        /\ Len(s) \in Nat /\ Len(s) > 1
    BY BoundAssumption DEF TypeOK
  <1>2. CASE Len(s) > MaxLag + 1
    <2>1. Push(m) = Tail(s) /\ Len(s) = MaxLag + 2
      BY <1>1, <1>2, BoundAssumption DEF Push, TypeOK
    <2>2. Tail(s) \in Seq(Mtc) /\ Len(Tail(s)) = MaxLag + 1
      BY <1>1, <2>1, BoundAssumption
    <2>3. Tail(s)[Len(Tail(s))] = m
      BY <1>1, <2>1, <2>2, BoundAssumption
    <2> QED
      BY <2>1, <2>2, <2>3, BoundAssumption
  <1>3. CASE ~(Len(s) > MaxLag + 1)
    BY <1>1, <1>3, BoundAssumption DEF Push, TypeOK
  <1> QED
    BY <1>2, <1>3

\* The cached and the live copy of the MTC are MTCs.
LEMMA CopyTypes == TypeOK => cached \in Mtc /\ live \in Mtc
  BY BoundAssumption DEF TypeOK, cached, live

\* The copy the idle worker holds, and the AITenant copy, are well typed.
LEMMA IdleTypes == NoMtc \in Mtc /\ NoAITenant \in AITenant
  BY BoundAssumption DEF NoMtc, NoAITenant, Mtc, AITenant, Status

\* The initial states are well typed.
LEMMA InitType == Init => TypeOK
  <1> SUFFICES ASSUME Init PROVE TypeOK
    OBVIOUS
  <1>1. PICK g \in GwNs, t \in {"praxis", "ipp"}, s \in {"cleanup-complete", "absent"} :
          /\ versions = <<[phase |-> "live", type |-> t, status |-> s,
                           fin |-> FALSE, force |-> FALSE]>>
          /\ aitenant = [id |-> 0, ready |-> TRUE, terminating |-> FALSE, gw |-> g]
          /\ obj = [h \in GwNs |-> [r \in Res |->
                     IF s = "absent" /\ h = g /\ r \in SharedRes THEN "ipp" ELSE "none"]]
    BY DEF Init
  <1>2. versions \in Seq(Mtc) /\ Len(versions) = 1
    BY <1>1 DEF Mtc, Status
  <1>3. aitenant \in AITenant
    BY <1>1, BoundAssumption DEF AITenant
  <1>4. obj \in [GwNs -> [Res -> Owner]]
    BY <1>1 DEF Owner
  <1>5. /\ atCache = aitenant /\ atSnap = NoAITenant /\ snap = NoMtc
        /\ overdue \in BOOLEAN /\ fresh \in BOOLEAN
        /\ maas \in {"idle", "deploy", "clean"} /\ pc \in Pc
        /\ todo = {} /\ rendered = {} /\ disturb = 0
    BY DEF Init, Pc
  <1>6. Len(versions) \in 1..(MaxLag + 1) /\ disturb \in 0..MaxDisturb
    BY <1>2, <1>5, BoundAssumption
  <1> QED
    BY <1>2, <1>3, <1>4, <1>5, <1>6, IdleTypes DEF TypeOK

\* Field updates of an MTC and of an AITenant keep their type.
LEMMA MtcUpdates ==
    ASSUME NEW m \in Mtc
    PROVE  /\ \A b \in BOOLEAN : [m EXCEPT !.fin = b] \in Mtc
           /\ [m EXCEPT !.force = TRUE] \in Mtc
           /\ \A s \in Status : [m EXCEPT !.status = s] \in Mtc
           /\ \A t \in {"praxis", "ipp"} : [m EXCEPT !.type = t] \in Mtc
           /\ \A p \in {"live", "deleting", "gone"} : [m EXCEPT !.phase = p] \in Mtc
  BY DEF Mtc

\* The statuses a step writes.
LEMMA Statuses == "absent" \in Status /\ "cleanup-complete" \in Status /\ "steady" \in Status
  BY DEF Status

\* An update of one object's owner keeps the type of obj.
LEMMA ObjUpdate ==
    ASSUME TypeOK, NEW g, NEW r, NEW o, g \in GwNs /\ r \in Res => o \in Owner
    PROVE  [obj EXCEPT ![g][r] = o] \in [GwNs -> [Res -> Owner]]
  BY DEF TypeOK

\* What DeleteIfOwned leaves of one name: nothing, or what was there.  It takes
\* every object of Praxis away and none of maas-controller's.
LEMMA DeleteEffect ==
    ASSUME TypeOK, NEW r, DeleteIfOwned(r)
    PROVE  \E left \in {obj[atSnap.gw][r], "none"} :
             /\ obj' = [obj EXCEPT ![atSnap.gw][r] = left]
             /\ obj[atSnap.gw][r] = "praxis" => left = "none"
             /\ obj[atSnap.gw][r] = "ipp" => left = "ipp"
  <1> DEFINE owner == obj[atSnap.gw][r]
  <1>1. PICK delete \in ShouldDelete(owner) :
          obj' = [obj EXCEPT ![atSnap.gw][r] = IF delete THEN "none" ELSE owner]
    BY DEF DeleteIfOwned
  <1>2. owner = "praxis" => delete = TRUE
    BY DEF ShouldDelete
  <1>3. owner = "ipp" => delete = FALSE
    BY DEF ShouldDelete
  <1> HIDE DEF owner
  <1>4. CASE delete
    BY <1>1, <1>3, <1>4 DEF owner
  <1>5. CASE ~delete
    BY <1>1, <1>2, <1>5 DEF owner
  <1> QED
    BY <1>4, <1>5

\* DeleteIfOwned leaves a well-typed obj.
LEMMA DeleteType ==
    ASSUME TypeOK, NEW r \in Res, DeleteIfOwned(r)
    PROVE  obj' \in [GwNs -> [Res -> Owner]]
  <1>1. PICK left \in {obj[atSnap.gw][r], "none"} : obj' = [obj EXCEPT ![atSnap.gw][r] = left]
    BY DeleteEffect
  <1>2. atSnap.gw \in GwNs => left \in Owner
    BY DEF TypeOK, Owner
  <1> QED
    BY <1>1, <1>2, ObjUpdate

\* Any write of the MTC leaves a well-typed history whose last version it is.
LEMMA WriteType ==
    ASSUME TypeOK, NEW m \in Mtc, versions' = Push(m)
    PROVE  versions' \in Seq(Mtc) /\ Len(versions') \in 1..(MaxLag + 1) /\ live' = m
  BY PushFacts DEF live

\* A disturbance is counted within its bound.
LEMMA DisturbType ==
    ASSUME TypeOK, Disturb
    PROVE  disturb' \in 0..MaxDisturb
  BY BoundAssumption DEF TypeOK, Disturb

\* Whatever happens to the AITenant, it stays an AITenant.
LEMMA AITenantChange ==
    ASSUME TypeOK, ChangeAITenant
    PROVE  aitenant' \in AITenant
  <1>1. /\ aitenant \in [id: Nat, ready: BOOLEAN, terminating: BOOLEAN, gw: GwNs \cup {NoGw}]
        /\ aitenant.id + 1 \in Nat
    BY DEF TypeOK, AITenant
  <1>2. \/ \E g \in GwNs \cup {NoGw} :
               aitenant' = [id |-> aitenant.id + 1, ready |-> FALSE, terminating |-> FALSE,
                            gw |-> g]
        \/ aitenant' = [aitenant EXCEPT !.ready = FALSE]
        \/ \E g \in GwNs : aitenant' = [aitenant EXCEPT !.gw = g]
        \/ aitenant' = [aitenant EXCEPT !.terminating = TRUE]
    BY <1>1 DEF ChangeAITenant
  <1>3. ASSUME NEW g \in GwNs \cup {NoGw},
               aitenant' = [id |-> aitenant.id + 1, ready |-> FALSE, terminating |-> FALSE,
                            gw |-> g]
        PROVE  aitenant' \in AITenant
    BY <1>1, <1>3 DEF AITenant
  <1>4. CASE aitenant' = [aitenant EXCEPT !.ready = FALSE]
    BY <1>1, <1>4 DEF AITenant
  <1>5. ASSUME NEW g \in GwNs, aitenant' = [aitenant EXCEPT !.gw = g]
        PROVE  aitenant' \in AITenant
    BY <1>1, <1>5 DEF AITenant
  <1>6. CASE aitenant' = [aitenant EXCEPT !.terminating = TRUE]
    BY <1>1, <1>6 DEF AITenant
  <1> QED
    BY <1>2, <1>3, <1>4, <1>5, <1>6

\* Every step of every actor keeps the types: one case per action.
LEMMA TypeStep == TypeOK /\ [Next]_vars => TypeOK'
  <1> SUFFICES ASSUME TypeOK, [Next]_vars PROVE TypeOK'
    OBVIOUS
  <1> USE BoundAssumption, IdleTypes, CopyTypes, MtcUpdates
  <1>1. CASE Reconcile
    <2>1. Dispatch(cached) \in Pc
      BY CopyTypes DEF Dispatch, Pc, Mtc, UsesPraxis
    <2> QED
      BY <1>1, <2>1, CopyTypes DEF TypeOK, Reconcile
  <1>2. CASE EnsureFinalizer
    BY <1>2, PushFacts, ObjUpdate, DeleteType DEF TypeOK, EnsureFinalizer, mtcVars, workVars, maasFrame, Write, WriteBack, Disturb, EndReconcile, Idle, GoOn, Status, Owner, Pc, Res, Dispatch
  <1>3. CASE ResolveOwner
    BY <1>3, PushFacts, ObjUpdate, DeleteType DEF TypeOK, ResolveOwner, mtcVars, workVars, maasFrame, Write, WriteBack, Disturb, EndReconcile, Idle, GoOn, Status, Owner, Pc, Res, Dispatch
  <1>4. CASE EnsurePraxisMayDeploy
    <2>1. CASE EndReconcile
      BY <2>1 DEF TypeOK, EndReconcile, Idle, Pc
    <2>2. CASE pc' = "overlay" /\ Write([live EXCEPT !.status = "steady"])
               /\ snap' = [snap EXCEPT !.status = "steady"]
               /\ UNCHANGED <<aitenant, atCache, obj, overdue, maas, atSnap, todo, rendered, disturb>>
      <3>1. [live EXCEPT !.status = "steady"] \in Mtc /\ snap' \in Mtc
        BY <2>2 DEF TypeOK, Status
      <3> QED
        BY <2>2, <3>1, WriteType DEF TypeOK, Write, Pc
    <2>3. CASE GoOn("overlay") /\ UNCHANGED <<atSnap, todo, rendered>>
      BY <2>3 DEF TypeOK, GoOn, Pc
    <2> QED
      BY <1>4, <2>1, <2>2, <2>3 DEF EnsurePraxisMayDeploy, SetStatus
  <1>5. CASE ResolveRuntime
    BY <1>5, PushFacts, ObjUpdate, DeleteType DEF TypeOK, ResolveRuntime, mtcVars, workVars, maasFrame, Write, WriteBack, Disturb, EndReconcile, Idle, GoOn, Status, Owner, Pc, Res, Dispatch
  <1>6. CASE PruneExternalModel
    BY <1>6, PushFacts, ObjUpdate, DeleteType DEF TypeOK, PruneExternalModel, mtcVars, workVars, maasFrame, Write, WriteBack, Disturb, EndReconcile, Idle, GoOn, Status, Owner, Pc, Res, Dispatch
  <1>7. CASE WaitForForeignOwnership
    BY <1>7, PushFacts, ObjUpdate, DeleteType DEF TypeOK, WaitForForeignOwnership, mtcVars, workVars, maasFrame, Write, WriteBack, Disturb, EndReconcile, Idle, GoOn, Status, Owner, Pc, Res, Dispatch
  <1>8. CASE PluginsGate
    BY <1>8, PushFacts, ObjUpdate, DeleteType DEF TypeOK, PluginsGate, mtcVars, workVars, maasFrame, Write, WriteBack, Disturb, EndReconcile, Idle, GoOn, Status, Owner, Pc, Res, Dispatch
  <1>9. CASE Fence
    BY <1>9, PushFacts, ObjUpdate, DeleteType DEF TypeOK, Fence, mtcVars, workVars, maasFrame, Write, WriteBack, Disturb, EndReconcile, Idle, GoOn, Status, Owner, Pc, Res, Dispatch
  <1>10. CASE Apply
    <2>1. CASE EndReconcile
      BY <2>1 DEF TypeOK, EndReconcile, Idle, Pc
    <2>2. ASSUME NEW r \in todo,
                 obj' = [obj EXCEPT ![atSnap.gw][r] = "praxis"], todo' = todo \ {r},
                 UNCHANGED <<versions, aitenant, atCache, overdue, maas, fresh,
                             pc, snap, atSnap, rendered, disturb>>
          PROVE  TypeOK'
      <3>1. obj' \in [GwNs -> [Res -> Owner]]
        BY <2>2, ObjUpdate DEF Owner
      <3> QED
        BY <2>2, <3>1 DEF TypeOK
    <2> QED
      BY <1>10, <2>1, <2>2 DEF Apply
  <1>11. CASE ResolveOwnedForCleanup
    BY <1>11, PushFacts, ObjUpdate, DeleteType DEF TypeOK, ResolveOwnedForCleanup, mtcVars, workVars, maasFrame, Write, WriteBack, Disturb, EndReconcile, Idle, GoOn, Status, Owner, Pc, Res, Dispatch
  <1>12. CASE Cleanup
    BY <1>12, PushFacts, ObjUpdate, DeleteType DEF TypeOK, Cleanup, mtcVars, workVars, maasFrame, Write, WriteBack, Disturb, EndReconcile, Idle, GoOn, Status, Owner, Pc, Res, Dispatch
  <1>13. CASE MarkCleanupComplete
    BY <1>13, PushFacts, ObjUpdate, DeleteType DEF TypeOK, MarkCleanupComplete, SetStatus, mtcVars, workVars, maasFrame, Write, WriteBack, Disturb, EndReconcile, Idle, GoOn, Status, Owner, Pc, Res, Dispatch
  <1>14. CASE RemoveFinalizer
    BY <1>14, PushFacts, ObjUpdate, DeleteType DEF TypeOK, RemoveFinalizer, mtcVars, workVars, maasFrame, Write, WriteBack, Disturb, EndReconcile, Idle, GoOn, Status, Owner, Pc, Res, Dispatch
  <1>15. CASE MaasClaim
    BY <1>15, PushFacts, ObjUpdate, DeleteType DEF TypeOK, MaasClaim, mtcVars, workVars, maasFrame, Write, WriteBack, Disturb, EndReconcile, Idle, GoOn, Status, Owner, Pc, Res, Dispatch
  <1>16. CASE MaasStart
    BY <1>16, PushFacts, ObjUpdate, DeleteType DEF TypeOK, MaasStart, mtcVars, workVars, maasFrame, Write, WriteBack, Disturb, EndReconcile, Idle, GoOn, Status, Owner, Pc, Res, Dispatch
  <1>17. CASE MaasDeploy
    <2>1. PICK r \in SharedRes : obj' = [obj EXCEPT ![aitenant.gw][r] = "ipp"]
      BY <1>17 DEF MaasDeploy
    <2>2. obj' \in [GwNs -> [Res -> Owner]]
      BY <2>1, ObjUpdate DEF Owner
    <2> QED
      BY <1>17, <2>2 DEF TypeOK, MaasDeploy, mtcVars, workVars, maasFrame
  <1>18. CASE MaasDeployDone
    BY <1>18, PushFacts, ObjUpdate, DeleteType DEF TypeOK, MaasDeployDone, mtcVars, workVars, maasFrame, Write, WriteBack, Disturb, EndReconcile, Idle, GoOn, Status, Owner, Pc, Res, Dispatch
  <1>19. CASE MaasClean
    <2>1. PICK g \in GwNs, r \in SharedRes, left \in {"none", "released"} :
            obj' = [obj EXCEPT ![g][r] = left]
      BY <1>19 DEF MaasClean
    <2>2. obj' \in [GwNs -> [Res -> Owner]]
      BY <2>1, ObjUpdate DEF Owner
    <2> QED
      BY <1>19, <2>2 DEF TypeOK, MaasClean, mtcVars, workVars, maasFrame
  <1>20. CASE MaasCleanDone
    <2>1. [live EXCEPT !.status = "cleanup-complete"] \in Mtc
      BY DEF Status
    <2>2. versions' \in Seq(Mtc) /\ Len(versions') \in 1..(MaxLag + 1) /\ fresh' \in BOOLEAN
      BY <1>20, <2>1, WriteType DEF TypeOK, MaasCleanDone, Write, mtcVars
    <2> QED
      BY <1>20, <2>2 DEF TypeOK, MaasCleanDone, workVars, maasFrame
  <1>21. CASE MtcGone
    BY <1>21, PushFacts, ObjUpdate, DeleteType DEF TypeOK, MtcGone, mtcVars, workVars, maasFrame, Write, WriteBack, Disturb, EndReconcile, Idle, GoOn, Status, Owner, Pc, Res, Dispatch
  <1>22. CASE MtcCreate
    <2>1. PICK t \in {"praxis", "ipp"} :
            Write([phase |-> "live", type |-> t, status |-> "cleanup-complete",
                   fin |-> FALSE, force |-> FALSE])
      BY <1>22 DEF MtcCreate
    <2>2. [phase |-> "live", type |-> t, status |-> "cleanup-complete",
           fin |-> FALSE, force |-> FALSE] \in Mtc
      BY DEF Mtc, Status
    <2> QED
      BY <1>22, <2>1, <2>2, WriteType DEF TypeOK, MtcCreate, Write, workVars
  <1>23. CASE PublishAITenant
    <2>1. aitenant' \in AITenant
      BY <1>23 DEF TypeOK, PublishAITenant, AITenant
    <2> QED
      BY <1>23, <2>1 DEF TypeOK, PublishAITenant, mtcVars, workVars
  <1>24. CASE TimeoutElapses
    BY <1>24, PushFacts, ObjUpdate, DeleteType DEF TypeOK, TimeoutElapses, mtcVars, workVars, maasFrame, Write, WriteBack, Disturb, EndReconcile, Idle, GoOn, Status, Owner, Pc, Res, Dispatch
  <1>25. CASE SelectBackend
    <2>1. PICK t \in {"praxis", "ipp"} : Write([live EXCEPT !.type = t])
      BY <1>25 DEF SelectBackend
    <2> QED
      BY <1>25, <2>1, WriteType, DisturbType DEF TypeOK, SelectBackend, Write, workVars
  <1>26. CASE ForceMigration
    BY <1>26, WriteType, DisturbType DEF TypeOK, ForceMigration, Write, workVars
  <1>27. CASE DeleteMtc
    BY <1>27, WriteType, DisturbType DEF TypeOK, DeleteMtc, Write, workVars
  <1>28. CASE ChangeAITenant
    BY <1>28, AITenantChange, DisturbType DEF TypeOK, ChangeAITenant, mtcVars, workVars
  <1>29. CASE Fail
    <2>1. disturb' \in 0..MaxDisturb
      BY <1>29, DisturbType DEF Fail, Disturb
    <2>2. versions' \in Seq(Mtc) /\ Len(versions') \in 1..(MaxLag + 1)
      <3>1. CASE versions' = versions
        BY <3>1 DEF TypeOK
      <3>2. CASE versions' = <<live>>
        BY <3>2
      <3> QED
        BY <1>29, <3>1, <3>2 DEF Fail
    <2> QED
      BY <1>29, <2>1, <2>2 DEF TypeOK, Fail, Idle, Pc
  <1>30. CASE Deliver
    <2>1. versions' \in Seq(Mtc) /\ Len(versions') \in 1..(MaxLag + 1)
      BY <1>30 DEF TypeOK, Deliver
    <2> QED
      BY <1>30, <2>1 DEF TypeOK, Deliver, workVars
  <1>31. CASE DeliverAITenant
    BY <1>31, PushFacts, ObjUpdate, DeleteType DEF TypeOK, DeliverAITenant, mtcVars, workVars, maasFrame, Write, WriteBack, Disturb, EndReconcile, Idle, GoOn, Status, Owner, Pc, Res, Dispatch
  <1>32. CASE UNCHANGED vars
    BY <1>32 DEF TypeOK, vars
  <1> QED
    BY <1>1, <1>2, <1>3, <1>4, <1>5, <1>6, <1>7, <1>8, <1>9, <1>10, <1>11, <1>12, <1>13, <1>14, <1>15, <1>16, <1>17, <1>18, <1>19, <1>20, <1>21, <1>22, <1>23, <1>24, <1>25, <1>26, <1>27, <1>28, <1>29, <1>30, <1>31, <1>32 DEF Next, Worker, Maas, Environment

\* Every reachable state of the swap is well typed, for every lag of the cache.
THEOREM TypeCorrect == Spec => []TypeOK
  BY InitType, TypeStep, PTL DEF Spec

-----------------------------------------------------------------------------
(***************************************************************************)
(* The inductive invariant behind NothingOrphaned.  The cache may trail by *)
(* any number of versions, so it speaks of every version from the cached   *)
(* one to the live one: a version that lets a reconcile deploy (praxis     *)
(* selected, finalizer on) is followed by a live one that still has the    *)
(* finalizer, and none of them follows the MTC's deletion.  The worker     *)
(* applies only under the finalizer and releases it only when every name   *)
(* is cleaned and no version it may still read lets it deploy.             *)
(***************************************************************************)
DeployPc == {"overlay", "prune", "check", "plugins", "fence", "apply"}
Known == 1..Len(versions)
Kept(m) == m.phase = "live" /\ m.fin
Deploys(m) == Kept(m) /\ UsesPraxis(m)

\* Hypothesis: the tenant never moves to another Gateway namespace than g.
Homed(g) == aitenant.gw \in {g, NoGw}

\* Hypothesis: when the mark or the release of a switch-away pass can still
\* take effect, no version since the cached one selects praxis again.
NotOvertaken ==
    pc = "mark" /\ (snap.status # "cleanup-complete" \/ fresh)
      => \A k \in Known : ~UsesPraxis(versions[k])

\* Hypothesis: no reconcile of a deleted MTC gives up at the deletion timeout.
TimeoutUnused == pc = "idle" => pc' # "release"

ChainInv ==
    /\ live.fin => live.phase # "gone"
    /\ \A k \in Known : Deploys(versions[k]) => live.fin
    /\ \A j, k \in Known : j <= k /\ Kept(versions[k]) => versions[j].phase = "live"

Dormant == \A k \in Known : ~Kept(versions[k])

PcInv ==
    /\ fresh => snap = live
    /\ pc = "finalizer" => snap.phase = "live" /\ UsesPraxis(snap) /\ (snap.fin => live.fin)
    /\ pc = "finalizer" /\ fresh => Len(versions) = 1
    /\ pc \in {"resolve", "handshake"} \cup DeployPc => live.fin
    /\ pc \in {"resolveCleanup", "clean"} /\ snap.phase = "deleting" => Dormant
    /\ pc = "release" /\ fresh => \A k \in Known : ~Deploys(versions[k])

HomeInv(g) ==
    /\ aitenant.gw \in {g, NoGw} /\ atCache.gw \in {g, NoGw} /\ atSnap.gw \in {g, NoGw}
    /\ pc \in {"handshake", "clean"} \cup DeployPc => atSnap.gw = g
    /\ \A h \in GwNs, r \in Res : obj[h][r] = "praxis" => h = g

CleanInv ==
    /\ pc = "clean" => \A r \in Res \ todo : obj[atSnap.gw][r] # "praxis"
    /\ pc \in {"mark", "release"} => NoPraxis

OrphanInv(g) ==
    TypeOK /\ ChainInv /\ PcInv /\ HomeInv(g) /\ CleanInv /\ NothingOrphaned

\* A write keeps the versions there are, but for the oldest, and appends one.
LEMMA PushElements ==
    ASSUME TypeOK, NEW m \in Mtc, versions' = Push(m)
    PROVE  \E d \in {0, 1} :
             /\ Len(versions') = Len(versions) + 1 - d
             /\ \A k \in Known' : versions'[k] = IF k + d \in Known THEN versions[k + d] ELSE m
  <1> DEFINE s == Append(versions, m)
  <1>1. /\ versions \in Seq(Mtc) /\ Len(versions) \in Nat \ {0}
        /\ s \in Seq(Mtc) /\ Len(s) = Len(versions) + 1
        /\ \A k \in 1..Len(s) : s[k] = IF k \in Known THEN versions[k] ELSE m
    BY DEF TypeOK, Known
  <1>2. CASE versions' = s
    <2>1. /\ Len(versions') = Len(versions) + 1 - 0
          /\ \A k \in Known' : versions'[k] = IF k + 0 \in Known THEN versions[k + 0] ELSE m
      BY <1>1, <1>2 DEF Known
    <2> QED
      BY <2>1
  <1>3. CASE versions' = Tail(s)
    <2>1. /\ Len(versions') = Len(versions) + 1 - 1
          /\ \A k \in Known' : versions'[k] = s[k + 1] /\ k + 1 \in 1..Len(s)
      BY <1>1, <1>3 DEF Known
    <2> QED
      BY <1>1, <2>1
  <1> QED
    BY <1>2, <1>3 DEF Push

\* A write keeps the order of the versions if it takes the finalizer away only
\* when no version lets a reconcile deploy, and has it only on a MTC that no
\* version shows as deleted.
LEMMA WriteChain ==
    ASSUME TypeOK, ChainInv, NEW m \in Mtc, versions' = Push(m),
           m.fin => m.phase # "gone",
           ~m.fin => \A k \in Known : ~Deploys(versions[k]),
           Kept(m) => \A k \in Known : versions[k].phase = "live"
    PROVE  ChainInv' /\ live' = m /\ (Dormant /\ ~Kept(m) => Dormant')
  <1>1. live' = m
    BY WriteType
  <1>2. PICK d \in {0, 1} :
             /\ Len(versions') = Len(versions) + 1 - d
             /\ \A k \in Known' : versions'[k] = IF k + d \in Known THEN versions[k + d] ELSE m
    BY PushElements
  <1>3. Len(versions) \in Nat \ {0}
    BY DEF TypeOK
  <1>4. \A k \in Known' : Deploys(versions[k])' => m.fin
    BY <1>2 DEF Deploys, Kept
  <1>5. ASSUME NEW j \in Known', NEW k \in Known', j <= k, Kept(versions'[k])
        PROVE  versions'[j].phase = "live"
    <2>1. CASE k + d \in Known
      <3>1. j + d \in Known
        BY <1>2, <1>3, <1>5, <2>1 DEF Known
      <3> QED
        BY <1>2, <1>5, <2>1, <3>1 DEF ChainInv, Known
    <2>2. CASE k + d \notin Known
      <3>1. Kept(m)
        BY <1>2, <1>5, <2>2
      <3> QED
        BY <1>2, <1>5, <3>1 DEF Kept
    <2> QED
      BY <2>1, <2>2
  <1>6. Dormant /\ ~Kept(m) => Dormant'
    BY <1>2 DEF Dormant
  <1> QED
    BY <1>1, <1>4, <1>5, <1>6 DEF ChainInv

\* So does one that leaves the finalizer and, under it, a deletion alone.
LEMMA EditChain ==
    ASSUME TypeOK, ChainInv, NEW m \in Mtc, versions' = Push(m),
           m.fin = live.fin, Kept(m) => Kept(live), m.fin => m.phase # "gone"
    PROVE  ChainInv' /\ live' = m /\ (Dormant => Dormant')
  <1>1. Len(versions) \in Known /\ live = versions[Len(versions)]
    BY DEF TypeOK, Known, live
  <1>2. ~m.fin => \A k \in Known : ~Deploys(versions[k])
    BY DEF ChainInv
  <1>3. Kept(m) => \A k \in Known : versions[k].phase = "live"
    BY <1>1 DEF ChainInv, Known
  <1>4. Dormant => ~Kept(m)
    BY <1>1 DEF Dormant
  <1> QED
    BY <1>2, <1>3, <1>4, WriteChain

\* Delivery, and a restart, drop versions from the old end.
LEMMA ShrinkChain ==
    ASSUME TypeOK,
           versions' \in {versions, <<live>>} \/ (Len(versions) > 1 /\ versions' = Tail(versions))
    PROVE  /\ live' = live /\ Len(versions') <= Len(versions)
           /\ ChainInv => ChainInv'
           /\ Dormant => Dormant'
           /\ (\A k \in Known : ~Deploys(versions[k])) => (\A k \in Known : ~Deploys(versions[k]))'
  <1>1. Len(versions) \in Nat \ {0} /\ live = versions[Len(versions)] /\ live \in Mtc
    BY CopyTypes DEF TypeOK, live
  <1>2. PICK d \in Nat :
             /\ Len(versions') + d = Len(versions) /\ Len(versions') \in Nat \ {0}
             /\ \A k \in Known' : versions'[k] = versions[k + d]
    <2>1. CASE versions' = versions
      <3>1. /\ Len(versions') + 0 = Len(versions) /\ Len(versions') \in Nat \ {0}
            /\ \A k \in Known' : versions'[k] = versions[k + 0]
        BY <1>1, <2>1 DEF Known
      <3> QED
        BY <3>1
    <2>2. CASE versions' = <<live>>
      <3>1. /\ Len(versions') + (Len(versions) - 1) = Len(versions) /\ Len(versions') \in Nat \ {0}
            /\ \A k \in Known' : versions'[k] = versions[k + (Len(versions) - 1)]
        BY <1>1, <2>2 DEF Known
      <3>2. Len(versions) - 1 \in Nat
        BY <1>1
      <3> QED
        BY <3>1, <3>2
    <2>3. CASE Len(versions) > 1 /\ versions' = Tail(versions)
      <3>1. /\ Len(versions') + 1 = Len(versions) /\ Len(versions') \in Nat \ {0}
            /\ \A k \in Known' : versions'[k] = versions[k + 1]
        BY <1>1, <2>3 DEF Known, TypeOK
      <3> QED
        BY <3>1
    <2> QED
      BY <2>1, <2>2, <2>3
  <1>3. \A k \in Known' : k + d \in Known
    BY <1>1, <1>2 DEF Known
  <1>4. live' = live
    BY <1>1, <1>2 DEF live, Known
  <1>5. ChainInv => ChainInv'
    <2> SUFFICES ASSUME ChainInv PROVE ChainInv'
      OBVIOUS
    <2>1. \A k \in Known' : Deploys(versions[k])' => live'.fin
      BY <1>2, <1>3, <1>4 DEF ChainInv, Deploys
    <2>2. ASSUME NEW j \in Known', NEW k \in Known', j <= k, Kept(versions'[k])
          PROVE  versions'[j].phase = "live"
      <3>1. j + d \in Known /\ k + d \in Known /\ j + d <= k + d
        BY <1>1, <1>2, <1>3, <2>2 DEF Known
      <3> QED
        BY <1>2, <2>2, <3>1 DEF ChainInv
    <2> QED
      BY <1>4, <2>1, <2>2 DEF ChainInv
  <1> QED
    BY <1>1, <1>2, <1>3, <1>4, <1>5 DEF Dormant, Deploys, Kept

\* Nothing of Praxis is deployed initially.
LEMMA OrphanInit ==
    ASSUME NEW g \in GwNs, Init, Homed(g) PROVE OrphanInv(g)
  <1>1. TypeOK
    BY InitType
  <1>2. NoPraxis
    BY DEF Init, NoPraxis
  <1>3. Len(versions) = 1 /\ live = versions[1] /\ live.phase = "live" /\ ~live.fin
    BY DEF Init, live
  <1>4. ChainInv
    BY <1>3 DEF ChainInv, Known, Deploys, Kept
  <1>5. HomeInv(g)
    BY <1>2 DEF HomeInv, Homed, NoPraxis, Init, NoAITenant, DeployPc
  <1> QED
    BY <1>1, <1>2, <1>4, <1>5 DEF Init, OrphanInv, PcInv, CleanInv, NothingOrphaned, DeployPc

\* Somebody else edits the MTC.
LEMMA EditKeeps ==
    ASSUME NEW g \in GwNs, OrphanInv(g), TypeOK', NEW m \in Mtc, Write(m),
           m.fin = live.fin, Kept(m) => Kept(live), m.fin => m.phase # "gone",
           UNCHANGED <<workVars, obj, aitenant, atCache>>
    PROVE  OrphanInv(g)'
  <1>1. ChainInv' /\ live' = m /\ (Dormant => Dormant') /\ ~fresh'
    BY EditChain DEF OrphanInv, Write
  <1>2. PcInv'
    BY <1>1 DEF OrphanInv, PcInv, DeployPc, workVars
  <1>3. HomeInv(g)'
    BY DEF OrphanInv, HomeInv, DeployPc, workVars
  <1>4. CleanInv' /\ NothingOrphaned'
    BY <1>1 DEF OrphanInv, CleanInv, NothingOrphaned, NoPraxis, workVars, ChainInv
  <1> QED
    BY <1>1, <1>2, <1>3, <1>4 DEF OrphanInv

\* Neither the MTC nor the worker moves, and no object of Praxis appears.
LEMMA StayKeeps ==
    ASSUME NEW g \in GwNs, OrphanInv(g), TypeOK', Homed(g)', UNCHANGED <<mtcVars, workVars>>,
           atCache' \in {atCache, aitenant},
           \A h \in GwNs, r \in Res : obj'[h][r] = "praxis" => obj[h][r] = "praxis"
    PROVE  OrphanInv(g)'
  <1>1. ChainInv' /\ PcInv'
    BY DEF OrphanInv, ChainInv, PcInv, Dormant, Known, live, mtcVars, workVars
  <1>2. HomeInv(g)'
    BY DEF OrphanInv, HomeInv, Homed, workVars
  <1>3. (pc = "clean" => atSnap.gw = g)
    BY DEF OrphanInv, HomeInv
  <1>4. CleanInv' /\ NothingOrphaned'
    BY <1>3 DEF OrphanInv, CleanInv, NothingOrphaned, NoPraxis, workVars, mtcVars, live
  <1> QED
    BY <1>1, <1>2, <1>4 DEF OrphanInv

\* A reconcile ends, or the process restarts.
LEMMA EndKeeps ==
    ASSUME NEW g \in GwNs, OrphanInv(g), TypeOK', Idle, fresh' = FALSE,
           versions' \in {versions, <<live>>}, UNCHANGED <<aitenant, atCache, obj>>
    PROVE  OrphanInv(g)'
  <1>1. ChainInv' /\ live' = live
    BY ShrinkChain DEF OrphanInv
  <1>2. PcInv' /\ CleanInv'
    BY DEF PcInv, CleanInv, Idle, DeployPc
  <1>3. HomeInv(g)'
    BY DEF OrphanInv, HomeInv, Idle, DeployPc, NoAITenant
  <1> QED
    BY <1>1, <1>2, <1>3 DEF OrphanInv, NothingOrphaned, NoPraxis

\* The worker moves on in a reconcile and writes nothing.
LEMMA MoveKeeps ==
    ASSUME NEW g \in GwNs, OrphanInv(g), TypeOK', NEW next, GoOn(next),
           atSnap'.gw \in {g, NoGw},
           next \in {"handshake", "clean"} \cup DeployPc => atSnap'.gw = g,
           next # "finalizer",
           next \in {"resolve", "handshake"} \cup DeployPc => live.fin,
           next \in {"resolveCleanup", "clean"} /\ snap.phase = "deleting" => Dormant,
           next = "release" /\ fresh => \A k \in Known : ~Deploys(versions[k]),
           next = "clean" => todo' = Res,
           next \in {"mark", "release"} => NoPraxis
    PROVE  OrphanInv(g)'
  <1>1. ChainInv' /\ live' = live
    BY DEF OrphanInv, ChainInv, Known, live, GoOn
  <1>2. PcInv'
    BY <1>1 DEF OrphanInv, PcInv, Dormant, Known, GoOn
  <1>3. HomeInv(g)'
    BY DEF OrphanInv, HomeInv, GoOn
  <1>4. CleanInv' /\ NothingOrphaned'
    BY <1>1 DEF OrphanInv, CleanInv, NothingOrphaned, NoPraxis, GoOn
  <1> QED
    BY <1>1, <1>2, <1>3, <1>4 DEF OrphanInv

\* The worker deletes an object, in a cleanup or a prune.
LEMMA DeleteKeeps ==
    ASSUME NEW g \in GwNs, OrphanInv(g), TypeOK', NEW r \in todo, DeleteIfOwned(r),
           todo' = todo \ {r}, pc \in {"prune", "clean"},
           UNCHANGED <<versions, aitenant, atCache, overdue, maas, fresh,
                       pc, snap, atSnap, rendered, disturb>>
    PROVE  OrphanInv(g)'
  <1>t. TypeOK /\ atSnap.gw = g /\ r \in Res
    BY DEF OrphanInv, HomeInv, DeployPc, TypeOK
  <1>1. ChainInv' /\ PcInv' /\ live' = live
    BY DEF OrphanInv, ChainInv, PcInv, Dormant, Known, live
  <1>2. PICK left \in {obj[atSnap.gw][r], "none"} :
             /\ obj' = [obj EXCEPT ![atSnap.gw][r] = left]
             /\ obj[atSnap.gw][r] = "praxis" => left = "none"
    BY <1>t, DeleteEffect
  <1>3. /\ obj'[g][r] # "praxis"
        /\ \A h \in GwNs, q \in Res : obj'[h][q] = "praxis" => obj[h][q] = "praxis"
    BY <1>t, <1>2 DEF TypeOK
  <1>4. HomeInv(g)'
    BY <1>3 DEF OrphanInv, HomeInv
  <1>5. CleanInv' /\ NothingOrphaned'
    BY <1>t, <1>1, <1>3 DEF OrphanInv, CleanInv, NothingOrphaned, NoPraxis
  <1> QED
    BY <1>1, <1>4, <1>5 DEF OrphanInv

\* Every step keeps the inductive invariant: one case per action.
LEMMA OrphanStep ==
    ASSUME NEW g \in GwNs, OrphanInv(g), NotOvertaken, Homed(g)', TimeoutUnused, [Next]_vars
    PROVE  OrphanInv(g)'
  <1>t. TypeOK /\ TypeOK'
    BY TypeStep DEF OrphanInv
  <1>l. /\ live \in Mtc /\ snap \in Mtc /\ cached = versions[1] /\ cached \in Mtc
        /\ Len(versions) \in Nat \ {0} /\ 1 \in Known /\ live = versions[Len(versions)]
    BY <1>t, CopyTypes DEF TypeOK, Known, cached, live
  <1>g. NoGw # g /\ GwNs \cap {NoGw} = {}
    BY GwAssumption
  <1>e. ASSUME EndReconcile PROVE OrphanInv(g)'
    BY <1>e, <1>t, EndKeeps DEF EndReconcile
  <1>1. ASSUME Reconcile PROVE OrphanInv(g)'
    <2>1. /\ snap' = versions[1] /\ live' = live /\ Known' = Known /\ fresh' = (Len(versions) = 1)
          /\ UNCHANGED <<versions, obj, atSnap, aitenant, atCache>>
          /\ pc' = Dispatch(versions[1]) /\ pc' \notin {"idle", "release"}
      BY <1>1, <1>l DEF Reconcile, live, Known, TimeoutUnused
    <2>2. \/ pc' = "finalizer" /\ snap'.phase = "live" /\ UsesPraxis(snap')
          \/ pc' = "resolveCleanup"
      BY <1>l, <2>1 DEF Dispatch, Mtc
    <2>3. ChainInv'
      BY <2>1 DEF OrphanInv, ChainInv
    <2>4. pc' = "finalizer" /\ snap'.fin => live.fin
      BY <1>l, <2>1, <2>2 DEF OrphanInv, ChainInv, Deploys, Kept
    <2>5. snap'.phase = "deleting" => Dormant'
      BY <1>l, <2>1 DEF OrphanInv, ChainInv, Dormant, Known
    <2>6. fresh' => snap' = live'
      BY <1>l, <2>1
    <2>7. PcInv'
      BY <2>1, <2>2, <2>4, <2>5, <2>6 DEF PcInv, DeployPc
    <2>8. HomeInv(g)' /\ CleanInv' /\ NothingOrphaned'
      BY <2>1, <2>2 DEF OrphanInv, HomeInv, CleanInv, NothingOrphaned, NoPraxis, DeployPc
    <2> QED
      BY <1>t, <2>3, <2>7, <2>8 DEF OrphanInv
  <1>2. ASSUME EnsureFinalizer PROVE OrphanInv(g)'
    <2>1. CASE snap.fin /\ GoOn("resolve") /\ UNCHANGED <<atSnap, todo, rendered>>
      <3>1. live.fin /\ atSnap'.gw \in {g, NoGw}
        BY <1>2, <2>1 DEF EnsureFinalizer, OrphanInv, PcInv, HomeInv
      <3> QED
        BY <1>t, <2>1, <3>1, MoveKeeps DEF DeployPc
    <2>2. CASE /\ fresh /\ WriteBack([live EXCEPT !.fin = TRUE])
               /\ pc = "finalizer" /\ pc' = "resolve"
               /\ UNCHANGED <<aitenant, atCache, obj, overdue, maas, atSnap, todo, rendered, disturb>>
      <3> DEFINE m == [live EXCEPT !.fin = TRUE]
      <3>1. m \in Mtc /\ m.fin /\ m.phase = live.phase
        BY <1>l, MtcUpdates DEF Mtc
      <3>2. live.phase = "live" /\ Len(versions) = 1
        BY <2>2 DEF OrphanInv, PcInv
      <3>3. \A k \in Known : versions[k].phase = "live"
        BY <1>l, <3>2 DEF Known
      <3>4. versions' = Push(m) /\ fresh' = TRUE /\ snap' = m
        BY <2>2 DEF WriteBack
      <3> HIDE DEF m
      <3>5. ChainInv' /\ live' = m
        BY <1>t, <3>1, <3>2, <3>3, <3>4, WriteChain DEF OrphanInv
      <3>6. PcInv'
        BY <2>2, <3>1, <3>4, <3>5 DEF PcInv, DeployPc
      <3>7. HomeInv(g)' /\ CleanInv'
        BY <2>2 DEF OrphanInv, HomeInv, CleanInv, DeployPc
      <3>8. NothingOrphaned'
        BY <3>1, <3>2, <3>5 DEF NothingOrphaned
      <3> QED
        BY <1>t, <3>5, <3>6, <3>7, <3>8 DEF OrphanInv
    <2> QED
      BY <1>2, <1>e, <2>1, <2>2 DEF EnsureFinalizer
  <1>3. ASSUME ResolveOwner PROVE OrphanInv(g)'
    <2>1. CASE GoOn("handshake") /\ atCache.gw # NoGw /\ atSnap' = atCache /\ pc = "resolve"
      <3>1. live.fin /\ atSnap'.gw = g
        BY <2>1 DEF OrphanInv, PcInv, HomeInv
      <3> QED
        BY <1>t, <2>1, <3>1, MoveKeeps
    <2> QED
      BY <1>3, <1>e, <2>1 DEF ResolveOwner
  <1>4. ASSUME EnsurePraxisMayDeploy PROVE OrphanInv(g)'
    <2>0. pc = "handshake" /\ live.fin /\ atSnap.gw = g
      BY <1>4 DEF EnsurePraxisMayDeploy, OrphanInv, PcInv, HomeInv
    <2>1. CASE GoOn("overlay") /\ UNCHANGED <<atSnap, todo, rendered>>
      BY <1>t, <2>0, <2>1, MoveKeeps
    <2>2. CASE /\ Write([live EXCEPT !.status = "steady"])
               /\ snap' = [snap EXCEPT !.status = "steady"]
               /\ pc' = "overlay"
               /\ UNCHANGED <<aitenant, atCache, obj, overdue, maas, atSnap, todo, rendered, disturb>>
      <3> DEFINE m == [live EXCEPT !.status = "steady"]
      <3>0. m \in Mtc
        BY <1>l, MtcUpdates, Statuses
      <3>1. m \in Mtc /\ m.fin = live.fin /\ m.phase = live.phase
        BY <1>l, <3>0 DEF Mtc
      <3>2. versions' = Push(m) /\ fresh' = FALSE
        BY <2>2 DEF Write
      <3> HIDE DEF m
      <3>3. ChainInv' /\ live' = m
        BY <1>t, <3>1, <3>2, EditChain DEF OrphanInv, Kept, ChainInv
      <3>4. PcInv'
        BY <2>0, <2>2, <3>1, <3>2, <3>3 DEF PcInv, DeployPc
      <3>5. HomeInv(g)' /\ CleanInv' /\ NothingOrphaned'
        BY <2>0, <2>2, <3>1, <3>3 DEF OrphanInv, HomeInv, CleanInv, NothingOrphaned, NoPraxis, DeployPc
      <3> QED
        BY <1>t, <3>3, <3>4, <3>5 DEF OrphanInv
    <2> QED
      BY <1>4, <1>e, <2>1, <2>2 DEF EnsurePraxisMayDeploy, SetStatus
  <1>5. ASSUME ResolveRuntime PROVE OrphanInv(g)'
    <2>1. live.fin /\ atSnap.gw = g
      BY <1>5 DEF ResolveRuntime, OrphanInv, PcInv, HomeInv, DeployPc
    <2>2. (GoOn("check") \/ GoOn("prune")) /\ atSnap' = atSnap
      BY <1>5 DEF ResolveRuntime
    <2> QED
      BY <1>t, <2>1, <2>2, MoveKeeps DEF DeployPc
  <1>6. ASSUME PruneExternalModel PROVE OrphanInv(g)'
    <2>1. CASE GoOn("check") /\ UNCHANGED atSnap
      <3>1. live.fin /\ atSnap.gw = g
        BY <1>6 DEF PruneExternalModel, OrphanInv, PcInv, HomeInv, DeployPc
      <3> QED
        BY <1>t, <2>1, <3>1, MoveKeeps DEF DeployPc
    <2> QED
      BY <1>6, <1>t, <2>1, DeleteKeeps DEF PruneExternalModel
  <1>7. ASSUME WaitForForeignOwnership PROVE OrphanInv(g)'
    <2>1. CASE (GoOn("plugins") \/ GoOn("check")) /\ UNCHANGED atSnap
      <3>1. live.fin /\ atSnap.gw = g
        BY <1>7 DEF WaitForForeignOwnership, OrphanInv, PcInv, HomeInv, DeployPc
      <3> QED
        BY <1>t, <2>1, <3>1, MoveKeeps DEF DeployPc
    <2> QED
      BY <1>7, <1>e, <2>1 DEF WaitForForeignOwnership
  <1>8. ASSUME PluginsGate PROVE OrphanInv(g)'
    <2>1. CASE GoOn("fence") /\ UNCHANGED atSnap
      <3>1. live.fin /\ atSnap.gw = g
        BY <1>8 DEF PluginsGate, OrphanInv, PcInv, HomeInv, DeployPc
      <3> QED
        BY <1>t, <2>1, <3>1, MoveKeeps DEF DeployPc
    <2> QED
      BY <1>8, <1>e, <2>1 DEF PluginsGate
  <1>9. ASSUME Fence PROVE OrphanInv(g)'
    <2>1. CASE GoOn("apply") /\ UNCHANGED atSnap
      <3>1. live.fin /\ atSnap.gw = g
        BY <1>9 DEF Fence, OrphanInv, PcInv, HomeInv, DeployPc
      <3> QED
        BY <1>t, <2>1, <3>1, MoveKeeps DEF DeployPc
    <2> QED
      BY <1>9, <1>e, <2>1 DEF Fence
  <1>10. ASSUME Apply PROVE OrphanInv(g)'
    <2>1. ASSUME NEW r \in todo,
                 obj' = [obj EXCEPT ![atSnap.gw][r] = "praxis"],
                 UNCHANGED <<versions, aitenant, atCache, overdue, maas, fresh,
                             pc, snap, atSnap, rendered, disturb>>
          PROVE  OrphanInv(g)'
      <3>1. pc = "apply" /\ live.fin /\ live.phase # "gone" /\ atSnap.gw = g
        BY <1>10 DEF Apply, OrphanInv, PcInv, HomeInv, DeployPc, ChainInv
      <3>2. ChainInv' /\ PcInv' /\ live' = live
        BY <2>1 DEF OrphanInv, ChainInv, PcInv, Dormant, Known, live
      <3>3. \A h \in GwNs, q \in Res : obj'[h][q] = "praxis" => obj[h][q] = "praxis" \/ h = g
        BY <1>t, <2>1, <3>1 DEF TypeOK
      <3>4. HomeInv(g)'
        BY <2>1, <3>3 DEF OrphanInv, HomeInv
      <3> QED
        BY <1>t, <2>1, <3>1, <3>2, <3>4 DEF OrphanInv, CleanInv, NothingOrphaned
    <2> QED
      BY <1>10, <1>e, <2>1 DEF Apply
  <1>11. ASSUME ResolveOwnedForCleanup PROVE OrphanInv(g)'
    <2>1. CASE GoOn("clean") /\ atCache.gw # NoGw /\ atSnap' = atCache /\ todo' = Res
      <3>1. atSnap'.gw = g /\ (snap.phase = "deleting" => Dormant)
        BY <1>11, <2>1 DEF ResolveOwnedForCleanup, OrphanInv, PcInv, HomeInv
      <3> QED
        BY <1>t, <2>1, <3>1, MoveKeeps DEF DeployPc
    <2> QED
      BY <1>11, <1>e, <2>1 DEF ResolveOwnedForCleanup
  <1>12. ASSUME Cleanup PROVE OrphanInv(g)'
    <2>1. CASE todo = {}
      <3>1. /\ pc = "clean" /\ atSnap.gw = g /\ UNCHANGED <<atSnap, todo, rendered>>
            /\ GoOn(IF snap.phase = "deleting" THEN "release" ELSE "mark")
        BY <1>12, <2>1 DEF Cleanup, OrphanInv, HomeInv
      <3>2. NoPraxis
        BY <2>1, <3>1 DEF OrphanInv, CleanInv, HomeInv, NoPraxis
      <3>3. snap.phase = "deleting" => \A k \in Known : ~Deploys(versions[k])
        BY <3>1 DEF OrphanInv, PcInv, Dormant, Deploys
      <3> QED
        BY <1>t, <3>1, <3>2, <3>3, MoveKeeps DEF DeployPc
    <2> QED
      BY <1>12, <1>t, <2>1, DeleteKeeps DEF Cleanup
  <1>13. ASSUME MarkCleanupComplete PROVE OrphanInv(g)'
    <2>0. pc = "mark" /\ NoPraxis
      BY <1>13 DEF MarkCleanupComplete, OrphanInv, CleanInv
    <2>1. CASE snap.status = "cleanup-complete" /\ GoOn("release") /\ UNCHANGED <<atSnap, todo, rendered>>
      <3>1. fresh => \A k \in Known : ~Deploys(versions[k])
        BY <2>0 DEF NotOvertaken, Deploys
      <3>2. atSnap'.gw \in {g, NoGw}
        BY <2>1 DEF OrphanInv, HomeInv
      <3> QED
        BY <1>t, <2>0, <2>1, <3>1, <3>2, MoveKeeps DEF DeployPc
    <2>2. ASSUME NEW m \in Mtc, snap.status # "cleanup-complete", live.phase # "gone",
                 m.fin = live.fin, m.phase = live.phase, m.type = live.type,
                 snap' = m, fresh' = TRUE, pc' = "release",
                 versions' = Push(m) \/ (m = live /\ UNCHANGED versions),
                 UNCHANGED <<aitenant, atCache, obj, overdue, maas, atSnap, todo, rendered, disturb>>
          PROVE  OrphanInv(g)'
      <3>1. \A k \in Known : ~UsesPraxis(versions[k])
        BY <2>0, <2>2 DEF NotOvertaken
      <3>2. ~UsesPraxis(m)
        BY <1>l, <2>2, <3>1 DEF UsesPraxis, Known
      <3>3. ChainInv' /\ live' = m
        <4>1. CASE versions' = Push(m)
          BY <1>t, <2>2, <4>1, EditChain DEF OrphanInv, Kept, ChainInv
        <4>2. CASE m = live /\ UNCHANGED versions
          BY <4>2 DEF OrphanInv, ChainInv, Known, live
        <4> QED
          BY <2>2, <4>1, <4>2
      <3>4. \A k \in Known' : ~UsesPraxis(versions'[k])
        <4>1. CASE versions' = Push(m)
          <5>1. PICK d \in {0, 1} : \A k \in Known' :
                  versions'[k] = IF k + d \in Known THEN versions[k + d] ELSE m
            BY <1>t, <4>1, PushElements
          <5> QED
            BY <3>1, <3>2, <5>1
        <4>2. CASE UNCHANGED versions
          BY <3>1, <4>2 DEF Known
        <4> QED
          BY <2>2, <4>1, <4>2
      <3>5. PcInv'
        BY <2>2, <3>3, <3>4 DEF PcInv, DeployPc, Deploys
      <3>6. HomeInv(g)' /\ CleanInv' /\ NothingOrphaned'
        BY <2>0, <2>2 DEF OrphanInv, HomeInv, CleanInv, NothingOrphaned, NoPraxis, DeployPc
      <3> QED
        BY <1>t, <3>3, <3>5, <3>6 DEF OrphanInv
    <2>3. CASE /\ snap.status # "cleanup-complete" /\ live.phase # "gone"
               /\ snap' = live /\ fresh' = TRUE /\ UNCHANGED versions /\ pc' = "release"
               /\ UNCHANGED <<aitenant, atCache, obj, overdue, maas, atSnap, todo, rendered, disturb>>
      BY <1>l, <2>2, <2>3
    <2>4. CASE /\ snap.status # "cleanup-complete" /\ live.phase # "gone"
               /\ WriteBack([live EXCEPT !.status = "cleanup-complete"]) /\ pc' = "release"
               /\ UNCHANGED <<aitenant, atCache, obj, overdue, maas, atSnap, todo, rendered, disturb>>
      <3> DEFINE m == [live EXCEPT !.status = "cleanup-complete"]
      <3>0. m \in Mtc
        BY <1>l, MtcUpdates, Statuses
      <3>1. m \in Mtc /\ m.fin = live.fin /\ m.phase = live.phase /\ m.type = live.type
        BY <1>l, <3>0 DEF Mtc
      <3> HIDE DEF m
      <3>2. versions' = Push(m) /\ fresh' = TRUE /\ snap' = m
        BY <2>4 DEF WriteBack, m
      <3> QED
        BY <2>2, <2>4, <3>1, <3>2
    <2> QED
      BY <1>13, <1>e, <2>1, <2>3, <2>4 DEF MarkCleanupComplete, SetStatus
  <1>14. ASSUME RemoveFinalizer PROVE OrphanInv(g)'
    <2>1. CASE fresh /\ Write([live EXCEPT !.fin = FALSE]) /\ Idle /\ UNCHANGED <<aitenant, atCache, obj>>
      <3> DEFINE m == [live EXCEPT !.fin = FALSE]
      <3>1. m \in Mtc /\ ~m.fin
        BY <1>l, MtcUpdates DEF Mtc
      <3>2. versions' = Push(m) /\ fresh' = FALSE
        BY <2>1 DEF Write
      <3> HIDE DEF m
      <3>3. NoPraxis /\ \A k \in Known : ~Deploys(versions[k])
        BY <1>14, <2>1 DEF RemoveFinalizer, OrphanInv, PcInv, CleanInv
      <3>4. ChainInv'
        BY <1>t, <3>1, <3>2, <3>3, WriteChain DEF OrphanInv, Kept
      <3>5. PcInv' /\ CleanInv' /\ NothingOrphaned'
        BY <2>1, <3>2, <3>3 DEF PcInv, CleanInv, NothingOrphaned, NoPraxis, Idle, DeployPc
      <3>6. HomeInv(g)'
        BY <2>1 DEF OrphanInv, HomeInv, Idle, NoAITenant, DeployPc
      <3> QED
        BY <1>t, <3>4, <3>5, <3>6 DEF OrphanInv
    <2> QED
      BY <1>14, <1>e, <2>1 DEF RemoveFinalizer
  <1>15. ASSUME MaasClaim PROVE OrphanInv(g)'
    <2> DEFINE m == [live EXCEPT !.status = "absent"]
    <2>1. m \in Mtc /\ live.phase = "live" /\ Write(m)
      BY <1>15, <1>l, MtcUpdates, Statuses DEF MaasClaim
    <2>2. m.fin = live.fin /\ m.phase = live.phase
      BY <1>l DEF Mtc
    <2> HIDE DEF m
    <2> QED
      BY <1>15, <1>t, <2>1, <2>2, EditKeeps DEF MaasClaim, maasFrame, Kept
  <1>16. ASSUME MaasStart PROVE OrphanInv(g)'
    BY <1>16, <1>t, StayKeeps DEF MaasStart, maasFrame
  <1>17. ASSUME MaasDeploy PROVE OrphanInv(g)'
    <2>1. PICK r \in SharedRes : obj' = [obj EXCEPT ![aitenant.gw][r] = "ipp"]
      BY <1>17 DEF MaasDeploy
    <2>2. \A h \in GwNs, q \in Res : obj'[h][q] = "praxis" => obj[h][q] = "praxis"
      BY <1>t, <2>1 DEF TypeOK
    <2> QED
      BY <1>17, <1>t, <2>2, StayKeeps DEF MaasDeploy, maasFrame
  <1>18. ASSUME MaasDeployDone PROVE OrphanInv(g)'
    BY <1>18, <1>t, StayKeeps DEF MaasDeployDone, maasFrame
  <1>19. ASSUME MaasClean PROVE OrphanInv(g)'
    <2>1. PICK h \in GwNs, r \in SharedRes, left \in {"none", "released"} :
            obj' = [obj EXCEPT ![h][r] = left]
      BY <1>19 DEF MaasClean
    <2>2. \A i \in GwNs, q \in Res : obj'[i][q] = "praxis" => obj[i][q] = "praxis"
      BY <1>t, <2>1 DEF TypeOK
    <2> QED
      BY <1>19, <1>t, <2>2, StayKeeps DEF MaasClean, maasFrame
  <1>20. ASSUME MaasCleanDone PROVE OrphanInv(g)'
    <2>1. CASE UNCHANGED mtcVars
      BY <1>20, <1>t, <2>1, StayKeeps DEF MaasCleanDone, maasFrame
    <2>2. CASE live.phase = "live" /\ Write([live EXCEPT !.status = "cleanup-complete"])
      <3> DEFINE m == [live EXCEPT !.status = "cleanup-complete"]
      <3>1. m \in Mtc /\ Write(m)
        BY <1>l, <2>2, MtcUpdates, Statuses
      <3>2. m.fin = live.fin /\ m.phase = live.phase
        BY <1>l DEF Mtc
      <3> HIDE DEF m
      <3> QED
        BY <1>20, <1>t, <2>2, <3>1, <3>2, EditKeeps DEF MaasCleanDone, maasFrame, Kept
    <2> QED
      BY <1>20, <2>1, <2>2 DEF MaasCleanDone
  <1>21. ASSUME MtcGone PROVE OrphanInv(g)'
    <2> DEFINE m == [live EXCEPT !.phase = "gone"]
    <2>1. m \in Mtc /\ ~live.fin /\ Write(m)
      BY <1>21, <1>l, MtcUpdates DEF MtcGone
    <2>2. m.fin = live.fin
      BY <1>l DEF Mtc
    <2> HIDE DEF m
    <2> QED
      BY <1>21, <1>t, <2>1, <2>2, EditKeeps DEF MtcGone, Kept
  <1>22. ASSUME MtcCreate PROVE OrphanInv(g)'
    <2>1. PICK t \in {"praxis", "ipp"} :
            Write([phase |-> "live", type |-> t, status |-> "cleanup-complete",
                   fin |-> FALSE, force |-> FALSE])
      BY <1>22 DEF MtcCreate
    <2> DEFINE m == [phase |-> "live", type |-> t, status |-> "cleanup-complete",
                     fin |-> FALSE, force |-> FALSE]
    <2>2. m \in Mtc /\ m.fin = FALSE
      BY DEF Mtc, Status
    <2>3. live.fin = FALSE
      BY <1>22, <1>l DEF MtcCreate, OrphanInv, ChainInv, Mtc
    <2> HIDE DEF m
    <2>4. Write(m)
      BY <2>1 DEF m
    <2> QED
      BY <1>22, <1>t, <2>2, <2>3, <2>4, EditKeeps DEF MtcCreate, Kept
  <1>23. ASSUME PublishAITenant PROVE OrphanInv(g)'
    BY <1>23, <1>t, StayKeeps DEF PublishAITenant
  <1>24. ASSUME TimeoutElapses PROVE OrphanInv(g)'
    BY <1>24, <1>t, StayKeeps DEF TimeoutElapses
  <1>25. ASSUME SelectBackend PROVE OrphanInv(g)'
    <2>1. PICK t \in {"praxis", "ipp"} : Write([live EXCEPT !.type = t])
      BY <1>25 DEF SelectBackend
    <2>2. /\ [live EXCEPT !.type = t] \in Mtc
          /\ [live EXCEPT !.type = t].fin = live.fin /\ [live EXCEPT !.type = t].phase = "live"
          /\ live.phase = "live"
      BY <1>25, <1>l, MtcUpdates DEF SelectBackend, Mtc
    <2> QED
      BY <1>25, <1>t, <2>1, <2>2, EditKeeps DEF SelectBackend, Kept
  <1>26. ASSUME ForceMigration PROVE OrphanInv(g)'
    <2> DEFINE m == [live EXCEPT !.force = TRUE]
    <2>1. m \in Mtc /\ live.phase = "live" /\ Write(m)
      BY <1>26, <1>l, MtcUpdates DEF ForceMigration
    <2>2. m.fin = live.fin /\ m.phase = live.phase
      BY <1>l DEF Mtc
    <2> HIDE DEF m
    <2> QED
      BY <1>26, <1>t, <2>1, <2>2, EditKeeps DEF ForceMigration, Kept
  <1>27. ASSUME DeleteMtc PROVE OrphanInv(g)'
    <2> DEFINE m == [live EXCEPT !.phase = "deleting"]
    <2>1. m \in Mtc /\ Write(m)
      BY <1>27, <1>l, MtcUpdates DEF DeleteMtc
    <2>2. m.fin = live.fin /\ m.phase = "deleting"
      BY <1>l DEF Mtc
    <2> HIDE DEF m
    <2> QED
      BY <1>27, <1>t, <2>1, <2>2, EditKeeps DEF DeleteMtc, Kept
  <1>28. ASSUME ChangeAITenant PROVE OrphanInv(g)'
    BY <1>28, <1>t, StayKeeps DEF ChangeAITenant
  <1>29. ASSUME Fail PROVE OrphanInv(g)'
    BY <1>29, <1>t, EndKeeps DEF Fail
  <1>30. ASSUME Deliver PROVE OrphanInv(g)'
    <2>1. /\ ChainInv' /\ live' = live /\ (Dormant => Dormant')
          /\ (\A k \in Known : ~Deploys(versions[k])) => (\A k \in Known : ~Deploys(versions[k]))'
      BY <1>30, <1>t, ShrinkChain DEF Deliver, OrphanInv
    <2>2. PcInv'
      <3>1. ~(pc = "finalizer" /\ fresh) /\ UNCHANGED <<pc, snap, fresh>>
        BY <1>30, <1>l DEF Deliver, workVars, OrphanInv, PcInv
      <3> QED
        BY <2>1, <3>1 DEF OrphanInv, PcInv
    <2>3. HomeInv(g)' /\ CleanInv' /\ NothingOrphaned'
      BY <1>30, <2>1 DEF Deliver, workVars, OrphanInv, HomeInv, CleanInv, NothingOrphaned, NoPraxis, DeployPc
    <2> QED
      BY <1>t, <2>1, <2>2, <2>3 DEF OrphanInv
  <1>31. ASSUME DeliverAITenant PROVE OrphanInv(g)'
    BY <1>31, <1>t, StayKeeps DEF DeliverAITenant
  <1>32. ASSUME UNCHANGED vars PROVE OrphanInv(g)'
    BY <1>32, <1>t, StayKeeps DEF vars, mtcVars, workVars
  <1> QED
    BY <1>1, <1>2, <1>3, <1>4, <1>5, <1>6, <1>7, <1>8, <1>9, <1>10, <1>11, <1>12, <1>13, <1>14,
       <1>15, <1>16, <1>17, <1>18, <1>19, <1>20, <1>21, <1>22, <1>23, <1>24, <1>25, <1>26, <1>27,
       <1>28, <1>29, <1>30, <1>31, <1>32 DEF Next, Worker, Maas, Environment

\* While an object of Praxis exists the live MTC carries the cleanup finalizer,
\* whatever the two controllers, the users, failures, restarts and a cache that
\* trails by any number of versions do, as long as the tenant stays in one
\* Gateway namespace, no reconcile gives up at the deletion timeout and praxis
\* is not selected again under a running switch-away pass.
THEOREM CleanupGuaranteed ==
    ASSUME NEW g \in GwNs
    PROVE  Spec /\ []Homed(g) /\ [][TimeoutUnused]_vars /\ []NotOvertaken => []NothingOrphaned
  <1>1. Init /\ Homed(g) => OrphanInv(g)
    BY OrphanInit
  <1>2. OrphanInv(g) /\ NotOvertaken /\ Homed(g)' /\ [TimeoutUnused]_vars /\ [Next]_vars
          => OrphanInv(g)'
    <2>1. [TimeoutUnused]_vars => TimeoutUnused
      BY DEF TimeoutUnused, vars
    <2> QED
      BY <2>1, OrphanStep
  <1>3. OrphanInv(g) => NothingOrphaned
    BY DEF OrphanInv
  <1> QED
    BY <1>1, <1>2, <1>3, PTL DEF Spec

-----------------------------------------------------------------------------
(***************************************************************************)
(* The inductive invariant behind OneDataplane and PluginsKept, on top of  *)
(* the one above.  "steady" is Praxis' claim: under it, and under          *)
(* cleanup-complete with praxis selected, maas-controller has left and     *)
(* stays away.  A claim the worker may read in a version that lets it      *)
(* deploy still stands in the live one, and it deploys only under it.      *)
(***************************************************************************)
MaasAway == NoIPP /\ maas = "idle"

\* Hypothesis: praxis is selected again only after maas-controller has taken
\* the annotation that hands the names over to it.
ClaimTaken ==
    live.phase = "live" /\ ~UsesPraxis(live) /\ UsesPraxis(live')
      => live.status # "cleanup-complete"

StatusInv ==
    \A k \in Known : Deploys(versions[k]) /\ versions[k].status = "steady"
                       => live.status = "steady"

ClaimInv ==
    /\ live.status = "steady" => MaasAway
    /\ UsesPraxis(live) /\ live.status = "cleanup-complete" => MaasAway
    /\ live.phase = "gone" => MaasAway
    /\ ~NoPraxis => live.status = "steady"

PassInv ==
    /\ pc \in {"resolve", "handshake"} => snap.fin
    /\ pc \in DeployPc => live.status = "steady"
    /\ pc \in {"finalizer", "resolve", "handshake"} /\ snap.fin /\ snap.status = "steady"
         => live.status = "steady"
    /\ pc \in {"fence", "apply"} => snap.force \/ obj[atSnap.gw][Plugin] \notin {"ipp", "released"}

HandshakeInv(g) == OrphanInv(g) /\ StatusInv /\ ClaimInv /\ PassInv

\* DeleteIfOwned takes nothing but objects of Praxis, and released ones, away.
LEMMA DeleteShrinks ==
    ASSUME TypeOK, NEW r, DeleteIfOwned(r)
    PROVE  /\ NoIPP' <=> NoIPP
           /\ NoPraxis => NoPraxis'
  <1>1. PICK left \in {obj[atSnap.gw][r], "none"} :
             /\ obj' = [obj EXCEPT ![atSnap.gw][r] = left]
             /\ obj[atSnap.gw][r] = "ipp" => left = "ipp"
    BY DeleteEffect
  <1> QED
    BY <1>1 DEF TypeOK, NoIPP, NoPraxis

\* A claim the cache may show stands after a write that keeps it, or that is
\* made when no version lets a reconcile deploy.
LEMMA StatusWrite ==
    ASSUME TypeOK, StatusInv, NEW m \in Mtc, versions' = Push(m),
           live.status = "steady" => m.status = "steady" \/ \A k \in Known : ~Deploys(versions[k])
    PROVE  StatusInv' /\ live' = m
  <1>1. live' = m
    BY WriteType
  <1>2. PICK d \in {0, 1} : \A k \in Known' :
          versions'[k] = IF k + d \in Known THEN versions[k + d] ELSE m
    BY PushElements
  <1> QED
    BY <1>1, <1>2 DEF StatusInv, Deploys

\* Delivery and restarts only drop versions.
LEMMA StatusShrink ==
    ASSUME TypeOK, StatusInv,
           versions' \in {versions, <<live>>} \/ (Len(versions) > 1 /\ versions' = Tail(versions))
    PROVE  StatusInv' /\ live' = live
  <1>1. live' = live
    BY ShrinkChain
  <1>2. Len(versions) \in Nat \ {0} /\ live = versions[Len(versions)]
    BY DEF TypeOK, live
  <1>3. \A k \in Known' : \E i \in Known : versions'[k] = versions[i]
    <2>1. CASE versions' = versions
      BY <2>1 DEF Known
    <2>2. CASE versions' = <<live>>
      BY <1>2, <2>2 DEF Known
    <2>3. CASE Len(versions) > 1 /\ versions' = Tail(versions)
      <3>1. \A k \in Known' : k + 1 \in Known /\ versions'[k] = versions[k + 1]
        BY <1>2, <2>3 DEF Known, TypeOK
      <3> QED
        BY <3>1
    <2> QED
      BY <2>1, <2>2, <2>3
  <1> QED
    BY <1>1, <1>3 DEF StatusInv, Deploys

\* A tenant starts with Praxis absent, and with IPP absent if it is seeded
\* with cleanup-complete.
LEMMA HandshakeInit ==
    ASSUME NEW g \in GwNs, Init, Homed(g) PROVE HandshakeInv(g)
  <1>1. OrphanInv(g)
    BY OrphanInit
  <1>2. NoPraxis /\ pc = "idle" /\ maas = "idle"
    BY DEF Init, NoPraxis
  <1>3. /\ live.phase = "live" /\ live.status # "steady" /\ ~live.fin
        /\ live.status = "cleanup-complete" => NoIPP
    BY DEF Init, live, NoIPP
  <1>4. StatusInv
    BY <1>1, <1>3 DEF OrphanInv, ChainInv, StatusInv
  <1> QED
    BY <1>1, <1>2, <1>3, <1>4 DEF HandshakeInv, ClaimInv, PassInv, MaasAway, DeployPc

\* Every step keeps the handshake's invariant: one case per action.
LEMMA HandshakeStep ==
    ASSUME NEW g \in GwNs, HandshakeInv(g), NotOvertaken, Homed(g)', TimeoutUnused, ClaimTaken,
           [Next]_vars
    PROVE  HandshakeInv(g)'
  <1> DEFINE Goal == StatusInv' /\ ClaimInv' /\ PassInv'
  <1>o. OrphanInv(g) /\ OrphanInv(g)'
    BY OrphanStep DEF HandshakeInv
  <1>t. TypeOK /\ TypeOK'
    BY <1>o DEF OrphanInv
  <1>l. /\ live \in Mtc /\ snap \in Mtc /\ cached = versions[1] /\ cached \in Mtc
        /\ Len(versions) \in Nat \ {0} /\ 1 \in Known /\ Len(versions) \in Known
        /\ live = versions[Len(versions)]
    BY <1>t, CopyTypes DEF TypeOK, Known, cached, live
  <1>i. /\ ChainInv /\ PcInv /\ HomeInv(g) /\ CleanInv /\ NothingOrphaned
        /\ StatusInv /\ ClaimInv /\ PassInv
    BY DEF HandshakeInv, OrphanInv
  <1>s. ASSUME UNCHANGED versions PROVE StatusInv' /\ live' = live
    BY <1>s, <1>t, <1>i, StatusShrink
  <1>w. ASSUME NEW m \in Mtc, Write(m), m.status = live.status, UNCHANGED <<workVars, obj, maas>>,
               UsesPraxis(m) /\ m.status = "cleanup-complete" => UsesPraxis(live),
               m.phase = "gone" => MaasAway
        PROVE  Goal
    <2>1. StatusInv' /\ live' = m
      BY <1>t, <1>i, <1>w, StatusWrite DEF Write
    <2> QED
      BY <1>i, <1>w, <2>1 DEF ClaimInv, PassInv, MaasAway, NoIPP, NoPraxis, DeployPc, workVars
  <1>e. ASSUME Idle, live' = live, StatusInv', UNCHANGED <<obj, maas>> PROVE Goal
    BY <1>e, <1>i DEF Idle, ClaimInv, PassInv, MaasAway, DeployPc, NoIPP, NoPraxis
  <1>f. ASSUME EndReconcile PROVE Goal
    BY <1>e, <1>f, <1>s DEF EndReconcile
  <1> USE DEF ClaimInv, PassInv, MaasAway, DeployPc
  <1>1. ASSUME Reconcile PROVE Goal
    <2>1. /\ snap' = versions[1] /\ obj' = obj /\ maas' = maas /\ UNCHANGED versions
          /\ pc' = Dispatch(versions[1]) /\ pc' \notin {"idle", "release"}
      BY <1>1, <1>l DEF Reconcile, TimeoutUnused
    <2>2. \/ pc' = "finalizer" /\ snap'.phase = "live" /\ UsesPraxis(snap')
          \/ pc' = "resolveCleanup"
      BY <1>l, <2>1 DEF Dispatch, Mtc
    <2>3. pc' = "finalizer" /\ snap'.fin /\ snap'.status = "steady" => live.status = "steady"
      BY <1>i, <1>l, <2>1, <2>2 DEF StatusInv, Deploys, Kept
    <2> QED
      BY <1>i, <1>s, <2>1, <2>2, <2>3 DEF NoIPP, NoPraxis
  <1>2. ASSUME EnsureFinalizer PROVE Goal
    <2>1. CASE snap.fin /\ pc = "finalizer" /\ GoOn("resolve")
      BY <1>i, <1>s, <2>1 DEF GoOn, NoIPP, NoPraxis
    <2>2. CASE /\ WriteBack([live EXCEPT !.fin = TRUE])
               /\ pc = "finalizer" /\ pc' = "resolve"
               /\ UNCHANGED <<aitenant, atCache, obj, overdue, maas, atSnap, todo, rendered, disturb>>
      <3> DEFINE m == [live EXCEPT !.fin = TRUE]
      <3>1. m \in Mtc /\ versions' = Push(m) /\ snap' = m
        BY <1>l, <2>2, MtcUpdates DEF WriteBack
      <3>2. m.fin /\ m.status = live.status /\ m.phase = live.phase /\ m.type = live.type
        BY <1>l DEF Mtc
      <3> HIDE DEF m
      <3>3. StatusInv' /\ live' = m
        BY <1>t, <1>i, <3>1, <3>2, StatusWrite
      <3> QED
        BY <1>i, <2>2, <3>1, <3>2, <3>3 DEF NoIPP, NoPraxis, UsesPraxis
    <2> QED
      BY <1>2, <1>f, <2>1, <2>2 DEF EnsureFinalizer
  <1>3. ASSUME ResolveOwner PROVE Goal
    <2>1. CASE GoOn("handshake") /\ pc = "resolve"
      BY <1>i, <1>s, <2>1 DEF GoOn, NoIPP, NoPraxis
    <2> QED
      BY <1>3, <1>f, <2>1 DEF ResolveOwner
  <1>4. ASSUME EnsurePraxisMayDeploy PROVE Goal
    <2>1. CASE GoOn("overlay") /\ pc = "handshake" /\ snap.status = "steady"
      <3>1. live.status = "steady"
        BY <1>i, <2>1
      <3> QED
        BY <1>i, <1>s, <2>1, <3>1 DEF GoOn, NoIPP, NoPraxis
    <2>2. CASE /\ live.phase # "gone" /\ UsesPraxis(live) /\ live.status = "cleanup-complete"
               /\ Write([live EXCEPT !.status = "steady"])
               /\ pc' = "overlay"
               /\ UNCHANGED <<aitenant, atCache, obj, overdue, maas, atSnap, todo, rendered, disturb>>
      <3> DEFINE m == [live EXCEPT !.status = "steady"]
      <3>1. m \in Mtc /\ versions' = Push(m)
        BY <1>l, <2>2, MtcUpdates, Statuses DEF Write
      <3>2. m.status = "steady"
        BY <1>l DEF Mtc
      <3> HIDE DEF m
      <3>3. StatusInv' /\ live' = m
        BY <1>t, <1>i, <3>1, <3>2, StatusWrite
      <3> QED
        BY <1>i, <2>2, <3>2, <3>3 DEF NoIPP, NoPraxis
    <2> QED
      BY <1>4, <1>f, <2>1, <2>2 DEF EnsurePraxisMayDeploy, SetStatus
  <1>5. ASSUME ResolveRuntime PROVE Goal
    <2>1. /\ pc = "overlay" /\ (GoOn("check") \/ GoOn("prune"))
      BY <1>5 DEF ResolveRuntime
    <2> QED
      BY <1>i, <1>s, <2>1 DEF GoOn, NoIPP, NoPraxis
  <1>6. ASSUME PruneExternalModel PROVE Goal
    <2>1. CASE GoOn("check") /\ pc = "prune"
      BY <1>i, <1>s, <2>1 DEF GoOn, NoIPP, NoPraxis
    <2>2. ASSUME NEW r \in todo, DeleteIfOwned(r), pc = "prune",
                 UNCHANGED <<versions, maas, pc, snap>>
          PROVE  Goal
      BY <1>i, <1>s, <1>t, <2>2, DeleteShrinks
    <2> QED
      BY <1>6, <2>1, <2>2 DEF PruneExternalModel
  <1>7. ASSUME WaitForForeignOwnership PROVE Goal
    <2>1. CASE (GoOn("plugins") \/ GoOn("check")) /\ pc = "check"
      BY <1>i, <1>s, <2>1 DEF GoOn, NoIPP, NoPraxis
    <2> QED
      BY <1>7, <1>f, <2>1 DEF WaitForForeignOwnership
  <1>8. ASSUME PluginsGate PROVE Goal
    <2>1. CASE /\ GoOn("fence") /\ pc = "plugins" /\ UNCHANGED atSnap
               /\ snap.force \/ obj[atSnap.gw][Plugin] \notin {"ipp", "released"}
      BY <1>i, <1>s, <2>1 DEF GoOn, NoIPP, NoPraxis
    <2> QED
      BY <1>8, <1>f, <2>1 DEF PluginsGate
  <1>9. ASSUME Fence PROVE Goal
    <2>1. CASE GoOn("apply") /\ pc = "fence" /\ UNCHANGED atSnap
      BY <1>i, <1>s, <2>1 DEF GoOn, NoIPP, NoPraxis
    <2> QED
      BY <1>9, <1>f, <2>1 DEF Fence
  <1>10. ASSUME Apply PROVE Goal
    <2>1. ASSUME NEW r \in todo,
                 obj' = [obj EXCEPT ![atSnap.gw][r] = "praxis"], pc = "apply",
                 UNCHANGED <<versions, maas, pc, snap, atSnap>>
          PROVE  Goal
      <3>1. NoIPP => NoIPP'
        BY <1>t, <2>1 DEF TypeOK, NoIPP
      <3>2. obj'[atSnap.gw][Plugin] \in {obj[atSnap.gw][Plugin], "praxis"}
        BY <1>i, <1>t, <2>1, ResAssumption DEF TypeOK, HomeInv, Res
      <3> QED
        BY <1>i, <1>s, <2>1, <3>1, <3>2
    <2> QED
      BY <1>10, <1>f, <2>1 DEF Apply
  <1>11. ASSUME ResolveOwnedForCleanup PROVE Goal
    <2>1. CASE GoOn("clean") /\ pc = "resolveCleanup"
      BY <1>i, <1>s, <2>1 DEF GoOn, NoIPP, NoPraxis
    <2> QED
      BY <1>11, <1>f, <2>1 DEF ResolveOwnedForCleanup
  <1>12. ASSUME Cleanup PROVE Goal
    <2>1. CASE GoOn(IF snap.phase = "deleting" THEN "release" ELSE "mark") /\ pc = "clean"
      BY <1>i, <1>s, <2>1 DEF GoOn, NoIPP, NoPraxis
    <2>2. ASSUME NEW r \in todo, DeleteIfOwned(r), pc = "clean",
                 UNCHANGED <<versions, maas, pc, snap>>
          PROVE  Goal
      BY <1>i, <1>s, <1>t, <2>2, DeleteShrinks
    <2> QED
      BY <1>12, <2>1, <2>2 DEF Cleanup
  <1>13. ASSUME MarkCleanupComplete PROVE Goal
    <2>1. CASE GoOn("release")
      BY <1>i, <1>s, <2>1 DEF GoOn, NoIPP, NoPraxis
    <2>2. CASE pc' = "release" /\ UNCHANGED <<versions, obj, maas>>
      BY <1>i, <1>s, <2>2 DEF NoIPP, NoPraxis
    <2>3. CASE /\ snap.status # "cleanup-complete" /\ live.phase # "gone"
               /\ WriteBack([live EXCEPT !.status = "cleanup-complete"])
               /\ pc = "mark" /\ pc' = "release" /\ UNCHANGED <<obj, maas>>
      <3> DEFINE m == [live EXCEPT !.status = "cleanup-complete"]
      <3>1. m \in Mtc /\ versions' = Push(m)
        BY <1>l, <2>3, MtcUpdates, Statuses DEF WriteBack
      <3>2. m.status = "cleanup-complete" /\ m.phase = live.phase /\ m.type = live.type
        BY <1>l DEF Mtc
      <3> HIDE DEF m
      <3>3. NoPraxis /\ \A k \in Known : ~UsesPraxis(versions[k])
        BY <1>i, <2>3 DEF CleanInv, NotOvertaken
      <3>4. StatusInv' /\ live' = m
        BY <1>t, <1>i, <3>1, <3>3, StatusWrite DEF Deploys
      <3>5. ~UsesPraxis(live)
        BY <1>l, <3>3
      <3> QED
        BY <2>3, <3>2, <3>3, <3>4, <3>5 DEF UsesPraxis, NoPraxis
    <2> QED
      BY <1>13, <1>f, <2>1, <2>2, <2>3 DEF MarkCleanupComplete, SetStatus
  <1>14. ASSUME RemoveFinalizer PROVE Goal
    <2>1. CASE Write([live EXCEPT !.fin = FALSE]) /\ Idle /\ UNCHANGED <<obj, maas>>
      <3> DEFINE m == [live EXCEPT !.fin = FALSE]
      <3>1. m \in Mtc /\ versions' = Push(m)
        BY <1>l, <2>1, MtcUpdates DEF Write
      <3>2. m.status = live.status /\ m.phase = live.phase /\ m.type = live.type
        BY <1>l DEF Mtc
      <3> HIDE DEF m
      <3>3. StatusInv' /\ live' = m
        BY <1>t, <1>i, <3>1, <3>2, StatusWrite
      <3> QED
        BY <1>i, <2>1, <3>2, <3>3 DEF Idle, UsesPraxis, NoIPP, NoPraxis
    <2> QED
      BY <1>14, <1>f, <2>1 DEF RemoveFinalizer
  <1>15. ASSUME MaasClaim PROVE Goal
    <2> DEFINE m == [live EXCEPT !.status = "absent"]
    <2>1. m \in Mtc /\ versions' = Push(m)
      BY <1>15, <1>l, MtcUpdates, Statuses DEF MaasClaim, Write
    <2>2. m.status = "absent" /\ m.phase = live.phase
      BY <1>l DEF Mtc
    <2>3. /\ live.status = "cleanup-complete" /\ live.phase = "live"
          /\ UNCHANGED <<obj, pc, snap, atSnap>>
      BY <1>15 DEF MaasClaim, maasFrame, workVars
    <2> HIDE DEF m
    <2>4. StatusInv' /\ live' = m
      BY <1>t, <1>i, <2>1, <2>3, StatusWrite
    <2> QED
      BY <1>i, <2>2, <2>3, <2>4 DEF NoPraxis
  <1>16. ASSUME MaasStart PROVE Goal
    <2>1. UNCHANGED <<versions, obj, pc, snap, atSnap>>
      BY <1>16 DEF MaasStart, maasFrame, workVars, mtcVars
    <2>2. /\ live.phase # "gone"
          /\ live.status = "absent" \/ ~NoIPP
      BY <1>16 DEF MaasStart
    <2> QED
      BY <1>i, <1>s, <2>1, <2>2 DEF NoPraxis
  <1>17. ASSUME MaasDeploy PROVE Goal
    <2>1. PICK r \in SharedRes : obj' = [obj EXCEPT ![aitenant.gw][r] = "ipp"]
      BY <1>17 DEF MaasDeploy
    <2>2. maas = "deploy" /\ UNCHANGED <<versions, maas, pc, snap, atSnap>>
      BY <1>17 DEF MaasDeploy, maasFrame, workVars, mtcVars
    <2>3. NoPraxis => NoPraxis'
      BY <1>t, <2>1 DEF TypeOK, NoPraxis
    <2> QED
      BY <1>i, <1>s, <2>2, <2>3
  <1>18. ASSUME MaasDeployDone PROVE Goal
    <2>1. maas = "deploy" /\ UNCHANGED <<versions, obj, pc, snap, atSnap>>
      BY <1>18 DEF MaasDeployDone, maasFrame, workVars, mtcVars
    <2> QED
      BY <1>i, <1>s, <2>1 DEF NoPraxis
  <1>19. ASSUME MaasClean PROVE Goal
    <2>1. PICK h \in GwNs, r \in SharedRes, left \in {"none", "released"} :
            obj' = [obj EXCEPT ![h][r] = left]
      BY <1>19 DEF MaasClean
    <2>2. maas = "clean" /\ UNCHANGED <<versions, maas, pc, snap, atSnap>>
      BY <1>19 DEF MaasClean, maasFrame, workVars, mtcVars
    <2>3. NoPraxis => NoPraxis'
      BY <1>t, <2>1 DEF TypeOK, NoPraxis
    <2> QED
      BY <1>i, <1>s, <2>2, <2>3
  <1>20. ASSUME MaasCleanDone PROVE Goal
    <2>1. NoIPP /\ maas = "clean" /\ maas' = "idle" /\ UNCHANGED <<obj, pc, snap, atSnap>>
      BY <1>20 DEF MaasCleanDone, maasFrame, workVars
    <2>2. CASE live.status = "absent" /\ Write([live EXCEPT !.status = "cleanup-complete"])
      <3> DEFINE m == [live EXCEPT !.status = "cleanup-complete"]
      <3>1. m \in Mtc /\ versions' = Push(m)
        BY <1>l, <2>2, MtcUpdates, Statuses DEF Write
      <3>2. m.status = "cleanup-complete" /\ m.phase = live.phase
        BY <1>l DEF Mtc
      <3> HIDE DEF m
      <3>3. StatusInv' /\ live' = m
        BY <1>t, <1>i, <2>2, <3>1, StatusWrite
      <3> QED
        BY <1>i, <2>1, <2>2, <3>2, <3>3 DEF NoPraxis, NoIPP
    <2>3. CASE UNCHANGED mtcVars
      BY <1>i, <1>s, <2>1, <2>3 DEF mtcVars, NoPraxis, NoIPP
    <2> QED
      BY <1>20, <2>2, <2>3 DEF MaasCleanDone
  <1>21. ASSUME MtcGone PROVE Goal
    <2> DEFINE m == [live EXCEPT !.phase = "gone"]
    <2>1. m \in Mtc /\ Write(m) /\ MaasAway /\ UNCHANGED <<workVars, obj, maas>>
      BY <1>21, <1>l, MtcUpdates DEF MtcGone
    <2>2. m.status = live.status /\ m.type = live.type
      BY <1>l DEF Mtc
    <2> HIDE DEF m
    <2> QED
      BY <1>w, <2>1, <2>2 DEF UsesPraxis
  <1>22. ASSUME MtcCreate PROVE Goal
    <2>1. PICK t \in {"praxis", "ipp"} :
            Write([phase |-> "live", type |-> t, status |-> "cleanup-complete",
                   fin |-> FALSE, force |-> FALSE])
      BY <1>22 DEF MtcCreate
    <2> DEFINE m == [phase |-> "live", type |-> t, status |-> "cleanup-complete",
                     fin |-> FALSE, force |-> FALSE]
    <2>2. m \in Mtc /\ versions' = Push(m) /\ m.status = "cleanup-complete" /\ m.phase = "live"
      BY <2>1 DEF Write, Mtc, Status
    <2> HIDE DEF m
    <2>3. live.phase = "gone" /\ UNCHANGED <<obj, maas, pc, snap, atSnap>>
      BY <1>22 DEF MtcCreate, workVars
    <2>4. MaasAway /\ NoPraxis /\ ~live.fin
      BY <1>i, <2>3 DEF NothingOrphaned, ChainInv
    <2>5. StatusInv' /\ live' = m
      BY <1>t, <1>i, <2>2, <2>4, StatusWrite DEF ChainInv
    <2>6. pc \notin DeployPc \cup {"resolve", "handshake"} /\ ~(pc = "finalizer" /\ snap.fin)
      BY <1>i, <2>4 DEF PcInv
    <2> QED
      BY <1>i, <2>2, <2>3, <2>4, <2>5, <2>6 DEF NoPraxis, NoIPP
  <1>23. ASSUME \/ PublishAITenant \/ TimeoutElapses \/ ChangeAITenant \/ DeliverAITenant
                \/ UNCHANGED vars
         PROVE  Goal
    <2>1. UNCHANGED <<versions, obj, maas, pc, snap, atSnap>>
      BY <1>23 DEF PublishAITenant, TimeoutElapses, ChangeAITenant, DeliverAITenant, vars,
         workVars, mtcVars
    <2> QED
      BY <1>i, <1>s, <2>1 DEF NoPraxis, NoIPP
  <1>24. ASSUME SelectBackend PROVE Goal
    <2>1. PICK t \in {"praxis", "ipp"} : /\ t = IF UsesPraxis(live) THEN "ipp" ELSE "praxis"
                                         /\ Write([live EXCEPT !.type = t])
      BY <1>24 DEF SelectBackend
    <2> DEFINE m == [live EXCEPT !.type = t]
    <2>2. m \in Mtc /\ Write(m) /\ live.phase = "live" /\ UNCHANGED <<workVars, obj, maas>>
      BY <1>24, <1>l, <2>1, MtcUpdates DEF SelectBackend
    <2>3. m.status = live.status /\ m.phase = live.phase /\ m.type = t
      BY <1>l DEF Mtc
    <2> HIDE DEF m
    <2>4. live' = m
      BY <1>t, <2>2, WriteType DEF Write
    <2>5. UsesPraxis(m) /\ m.status = "cleanup-complete" => UsesPraxis(live)
      BY <2>2, <2>3, <2>4 DEF ClaimTaken
    <2> QED
      BY <1>w, <2>2, <2>3, <2>5
  <1>25. ASSUME ForceMigration PROVE Goal
    <2> DEFINE m == [live EXCEPT !.force = TRUE]
    <2>1. m \in Mtc /\ Write(m) /\ live.phase = "live" /\ UNCHANGED <<workVars, obj, maas>>
      BY <1>25, <1>l, MtcUpdates DEF ForceMigration
    <2>2. m.status = live.status /\ m.type = live.type /\ m.phase = live.phase
      BY <1>l DEF Mtc
    <2> HIDE DEF m
    <2> QED
      BY <1>w, <2>1, <2>2 DEF UsesPraxis
  <1>26. ASSUME DeleteMtc PROVE Goal
    <2> DEFINE m == [live EXCEPT !.phase = "deleting"]
    <2>1. m \in Mtc /\ Write(m) /\ UNCHANGED <<workVars, obj, maas>>
      BY <1>26, <1>l, MtcUpdates DEF DeleteMtc
    <2>2. m.status = live.status /\ m.type = live.type /\ m.phase = "deleting"
      BY <1>l DEF Mtc
    <2> HIDE DEF m
    <2> QED
      BY <1>w, <2>1, <2>2 DEF UsesPraxis
  <1>27. ASSUME Fail PROVE Goal
    <2>1. StatusInv' /\ live' = live
      BY <1>27, <1>t, <1>i, StatusShrink DEF Fail
    <2> QED
      BY <1>27, <1>e, <2>1 DEF Fail
  <1>28. ASSUME Deliver PROVE Goal
    <2>1. StatusInv' /\ live' = live /\ UNCHANGED <<obj, maas, pc, snap, atSnap>>
      BY <1>28, <1>t, <1>i, StatusShrink DEF Deliver, workVars
    <2> QED
      BY <1>i, <2>1 DEF NoPraxis, NoIPP
  <1> QED
    BY <1>o, <1>1, <1>2, <1>3, <1>4, <1>5, <1>6, <1>7, <1>8, <1>9, <1>10, <1>11, <1>12,
       <1>13, <1>14, <1>15, <1>16, <1>17, <1>18, <1>19, <1>20, <1>21, <1>22, <1>23,
       <1>24, <1>25, <1>26, <1>27, <1>28 DEF HandshakeInv, Next, Worker, Maas, Environment

\* The steps that change an object: the worker's deletes and applies, and
\* maas-controller's deployments and deletes.
LEMMA ObjSteps ==
    ASSUME [Next]_vars
    PROVE  \/ obj' = obj
           \/ \E r \in todo : DeleteIfOwned(r)
           \/ pc = "apply" /\ \E r \in todo : obj' = [obj EXCEPT ![atSnap.gw][r] = "praxis"]
           \/ maas = "deploy" /\ \E r \in SharedRes : obj' = [obj EXCEPT ![aitenant.gw][r] = "ipp"]
           \/ \E g \in GwNs, r \in SharedRes, left \in {"none", "released"} :
                obj' = [obj EXCEPT ![g][r] = left]
  <1>1. ASSUME \/ Reconcile \/ EnsureFinalizer \/ ResolveOwner \/ EnsurePraxisMayDeploy
               \/ ResolveRuntime \/ WaitForForeignOwnership \/ PluginsGate \/ Fence
        PROVE  obj' = obj
    BY <1>1 DEF Reconcile, EnsureFinalizer, ResolveOwner, EnsurePraxisMayDeploy, ResolveRuntime,
       WaitForForeignOwnership, PluginsGate, Fence, GoOn, EndReconcile
  <1>2. ASSUME ResolveOwnedForCleanup \/ MarkCleanupComplete \/ RemoveFinalizer \/ Fail
        PROVE  obj' = obj
    BY <1>2 DEF ResolveOwnedForCleanup, MarkCleanupComplete, RemoveFinalizer, Fail, GoOn, EndReconcile
  <1>3. ASSUME MaasClaim \/ MaasStart \/ MaasDeployDone \/ MaasCleanDone \/ MtcGone \/ MtcCreate
        PROVE  obj' = obj
    BY <1>3 DEF MaasClaim, MaasStart, MaasDeployDone, MaasCleanDone, MtcGone, MtcCreate
  <1>4. ASSUME \/ PublishAITenant \/ TimeoutElapses \/ SelectBackend \/ ForceMigration \/ DeleteMtc
               \/ ChangeAITenant \/ Deliver \/ DeliverAITenant \/ UNCHANGED vars
        PROVE  obj' = obj
    BY <1>4 DEF PublishAITenant, TimeoutElapses, SelectBackend, ForceMigration, DeleteMtc,
       ChangeAITenant, Deliver, DeliverAITenant, vars
  <1>5. ASSUME PruneExternalModel \/ Cleanup
        PROVE  obj' = obj \/ \E r \in todo : DeleteIfOwned(r)
    BY <1>5 DEF PruneExternalModel, Cleanup, GoOn
  <1>6. ASSUME Apply
        PROVE  \/ obj' = obj
               \/ pc = "apply" /\ \E r \in todo : obj' = [obj EXCEPT ![atSnap.gw][r] = "praxis"]
    BY <1>6 DEF Apply, EndReconcile
  <1>7. ASSUME MaasDeploy
        PROVE  maas = "deploy" /\ \E r \in SharedRes : obj' = [obj EXCEPT ![aitenant.gw][r] = "ipp"]
    BY <1>7 DEF MaasDeploy
  <1>8. ASSUME MaasClean
        PROVE  \E g \in GwNs, r \in SharedRes, left \in {"none", "released"} :
                 obj' = [obj EXCEPT ![g][r] = left]
    BY <1>8 DEF MaasClean
  <1> QED
    BY <1>1, <1>2, <1>3, <1>4, <1>5, <1>6, <1>7, <1>8 DEF Next, Worker, Maas, Environment

\* An object of IPP appears only while maas-controller deploys, one of Praxis
\* only at the end of a reconcile that holds the claim, in its namespace.
LEMMA Appears ==
    ASSUME TypeOK, [Next]_vars
    PROVE  /\ NoIPP /\ ~NoIPP' => maas = "deploy"
           /\ \A g \in GwNs, r \in Res :
                obj'[g][r] = "praxis" => obj[g][r] = "praxis" \/ (pc = "apply" /\ g = atSnap.gw)
  <1> DEFINE Goal ==
        /\ NoIPP /\ ~NoIPP' => maas = "deploy"
        /\ \A g \in GwNs, r \in Res :
             obj'[g][r] = "praxis" => obj[g][r] = "praxis" \/ (pc = "apply" /\ g = atSnap.gw)
  <1>1. ASSUME obj' = obj PROVE Goal
    BY <1>1 DEF NoIPP
  <1>2. ASSUME NEW q, DeleteIfOwned(q) PROVE Goal
    <2>1. PICK left \in {obj[atSnap.gw][q], "none"} :
               /\ obj' = [obj EXCEPT ![atSnap.gw][q] = left]
               /\ obj[atSnap.gw][q] = "praxis" => left = "none"
      BY <1>2, DeleteEffect
    <2> QED
      BY <2>1 DEF TypeOK, NoIPP
  <1>3. ASSUME NEW q, pc = "apply", obj' = [obj EXCEPT ![atSnap.gw][q] = "praxis"] PROVE Goal
    BY <1>3 DEF TypeOK, NoIPP
  <1>4. ASSUME NEW q, maas = "deploy", obj' = [obj EXCEPT ![aitenant.gw][q] = "ipp"] PROVE Goal
    BY <1>4 DEF TypeOK, NoIPP
  <1>5. ASSUME NEW h, NEW q, NEW left \in {"none", "released"}, obj' = [obj EXCEPT ![h][q] = left]
        PROVE  Goal
    BY <1>5 DEF TypeOK, NoIPP
  <1> QED
    BY <1>1, <1>2, <1>3, <1>4, <1>5, ObjSteps

\* A step that leaves every variable alone meets the hypotheses on steps.
LEMMA HypothesesApply ==
    /\ [TimeoutUnused]_vars => TimeoutUnused
    /\ [ClaimTaken]_vars => ClaimTaken
  BY DEF TimeoutUnused, ClaimTaken, vars, live

\* Each step of the two controllers is a step of the swap or invisible to it.
LEMMA SwapStep ==
    ASSUME NEW g \in GwNs, HandshakeInv(g), HandshakeInv(g)', [Next]_vars
    PROVE  [Swap!Next]_Serving
  <1>1. (NoIPP \/ NoPraxis) /\ (NoIPP' \/ NoPraxis')
    BY DEF HandshakeInv, ClaimInv, MaasAway
  <1>2. ~NoIPP => NoPraxis'
    <2> SUFFICES ASSUME ~NoIPP, ~NoPraxis' PROVE FALSE
      OBVIOUS
    <2>1. live.status # "steady" /\ NoPraxis
      BY DEF HandshakeInv, ClaimInv, MaasAway
    <2>2. pc = "apply"
      BY <2>1, Appears DEF HandshakeInv, OrphanInv, NoPraxis
    <2> QED
      BY <2>1, <2>2 DEF HandshakeInv, PassInv, DeployPc
  <1>3. ~NoPraxis => NoIPP'
    <2> SUFFICES ASSUME ~NoPraxis, ~NoIPP' PROVE FALSE
      OBVIOUS
    <2>1. MaasAway
      BY DEF HandshakeInv, ClaimInv
    <2> QED
      BY <2>1, Appears DEF HandshakeInv, OrphanInv, MaasAway
  <1> QED
    BY <1>1, <1>2, <1>3 DEF Serving, Swap!Next, Swap!Arrive, Swap!Leave, Swap!Backend

\* The handoff implements the swap a tenant is promised: the dataplanes of
\* maas-controller and of Praxis never overlap, and one arrives only after the
\* other has left, for every set of objects, lag of the cache, number of
\* disturbances and interleaving of the two controllers.  On top of the
\* conditions of CleanupGuaranteed, praxis is selected again only after
\* maas-controller has taken the cleanup-complete annotation.
THEOREM SwapImplemented ==
    ASSUME NEW g \in GwNs
    PROVE  Spec /\ []Homed(g) /\ [][TimeoutUnused]_vars /\ []NotOvertaken /\ [][ClaimTaken]_vars
             => OneDataplane
  <1>1. Init /\ Homed(g) => HandshakeInv(g)
    BY HandshakeInit
  <1>2. (/\ HandshakeInv(g) /\ NotOvertaken /\ Homed(g)'
         /\ [TimeoutUnused]_vars /\ [ClaimTaken]_vars /\ [Next]_vars)
          => HandshakeInv(g)'
    <2> SUFFICES ASSUME HandshakeInv(g), NotOvertaken, Homed(g)', [TimeoutUnused]_vars,
                        [ClaimTaken]_vars, [Next]_vars
                 PROVE  HandshakeInv(g)'
      OBVIOUS
    <2>1. TimeoutUnused /\ ClaimTaken
      BY HypothesesApply
    <2> QED
      BY <2>1, HandshakeStep
  <1>3. Init => Swap!Init
    <2> SUFFICES ASSUME Init PROVE NoPraxis
      BY DEF Swap!Init, Serving
    <2> QED
      BY DEF Init, NoPraxis
  <1>4. HandshakeInv(g) /\ HandshakeInv(g)' /\ [Next]_vars => [Swap!Next]_Serving
    BY SwapStep
  <1> QED
    BY <1>1, <1>2, <1>3, <1>4, PTL DEF Spec, OneDataplane, Swap!Spec

\* ensurePluginsConfigMapMigrationAllowed holds until the apply it gates: no
\* step of maas-controller between the gate and the apply makes Praxis
\* overwrite a plugins ConfigMap that was released meanwhile, under the
\* conditions of SwapImplemented.
THEOREM GateHolds ==
    ASSUME NEW home \in GwNs
    PROVE  Spec /\ []Homed(home) /\ [][TimeoutUnused]_vars /\ []NotOvertaken /\ [][ClaimTaken]_vars
             => PluginsKept
  <1> DEFINE OnlyForced ==
        \A g \in GwNs : obj[g][Plugin] = "released" /\ obj'[g][Plugin] = "praxis" => snap.force
  <1>1. Init /\ Homed(home) => HandshakeInv(home)
    BY HandshakeInit
  <1>2. (/\ HandshakeInv(home) /\ NotOvertaken /\ Homed(home)'
         /\ [TimeoutUnused]_vars /\ [ClaimTaken]_vars /\ [Next]_vars)
          => HandshakeInv(home)'
    <2> SUFFICES ASSUME HandshakeInv(home), NotOvertaken, Homed(home)', [TimeoutUnused]_vars,
                        [ClaimTaken]_vars, [Next]_vars
                 PROVE  HandshakeInv(home)'
      OBVIOUS
    <2>1. TimeoutUnused /\ ClaimTaken
      BY HypothesesApply
    <2> QED
      BY <2>1, HandshakeStep
  <1>3. HandshakeInv(home) /\ [Next]_vars => [OnlyForced]_vars
    <2> SUFFICES ASSUME HandshakeInv(home), [Next]_vars, NEW h \in GwNs,
                        obj[h][Plugin] = "released", obj'[h][Plugin] = "praxis"
                 PROVE  snap.force
      OBVIOUS
    <2>1. pc = "apply" /\ h = atSnap.gw
      BY Appears, ResAssumption DEF HandshakeInv, OrphanInv, Res
    <2> QED
      BY <2>1 DEF HandshakeInv, PassInv
  <1> QED
    BY <1>1, <1>2, <1>3, PTL DEF Spec, PluginsKept

-----------------------------------------------------------------------------
(***************************************************************************)
(* A patient operator, who flips the selector only between handoffs, meets *)
(* the conditions on it as long as the cache trails by one version: a      *)
(* switch-away pass then either sees every version from its own on with    *)
(* ipp selected under the finalizer, or repeats a cleanup that was already *)
(* marked and can neither mark nor release again.                          *)
(***************************************************************************)
Leaving(m) == m.phase = "live" /\ ~UsesPraxis(m) /\ m.fin
CleanPc == {"resolveCleanup", "clean", "mark"}
AllLeaving == \A k \in Known : ~UsesPraxis(versions[k]) /\ versions[k].fin

PatientInv ==
    /\ TypeOK
    /\ fresh => snap = live
    /\ live.fin => live.phase # "gone"
    /\ pc = "finalizer" => snap.phase = "live" /\ UsesPraxis(snap)
    /\ Leaving(versions[1]) => AllLeaving \/ (versions[1].status = "cleanup-complete" /\ ~live.fin)
    /\ pc \in CleanPc => snap.fin
    /\ pc = "mark" => snap.phase # "deleting"
    /\ pc \in CleanPc /\ snap.phase # "deleting"
         => AllLeaving \/ (snap.status = "cleanup-complete" /\ ~live.fin)
    /\ pc = "release" /\ snap.phase # "deleting" => snap.status = "cleanup-complete"

\* A cache that trails by one version holds one or two of them.
LEMMA ShortChain ==
    ASSUME MaxLag <= 1, NEW s, Len(s) \in 1..(MaxLag + 1) PROVE Len(s) = 1 \/ Len(s) = 2
  <1> DEFINE n == Len(s)
  <1>1. n \in 1..(MaxLag + 1)
    OBVIOUS
  <1> HIDE DEF n
  <1>2. n = 1 \/ n = 2
    BY <1>1, BoundAssumption
  <1> QED
    BY <1>2 DEF n

\* A cache that trails by one version knows the live version and the one before.
LEMMA ShortPush ==
    ASSUME MaxLag <= 1, TypeOK, TypeOK', NEW m \in Mtc, versions' = Push(m)
    PROVE  /\ live' = m
           /\ \/ Len(versions') = 1 /\ versions'[1] = m
              \/ Len(versions') = 2 /\ versions'[1] = live /\ versions'[2] = m
  <1>1. live' = m
    BY WriteType
  <1>2. PICK d \in {0, 1} :
             /\ Len(versions') = Len(versions) + 1 - d
             /\ \A k \in Known' : versions'[k] = IF k + d \in Known THEN versions[k + d] ELSE m
    BY PushElements
  <1>3. /\ Len(versions) = 1 \/ Len(versions) = 2
        /\ Len(versions') = 1 \/ Len(versions') = 2
        /\ live = versions[Len(versions)]
    BY ShortChain DEF TypeOK, live
  <1>4. CASE Len(versions') = 1
    <2>1. d = 1 /\ Len(versions) = 1
      BY <1>2, <1>3, <1>4
    <2>2. 1 \in Known' /\ 1 + d \notin Known
      BY <1>4, <2>1 DEF Known
    <2> QED
      BY <1>1, <1>2, <1>4, <2>2
  <1>5. CASE Len(versions') = 2
    <2>1. 1 + d = Len(versions)
      BY <1>2, <1>3, <1>5
    <2>2. 1 \in Known' /\ 2 \in Known' /\ 1 + d \in Known /\ 2 + d \notin Known
      BY <1>5, <2>1 DEF Known
    <2> QED
      BY <1>1, <1>2, <1>3, <1>5, <2>1, <2>2
  <1> QED
    BY <1>3, <1>4, <1>5

\* An edit by somebody else that leaves the finalizer alone, and the selector
\* of a MTC that still has it on ipp.
LEMMA PatientEdit ==
    ASSUME MaxLag <= 1, PatientInv, TypeOK', NEW m \in Mtc, versions' = Push(m),
           m.fin = live.fin, m.fin => m.phase # "gone", ~UsesPraxis(live) /\ live.fin => ~UsesPraxis(m)
    PROVE  /\ live' = m
           /\ AllLeaving => AllLeaving'
           /\ Leaving(versions[1])' => AllLeaving'
  <1>1. /\ live' = m
        /\ \/ Len(versions') = 1 /\ versions'[1] = m
           \/ Len(versions') = 2 /\ versions'[1] = live /\ versions'[2] = m
    BY ShortPush DEF PatientInv
  <1>2. AllLeaving => ~UsesPraxis(live) /\ live.fin
    BY DEF PatientInv, TypeOK, AllLeaving, Known, live
  <1>3. ~UsesPraxis(live) /\ live.fin => AllLeaving'
    <2>1. \A k \in Known' : versions'[k] = m \/ versions'[k] = live
      BY <1>1 DEF Known
    <2> QED
      BY <2>1 DEF AllLeaving
  <1>4. Leaving(versions[1])' => AllLeaving'
    BY <1>1, <1>3 DEF Leaving, AllLeaving, Known
  <1> QED
    BY <1>1, <1>2, <1>3, <1>4

\* The edit leaves the worker where it is.
LEMMA PatientWrite ==
    ASSUME MaxLag <= 1, PatientInv, TypeOK', NEW m \in Mtc, Write(m), UNCHANGED workVars,
           m.fin = live.fin, m.fin => m.phase # "gone", ~UsesPraxis(live) /\ live.fin => ~UsesPraxis(m)
    PROVE  PatientInv'
  <1>1. /\ live' = m /\ ~fresh'
        /\ AllLeaving => AllLeaving'
        /\ Leaving(versions[1])' => AllLeaving'
    BY PatientEdit DEF Write
  <1> QED
    BY <1>1 DEF PatientInv, workVars, CleanPc

\* The MTC is not touched and the worker stays or moves on.
LEMMA PatientStay ==
    ASSUME PatientInv, TypeOK', UNCHANGED <<versions, fresh, snap>>,
           pc' = "finalizer" => pc = "finalizer",
           pc' \in CleanPc => pc \in CleanPc,
           pc' = "mark" => pc = "mark" \/ snap.phase # "deleting",
           pc' = "release" => pc = "release" \/ snap.phase = "deleting" \/ snap.status = "cleanup-complete"
    PROVE  PatientInv'
  BY DEF PatientInv, AllLeaving, Known, live

\* A reconcile ends, the process restarts or the cache catches up.
LEMMA PatientShrink ==
    ASSUME MaxLag <= 1, PatientInv, TypeOK',
           \/ versions' = versions \/ versions' = <<live>>
           \/ Len(versions) > 1 /\ versions' = Tail(versions),
           (Idle /\ fresh' = FALSE) \/ UNCHANGED <<pc, snap, fresh>>
    PROVE  PatientInv'
  <1>1. /\ Len(versions) = 1 \/ Len(versions) = 2
        /\ live = versions[Len(versions)] /\ live \in Mtc
    BY ShortChain, CopyTypes DEF PatientInv, TypeOK, live
  <1>2. versions' = versions \/ (Len(versions') = 1 /\ versions'[1] = live)
    <2>1. CASE Len(versions) > 1 /\ versions' = Tail(versions)
      BY <1>1, <2>1 DEF PatientInv, TypeOK
    <2>2. CASE versions' = <<live>>
      BY <2>2
    <2> QED
      BY <2>1, <2>2
  <1>3. live' = live /\ (AllLeaving => AllLeaving')
    BY <1>1, <1>2 DEF live, AllLeaving, Known
  <1>4. Leaving(versions[1])' =>
          AllLeaving' \/ (versions'[1].status = "cleanup-complete" /\ ~live'.fin)
    <2>1. CASE versions' = versions
      BY <1>3, <2>1 DEF PatientInv
    <2>2. CASE Len(versions') = 1
      BY <2>2 DEF Leaving, AllLeaving, Known
    <2> QED
      BY <1>2, <2>1, <2>2
  <1> QED
    BY <1>3, <1>4 DEF PatientInv, Idle, CleanPc, NoMtc

\* The invariant of a patient operator holds initially.
LEMMA PatientInit == Init => PatientInv
  <1> SUFFICES ASSUME Init PROVE PatientInv
    OBVIOUS
  <1>1. TypeOK
    BY InitType
  <1>2. versions[1].fin = FALSE /\ live = versions[1]
    BY DEF Init, live
  <1>3. pc = "idle" /\ fresh = FALSE
    BY DEF Init
  <1> QED
    BY <1>1, <1>2, <1>3 DEF PatientInv, Leaving, CleanPc

\* Every step keeps it: one case per kind of step.
LEMMA PatientStep ==
    ASSUME MaxLag <= 1, Patient, PatientInv, [Next]_vars
    PROVE  PatientInv' /\ ClaimTaken
  <1>t. TypeOK /\ TypeOK'
    BY TypeStep DEF PatientInv
  <1>l. /\ live \in Mtc /\ snap \in Mtc /\ cached = versions[1] /\ cached \in Mtc
        /\ Len(versions) \in Nat \ {0} /\ live = versions[Len(versions)]
    BY <1>t, CopyTypes DEF TypeOK, cached, live
  <1>c. ASSUME live'.type = live.type \/ live.phase # "live" PROVE ClaimTaken
    BY <1>c DEF ClaimTaken, UsesPraxis
  <1>v. ASSUME UNCHANGED versions PROVE ClaimTaken
    BY <1>v, <1>c DEF live
  <1>e. ASSUME EndReconcile PROVE PatientInv' /\ ClaimTaken
    BY <1>e, <1>t, <1>v, PatientShrink DEF EndReconcile
  <1>1. ASSUME Reconcile PROVE PatientInv' /\ ClaimTaken
    <2>1. /\ snap' = versions[1] /\ UNCHANGED versions /\ fresh' = (Len(versions) = 1)
          /\ pc' = Dispatch(versions[1]) /\ live' = live /\ AllLeaving' = AllLeaving
      BY <1>1, <1>l DEF Reconcile, live, AllLeaving, Known
    <2>2. \/ pc' = "finalizer" /\ snap'.phase = "live" /\ UsesPraxis(snap')
          \/ pc' = "resolveCleanup" /\ snap'.fin /\ snap'.phase = "deleting"
          \/ pc' = "resolveCleanup" /\ Leaving(snap')
          \/ pc' = "release" /\ snap'.phase = "deleting"
          \/ pc' = "idle"
      BY <1>l, <2>1 DEF Dispatch, Mtc, Leaving
    <2>3. fresh' => snap' = live'
      BY <1>l, <2>1
    <2> QED
      BY <1>t, <1>v, <2>1, <2>2, <2>3 DEF PatientInv, CleanPc, Leaving
  <1>2. ASSUME EnsureFinalizer PROVE PatientInv' /\ ClaimTaken
    <2>1. CASE GoOn("resolve")
      BY <1>t, <1>v, <2>1, PatientStay DEF GoOn, CleanPc
    <2>2. CASE fresh /\ WriteBack([live EXCEPT !.fin = TRUE]) /\ pc = "finalizer" /\ pc' = "resolve"
      <3> DEFINE m == [live EXCEPT !.fin = TRUE]
      <3>1. m \in Mtc /\ versions' = Push(m) /\ snap' = m /\ fresh' = TRUE
        BY <1>l, <2>2, MtcUpdates DEF WriteBack
      <3>2. m.phase = live.phase /\ m.type = live.type
        BY <1>l DEF Mtc
      <3> HIDE DEF m
      <3>3. live.phase = "live" /\ UsesPraxis(live)
        BY <2>2 DEF PatientInv
      <3>4. /\ live' = m
            /\ versions'[1] = m \/ versions'[1] = live
        BY <1>t, <3>1, ShortPush
      <3> QED
        BY <1>t, <1>c, <2>2, <3>1, <3>2, <3>3, <3>4 DEF PatientInv, Leaving, UsesPraxis, CleanPc
    <2> QED
      BY <1>2, <1>e, <2>1, <2>2 DEF EnsureFinalizer
  <1>3. ASSUME ResolveOwner PROVE PatientInv' /\ ClaimTaken
    <2>1. CASE GoOn("handshake")
      BY <1>t, <1>v, <2>1, PatientStay DEF GoOn, CleanPc
    <2> QED
      BY <1>3, <1>e, <2>1 DEF ResolveOwner
  <1>4. ASSUME EnsurePraxisMayDeploy PROVE PatientInv' /\ ClaimTaken
    <2>1. CASE GoOn("overlay")
      BY <1>t, <1>v, <2>1, PatientStay DEF GoOn, CleanPc
    <2>2. CASE Write([live EXCEPT !.status = "steady"]) /\ pc' = "overlay"
      <3> DEFINE m == [live EXCEPT !.status = "steady"]
      <3>1. m \in Mtc /\ versions' = Push(m) /\ ~fresh'
        BY <1>l, <2>2, MtcUpdates, Statuses DEF Write
      <3>2. m.fin = live.fin /\ m.phase = live.phase /\ m.type = live.type
        BY <1>l DEF Mtc
      <3> HIDE DEF m
      <3>3. live' = m /\ (Leaving(versions[1])' => AllLeaving')
        BY <1>t, <3>1, <3>2, PatientEdit DEF UsesPraxis, PatientInv
      <3> QED
        BY <1>t, <1>c, <2>2, <3>1, <3>2, <3>3 DEF PatientInv, CleanPc
    <2> QED
      BY <1>4, <1>e, <2>1, <2>2 DEF EnsurePraxisMayDeploy, SetStatus
  <1>5. ASSUME ResolveRuntime \/ PruneExternalModel \/ WaitForForeignOwnership \/ PluginsGate
               \/ Fence \/ Apply
        PROVE  PatientInv' /\ ClaimTaken
    <2>1. CASE UNCHANGED <<versions, fresh, snap>> /\ pc' \in DeployPc
      BY <1>t, <1>v, <2>1, PatientStay DEF CleanPc, DeployPc
    <2>2. EndReconcile \/ (UNCHANGED <<versions, fresh, snap>> /\ pc' \in DeployPc)
      BY <1>5 DEF ResolveRuntime, PruneExternalModel, WaitForForeignOwnership, PluginsGate,
         Fence, Apply, GoOn, DeployPc
    <2> QED
      BY <1>e, <2>1, <2>2
  <1>6. ASSUME ResolveOwnedForCleanup PROVE PatientInv' /\ ClaimTaken
    <2>1. CASE GoOn("clean") /\ pc = "resolveCleanup"
      BY <1>t, <1>v, <2>1, PatientStay DEF GoOn, CleanPc
    <2> QED
      BY <1>6, <1>e, <2>1 DEF ResolveOwnedForCleanup
  <1>7. ASSUME Cleanup PROVE PatientInv' /\ ClaimTaken
    <2>1. /\ UNCHANGED <<versions, fresh, snap>> /\ pc = "clean"
          /\ \/ pc' = "clean" \/ (pc' = "release" /\ snap.phase = "deleting")
             \/ (pc' = "mark" /\ snap.phase # "deleting")
      BY <1>7 DEF Cleanup, GoOn
    <2> QED
      BY <1>t, <1>v, <2>1, PatientStay DEF CleanPc
  <1>8. ASSUME MarkCleanupComplete PROVE PatientInv' /\ ClaimTaken
    <2>1. CASE GoOn("release") /\ snap.status = "cleanup-complete"
      BY <1>t, <1>v, <2>1, PatientStay DEF GoOn, CleanPc
    <2>2. CASE /\ live.status = "cleanup-complete" /\ snap' = live /\ UNCHANGED versions
               /\ pc' = "release"
      <3>1. live' = live /\ AllLeaving' = AllLeaving
        BY <2>2 DEF live, AllLeaving, Known
      <3> QED
        BY <1>t, <1>v, <2>2, <3>1 DEF PatientInv, CleanPc
    <2>3. CASE /\ WriteBack([live EXCEPT !.status = "cleanup-complete"])
               /\ live.phase # "gone" /\ pc' = "release"
      <3> DEFINE m == [live EXCEPT !.status = "cleanup-complete"]
      <3>1. m \in Mtc /\ versions' = Push(m) /\ snap' = m
        BY <1>l, <2>3, MtcUpdates, Statuses DEF WriteBack
      <3>2. m.fin = live.fin /\ m.phase = live.phase /\ m.type = live.type /\ m.status = "cleanup-complete"
        BY <1>l DEF Mtc
      <3> HIDE DEF m
      <3>3. live' = m /\ (Leaving(versions[1])' => AllLeaving')
        BY <1>t, <3>1, <3>2, PatientEdit DEF UsesPraxis, PatientInv
      <3> QED
        BY <1>t, <1>c, <2>3, <3>1, <3>2, <3>3 DEF PatientInv, CleanPc
    <2> QED
      BY <1>8, <1>e, <2>1, <2>2, <2>3 DEF MarkCleanupComplete, SetStatus
  <1>9. ASSUME RemoveFinalizer PROVE PatientInv' /\ ClaimTaken
    <2>1. CASE fresh /\ pc = "release" /\ Write([live EXCEPT !.fin = FALSE]) /\ Idle
      <3> DEFINE m == [live EXCEPT !.fin = FALSE]
      <3>1. m \in Mtc /\ versions' = Push(m) /\ ~fresh'
        BY <1>l, <2>1, MtcUpdates DEF Write
      <3>2. ~m.fin /\ m.type = live.type
        BY <1>l DEF Mtc
      <3> HIDE DEF m
      <3>3. /\ live' = m
            /\ versions'[1] = m \/ versions'[1] = live
        BY <1>t, <3>1, ShortPush
      <3>4. live.phase = "live" => live.status = "cleanup-complete"
        BY <2>1 DEF PatientInv
      <3> QED
        BY <1>t, <1>c, <2>1, <3>1, <3>2, <3>3, <3>4 DEF PatientInv, Leaving, Idle, CleanPc
    <2> QED
      BY <1>9, <1>e, <2>1 DEF RemoveFinalizer
  <1>10. ASSUME MaasClaim PROVE PatientInv' /\ ClaimTaken
    <2> DEFINE m == [live EXCEPT !.status = "absent"]
    <2>1. m \in Mtc /\ Write(m) /\ UNCHANGED workVars
      BY <1>10, <1>l, MtcUpdates, Statuses DEF MaasClaim, maasFrame
    <2>2. m.fin = live.fin /\ m.phase = live.phase /\ m.type = live.type
      BY <1>l DEF Mtc
    <2> HIDE DEF m
    <2>3. live' = m
      BY <1>t, <2>1, WriteType DEF Write
    <2> QED
      BY <1>t, <1>c, <2>1, <2>2, <2>3, PatientWrite DEF UsesPraxis, PatientInv
  <1>11. ASSUME MaasCleanDone PROVE PatientInv' /\ ClaimTaken
    <2>1. CASE UNCHANGED mtcVars
      BY <1>11, <1>t, <1>v, <2>1, PatientStay DEF MaasCleanDone, maasFrame, mtcVars, workVars
    <2>2. CASE Write([live EXCEPT !.status = "cleanup-complete"])
      <3> DEFINE m == [live EXCEPT !.status = "cleanup-complete"]
      <3>1. m \in Mtc /\ Write(m) /\ UNCHANGED workVars
        BY <1>11, <1>l, <2>2, MtcUpdates, Statuses DEF MaasCleanDone, maasFrame
      <3>2. m.fin = live.fin /\ m.phase = live.phase /\ m.type = live.type
        BY <1>l DEF Mtc
      <3> HIDE DEF m
      <3>3. live' = m
        BY <1>t, <3>1, WriteType DEF Write
      <3> QED
        BY <1>t, <1>c, <3>1, <3>2, <3>3, PatientWrite DEF UsesPraxis, PatientInv
    <2> QED
      BY <1>11, <2>1, <2>2 DEF MaasCleanDone
  <1>12. ASSUME MtcGone PROVE PatientInv' /\ ClaimTaken
    <2> DEFINE m == [live EXCEPT !.phase = "gone"]
    <2>1. m \in Mtc /\ Write(m) /\ UNCHANGED workVars /\ ~live.fin /\ live.phase # "live"
      BY <1>12, <1>l, MtcUpdates DEF MtcGone
    <2>2. m.fin = live.fin
      BY <1>l DEF Mtc
    <2> HIDE DEF m
    <2> QED
      BY <1>t, <1>c, <2>1, <2>2, PatientWrite
  <1>13. ASSUME MtcCreate PROVE PatientInv' /\ ClaimTaken
    <2>1. PICK t \in {"praxis", "ipp"} :
            Write([phase |-> "live", type |-> t, status |-> "cleanup-complete",
                   fin |-> FALSE, force |-> FALSE])
      BY <1>13 DEF MtcCreate
    <2> DEFINE m == [phase |-> "live", type |-> t, status |-> "cleanup-complete",
                     fin |-> FALSE, force |-> FALSE]
    <2>2. m \in Mtc /\ m.fin = FALSE
      BY DEF Mtc, Status
    <2> HIDE DEF m
    <2>3. Write(m) /\ live.phase = "gone" /\ UNCHANGED workVars
      BY <1>13, <2>1 DEF MtcCreate, m
    <2>4. live.fin = FALSE
      BY <1>l, <2>3 DEF PatientInv, Mtc
    <2> QED
      BY <1>t, <1>c, <2>2, <2>3, <2>4, PatientWrite
  <1>14. ASSUME SelectBackend PROVE PatientInv' /\ ClaimTaken
    <2>1. PICK t \in {"praxis", "ipp"} : /\ t = IF UsesPraxis(live) THEN "ipp" ELSE "praxis"
                                         /\ Write([live EXCEPT !.type = t])
      BY <1>14 DEF SelectBackend
    <2> DEFINE m == [live EXCEPT !.type = t]
    <2>2. m \in Mtc /\ Write(m) /\ live.phase = "live" /\ UNCHANGED workVars
      BY <1>14, <1>l, <2>1, MtcUpdates DEF SelectBackend
    <2>3. m.fin = live.fin /\ m.phase = live.phase
      BY <1>l DEF Mtc
    <2> HIDE DEF m
    <2>4. ~UsesPraxis(live) => live.status = "absent" /\ ~live.fin
      BY <1>14 DEF SelectBackend, HandoffSettled
    <2>5. ClaimTaken
      BY <2>4 DEF ClaimTaken
    <2> QED
      BY <1>t, <2>2, <2>3, <2>4, <2>5, PatientWrite
  <1>15. ASSUME ForceMigration PROVE PatientInv' /\ ClaimTaken
    <2> DEFINE m == [live EXCEPT !.force = TRUE]
    <2>1. m \in Mtc /\ Write(m) /\ UNCHANGED workVars
      BY <1>15, <1>l, MtcUpdates DEF ForceMigration
    <2>2. m.fin = live.fin /\ m.phase = live.phase /\ m.type = live.type
      BY <1>l DEF Mtc
    <2> HIDE DEF m
    <2>3. live' = m
      BY <1>t, <2>1, WriteType DEF Write
    <2> QED
      BY <1>t, <1>c, <2>1, <2>2, <2>3, PatientWrite DEF UsesPraxis, PatientInv
  <1>16. ASSUME DeleteMtc PROVE PatientInv' /\ ClaimTaken
    <2> DEFINE m == [live EXCEPT !.phase = "deleting"]
    <2>1. m \in Mtc /\ Write(m) /\ UNCHANGED workVars
      BY <1>16, <1>l, MtcUpdates DEF DeleteMtc
    <2>2. m.fin = live.fin /\ m.phase = "deleting" /\ m.type = live.type
      BY <1>l DEF Mtc
    <2> HIDE DEF m
    <2>3. live' = m
      BY <1>t, <2>1, WriteType DEF Write
    <2> QED
      BY <1>t, <1>c, <2>1, <2>2, <2>3, PatientWrite DEF UsesPraxis
  <1>17. ASSUME Fail \/ Deliver PROVE PatientInv' /\ ClaimTaken
    <2>1. PatientInv'
      BY <1>17, <1>t, PatientShrink DEF Fail, Deliver, workVars
    <2>2. live' = live
      BY <1>17, <1>t, ShrinkChain DEF Fail, Deliver
    <2> QED
      BY <1>c, <2>1, <2>2
  <1>18. ASSUME \/ MaasStart \/ MaasDeploy \/ MaasDeployDone \/ MaasClean \/ PublishAITenant
                \/ TimeoutElapses \/ ChangeAITenant \/ DeliverAITenant \/ UNCHANGED vars
         PROVE  PatientInv' /\ ClaimTaken
    <2>1. UNCHANGED <<versions, fresh, snap, pc>>
      BY <1>18 DEF MaasStart, MaasDeploy, MaasDeployDone, MaasClean, PublishAITenant,
         TimeoutElapses, ChangeAITenant, DeliverAITenant, vars, maasFrame, workVars, mtcVars
    <2> QED
      BY <1>t, <1>v, <2>1, PatientStay
  <1> QED
    BY <1>1, <1>2, <1>3, <1>4, <1>5, <1>6, <1>7, <1>8, <1>9, <1>10, <1>11, <1>12, <1>13,
       <1>14, <1>15, <1>16, <1>17, <1>18 DEF Next, Worker, Maas, Environment

\* An operator who waits for each handoff to settle, HandoffSettled, cannot
\* bring about what the theorems above exclude, as long as the cache is at most
\* one version behind: the conditions on the selector hold of every behaviour.
THEOREM PatientOperator ==
    ASSUME Patient, MaxLag <= 1
    PROVE  Spec => []NotOvertaken /\ [][ClaimTaken]_vars
  <1>1. Init => PatientInv
    BY PatientInit
  <1>2. PatientInv /\ [Next]_vars => PatientInv' /\ [ClaimTaken]_vars
    BY PatientStep
  <1>3. PatientInv => NotOvertaken
    BY DEF PatientInv, NotOvertaken, CleanPc, AllLeaving
  <1> QED
    BY <1>1, <1>2, <1>3, PTL DEF Spec

=============================================================================
