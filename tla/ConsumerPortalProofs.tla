------------------------ MODULE ConsumerPortalProofs ------------------------
(***************************************************************************)
(* Proofs about ConsumerPortal for every set of namespaces, tenants,       *)
(* Gateways and secrets, every lag of the cache and every number of        *)
(* disturbances: its types, that a deployed proxy starts, that sessions    *)
(* survive, that no event is missing and, where the infrastructure         *)
(* namespace of an MTC never changes, that nothing is orphaned.            *)
(***************************************************************************)
EXTENDS ConsumerPortal, TLAPS, WellFoundedInduction

\* Where the worker has its Params, and where it has taken the finalizer.
Working == {"finalizer", "source", "secret", "inputs", "apply", "prune"}
Owning == Working \ {"finalizer"}

Managed(n) == creds[n] # None /\ creds[n].managed

\* What the worker holds has the types its next step relies on.
PassTyped ==
    /\ pc \in {"gate", "clean"} => snap.infra \in InfraNs
    /\ pc = "gate" => ten \in Tenants /\ ten.gw \in GwNs
    /\ pc \in Working => ten \in Tenants /\ plan \in Params

\* A proxy that is about to be deployed starts.
Lifetimes == ProxyCanStart /\ (pc \in Working => plan.refresh < plan.expire)

\* A Secret the portal manages has a cookie secret, and a reconcile that found
\* one brings the same one back.
Cookies ==
    /\ \A n \in InfraNs : Managed(n) => creds[n].cookie # 0
    /\ pc = "secret" => plan.cookie # 0
    /\ pc = "secret" /\ Managed(plan.infra) => creds[plan.infra].cookie = plan.cookie

\* The optimistic lock: a fresh copy is the live object, and one without the
\* finalizer is all the cache holds.
Locked == fresh => /\ pc # "idle" /\ snap = live
                   /\ ~snap.fin => Len(versions) = 1

\* What of the copies and the Params is up to date when no event is on its way.
CopiesCurrent ==
    /\ pc # "idle" /\ ~queued => ten = aitenant
    /\ pc # "idle" /\ ~queued /\ Len(versions) = 1 => snap = live
PlanCurrent ==
    pc \in Working =>
      /\ plan.infra = snap.infra /\ plan.gw = ten.gw
      /\ plan.refresh = RefreshInterval(ten) /\ plan.expire = CookieExpire(ten)
      /\ ~queued /\ DsciWatched => plan.dash = dashboardNamespace
CredsCurrent ==
    /\ pc = "secret" => ten.ref
    /\ pc = "secret" /\ ~queued => plan.client = source
    /\ pc \in {"inputs", "apply", "prune"} /\ ~queued =>
         /\ creds[plan.infra] # None
         /\ plan.client = creds[plan.infra].client /\ plan.cookie = creds[plan.infra].cookie
         /\ ten.ref => plan.client = source
InputsCurrent ==
    pc \in {"apply", "prune"} /\ ~queued /\ Len(versions) = 1 =>
      plan.redis = redis[plan.infra] /\ plan.bundle = bundle[plan.infra]
ObjectsCurrent ==
    pc = "prune" => \A i \in 1..5 : Render(plan, ApplyOrder[i]) \in objs
Views == CopiesCurrent /\ PlanCurrent /\ CredsCurrent /\ InputsCurrent /\ ObjectsCurrent

IInv == TypeOK /\ PassTyped /\ Lifetimes /\ Cookies /\ Locked /\ Views

\* A finalizer is only on an MTC with an infrastructure namespace, and the
\* versions the cache may still deliver agree with the live one about it.
FinalizerSeen ==
    \A i \in DOMAIN versions : versions[i].fin =>
      /\ versions[i].phase # "gone" /\ versions[i].infra \in InfraNs
      /\ live.fin => versions[i].infra = live.infra

\* While no reconcile began on a finalizer that was gone: the copy in hand has
\* it only if the live object has it, whoever makes objects has it, they are
\* where the cleanup looks for them, and when it is given up nothing is left.
Guarded ==
    /\ pc # "idle" /\ snap.fin => live.fin /\ live.infra = snap.infra
    /\ pc \in Owning \cup {"clean", "release"} => snap.fin
    /\ pc = "release" => objs = {} /\ \A n \in InfraNs : ~Managed(n)
    /\ \A o \in objs : live.fin /\ (o.kind = "proxy" => o.ns = live.infra)
    /\ \A n \in InfraNs : Managed(n) => live.fin /\ n = live.infra

GuardInv == FinalizerSeen /\ (~stale => Guarded)

-----------------------------------------------------------------------------
(***************************************************************************)
(* The operators: sequences of versions, first matches, hosts, lifetimes.  *)
(***************************************************************************)
\* The tail of a sequence of more than one element.
LEMMA TailOf ==
    ASSUME NEW S, NEW s \in Seq(S), Len(s) > 1
    PROVE  /\ Tail(s) \in Seq(S) /\ Len(Tail(s)) = Len(s) - 1
           /\ DOMAIN Tail(s) = 1..(Len(s) - 1)
           /\ \A i \in 1..(Len(s) - 1) : Tail(s)[i] = s[i + 1]
  <1>1. Tail(s) \in Seq(S) /\ Len(Tail(s)) = Len(s) - 1 /\ Len(s) \in Nat
    OBVIOUS
  <1> QED
    BY <1>1

\* What a write leaves of the versions: the new one at the end, the others as
\* they were, more than one of them unless the cache does not trail.
LEMMA PushFacts ==
    ASSUME TypeOK, NEW m \in Mtc
    PROVE  /\ Push(m) \in Seq(Mtc) /\ Len(Push(m)) \in 1..(MaxLag + 1)
           /\ Push(m)[Len(Push(m))] = m
           /\ Len(Push(m)) = 1 => MaxLag = 0
           /\ \A i \in DOMAIN Push(m) :
                i = Len(Push(m)) \/ \E j \in DOMAIN versions : Push(m)[i] = versions[j]
  <1> DEFINE s == Append(versions, m)
  <1>1. /\ s \in Seq(Mtc) /\ Len(s) = Len(versions) + 1 /\ s[Len(s)] = m
        /\ Len(s) \in Nat /\ Len(s) > 1 /\ DOMAIN s = 1..Len(s)
        /\ \A i \in DOMAIN versions : s[i] = versions[i]
        /\ DOMAIN versions = 1..Len(versions) /\ Len(versions) \in Nat
    BY BoundAssumption DEF TypeOK
  <1>2. Push(m) = IF Len(s) > MaxLag + 1 THEN Tail(s) ELSE s
    BY DEF Push
  <1> HIDE DEF s
  <1>3. CASE Len(s) > MaxLag + 1
    <2>1. Push(m) = Tail(s) /\ Len(s) = MaxLag + 2
      BY <1>1, <1>2, <1>3, BoundAssumption DEF TypeOK
    <2>2. /\ Tail(s) \in Seq(Mtc) /\ Len(Tail(s)) = MaxLag + 1
          /\ DOMAIN Tail(s) = 1..(MaxLag + 1)
          /\ \A i \in 1..(MaxLag + 1) : Tail(s)[i] = s[i + 1]
      <3>1. Len(s) - 1 = MaxLag + 1
        BY <2>1, BoundAssumption
      <3> QED
        BY <1>1, <3>1, TailOf
    <2>3. Tail(s)[MaxLag + 1] = m
      BY <1>1, <2>1, <2>2, BoundAssumption
    <2>4. ASSUME NEW i \in DOMAIN Tail(s), i # Len(Tail(s))
          PROVE  \E j \in DOMAIN versions : Tail(s)[i] = versions[j]
      <3>1. i + 1 \in DOMAIN versions /\ Tail(s)[i] = s[i + 1]
        BY <1>1, <2>1, <2>2, <2>4, BoundAssumption
      <3> QED
        BY <1>1, <3>1
    <2> QED
      BY <2>1, <2>2, <2>3, <2>4, BoundAssumption
  <1>4. CASE ~(Len(s) > MaxLag + 1)
    <2>1. ASSUME NEW i \in DOMAIN s, i # Len(s) PROVE i \in DOMAIN versions /\ s[i] = versions[i]
      BY <1>1, <2>1
    <2> QED
      BY <1>1, <1>2, <1>4, <2>1, BoundAssumption DEF TypeOK
  <1> QED
    BY <1>3, <1>4

\* What a delivery leaves of them, and the two copies.
LEMMA TailFacts ==
    ASSUME TypeOK, Len(versions) > 1
    PROVE  /\ Tail(versions) \in Seq(Mtc) /\ Len(Tail(versions)) \in 1..(MaxLag + 1)
           /\ Tail(versions)[Len(Tail(versions))] = live
           /\ \A i \in DOMAIN Tail(versions) : \E j \in DOMAIN versions :
                Tail(versions)[i] = versions[j]
  <1>1. Len(versions) \in Nat /\ DOMAIN versions = 1..Len(versions)
    BY DEF TypeOK
  <1>2. /\ Tail(versions) \in Seq(Mtc) /\ Len(Tail(versions)) = Len(versions) - 1
        /\ DOMAIN Tail(versions) = 1..(Len(versions) - 1)
        /\ \A i \in 1..(Len(versions) - 1) : Tail(versions)[i] = versions[i + 1]
    BY TailOf DEF TypeOK
  <1>3. Len(Tail(versions)) \in 1..(MaxLag + 1)
    BY <1>1, <1>2, BoundAssumption DEF TypeOK
  <1>4. Tail(versions)[Len(Tail(versions))] = live
    BY <1>1, <1>2 DEF live
  <1>5. ASSUME NEW i \in DOMAIN Tail(versions)
        PROVE  \E j \in DOMAIN versions : Tail(versions)[i] = versions[j]
    <2>1. i + 1 \in DOMAIN versions /\ Tail(versions)[i] = versions[i + 1]
      BY <1>1, <1>2
    <2> QED
      BY <2>1
  <1> QED
    BY <1>2, <1>3, <1>4, <1>5

LEMMA CopyTypes ==
    ASSUME TypeOK
    PROVE  /\ cached \in Mtc /\ live \in Mtc /\ DOMAIN versions = 1..Len(versions)
           /\ Len(versions) \in Nat \ {0} /\ (Len(versions) = 1 => cached = live)
  BY BoundAssumption DEF TypeOK, cached, live

\* A set of numbers has a least one.
LEMMA LeastNat ==
    ASSUME NEW T \in SUBSET Nat, T # {}
    PROVE  \E x \in T : \A y \in T : x <= y
  <1>1. PICK x \in T : \A y \in T : ~(<<y, x>> \in OpToRel(<, Nat))
    <2> HIDE DEF OpToRel
    <2> QED
      BY NatLessThanWellFounded, WFMin
  <1>2. ASSUME NEW y \in T PROVE x <= y
    <2>1. y \in Nat /\ x \in Nat
      OBVIOUS
    <2>2. y < x => <<y, x>> \in OpToRel(<, Nat)
      BY <2>1 DEF OpToRel
    <2>3. ~(y < x)
      BY <1>1, <2>2, Zenon
    <2> QED
      BY <2>1, <2>3
  <1> QED
    BY <1>2

\* First finds one of the elements that pass.
LEMMA FirstFacts ==
    ASSUME NEW S, NEW s \in Seq(S), NEW idx \in SUBSET (DOMAIN s), idx # {}
    PROVE  \E i \in idx : First(s, idx) = s[i]
  <1>1. idx \in SUBSET Nat
    OBVIOUS
  <1>2. \E i \in idx : \A j \in idx : i <= j
    BY <1>1, LeastNat
  <1> QED
    BY <1>2 DEF First

\* The callback's host is an external name or there is none.
LEMMA HostFacts ==
    ASSUME NEW g \in Gateways PROVE gatewayHostname(g) \in Host \cup {None}
  <1>1. ListenerHostname(g) \in Host \cup {None}
    <2> DEFINE idx == {i \in DOMAIN g.listeners :
                 g.listeners[i].https /\ g.listeners[i].host \notin {None, "wildcard"}}
    <2>1. CASE idx = {}
      BY <2>1 DEF ListenerHostname, First
    <2>2. CASE idx # {}
      <3>1. PICK i \in idx : First(g.listeners, idx) = g.listeners[i]
        <4>1. g.listeners \in Seq(Listener) /\ idx \in SUBSET (DOMAIN g.listeners)
          BY ContentAssumption
        <4> HIDE DEF idx
        <4> QED
          BY <2>2, <4>1, FirstFacts
      <3>2. g.listeners[i] \in Listener /\ g.listeners[i].host \notin {None, "wildcard"}
        BY ContentAssumption
      <3> QED
        BY <3>1, <3>2 DEF ListenerHostname, Listener
    <2> QED
      BY <2>1, <2>2
  <1>2. gatewayStatusHostname(g) \in Host \cup {None}
    <2> DEFINE idx == {i \in DOMAIN g.addresses :
                 g.addresses[i].hostname /\ g.addresses[i].value \notin Odd}
    <2>1. CASE idx = {}
      BY <2>1 DEF gatewayStatusHostname, First
    <2>2. CASE idx # {}
      <3>1. PICK i \in idx : First(g.addresses, idx) = g.addresses[i]
        <4>1. g.addresses \in Seq(Address) /\ idx \in SUBSET (DOMAIN g.addresses)
          BY ContentAssumption
        <4> HIDE DEF idx
        <4> QED
          BY <2>2, <4>1, FirstFacts
      <3>2. g.addresses[i] \in Address /\ g.addresses[i].value \notin Odd
        BY ContentAssumption
      <3> QED
        BY <3>1, <3>2 DEF gatewayStatusHostname, Address
    <2> QED
      BY <2>1, <2>2
  <1>3. gatewayRouteHostname(g) \in Host \cup {None}
    <2> DEFINE usable == {r \in g.routes : /\ r.host \notin {None, "wildcard"}
                                           /\ r.tls /\ ~r.subpath /\ r.fronts}
               least(r) == \A q \in usable : r.name <= q.name
    <2>1. CASE usable = {}
      BY <2>1 DEF gatewayRouteHostname
    <2>2. CASE usable # {}
      <3>1. usable \subseteq Route
        BY ContentAssumption
      <3>2. \E r \in usable : least(r)
        <4> DEFINE names == {r.name : r \in usable}
        <4>1. names \in SUBSET Nat /\ names # {}
          BY <2>2, <3>1 DEF Route
        <4>2. PICK x \in names : \A y \in names : x <= y
          <5> HIDE DEF names
          <5> QED
            BY <4>1, LeastNat
        <4> QED
          BY <4>2
      <3>3. (CHOOSE r \in usable : least(r)) \in usable
        <4> HIDE DEF usable, least
        <4> QED
          BY <3>2
      <3>4. gatewayRouteHostname(g) = (CHOOSE r \in usable : least(r)).host
        BY <2>2 DEF gatewayRouteHostname
      <3> DEFINE c == CHOOSE r \in usable : least(r)
      <3>5. c \in Route /\ c.host \notin {None, "wildcard"}
        <4>1. \A r \in usable : r \in Route /\ r.host \notin {None, "wildcard"}
          BY <3>1
        <4> QED
          BY <3>3, <4>1
      <3> HIDE DEF c
      <3>6. c.host \in Host
        BY <3>5 DEF Route
      <3> QED
        BY <3>4, <3>6 DEF c
    <2> QED
      BY <2>1, <2>2
  <1> QED
    BY <1>1, <1>2, <1>3 DEF gatewayHostname

\* A session is refreshed before it expires.
LEMMA LifetimeFacts ==
    ASSUME NEW a \in AITenant
    PROVE  /\ CookieExpire(a) \in Nat /\ RefreshInterval(a) \in Nat
           /\ RefreshInterval(a) < CookieExpire(a)
  <1>1. CookieExpire(a) \in Nat \ {0}
    BY BoundAssumption DEF AITenant, CookieExpire
  <1>2. PICK e \in Nat \ {0} : e = CookieExpire(a)
    BY <1>1
  <1>3. PICK i \in Nat : i = IF a.refresh = 0 \/ a.refresh >= e THEN DefaultRefresh ELSE a.refresh
    BY BoundAssumption DEF AITenant
  <1>4. RefreshInterval(a) = IF i >= e THEN e \div 2 ELSE i
    BY <1>2, <1>3 DEF RefreshInterval
  <1>5. e \div 2 \in Nat /\ e \div 2 < e
    OBVIOUS
  <1> QED
    BY <1>2, <1>4, <1>5

\* Where a reconcile may go on to, and what it then knows of its copies.
LEMMA DispatchFacts ==
    ASSUME NEW m \in Mtc, NEW a \in Tenants \cup {NoTenant}
    PROVE  /\ Dispatch(m, a) \in {"done", "wait", "gate", "clean", "release"}
           /\ Dispatch(m, a) = "gate" => m.infra \in InfraNs /\ a \in Tenants /\ a.gw \in GwNs
           /\ Dispatch(m, a) = "clean" => m.fin /\ m.infra \in InfraNs
           /\ Dispatch(m, a) = "release" => m.fin /\ m.infra \notin InfraNs
  <1>1. a \in Tenants => a \in AITenant
    BY ContentAssumption
  <1>2. /\ Disable(m) \in {"done", "clean", "release"}
        /\ Disable(m) = "clean" => m.fin /\ m.infra \in InfraNs
        /\ Disable(m) = "release" => m.fin /\ m.infra \notin InfraNs
    BY PlaceAssumption DEF Disable, Mtc
  <1>3. CASE m.phase = "gone"
    BY <1>3 DEF Dispatch
  <1>4. CASE m.phase = "deleting" \/ (m.phase = "live" /\ ~m.default)
    BY <1>2, <1>4 DEF Dispatch
  <1>5. CASE m.phase = "live" /\ m.default /\ ~a.ready
    BY <1>5 DEF Dispatch
  <1>6. CASE m.phase = "live" /\ m.default /\ a.ready /\ ~(a.enabled /\ a.issuer)
    BY <1>2, <1>6 DEF Dispatch
  <1>7. CASE m.phase = "live" /\ m.default /\ a.ready /\ a.enabled /\ a.issuer
    <2>1. a \in Tenants
      BY <1>7 DEF NoTenant
    <2>2. Dispatch(m, a) = IF ~a.clientId \/ m.infra = None \/ a.gw = None THEN "wait" ELSE "gate"
      BY <1>7 DEF Dispatch
    <2> QED
      BY <1>1, <2>1, <2>2 DEF Mtc, AITenant
  <1> QED
    BY <1>3, <1>4, <1>5, <1>6, <1>7 DEF Mtc

-----------------------------------------------------------------------------
(***************************************************************************)
(* The inductive invariant, action by action.                              *)
(***************************************************************************)
\* The kinds of objects, and that each has its place.
LEMMA KindFacts ==
    /\ \A i \in 1..5 : ApplyOrder[i] \in {"proxy", "routes", "grant", "mesh", "policies"}
    /\ {ApplyOrder[i] : i \in 1..5} = {"proxy", "routes", "grant", "mesh", "policies"}
  BY DEF ApplyOrder

LEMMA RenderType ==
    ASSUME NEW p \in Params, NEW i \in 1..5 PROVE Render(p, ApplyOrder[i]) \in Object
  <1> DEFINE k == ApplyOrder[i]
  <1>1. k \in {"proxy", "routes", "grant", "mesh", "policies"} /\ k \in {ApplyOrder[j] : j \in 1..5}
    BY KindFacts
  <1> HIDE DEF k
  <1>2. Place(k, p) \in InfraNs \cup DashNs \cup GwNs
    BY <1>1 DEF Place, Params
  <1> QED
    BY <1>1, <1>2 DEF Render, Object, k

\* Applying keeps the objects typed and every proxy one that starts.
LEMMA AppliedFacts ==
    ASSUME TypeOK, Lifetimes, plan \in Params, plan.refresh < plan.expire, NEW k \in 0..5
    PROVE  /\ Applied(k) \subseteq Object
           /\ \A o \in Applied(k) : o.of.refresh < o.of.expire
  <1>1. ASSUME NEW o \in Applied(k) PROVE o \in Object /\ o.of.refresh < o.of.expire
    <2>1. CASE o \in objs
      BY <2>1 DEF TypeOK, Lifetimes, ProxyCanStart
    <2>2. CASE o \notin objs
      <3>1. PICK i \in 1..k : o = Render(plan, ApplyOrder[i])
        BY <1>1, <2>2 DEF Applied
      <3>2. i \in 1..5
        BY <3>1
      <3>3. o \in Object
        BY <3>1, <3>2, RenderType
      <3>4. o.of = plan
        BY <3>1 DEF Render
      <3> QED
        BY <3>3, <3>4
    <2> QED
      BY <2>1, <2>2
  <1> QED
    BY <1>1

\* The cleanup only takes away.
LEMMA CleanFacts ==
    ASSUME TypeOK, snap.infra \in InfraNs, NEW k \in 0..6
    PROVE  /\ Remaining(k) \subseteq objs
           /\ RemainingCreds(k) \in [InfraNs -> Cred \cup {None}]
           /\ \A n \in InfraNs : RemainingCreds(k)[n] \in {creds[n], None}
  BY DEF TypeOK, Remaining, RemainingCreds

\* Between reconciles the worker holds nothing.
LEMMA IdleFacts ==
    ASSUME pc' = "idle", fresh' = FALSE
    PROVE  PassTyped' /\ Locked' /\ Views' /\ (Lifetimes' <=> ProxyCanStart')
  BY DEF PassTyped, Locked, Views, CopiesCurrent, PlanCurrent, CredsCurrent, InputsCurrent,
         ObjectsCurrent, Lifetimes, Working

LEMMA EndFacts ==
    ASSUME TypeOK, NEW a \in BOOLEAN, NEW d \in BOOLEAN, End(a, d)
    PROVE  /\ pc' = "idle" /\ snap' \in Mtc /\ ten' \in Tenants \cup {NoTenant}
           /\ fresh' = FALSE /\ timer' \in BOOLEAN /\ applied' \in BOOLEAN
           /\ pc' \in Pc /\ fresh' \in BOOLEAN
           /\ PassTyped' /\ Locked' /\ Views' /\ (Lifetimes' <=> ProxyCanStart')
  <1>1. NoMtc \in Mtc
    BY PlaceAssumption DEF NoMtc, Mtc
  <1>2. pc' = "idle" /\ fresh' = FALSE
    BY DEF End
  <1> QED
    BY <1>1, <1>2, IdleFacts DEF End, TypeOK, Pc

\* What only reads, or writes something else, keeps of the worker's part.
LEMMA WorkFrame ==
    ASSUME IInv, UNCHANGED <<pc, snap, ten, plan, creds, objs>>
    PROVE  PassTyped' /\ Lifetimes' /\ Cookies' /\ ObjectsCurrent'
  BY DEF IInv, PassTyped, Lifetimes, ProxyCanStart, Cookies, Managed, Views, ObjectsCurrent

LEMMA InitIInv == Init => IInv
  <1> SUFFICES ASSUME Init PROVE IInv
    OBVIOUS
  <1> DEFINE m == [NoMtc EXCEPT !.phase = "live", !.default = TRUE]
  <1>1. m \in Mtc /\ NoMtc \in Mtc
    BY PlaceAssumption DEF NoMtc, Mtc
  <1>2. versions \in Seq(Mtc) /\ Len(versions) \in 1..(MaxLag + 1)
    <2>1. versions = <<m>>
      BY DEF Init
    <2> HIDE DEF m
    <2> QED
      BY <1>1, <2>1, BoundAssumption
  <1>3. source \in Data \cup {None}
    BY ContentAssumption DEF Init
  <1>4. gateway \in [GwNs -> Gateways]
    BY DEF Init
  <1>5. TypeOK
    <2>1. services \subseteq DashNs /\ disturb \in 0..MaxDisturb /\ objs \subseteq Object
      BY PlaceAssumption, BoundAssumption DEF Init
    <2>2. /\ creds \in [InfraNs -> Cred \cup {None}] /\ redis \in [InfraNs -> Data \cup {None}]
          /\ bundle \in [InfraNs -> Data \cup {None}]
      BY DEF Init
    <2> QED
      BY <1>1, <1>2, <1>3, <1>4, <2>1, <2>2 DEF Init, TypeOK, Pc
  <1>6. PassTyped /\ Lifetimes /\ Cookies /\ Locked
    BY DEF Init, PassTyped, Lifetimes, ProxyCanStart, Cookies, Managed, Locked, Working
  <1>7. Views
    BY DEF Init, Views, CopiesCurrent, PlanCurrent, CredsCurrent, InputsCurrent, ObjectsCurrent,
           Working
  <1> QED
    BY <1>5, <1>6, <1>7 DEF IInv

LEMMA ReconcileKeeps == IInv /\ Reconcile => IInv'
  <1> SUFFICES ASSUME IInv, Reconcile PROVE IInv'
    OBVIOUS
  <1> DEFINE next == Dispatch(cached, aitenant)
  <1>1. TypeOK /\ cached \in Mtc /\ live \in Mtc /\ aitenant \in Tenants \cup {NoTenant}
    BY CopyTypes DEF IInv, TypeOK
  <1>2. /\ next \in {"done", "wait", "gate", "clean", "release"}
        /\ next = "gate" => cached.infra \in InfraNs /\ aitenant \in Tenants /\ aitenant.gw \in GwNs
        /\ next = "clean" => cached.infra \in InfraNs
    BY <1>1, DispatchFacts
  <1>3. /\ UNCHANGED <<versions, aitenant, inputVars, outVars, disturb>> /\ queued' = FALSE
        /\ stale' \in BOOLEAN
    BY <1>1 DEF Reconcile, Mtc, TypeOK
  <1>4. Cookies' /\ ProxyCanStart'
    BY <1>2, <1>3 DEF IInv, Cookies, Managed, Lifetimes, ProxyCanStart, outVars, Reconcile, End
  <1>5. CASE next \in {"done", "wait"}
    <2>1. End(next = "wait", FALSE)
      BY <1>5 DEF Reconcile
    <2> HIDE DEF next
    <2>2. (next = "wait") \in BOOLEAN
      OBVIOUS
    <2> QED
      BY <1>1, <1>3, <1>4, <2>1, <2>2, EndFacts DEF IInv, TypeOK, inputVars, outVars
  <1>6. CASE next \notin {"done", "wait"}
    <2>1. /\ pc' = next /\ snap' = cached /\ ten' = aitenant /\ fresh' = (Len(versions) = 1)
          /\ UNCHANGED <<timer, plan, applied>>
      BY <1>6 DEF Reconcile
    <2> HIDE DEF next
    <2>2. TypeOK'
      BY <1>1, <1>2, <1>3, <1>6, <2>1 DEF TypeOK, inputVars, outVars, Pc
    <2>3. PassTyped'
      BY <1>2, <1>6, <2>1 DEF PassTyped, Working
    <2>4. Lifetimes'
      BY <1>2, <1>4, <1>6, <2>1 DEF Lifetimes, Working
    <2>5. (Len(versions) = 1) => cached = live
      BY <1>1, CopyTypes
    <2>6. Locked'
      BY <1>2, <1>3, <1>6, <2>1, <2>5 DEF Locked, live
    <2>7. Views'
      BY <1>2, <1>3, <1>6, <2>1, <2>5 DEF Views, CopiesCurrent, PlanCurrent, CredsCurrent,
         InputsCurrent, ObjectsCurrent, Working, live
    <2> QED
      BY <1>4, <2>2, <2>3, <2>4, <2>6, <2>7 DEF IInv
  <1> QED
    BY <1>5, <1>6

LEMMA GateKeeps == IInv /\ Gate => IInv'
  <1> SUFFICES ASSUME IInv, Gate PROVE IInv'
    OBVIOUS
  <1> DEFINE host == gatewayHostname(gateway[ten.gw])
  <1>1. /\ TypeOK /\ pc = "gate" /\ snap.infra \in InfraNs /\ ten \in Tenants /\ ten.gw \in GwNs
        /\ ten \in AITenant
        /\ UNCHANGED <<versions, aitenant, inputVars, outVars, queued, stale, disturb>>
    BY ContentAssumption DEF IInv, PassTyped, Gate
  <1>2. host \in Host \cup {None} /\ dashboardNamespace \in DashNs
    BY <1>1, HostFacts, PlaceAssumption DEF TypeOK, dashboardNamespace
  <1>3. Cookies' /\ ProxyCanStart'
    <2>1. pc' # "secret"
      BY DEF Gate, End
    <2> QED
      BY <1>1, <2>1 DEF IInv, Cookies, Managed, Lifetimes, ProxyCanStart, outVars
  <1>4. CASE End(TRUE, FALSE)
    BY <1>1, <1>3, <1>4, EndFacts DEF IInv, TypeOK, inputVars, outVars
  <1>5. CASE pc' = "clean" /\ UNCHANGED <<snap, ten, plan, applied, fresh, timer>>
    <2>1. TypeOK'
      BY <1>1, <1>5 DEF TypeOK, inputVars, outVars, Pc
    <2>2. PassTyped' /\ Lifetimes' /\ Locked'
      BY <1>1, <1>3, <1>5 DEF IInv, PassTyped, Lifetimes, Locked, Working, live
    <2>3. Views'
      BY <1>1, <1>5 DEF IInv, Views, CopiesCurrent, PlanCurrent, CredsCurrent,
         InputsCurrent, ObjectsCurrent, Working, live
    <2> QED
      BY <1>3, <2>1, <2>2, <2>3 DEF IInv
  <1>6. CASE /\ host # None /\ pc' = "finalizer"
             /\ plan' = [NoParams EXCEPT !.infra = snap.infra, !.dash = dashboardNamespace,
                             !.gw = ten.gw, !.host = host,
                             !.refresh = RefreshInterval(ten), !.expire = CookieExpire(ten)]
             /\ UNCHANGED <<snap, ten, applied, fresh, timer>>
    <2>1. TypeOK'
      BY <1>1, <1>6 DEF TypeOK, inputVars, outVars, Pc
    <2>2. PICK r \in Nat, e \in Nat : r = RefreshInterval(ten) /\ e = CookieExpire(ten) /\ r < e
      BY <1>1, LifetimeFacts
    <2>3. plan' = [infra |-> snap.infra, dash |-> dashboardNamespace, gw |-> ten.gw, host |-> host,
                   client |-> None, cookie |-> 0, redis |-> None, bundle |-> None,
                   refresh |-> r, expire |-> e]
      BY <1>6, <2>2 DEF NoParams
    <2> HIDE DEF host
    <2>4. plan' \in Params
      <3>1. host \in Host /\ snap.infra \in InfraNs /\ ten.gw \in GwNs
        BY <1>1, <1>2, <1>6
      <3> QED
        BY <1>2, <2>2, <2>3, <3>1 DEF Params
    <2>5. PassTyped'
      BY <1>1, <1>6, <2>4 DEF PassTyped
    <2>6. Lifetimes'
      BY <1>3, <2>2, <2>3 DEF Lifetimes
    <2>7. Locked' /\ CopiesCurrent'
      BY <1>1, <1>6 DEF IInv, Locked, Views, CopiesCurrent, live
    <2>8. PlanCurrent'
      <3>1. dashboardNamespace' = dashboardNamespace
        BY <1>1 DEF inputVars, dashboardNamespace
      <3>2. ten' = ten /\ snap' = snap
        BY <1>6
      <3> QED
        BY <2>2, <2>3, <3>1, <3>2 DEF PlanCurrent, RefreshInterval, CookieExpire
    <2>9. CredsCurrent' /\ InputsCurrent' /\ ObjectsCurrent'
      BY <1>6 DEF CredsCurrent, InputsCurrent, ObjectsCurrent
    <2> QED
      BY <1>3, <2>1, <2>5, <2>6, <2>7, <2>8, <2>9 DEF IInv, Views
  <1> QED
    BY <1>4, <1>5, <1>6 DEF Gate

LEMMA EnsureFinalizerKeeps == IInv /\ EnsureFinalizer => IInv'
  <1> SUFFICES ASSUME IInv, EnsureFinalizer PROVE IInv'
    OBVIOUS
  <1>1. /\ TypeOK /\ pc = "finalizer" /\ ten \in Tenants /\ plan \in Params
        /\ plan.refresh < plan.expire
        /\ UNCHANGED <<aitenant, inputVars, outVars, stale, disturb>>
    BY DEF IInv, PassTyped, Lifetimes, EnsureFinalizer, Working
  <1>2. Cookies' /\ ProxyCanStart'
    <2>1. pc' # "secret"
      BY DEF EnsureFinalizer, End
    <2> QED
      BY <1>1, <2>1 DEF IInv, Cookies, Managed, Lifetimes, ProxyCanStart, outVars
  <1>3. CASE /\ pc' = "source"
             /\ UNCHANGED <<versions, fresh, snap, ten, plan, applied, timer, queued>>
    <2>1. TypeOK'
      BY <1>1, <1>3 DEF TypeOK, inputVars, outVars, Pc
    <2>2. PassTyped' /\ Lifetimes' /\ Locked'
      BY <1>1, <1>2, <1>3 DEF IInv, PassTyped, Lifetimes, Locked, Working, live
    <2>3. PlanCurrent' /\ CopiesCurrent'
      BY <1>1, <1>3 DEF IInv, Views, CopiesCurrent, PlanCurrent, Working, live, dashboardNamespace,
         RefreshInterval, CookieExpire, inputVars
    <2>4. CredsCurrent' /\ InputsCurrent' /\ ObjectsCurrent'
      BY <1>3 DEF CredsCurrent, InputsCurrent, ObjectsCurrent
    <2> QED
      BY <1>2, <2>1, <2>2, <2>3, <2>4 DEF IInv, Views
  <1>4. CASE /\ ~snap.fin /\ fresh /\ pc' = "source" /\ WriteBack([live EXCEPT !.fin = TRUE])
             /\ UNCHANGED <<ten, plan, applied, timer>>
    <2> DEFINE m == [live EXCEPT !.fin = TRUE]
    <2>1. m \in Mtc /\ m.infra = live.infra /\ m.fin
      BY <1>1, CopyTypes DEF Mtc
    <2>2. versions' = Push(m) /\ fresh' = TRUE /\ snap' = m /\ queued' = (queued \/ MaxLag = 0)
      BY <1>4 DEF WriteBack
    <2> HIDE DEF m
    <2>3. /\ versions' \in Seq(Mtc) /\ Len(versions') \in 1..(MaxLag + 1) /\ live' = m
          /\ Len(versions') = 1 => queued'
      BY <1>1, <2>1, <2>2, PushFacts DEF live
    <2>4. TypeOK'
      BY <1>1, <1>4, <2>1, <2>2, <2>3, BoundAssumption DEF TypeOK, inputVars, outVars, Pc
    <2>5. PassTyped' /\ Lifetimes' /\ Locked'
      BY <1>1, <1>2, <1>4, <2>1, <2>2, <2>3 DEF PassTyped, Lifetimes, Locked, Working
    <2>6. snap.infra = live.infra
      BY <1>4 DEF IInv, Locked
    <2>7. CopiesCurrent'
      BY <1>1, <1>4, <2>2, <2>3 DEF IInv, Views, CopiesCurrent
    <2>8. PlanCurrent'
      BY <1>1, <1>4, <2>1, <2>2, <2>6 DEF IInv, Views, PlanCurrent, Working, dashboardNamespace,
         RefreshInterval, CookieExpire, inputVars
    <2>9. CredsCurrent' /\ InputsCurrent' /\ ObjectsCurrent'
      BY <1>4 DEF CredsCurrent, InputsCurrent, ObjectsCurrent
    <2> QED
      BY <1>2, <2>4, <2>5, <2>7, <2>8, <2>9 DEF IInv, Views
  <1>5. CASE End(TRUE, FALSE) /\ UNCHANGED <<versions, queued>>
    BY <1>1, <1>2, <1>5, EndFacts DEF IInv, TypeOK, inputVars, outVars
  <1> QED
    BY <1>3, <1>4, <1>5 DEF EnsureFinalizer

LEMMA ReadCredentialsKeeps == IInv /\ ReadCredentials => IInv'
  <1> SUFFICES ASSUME IInv, ReadCredentials PROVE IInv'
    OBVIOUS
  <1> DEFINE n == plan.infra
  <1>1. /\ TypeOK /\ pc = "source" /\ ten \in Tenants /\ plan \in Params
        /\ plan.refresh < plan.expire /\ n \in InfraNs /\ ProxyCanStart
        /\ UNCHANGED <<versions, aitenant, inputVars, creds, objs, queued, stale, disturb>>
    BY DEF IInv, PassTyped, Lifetimes, ReadCredentials, Working, Params
  <1>2. ProxyCanStart'
    BY <1>1 DEF ProxyCanStart
  <1>3. ASSUME NEW c, NEW k \in Nat, c \in Data \cup {None},
               plan' = [plan EXCEPT !.client = c, !.cookie = k]
        PROVE  /\ plan' \in Params /\ plan'.infra = plan.infra /\ plan'.dash = plan.dash
               /\ plan'.gw = plan.gw /\ plan'.refresh = plan.refresh /\ plan'.expire = plan.expire
               /\ plan'.client = c /\ plan'.cookie = k
    BY <1>1, <1>3 DEF Params
  <1>4. CASE /\ ~ten.ref /\ creds[n] # None /\ pc' = "inputs"
             /\ plan' = [plan EXCEPT !.client = creds[n].client, !.cookie = creds[n].cookie]
             /\ UNCHANGED <<minted, snap, ten, applied, fresh, timer>>
    <2>1. creds[n].client \in Data \cup {None} /\ creds[n].cookie \in Nat
      BY <1>1, <1>4 DEF TypeOK, Cred
    <2>2. /\ plan' \in Params /\ plan'.infra = plan.infra /\ plan'.dash = plan.dash
          /\ plan'.gw = plan.gw /\ plan'.refresh = plan.refresh /\ plan'.expire = plan.expire
          /\ plan'.client = creds[n].client /\ plan'.cookie = creds[n].cookie
      BY <1>3, <1>4, <2>1
    <2>3. TypeOK'
      BY <1>1, <1>4 DEF TypeOK, inputVars, Pc
    <2>4. PassTyped' /\ Lifetimes' /\ Locked'
      BY <1>1, <1>2, <1>4, <2>2 DEF IInv, PassTyped, Lifetimes, Locked, Working, live
    <2>5. Cookies'
      BY <1>1, <1>4 DEF IInv, Cookies, Managed
    <2>6. CopiesCurrent' /\ PlanCurrent'
      BY <1>1, <1>4, <2>2 DEF IInv, Views, CopiesCurrent, PlanCurrent, Working, live,
         dashboardNamespace, RefreshInterval, CookieExpire, inputVars
    <2>7. CredsCurrent' /\ InputsCurrent' /\ ObjectsCurrent'
      BY <1>1, <1>4, <2>2 DEF CredsCurrent, InputsCurrent, ObjectsCurrent
    <2> QED
      BY <2>3, <2>4, <2>5, <2>6, <2>7 DEF IInv, Views
  <1>5. CASE /\ ten.ref /\ source # None /\ pc' = "secret"
             /\ plan' = [plan EXCEPT !.client = source, !.cookie = KeepCookie(n)]
             /\ minted' = IF KeepCookie(n) > minted THEN KeepCookie(n) ELSE minted
             /\ UNCHANGED <<snap, ten, applied, fresh, timer>>
    <2>1. /\ KeepCookie(n) \in Nat /\ KeepCookie(n) # 0
          /\ Managed(n) => KeepCookie(n) = creds[n].cookie
      BY <1>1 DEF IInv, Cookies, Managed, TypeOK, Cred, KeepCookie
    <2>2. source \in Data \cup {None}
      BY <1>1 DEF TypeOK
    <2>3. /\ plan' \in Params /\ plan'.infra = plan.infra /\ plan'.dash = plan.dash
          /\ plan'.gw = plan.gw /\ plan'.refresh = plan.refresh /\ plan'.expire = plan.expire
          /\ plan'.client = source /\ plan'.cookie = KeepCookie(n)
      BY <1>3, <1>5, <2>1, <2>2
    <2>4. TypeOK'
      BY <1>1, <1>5, <2>1 DEF TypeOK, inputVars, Pc
    <2>5. PassTyped' /\ Lifetimes' /\ Locked'
      BY <1>1, <1>2, <1>5, <2>3 DEF IInv, PassTyped, Lifetimes, Locked, Working, live
    <2>6. Cookies'
      BY <1>1, <1>5, <2>1, <2>3 DEF IInv, Cookies, Managed
    <2>7. CopiesCurrent' /\ PlanCurrent'
      BY <1>1, <1>5, <2>3 DEF IInv, Views, CopiesCurrent, PlanCurrent, Working, live,
         dashboardNamespace, RefreshInterval, CookieExpire, inputVars
    <2>8. CredsCurrent' /\ InputsCurrent' /\ ObjectsCurrent'
      BY <1>1, <1>5, <2>3 DEF CredsCurrent, InputsCurrent, ObjectsCurrent, inputVars
    <2> QED
      BY <2>4, <2>5, <2>6, <2>7, <2>8 DEF IInv, Views
  <1>6. CASE End(TRUE, FALSE) /\ UNCHANGED minted
    <2>1. Cookies'
      BY <1>1, <1>6, EndFacts DEF IInv, Cookies, Managed
    <2> QED
      BY <1>1, <1>2, <1>6, <2>1, EndFacts DEF IInv, TypeOK, inputVars
  <1> QED
    BY <1>4, <1>5, <1>6 DEF ReadCredentials

LEMMA ApplyCredentialsKeeps == IInv /\ ApplyCredentials => IInv'
  <1> SUFFICES ASSUME IInv, ApplyCredentials PROVE IInv'
    OBVIOUS
  <1> DEFINE n == plan.infra
             c == [client |-> plan.client, cookie |-> plan.cookie, managed |-> TRUE]
  <1>1. /\ TypeOK /\ pc = "secret" /\ plan \in Params /\ n \in InfraNs /\ pc' = "inputs"
        /\ UNCHANGED <<versions, aitenant, inputVars, minted, objs, timer, snap, ten, plan, applied,
                       fresh, stale, disturb>>
    BY DEF IInv, PassTyped, ApplyCredentials, Working, Params
  <1>2. /\ c \in Cred /\ c # None /\ c.client = plan.client /\ c.cookie = plan.cookie /\ c.managed
        /\ c.cookie # 0
    <2>1. c \in Cred
      BY <1>1 DEF Params, Cred
    <2> QED
      BY <1>1, <2>1, SecretAssumption DEF IInv, Cookies
  <1>3. creds' = [creds EXCEPT ![n] = c] /\ queued' = (queued \/ creds[n] # c)
    BY DEF ApplyCredentials
  <1> HIDE DEF c
  <1>4. TypeOK'
    BY <1>1, <1>2, <1>3 DEF TypeOK, inputVars, Pc
  <1>5. PassTyped' /\ Lifetimes' /\ Locked'
    BY <1>1 DEF IInv, PassTyped, Lifetimes, ProxyCanStart, Locked, Working, live
  <1>6. Cookies'
    BY <1>1, <1>2, <1>3 DEF IInv, Cookies, Managed, TypeOK
  <1>7. CopiesCurrent' /\ PlanCurrent'
    BY <1>1, <1>3 DEF IInv, Views, CopiesCurrent, PlanCurrent, Working, live,
       dashboardNamespace, RefreshInterval, CookieExpire, inputVars
  <1>8. CredsCurrent' /\ InputsCurrent' /\ ObjectsCurrent'
    BY <1>1, <1>2, <1>3 DEF IInv, Views, CredsCurrent, InputsCurrent, ObjectsCurrent, inputVars,
       TypeOK
  <1> QED
    BY <1>4, <1>5, <1>6, <1>7, <1>8 DEF IInv, Views

LEMMA ReadInputsKeeps == IInv /\ ReadInputs => IInv'
  <1> SUFFICES ASSUME IInv, ReadInputs PROVE IInv'
    OBVIOUS
  <1>1. /\ TypeOK /\ pc = "inputs" /\ pc' = "apply" /\ plan \in Params /\ plan.infra \in InfraNs
        /\ plan' = [plan EXCEPT !.redis = redis[plan.infra], !.bundle = bundle[plan.infra]]
        /\ UNCHANGED <<versions, aitenant, inputVars, outVars, queued, timer, snap, ten, applied,
                       fresh, stale, disturb>>
    BY DEF IInv, PassTyped, ReadInputs, Working, Params
  <1>2. redis[plan.infra] \in Data \cup {None} /\ bundle[plan.infra] \in Data \cup {None}
    BY <1>1 DEF TypeOK
  <1>3. /\ plan' \in Params /\ plan'.infra = plan.infra /\ plan'.dash = plan.dash
        /\ plan'.gw = plan.gw /\ plan'.refresh = plan.refresh /\ plan'.expire = plan.expire
        /\ plan'.client = plan.client /\ plan'.cookie = plan.cookie
        /\ plan'.redis = redis[plan.infra] /\ plan'.bundle = bundle[plan.infra]
    BY <1>1, <1>2 DEF Params
  <1>4. TypeOK'
    BY <1>1 DEF TypeOK, inputVars, outVars, Pc
  <1>5. PassTyped' /\ Lifetimes' /\ Locked'
    BY <1>1, <1>3 DEF IInv, PassTyped, Lifetimes, ProxyCanStart, Locked, Working, live, outVars
  <1>6. Cookies'
    BY <1>1 DEF IInv, Cookies, Managed, outVars
  <1>7. CopiesCurrent' /\ PlanCurrent'
    BY <1>1, <1>3 DEF IInv, Views, CopiesCurrent, PlanCurrent, Working, live,
       dashboardNamespace, RefreshInterval, CookieExpire, inputVars
  <1>8. CredsCurrent' /\ InputsCurrent' /\ ObjectsCurrent'
    BY <1>1, <1>3 DEF IInv, Views, CredsCurrent, InputsCurrent, ObjectsCurrent, inputVars, outVars
  <1> QED
    BY <1>4, <1>5, <1>6, <1>7, <1>8 DEF IInv, Views

\* The events of the worker's own writes never take one away.
LEMMA ApplyObjectsKeeps == IInv /\ ApplyObjects => IInv'
  <1> SUFFICES ASSUME IInv, ApplyObjects PROVE IInv'
    OBVIOUS
  <1>1. /\ TypeOK /\ Lifetimes /\ pc = "apply" /\ pc' = "prune" /\ plan \in Params
        /\ plan.refresh < plan.expire
        /\ objs' = Applied(5) /\ queued' \in BOOLEAN /\ (queued => queued')
        /\ UNCHANGED <<versions, aitenant, inputVars, creds, minted, timer, snap, ten, plan,
                       applied, fresh, stale, disturb>>
    <2>1. RouteEvent \in BOOLEAN
      BY DEF RouteEvent
    <2> QED
      BY <2>1 DEF IInv, TypeOK, PassTyped, Lifetimes, ApplyObjects, Working
  <1>2. objs' \subseteq Object /\ \A o \in objs' : o.of.refresh < o.of.expire
    BY <1>1, AppliedFacts
  <1>3. TypeOK'
    BY <1>1, <1>2 DEF TypeOK, inputVars, Pc
  <1>4. PassTyped' /\ Lifetimes' /\ Locked'
    BY <1>1, <1>2 DEF IInv, PassTyped, Lifetimes, ProxyCanStart, Locked, Working, live
  <1>5. Cookies'
    BY <1>1 DEF IInv, Cookies, Managed
  <1>6. CopiesCurrent' /\ PlanCurrent'
    BY <1>1 DEF IInv, Views, CopiesCurrent, PlanCurrent, Working, live,
       dashboardNamespace, RefreshInterval, CookieExpire, inputVars
  <1>7. CredsCurrent' /\ InputsCurrent'
    BY <1>1 DEF IInv, Views, CredsCurrent, InputsCurrent, inputVars
  <1>8. ObjectsCurrent'
    <2>1. \A i \in 1..5 : Render(plan, ApplyOrder[i]) \in Applied(5)
      BY DEF Applied
    <2>2. plan' = plan
      BY <1>1
    <2> QED
      BY <1>1, <2>1, <2>2 DEF ObjectsCurrent, Render, Place
  <1> QED
    BY <1>3, <1>4, <1>5, <1>6, <1>7, <1>8 DEF IInv, Views

LEMMA PruneStaleGrantsKeeps == IInv /\ PruneStaleGrants => IInv'
  <1> SUFFICES ASSUME IInv, PruneStaleGrants PROVE IInv'
    OBVIOUS
  <1>1. /\ TypeOK /\ Lifetimes /\ objs' \subseteq objs /\ End(TRUE, TRUE)
        /\ UNCHANGED <<versions, aitenant, inputVars, creds, minted, queued, stale, disturb>>
    BY DEF IInv, PruneStaleGrants
  <1>2. objs' \subseteq Object /\ ProxyCanStart'
    BY <1>1 DEF TypeOK, Lifetimes, ProxyCanStart
  <1>3. Cookies'
    BY <1>1, EndFacts DEF IInv, Cookies, Managed
  <1> QED
    BY <1>1, <1>2, <1>3, EndFacts DEF IInv, TypeOK, inputVars

LEMMA CleanupKeeps == IInv /\ Cleanup => IInv'
  <1> SUFFICES ASSUME IInv, Cleanup PROVE IInv'
    OBVIOUS
  <1>1. /\ TypeOK /\ pc = "clean" /\ pc' = "release" /\ snap.infra \in InfraNs
        /\ objs' = Remaining(6) /\ creds' = RemainingCreds(6)
        /\ queued' \in BOOLEAN /\ (queued => queued')
        /\ UNCHANGED <<versions, aitenant, inputVars, minted, timer, snap, ten, plan, applied,
                       fresh, stale, disturb>>
    <2>1. RouteEvent \in BOOLEAN
      BY DEF RouteEvent
    <2> QED
      BY <2>1 DEF IInv, TypeOK, PassTyped, Cleanup
  <1>2. /\ objs' \subseteq objs /\ creds' \in [InfraNs -> Cred \cup {None}]
        /\ \A n \in InfraNs : creds'[n] \in {creds[n], None}
    BY <1>1, CleanFacts
  <1>3. TypeOK'
    BY <1>1, <1>2 DEF TypeOK, inputVars, Pc
  <1>4. PassTyped' /\ Lifetimes' /\ Locked'
    BY <1>1, <1>2 DEF IInv, PassTyped, Lifetimes, ProxyCanStart, Locked, Working, live
  <1>5. Cookies'
    BY <1>1, <1>2 DEF IInv, Cookies, Managed
  <1>6. Views'
    BY <1>1 DEF IInv, Views, CopiesCurrent, PlanCurrent, CredsCurrent, InputsCurrent,
       ObjectsCurrent, Working, live
  <1> QED
    BY <1>3, <1>4, <1>5, <1>6 DEF IInv

LEMMA ReleaseKeeps == IInv /\ Release => IInv'
  <1> SUFFICES ASSUME IInv, Release PROVE IInv'
    OBVIOUS
  <1>1. /\ TypeOK
        /\ End(TRUE, FALSE) \/ End(FALSE, FALSE)
        /\ UNCHANGED <<aitenant, inputVars, outVars, stale, disturb>>
    BY DEF IInv, Release
  <1>2. versions' \in Seq(Mtc) /\ Len(versions') \in 1..(MaxLag + 1) /\ queued' \in BOOLEAN
    <2> DEFINE m == IF live.phase = "deleting" THEN NoMtc ELSE [live EXCEPT !.fin = FALSE]
    <2>1. m \in Mtc
      BY CopyTypes, PlaceAssumption DEF IInv, Mtc, NoMtc
    <2>2. versions' = Push(m) \/ versions' = versions
      BY DEF Release
    <2> HIDE DEF m
    <2> QED
      BY <2>1, <2>2, PushFacts DEF IInv, TypeOK, Release
  <1>3. Cookies' /\ ProxyCanStart'
    BY <1>1, EndFacts DEF IInv, Cookies, Managed, Lifetimes, ProxyCanStart, outVars
  <1> QED
    BY <1>1, <1>2, <1>3, EndFacts DEF IInv, TypeOK, inputVars, outVars

\* A disturbance counts; a tenant has its type, present or not.
LEMMA DisturbType == ASSUME TypeOK, NEW k, Disturb(k) PROVE disturb' \in 0..MaxDisturb
  BY BoundAssumption DEF TypeOK, Disturb

LEMMA TenantType == \A a \in Tenants \cup {NoTenant} : a \in AITenant
  <1>1. NoTenant \in AITenant
    BY DEF NoTenant, AITenant
  <1> QED
    BY <1>1, ContentAssumption

LEMMA DeliverKeeps == IInv /\ Deliver => IInv'
  <1> SUFFICES ASSUME IInv, Deliver PROVE IInv'
    OBVIOUS
  <1>1. /\ TypeOK /\ versions' = Tail(versions) /\ queued' = TRUE /\ Len(versions) > 1
        /\ UNCHANGED <<aitenant, inputVars, outVars, timer, workVars, fresh, disturb>>
    BY DEF IInv, Deliver
  <1>2. versions' \in Seq(Mtc) /\ Len(versions') \in 1..(MaxLag + 1) /\ live' = live
    BY <1>1, TailFacts DEF live
  <1>3. TypeOK'
    BY <1>1, <1>2 DEF TypeOK, inputVars, outVars, workVars
  <1>4. PassTyped' /\ Lifetimes' /\ Cookies' /\ ObjectsCurrent'
    BY <1>1, WorkFrame DEF outVars, workVars
  <1>5. Locked'
    BY <1>1, <1>2, CopyTypes DEF IInv, Locked, workVars
  <1>6. CopiesCurrent' /\ PlanCurrent' /\ CredsCurrent' /\ InputsCurrent'
    BY <1>1 DEF IInv, Views, CopiesCurrent, PlanCurrent, CredsCurrent, InputsCurrent, workVars,
       RefreshInterval, CookieExpire, Working
  <1> QED
    BY <1>3, <1>4, <1>5, <1>6 DEF IInv, Views

\* A write of the MTC by somebody else.
LEMMA WriteKeeps ==
    ASSUME IInv, NEW m \in Mtc, Write(m), disturb' \in 0..MaxDisturb,
           UNCHANGED <<aitenant, inputVars, outVars, timer, workVars>>
    PROVE  IInv'
  <1>1. TypeOK /\ versions' = Push(m) /\ fresh' = FALSE /\ queued' = (queued \/ MaxLag = 0)
    BY DEF IInv, Write
  <1>2. /\ versions' \in Seq(Mtc) /\ Len(versions') \in 1..(MaxLag + 1) /\ live' = m
        /\ Len(versions') = 1 => queued'
    BY <1>1, PushFacts DEF live
  <1>3. TypeOK'
    BY <1>1, <1>2 DEF TypeOK, inputVars, outVars, workVars
  <1>4. PassTyped' /\ Lifetimes' /\ Cookies' /\ ObjectsCurrent'
    BY WorkFrame DEF outVars, workVars
  <1>5. Locked' /\ CopiesCurrent'
    BY <1>1, <1>2 DEF IInv, Locked, Views, CopiesCurrent, workVars
  <1>6. PlanCurrent' /\ CredsCurrent'
    BY <1>1 DEF IInv, Views, PlanCurrent, CredsCurrent, workVars, inputVars, outVars,
       dashboardNamespace, RefreshInterval, CookieExpire
  <1>7. InputsCurrent'
    <2>1. Len(versions') # 1 \/ queued'
      BY <1>2
    <2> QED
      BY <2>1 DEF InputsCurrent
  <1> QED
    BY <1>3, <1>4, <1>5, <1>6, <1>7 DEF IInv, Views

LEMMA MtcWritesKeep == IInv /\ (DeleteMtc \/ CreateMtc \/ EditMtc) => IInv'
  <1> SUFFICES ASSUME IInv, DeleteMtc \/ CreateMtc \/ EditMtc PROVE IInv'
    OBVIOUS
  <1>1. live \in Mtc /\ NoMtc \in Mtc
    BY CopyTypes, PlaceAssumption DEF IInv, NoMtc, Mtc
  <1>2. disturb' \in 0..MaxDisturb
    BY BoundAssumption DEF IInv, TypeOK, DeleteMtc, CreateMtc, EditMtc, Disturb
  <1>3. UNCHANGED <<aitenant, inputVars, outVars, timer, workVars>>
    BY DEF DeleteMtc, CreateMtc, EditMtc
  <1>4. \E m \in Mtc : Write(m)
    <2>1. CASE DeleteMtc
      <3>1. NoMtc \in Mtc /\ [live EXCEPT !.phase = "deleting"] \in Mtc
        BY <1>1 DEF Mtc
      <3> QED
        BY <2>1, <3>1 DEF DeleteMtc
    <2>2. CASE CreateMtc
      <3>1. [NoMtc EXCEPT !.phase = "live", !.default = TRUE] \in Mtc
        BY <1>1 DEF Mtc, NoMtc
      <3> QED
        BY <2>2, <3>1 DEF CreateMtc
    <2>3. CASE EditMtc
      <3>1. [live EXCEPT !.default = ~live.default] \in Mtc
        BY <1>1 DEF Mtc
      <3>2. \A n \in InfraNs : [live EXCEPT !.infra = n] \in Mtc
        BY <1>1 DEF Mtc
      <3> QED
        BY <2>3, <3>1, <3>2 DEF EditMtc
    <2> QED
      BY <2>1, <2>2, <2>3
  <1> QED
    BY <1>2, <1>3, <1>4, WriteKeeps

\* The other edits write no MTC and leave the worker alone: what remains is
\* that an event follows every change of something the Params depend on.
LEMMA EditsKeep ==
    ASSUME IInv, EditAITenant \/ EditGateway \/ EditDsci \/ EditService \/ EditSource
                   \/ EditRedis \/ EditBundle \/ EditCredentials \/ Tick
    PROVE  IInv'
  <1>0. TypeOK
    BY DEF IInv
  <1>1. TypeOK /\ UNCHANGED <<versions, objs, workVars, fresh>> /\ (queued => queued')
    <2>1. CASE EditAITenant
      BY <1>0, <2>1 DEF EditAITenant, outVars
    <2>2. CASE EditGateway
      BY <1>0, <2>2 DEF EditGateway, outVars
    <2>3. CASE EditDsci
      BY <1>0, <2>3 DEF EditDsci, outVars
    <2>4. CASE EditService
      BY <1>0, <2>4 DEF EditService, outVars
    <2>5. CASE EditSource
      BY <1>0, <2>5 DEF EditSource, outVars
    <2>6. CASE EditRedis
      BY <1>0, <2>6 DEF EditRedis, outVars
    <2>7. CASE EditBundle
      BY <1>0, <2>7 DEF EditBundle, outVars
    <2>8. CASE EditCredentials
      BY <1>0, <2>8 DEF EditCredentials, outVars
    <2>9. CASE Tick
      BY <1>0, <2>9 DEF Tick, outVars
    <2> QED
      BY <1>0, <2>1, <2>2, <2>3, <2>4, <2>5, <2>6, <2>7, <2>8, <2>9
  <1>2. TypeOK' /\ (Cookies' \/ EditCredentials)
    <2>1. CASE EditCredentials
      <3>1. \A d \in Data, c \in {0, minted + 1} :
              [client |-> d, cookie |-> c, managed |-> FALSE] \in Cred
        BY <1>1 DEF TypeOK, Cred
      <3>2. PICK n \in InfraNs, r \in Cred \cup {None} : creds' = [creds EXCEPT ![n] = r]
        BY <2>1, <3>1 DEF EditCredentials
      <3>3. creds' \in [InfraNs -> Cred \cup {None}]
        BY <1>1, <3>2 DEF TypeOK
      <3>4. minted' \in {minted, 0, minted + 1}
        BY <2>1 DEF EditCredentials
      <3>5. minted' \in Nat
        BY <1>1, <3>4 DEF TypeOK
      <3>6. disturb' \in 0..MaxDisturb
        BY <1>1, <2>1, DisturbType DEF EditCredentials
      <3> QED
        BY <1>1, <2>1, <3>3, <3>5, <3>6 DEF EditCredentials, TypeOK, inputVars, workVars
    <2>2. CASE EditAITenant \/ EditService \/ EditSource \/ Tick \/ EditDsci
      <3>1. UNCHANGED <<gateway, redis, bundle, creds, minted>>
        BY <2>2 DEF EditAITenant, EditService, EditSource, Tick, EditDsci, inputVars, outVars
      <3>2. aitenant' \in Tenants \cup {NoTenant} /\ services' \subseteq DashNs
        BY <1>1, <2>2 DEF EditAITenant, EditService, EditSource, Tick, EditDsci, inputVars, TypeOK
      <3>3. source' \in Data \cup {None} /\ dsci' \in DashNs \cup {None}
        BY <1>1, <2>2 DEF EditAITenant, EditService, EditSource, Tick, EditDsci, inputVars, TypeOK
      <3>4. queued' \in BOOLEAN /\ timer' \in BOOLEAN /\ disturb' \in 0..MaxDisturb
        <4>1. aitenant.ref \in BOOLEAN
          BY <1>1, TenantType DEF TypeOK, AITenant
        <4>2. queued' \in BOOLEAN /\ timer' \in BOOLEAN
          BY <1>1, <2>2, <4>1, BoundAssumption DEF EditAITenant, EditService, EditSource, Tick,
             EditDsci, TypeOK
        <4> QED
          BY <1>1, <2>2, <4>2, DisturbType DEF EditAITenant, EditService, EditSource, Tick,
             EditDsci, TypeOK
      <3> QED
        BY <1>1, <3>1, <3>2, <3>3, <3>4 DEF TypeOK, workVars, IInv, Cookies, Managed
    <2>3. CASE EditGateway \/ EditRedis \/ EditBundle
      <3>1. UNCHANGED <<aitenant, dsci, services, source, creds, minted, timer>>
        BY <2>3 DEF EditGateway, EditRedis, EditBundle, inputVars, outVars
      <3>2. gateway' \in [GwNs -> Gateways]
        BY <1>1, <2>3 DEF EditGateway, EditRedis, EditBundle, TypeOK
      <3>3. redis' \in [InfraNs -> Data \cup {None}] /\ bundle' \in [InfraNs -> Data \cup {None}]
        BY <1>1, <2>3 DEF EditGateway, EditRedis, EditBundle, TypeOK
      <3>4. queued' \in BOOLEAN /\ disturb' \in 0..MaxDisturb
        BY <1>1, <2>3, DisturbType DEF EditGateway, EditRedis, EditBundle, TypeOK,
           maasTenantConfigForCABundle
      <3> QED
        BY <1>1, <3>1, <3>2, <3>3, <3>4 DEF TypeOK, workVars, IInv, Cookies, Managed
    <2> QED
      BY <2>1, <2>2, <2>3
  <1>3. Cookies'
    <2>1. CASE EditCredentials
      <3>1. PICK n, r :
              n \in InfraNs /\ creds' = [creds EXCEPT ![n] = r] /\ (r = None \/ r.managed = FALSE)
        <4>1. \A d, c : [client |-> d, cookie |-> c, managed |-> FALSE].managed = FALSE
          OBVIOUS
        <4> QED
          BY <2>1, <4>1 DEF EditCredentials
      <3>2. \A i \in InfraNs : creds'[i] = creds[i] \/ creds'[i] = None \/ creds'[i].managed = FALSE
        BY <1>1, <3>1 DEF TypeOK
      <3> QED
        BY <1>1, <3>2 DEF IInv, PassTyped, Params, Working, Cookies, Managed, workVars
    <2> QED
      BY <1>2, <2>1
  <1>4. PassTyped' /\ Lifetimes' /\ ObjectsCurrent' /\ Locked'
    BY <1>1 DEF IInv, PassTyped, Lifetimes, ProxyCanStart, Views, ObjectsCurrent, Locked, workVars,
       live
  <1>5. CopiesCurrent' /\ PlanCurrent'
    <2>1. aitenant' = aitenant \/ queued'
      BY DEF EditAITenant, EditGateway, EditDsci, EditService, EditSource, EditRedis,
         EditBundle, EditCredentials, Tick
    <2>2. DsciWatched => (dsci' = dsci \/ queued')
      BY DEF EditAITenant, EditGateway, EditDsci, EditService, EditSource, EditRedis,
         EditBundle, EditCredentials, Tick, inputVars
    <2> QED
      BY <1>1, <2>1, <2>2 DEF IInv, Views, CopiesCurrent, PlanCurrent, workVars, live,
         dashboardNamespace, RefreshInterval, CookieExpire, Working
  <1>6. CredsCurrent'
    <2>1. creds' = creds \/ queued'
      BY DEF EditAITenant, EditGateway, EditDsci, EditService, EditSource, EditRedis,
         EditBundle, EditCredentials, Tick, outVars
    <2>2. source' = source \/ queued' \/ ~aitenant.ref
      BY DEF EditAITenant, EditGateway, EditDsci, EditService, EditSource, EditRedis,
         EditBundle, EditCredentials, Tick, inputVars
    <2> QED
      BY <1>1, <2>1, <2>2 DEF IInv, Views, CopiesCurrent, CredsCurrent, workVars
  <1>7. InputsCurrent'
    <2>1. redis' = redis \/ queued'
      BY DEF EditAITenant, EditGateway, EditDsci, EditService, EditSource, EditRedis,
         EditBundle, EditCredentials, Tick, inputVars
    <2>2. \/ bundle' = bundle \/ queued'
          \/ \E n \in InfraNs : \E d : bundle' = [bundle EXCEPT ![n] = d] /\ cached.infra # n
      BY DEF EditAITenant, EditGateway, EditDsci, EditService, EditSource, EditRedis,
         EditBundle, EditCredentials, Tick, inputVars, maasTenantConfigForCABundle
    <2>3. Len(versions) = 1 => cached = live
      BY <1>1, CopyTypes
    <2> QED
      BY <1>1, <2>1, <2>2, <2>3 DEF IInv, TypeOK, PassTyped, Params, Views, CopiesCurrent,
         PlanCurrent, InputsCurrent, workVars, Working
  <1> QED
    BY <1>2, <1>3, <1>4, <1>5, <1>6, <1>7 DEF IInv, Views

LEMMA FailKeeps == IInv /\ Fail => IInv'
  <1> SUFFICES ASSUME IInv, Fail PROVE IInv'
    OBVIOUS
  <1>1. /\ TypeOK /\ Lifetimes /\ End(TRUE, FALSE)
        /\ UNCHANGED <<versions, aitenant, inputVars, minted, stale>>
    BY DEF IInv, Fail
  <1>2. queued' \in BOOLEAN /\ disturb' \in 0..MaxDisturb
    <2>1. RouteEvent \in BOOLEAN
      BY DEF RouteEvent
    <2> QED
      BY <1>1, <2>1, BoundAssumption DEF Fail, Disturb, TypeOK
  <1>3. /\ objs' \subseteq Object /\ ProxyCanStart'
        /\ creds' \in [InfraNs -> Cred \cup {None}]
        /\ \A n \in InfraNs : creds'[n] \in {creds[n], None}
    <2>1. CASE pc = "apply" /\ (\E k \in 0..4 : objs' = Applied(k)) /\ UNCHANGED creds
      <3>1. PICK k \in 0..5 : objs' = Applied(k)
        BY <2>1
      <3>2. plan \in Params /\ plan.refresh < plan.expire
        BY <2>1 DEF IInv, PassTyped, Lifetimes, Working
      <3> QED
        BY <1>1, <2>1, <3>1, <3>2, AppliedFacts DEF TypeOK, ProxyCanStart
    <2>2. CASE pc = "clean" /\ (\E k \in 0..5 : objs' = Remaining(k) /\ creds' = RemainingCreds(k))
      <3>1. PICK k \in 0..6 : objs' = Remaining(k) /\ creds' = RemainingCreds(k)
        BY <2>2
      <3>2. snap.infra \in InfraNs
        BY <2>2 DEF IInv, PassTyped
      <3>3. objs' \subseteq objs
        BY <1>1, <3>1, <3>2, CleanFacts
      <3> QED
        BY <1>1, <3>1, <3>2, <3>3, CleanFacts DEF TypeOK, Lifetimes, ProxyCanStart
    <2>3. CASE pc \notin {"apply", "clean"} /\ UNCHANGED <<objs, creds>>
      BY <1>1, <2>3 DEF TypeOK, Lifetimes, ProxyCanStart
    <2> QED
      BY <2>1, <2>2, <2>3 DEF Fail
  <1>4. Cookies'
    BY <1>1, <1>3, EndFacts DEF IInv, Cookies, Managed
  <1> QED
    BY <1>1, <1>2, <1>3, <1>4, EndFacts DEF IInv, TypeOK, inputVars

LEMMA RestartKeeps == IInv /\ Restart => IInv'
  <1> SUFFICES ASSUME IInv, Restart PROVE IInv'
    OBVIOUS
  <1>1. TypeOK /\ versions' = <<live>> /\ live \in Mtc /\ NoMtc \in Mtc
    BY CopyTypes, PlaceAssumption DEF IInv, Restart, NoMtc, Mtc
  <1>2. versions' \in Seq(Mtc) /\ Len(versions') \in 1..(MaxLag + 1)
    <2> HIDE DEF live
    <2> QED
      BY <1>1, BoundAssumption
  <1>3. TypeOK'
    <2>1. disturb' \in 0..MaxDisturb
      BY <1>1, DisturbType DEF Restart
    <2> QED
      BY <1>1, <1>2, <2>1 DEF TypeOK, Restart, inputVars, outVars, Pc
  <1>4. PassTyped' /\ Locked' /\ Views' /\ (Lifetimes' <=> ProxyCanStart')
    BY IdleFacts DEF Restart
  <1>5. ProxyCanStart' /\ Cookies'
    BY DEF IInv, Lifetimes, ProxyCanStart, Cookies, Managed, Restart, outVars
  <1> QED
    BY <1>3, <1>4, <1>5 DEF IInv

LEMMA NextKeeps == IInv /\ [Next]_vars => IInv'
  <1> SUFFICES ASSUME IInv, [Next]_vars PROVE IInv'
    OBVIOUS
  <1>1. CASE UNCHANGED vars
    <2>1. /\ UNCHANGED <<versions, aitenant, inputVars, outVars, queued, timer, workVars, fresh>>
          /\ UNCHANGED disturb
      BY <1>1 DEF vars
    <2>2. PassTyped' /\ Lifetimes' /\ Cookies' /\ ObjectsCurrent'
      BY <2>1, WorkFrame DEF outVars, workVars
    <2>3. TypeOK' /\ Locked' /\ CopiesCurrent'
      BY <2>1 DEF IInv, TypeOK, Locked, Views, CopiesCurrent, inputVars, outVars, workVars, live
    <2>4. PlanCurrent' /\ CredsCurrent' /\ InputsCurrent'
      BY <2>1 DEF IInv, Views, PlanCurrent, CredsCurrent, InputsCurrent, inputVars, outVars,
         workVars, dashboardNamespace, RefreshInterval, CookieExpire
    <2> QED
      BY <2>2, <2>3, <2>4 DEF IInv, Views
  <1>2. CASE Worker
    BY <1>2, ReconcileKeeps, GateKeeps, EnsureFinalizerKeeps, ReadCredentialsKeeps,
       ApplyCredentialsKeeps, ReadInputsKeeps, ApplyObjectsKeeps, PruneStaleGrantsKeeps,
       CleanupKeeps, ReleaseKeeps DEF Worker
  <1>3. CASE Deliver \/ Tick
    BY <1>3, DeliverKeeps, EditsKeep
  <1>4. CASE Env
    BY <1>4, MtcWritesKeep, EditsKeep, FailKeeps, RestartKeeps DEF Env
  <1> QED
    BY <1>1, <1>2, <1>3, <1>4 DEF Next

\* The inductive invariant holds in every reachable state.
THEOREM Invariance == Spec => []IInv
  BY InitIInv, NextKeeps, PTL DEF Spec

\* The types, and with them that the callback's host of everything deployed is
\* an external name: gatewayHostname falls through to a listener, an address
\* or a Route that has one, or fails.
THEOREM TypeCorrect == Spec => []TypeOK
  <1>1. IInv => TypeOK
    BY DEF IInv
  <1> QED
    BY <1>1, Invariance, PTL

\* RefreshInterval: whatever lifetimes the AITenant asks for, every proxy
\* deployed refreshes its cookie before it expires, so that it starts.
THEOREM ProxiesStart == Spec => []ProxyCanStart
  <1>1. IInv => ProxyCanStart
    BY DEF IInv, Lifetimes
  <1> QED
    BY <1>1, Invariance, PTL

-----------------------------------------------------------------------------
(***************************************************************************)
(* Sessions.                                                               *)
(***************************************************************************)
\* Who writes the credentials Secret.
LEMMA CredsWriters ==
    ASSUME [Next]_vars
    PROVE  \/ UNCHANGED creds \/ ApplyCredentials \/ EditCredentials
           \/ \E k \in 0..6 : pc = "clean" /\ creds' = RemainingCreds(k)
  <1>1. CASE Worker
    <2>1. CASE Cleanup
      BY <2>1 DEF Cleanup
    <2> QED
      BY <1>1, <2>1 DEF Worker, Reconcile, Gate, EnsureFinalizer, ReadCredentials, ReadInputs,
         ApplyObjects, PruneStaleGrants, Release, outVars
  <1>2. CASE Deliver \/ Tick
    BY <1>2 DEF Deliver, Tick, outVars
  <1>3. CASE Fail
    BY <1>3 DEF Fail
  <1>4. CASE Env /\ ~Fail
    BY <1>4 DEF Env, EditAITenant, DeleteMtc, CreateMtc, EditMtc, EditGateway, EditDsci,
       EditService, EditSource, EditRedis, EditBundle, Restart, outVars
  <1>5. CASE UNCHANGED vars
    BY <1>5 DEF vars, outVars
  <1> QED
    BY <1>1, <1>2, <1>3, <1>4, <1>5 DEF Next

LEMMA SessionsStep ==
    ASSUME IInv, [Next]_vars, NEW n \in InfraNs,
           creds[n] # None, creds'[n] # None, creds[n].managed
    PROVE  creds'[n].cookie = creds[n].cookie
  <1>1. TypeOK
    BY DEF IInv
  <1>2. CASE UNCHANGED creds
    BY <1>2
  <1>3. CASE ApplyCredentials
    <2>1. creds' = [creds EXCEPT ![plan.infra] =
                      [client |-> plan.client, cookie |-> plan.cookie, managed |-> TRUE]]
      BY <1>3 DEF ApplyCredentials
    <2>2. CASE n = plan.infra
      <3>1. creds[n].cookie = plan.cookie
        BY <1>3, <2>2 DEF ApplyCredentials, IInv, Cookies, Managed
      <3> QED
        BY <1>1, <2>1, <2>2, <3>1 DEF TypeOK
    <2>3. CASE n # plan.infra
      BY <1>1, <2>1, <2>3 DEF TypeOK
    <2> QED
      BY <2>2, <2>3
  <1>4. CASE \E k \in 0..6 : pc = "clean" /\ creds' = RemainingCreds(k)
    <2>1. snap.infra \in InfraNs
      BY <1>4 DEF IInv, PassTyped
    <2> QED
      BY <1>1, <1>4, <2>1, CleanFacts
  <1>5. CASE EditCredentials
    <2>1. PICK i \in InfraNs : \/ creds' = [creds EXCEPT ![i] = None]
                               \/ creds[i] = None /\ \E r : creds' = [creds EXCEPT ![i] = r]
      BY <1>5 DEF EditCredentials
    <2> QED
      BY <1>1, <2>1 DEF TypeOK
  <1> QED
    BY <1>2, <1>3, <1>4, <1>5, CredsWriters

\* reconcileCredentials does not sign the users of a managed Secret out: the
\* apply is forced and checks no version, but a pass about to make it holds the
\* cookie of the managed Secret that is there, whatever is edited, fails or is
\* retried since its read (an administrator can only put an unmanaged one there).
THEOREM SessionsSurvive == Spec => SessionsKept
  <1>1. IInv /\ [Next]_vars => \A n \in InfraNs :
          creds[n] # None /\ creds'[n] # None /\ creds[n].managed => creds'[n].cookie = creds[n].cookie
    BY SessionsStep
  <1> QED
    BY <1>1, Invariance, PTL DEF Spec, SessionsKept

\* Nobody touches the Secret between a pass's read of it and its forced apply.
SecretAlone == pc = "secret" /\ pc' = "secret" => creds'[plan.infra] = creds[plan.infra]
HasCookie(n) == creds[n] # None /\ creds[n].cookie # 0
CookieHeld == pc = "secret" /\ HasCookie(plan.infra) => creds[plan.infra].cookie = plan.cookie
CookiesKept == [][\A n \in InfraNs :
    HasCookie(n) /\ creds'[n] # None => creds'[n].cookie = creds[n].cookie]_vars

LEMMA SecretPass ==
    ASSUME IInv, [Next]_vars, pc' = "secret"
    PROVE  ReadCredentials \/ (pc = "secret" /\ plan' = plan)
  <1>1. CASE Worker
    <2>1. CASE Reconcile
      <3>1. cached \in Mtc /\ aitenant \in Tenants \cup {NoTenant}
        BY CopyTypes DEF IInv, TypeOK
      <3>2. Dispatch(cached, aitenant) # "secret"
        BY <3>1, DispatchFacts
      <3> QED
        BY <2>1, <3>2 DEF Reconcile, End
    <2>2. CASE Gate \/ EnsureFinalizer \/ ApplyCredentials \/ ReadInputs
      BY <2>2 DEF Gate, EnsureFinalizer, ApplyCredentials, ReadInputs, End
    <2>3. CASE ApplyObjects \/ PruneStaleGrants \/ Cleanup \/ Release
      BY <2>3 DEF ApplyObjects, PruneStaleGrants, Cleanup, Release, End
    <2> QED
      BY <1>1, <2>1, <2>2, <2>3 DEF Worker
  <1>2. CASE Deliver \/ Tick
    BY <1>2 DEF Deliver, Tick, workVars
  <1>3. CASE Env
    BY <1>3 DEF Env, EditAITenant, DeleteMtc, CreateMtc, EditMtc, EditGateway, EditDsci,
       EditService, EditSource, EditRedis, EditBundle, EditCredentials, Restart, Fail, End, workVars
  <1>4. CASE UNCHANGED vars
    BY <1>4 DEF vars, workVars
  <1> QED
    BY <1>1, <1>2, <1>3, <1>4 DEF Next

LEMMA HeldStep ==
    ASSUME IInv, CookieHeld, [Next]_vars, [SecretAlone]_vars
    PROVE  CookieHeld'
  <1> SUFFICES ASSUME pc' = "secret" PROVE CookieHeld'
    BY DEF CookieHeld
  <1>1. CASE ReadCredentials
    <2>1. /\ creds' = creds
          /\ plan' = [plan EXCEPT !.client = source, !.cookie = KeepCookie(plan.infra)]
      BY <1>1 DEF ReadCredentials, End
    <2>2. plan \in Params
      BY <1>1 DEF IInv, PassTyped, Working, ReadCredentials
    <2>3. PICK k : k = KeepCookie(plan.infra)
      OBVIOUS
    <2>4. plan'.infra = plan.infra /\ plan'.cookie = k
      BY <2>1, <2>2, <2>3 DEF Params
    <2> QED
      BY <2>1, <2>3, <2>4 DEF CookieHeld, HasCookie, KeepCookie
  <1>2. CASE pc = "secret" /\ plan' = plan
    <2>1. creds'[plan.infra] = creds[plan.infra]
      BY <1>2 DEF SecretAlone, vars, outVars
    <2> QED
      BY <1>2, <2>1 DEF CookieHeld, HasCookie
  <1> QED
    BY <1>1, <1>2, SecretPass

LEMMA CookiesStep ==
    ASSUME IInv, CookieHeld, [Next]_vars, NEW n \in InfraNs, HasCookie(n), creds'[n] # None
    PROVE  creds'[n].cookie = creds[n].cookie
  <1>1. TypeOK
    BY DEF IInv
  <1>2. CASE ApplyCredentials
    <2>1. creds' = [creds EXCEPT ![plan.infra] =
                      [client |-> plan.client, cookie |-> plan.cookie, managed |-> TRUE]]
      BY <1>2 DEF ApplyCredentials
    <2>2. n = plan.infra => creds[n].cookie = plan.cookie
      BY <1>2 DEF ApplyCredentials, CookieHeld
    <2> QED
      BY <1>1, <2>1, <2>2 DEF TypeOK
  <1>3. CASE \E k \in 0..6 : pc = "clean" /\ creds' = RemainingCreds(k)
    <2>1. snap.infra \in InfraNs
      BY <1>3 DEF IInv, PassTyped
    <2> QED
      BY <1>1, <1>3, <2>1, CleanFacts DEF HasCookie
  <1>4. CASE EditCredentials
    <2>1. PICK i \in InfraNs : \/ creds' = [creds EXCEPT ![i] = None]
                               \/ creds[i] = None /\ \E r : creds' = [creds EXCEPT ![i] = r]
      BY <1>4 DEF EditCredentials
    <2> QED
      BY <1>1, <2>1 DEF TypeOK, HasCookie
  <1> QED
    BY <1>2, <1>3, <1>4, CredsWriters DEF HasCookie

\* The cookie of every credentials Secret, an administrator's included, outlives
\* all passes of reconcileCredentials as long as nobody creates or deletes the
\* Secret between a pass's read (credentials.go:98) and its apply (:155); an
\* administrator's Secret created in that window is overwritten.
THEOREM CookiesSurvive == Spec /\ [][SecretAlone]_vars => CookiesKept
  <1>1. Init => CookieHeld
    BY DEF Init, CookieHeld
  <1>2. IInv /\ CookieHeld /\ [Next]_vars /\ [SecretAlone]_vars => CookieHeld'
    BY HeldStep
  <1>3. IInv /\ CookieHeld /\ [Next]_vars => \A n \in InfraNs :
          HasCookie(n) /\ creds'[n] # None => creds'[n].cookie = creds[n].cookie
    BY CookiesStep
  <1> QED
    BY <1>1, <1>2, <1>3, Invariance, PTL DEF Spec, CookiesKept

-----------------------------------------------------------------------------
(***************************************************************************)
(* Events.                                                                 *)
(***************************************************************************)
\* Params that a reconcile of the present state would gather, but for what
\* only the resync looks at.
UpToDate(q) ==
    /\ q.infra = live.infra /\ q.gw = aitenant.gw
    /\ q.client = creds[live.infra].client /\ q.cookie = creds[live.infra].cookie
    /\ q.redis = redis[live.infra] /\ q.bundle = bundle[live.infra]
    /\ q.refresh = RefreshInterval(aitenant) /\ q.expire = CookieExpire(aitenant)
    /\ DsciWatched => q.dash = dashboardNamespace

\* EventsSuffice, field by field.
Suffices ==
    pc = "idle" /\ ~queued /\ Len(versions) = 1 /\ applied =>
      /\ live.infra \in InfraNs /\ creds[live.infra] # None
      /\ aitenant.ref => source = creds[live.infra].client
      /\ \A i \in 1..5 : \E o \in objs : o.kind = ApplyOrder[i] /\ UpToDate(o.of)

LEMMA SufficesImplies == TypeOK /\ Suffices => EventsSuffice
  <1> SUFFICES ASSUME TypeOK, Suffices, pc = "idle", ~queued, Len(versions) = 1, applied
               PROVE  LET p == Current
                          seen(o) == [o.of EXCEPT !.host = p.host,
                                                  !.dash = IF DsciWatched THEN @ ELSE p.dash]
                      IN  /\ live.infra # None /\ creds[live.infra] # None
                          /\ aitenant.ref => source = creds[live.infra].client
                          /\ \A i \in 1..5 : \E o \in objs : o.kind = ApplyOrder[i] /\ seen(o) = p
    BY DEF EventsSuffice
  <1> DEFINE p == Current
             seen(o) == [o.of EXCEPT !.host = p.host, !.dash = IF DsciWatched THEN @ ELSE p.dash]
  <1>1. live.infra # None
    BY PlaceAssumption DEF Suffices
  <1>2. ASSUME NEW i \in 1..5 PROVE \E o \in objs : o.kind = ApplyOrder[i] /\ seen(o) = p
    <2>1. PICK o \in objs : o.kind = ApplyOrder[i] /\ UpToDate(o.of)
      BY DEF Suffices
    <2>2. PICK q \in Params : q = o.of
      BY DEF TypeOK, Object
    <2>3. PICK h : h = gatewayHostname(gateway[aitenant.gw])
      OBVIOUS
    <2>4. PICK r : r = RefreshInterval(aitenant)
      OBVIOUS
    <2>5. PICK e : e = CookieExpire(aitenant)
      OBVIOUS
    <2>6. PICK d : d = dashboardNamespace
      OBVIOUS
    <2>7. p = [infra |-> live.infra, dash |-> d, gw |-> aitenant.gw, host |-> h,
               client |-> creds[live.infra].client, cookie |-> creds[live.infra].cookie,
               redis |-> redis[live.infra], bundle |-> bundle[live.infra],
               refresh |-> r, expire |-> e]
      BY <2>3, <2>4, <2>5, <2>6 DEF Current
    <2>8. /\ q.infra = live.infra /\ q.gw = aitenant.gw
          /\ q.client = creds[live.infra].client /\ q.cookie = creds[live.infra].cookie
          /\ q.redis = redis[live.infra] /\ q.bundle = bundle[live.infra]
          /\ q.refresh = r /\ q.expire = e /\ (DsciWatched => q.dash = d)
      BY <2>1, <2>2, <2>4, <2>5, <2>6 DEF UpToDate
    <2>9. seen(o) = [q EXCEPT !.host = h, !.dash = d]
      <3>1. (IF DsciWatched THEN q.dash ELSE d) = d
        BY <2>8
      <3>2. p.host = h /\ p.dash = d
        BY <2>7
      <3> HIDE DEF p
      <3> QED
        BY <2>2, <3>1, <3>2, BoundAssumption DEF Params
    <2>10. q = [infra |-> live.infra, dash |-> q.dash, gw |-> aitenant.gw, host |-> q.host,
                client |-> creds[live.infra].client, cookie |-> creds[live.infra].cookie,
                redis |-> redis[live.infra], bundle |-> bundle[live.infra],
                refresh |-> r, expire |-> e]
      BY <2>8 DEF Params
    <2>11. seen(o) = p
      <3> DEFINE rec(host, dash) ==
                   [infra |-> live.infra, dash |-> dash, gw |-> aitenant.gw, host |-> host,
                    client |-> creds[live.infra].client, cookie |-> creds[live.infra].cookie,
                    redis |-> redis[live.infra], bundle |-> bundle[live.infra],
                    refresh |-> r, expire |-> e]
      <3>1. ASSUME NEW x, NEW y PROVE [rec(x, y) EXCEPT !.host = h] = rec(h, y)
        OBVIOUS
      <3>2. ASSUME NEW x, NEW y PROVE [rec(x, y) EXCEPT !.dash = d] = rec(x, d)
        OBVIOUS
      <3>3. q = rec(q.host, q.dash) /\ p = rec(h, d)
        BY <2>7, <2>10
      <3>4. [q EXCEPT !.host = h, !.dash = d] = [[q EXCEPT !.host = h] EXCEPT !.dash = d]
        OBVIOUS
      <3> HIDE DEF p, seen, rec
      <3>5. [q EXCEPT !.host = h] = rec(h, q.dash)
        BY <3>1, <3>3
      <3>6. [[q EXCEPT !.host = h] EXCEPT !.dash = d] = rec(h, d)
        BY <3>2, <3>5
      <3> QED
        BY <2>9, <3>3, <3>4, <3>6
    <2> QED
      BY <2>1, <2>11
  <1> QED
    BY <1>1, <1>2 DEF Suffices

\* A reconcile that runs to its end leaves objects that are up to date.
LEMMA PruneSuffices == IInv /\ PruneStaleGrants => Suffices'
  <1> SUFFICES ASSUME IInv, PruneStaleGrants, ~queued', Len(versions') = 1 PROVE Suffices'
    BY DEF Suffices
  <1>1. /\ pc = "prune" /\ ~queued /\ Len(versions) = 1 /\ plan \in Params
        /\ objs' = {o \in objs : o.kind = "grant" => o.ns = plan.dash}
        /\ UNCHANGED <<versions, aitenant, inputVars, creds>>
    BY DEF IInv, PassTyped, Working, PruneStaleGrants
  <1>2. snap = live /\ ten = aitenant
    BY <1>1 DEF IInv, Views, CopiesCurrent
  <1>3. plan.infra = live.infra /\ live.infra \in InfraNs
    BY <1>1, <1>2 DEF IInv, Views, PlanCurrent, Working, Params
  <1>4. UpToDate(plan)
    BY <1>1, <1>2, <1>3 DEF UpToDate, IInv, Views, PlanCurrent, CredsCurrent, InputsCurrent, Working
  <1>5. creds[live.infra] # None /\ (aitenant.ref => source = creds[live.infra].client)
    BY <1>1, <1>2, <1>3 DEF IInv, Views, CredsCurrent
  <1>6. ASSUME NEW i \in 1..5
        PROVE  \E o \in objs' : o.kind = ApplyOrder[i] /\ o.of = plan
    <2> DEFINE o == Render(plan, ApplyOrder[i])
    <2>1. o \in objs /\ o.kind = ApplyOrder[i] /\ o.of = plan /\ o.ns = Place(ApplyOrder[i], plan)
      BY <1>1 DEF IInv, Views, ObjectsCurrent, Render
    <2>2. o.kind = "grant" => o.ns = plan.dash
      BY <2>1 DEF Place
    <2> HIDE DEF o
    <2> QED
      BY <1>1, <2>1, <2>2
  <1>7. /\ live' = live /\ dashboardNamespace' = dashboardNamespace /\ aitenant' = aitenant
        /\ UNCHANGED <<creds, redis, bundle, source>>
    BY <1>1 DEF live, dashboardNamespace, inputVars
  <1>8. ASSUME NEW o \in objs', o.of = plan PROVE UpToDate(o.of)'
    BY <1>4, <1>7, <1>8 DEF UpToDate, RefreshInterval, CookieExpire
  <1> QED
    BY <1>3, <1>5, <1>6, <1>7, <1>8 DEF Suffices

\* What leaves the worker idle and everything the Params depend on unchanged,
\* or is followed by an event, or puts the worker to work.
LEMMA SufficesStep == IInv /\ Suffices /\ [Next]_vars => Suffices'
  <1> SUFFICES ASSUME IInv, Suffices, [Next]_vars PROVE Suffices'
    OBVIOUS
  <1>1. CASE pc' # "idle" \/ queued' \/ Len(versions') # 1 \/ ~applied'
    BY <1>1 DEF Suffices
  <1>2. CASE PruneStaleGrants
    BY <1>2, PruneSuffices
  <1>3. CASE /\ UNCHANGED <<pc, versions, applied, aitenant, creds, objs, redis>>
             /\ queued => queued'
             /\ source' = source \/ ~aitenant.ref
             /\ DsciWatched => dsci' = dsci
             /\ \A n \in InfraNs : n = cached.infra => bundle'[n] = bundle[n]
    <2> SUFFICES ASSUME pc = "idle", ~queued, Len(versions) = 1, applied PROVE Suffices'
      BY <1>3 DEF Suffices
    <2>1. /\ live' = live /\ cached = live /\ (DsciWatched => dashboardNamespace' = dashboardNamespace)
      BY <1>3, CopyTypes DEF IInv, live, dashboardNamespace
    <2>2. bundle'[live.infra] = bundle[live.infra]
      BY <1>3, <2>1 DEF Suffices
    <2>3. ASSUME NEW q, UpToDate(q) PROVE UpToDate(q)'
      BY <1>3, <2>1, <2>2, <2>3 DEF UpToDate, RefreshInterval, CookieExpire
    <2>4. \A i \in 1..5 : \E o \in objs : o.kind = ApplyOrder[i] /\ UpToDate(o.of)
      BY DEF Suffices
    <2>5. ASSUME NEW i \in 1..5 PROVE \E o \in objs' : o.kind = ApplyOrder[i] /\ UpToDate(o.of)'
      BY <1>3, <2>3, <2>4
    <2> QED
      BY <1>3, <2>1, <2>5 DEF Suffices
  <1>4. CASE Worker /\ ~PruneStaleGrants
    <2>1. CASE Reconcile
      <3> DEFINE next == Dispatch(cached, aitenant)
      <3>1. next # "idle"
        BY CopyTypes, DispatchFacts DEF IInv, TypeOK
      <3>2. CASE next \in {"done", "wait"}
        BY <1>1, <2>1, <3>2 DEF Reconcile, End
      <3>3. CASE next \notin {"done", "wait"}
        BY <1>1, <2>1, <3>1, <3>3 DEF Reconcile
      <3> QED
        BY <3>2, <3>3
    <2>2. CASE Gate
      BY <1>1, <2>2 DEF Gate, End
    <2>3. CASE EnsureFinalizer \/ ReadCredentials \/ Release
      BY <1>1, <2>3 DEF EnsureFinalizer, ReadCredentials, Release, End
    <2>4. CASE ApplyCredentials \/ ReadInputs \/ ApplyObjects \/ Cleanup
      BY <1>1, <2>4 DEF ApplyCredentials, ReadInputs, ApplyObjects, Cleanup
    <2> QED
      BY <1>4, <2>1, <2>2, <2>3, <2>4 DEF Worker
  <1>5. CASE Deliver \/ Tick \/ EditAITenant \/ EditService \/ EditRedis \/ EditCredentials
               \/ Fail \/ Restart
    BY <1>1, <1>5 DEF Deliver, Tick, EditAITenant, EditService, EditRedis, EditCredentials, Fail,
       Restart, End
  <1>6. CASE DeleteMtc \/ CreateMtc \/ EditMtc
    <2>1. PICK m \in Mtc : versions' = Push(m) /\ queued' = (queued \/ MaxLag = 0)
      <3>1. live \in Mtc /\ NoMtc \in Mtc
        BY CopyTypes, PlaceAssumption DEF IInv, NoMtc, Mtc
      <3>2. \A n \in InfraNs : [live EXCEPT !.infra = n] \in Mtc
        BY <3>1 DEF Mtc
      <3>3. /\ [live EXCEPT !.phase = "deleting"] \in Mtc
            /\ [NoMtc EXCEPT !.phase = "live", !.default = TRUE] \in Mtc
            /\ [live EXCEPT !.default = ~live.default] \in Mtc
        BY <3>1 DEF Mtc
      <3> QED
        BY <1>6, <3>1, <3>2, <3>3 DEF DeleteMtc, CreateMtc, EditMtc, Write
    <2>2. Len(versions') # 1 \/ queued'
      BY <2>1, PushFacts DEF IInv
    <2> QED
      BY <1>1, <2>2
  <1>7. CASE EditGateway
    BY <1>3, <1>7 DEF EditGateway, outVars, workVars
  <1>8. CASE EditDsci
    <2>1. CASE DsciWatched
      BY <1>1, <1>8, <2>1 DEF EditDsci
    <2>2. CASE ~DsciWatched
      BY <1>3, <1>8, <2>2 DEF EditDsci, outVars, workVars
    <2> QED
      BY <2>1, <2>2
  <1>9. CASE EditSource
    <2>1. CASE aitenant.ref
      BY <1>1, <1>9, <2>1 DEF EditSource
    <2>2. CASE ~aitenant.ref
      BY <1>3, <1>9, <2>2 DEF EditSource, outVars, workVars
    <2> QED
      BY <2>1, <2>2
  <1>10. CASE EditBundle
    <2>1. PICK n, d :
            /\ n \in InfraNs /\ bundle' = [bundle EXCEPT ![n] = d] /\ queued' = (queued \/ cached.infra = n)
      BY <1>10 DEF EditBundle, maasTenantConfigForCABundle
    <2>2. CASE cached.infra = n
      BY <1>1, <2>1, <2>2
    <2>3. CASE cached.infra # n
      <3>1. \A k \in InfraNs : k = cached.infra => bundle'[k] = bundle[k]
        BY <2>1, <2>3 DEF IInv, TypeOK
      <3> QED
        BY <1>3, <1>10, <2>1, <2>3, <3>1 DEF EditBundle, outVars, workVars
    <2> QED
      BY <2>2, <2>3
  <1>11. CASE UNCHANGED vars
    BY <1>3, <1>11 DEF vars, inputVars, outVars, workVars
  <1> QED
    BY <1>2, <1>4, <1>5, <1>6, <1>7, <1>8, <1>9, <1>10, <1>11 DEF Next, Env

\* SetupWithManager watches enough: between two reconciles the rendered portal
\* is built from the present MTC, AITenant, Secrets and CA bundle, or an event
\* is on its way, whichever of them changed at whichever step of a reconcile.
THEOREM WatchesSuffice == Spec => []EventsSuffice
  <1>1. Init => Suffices
    BY DEF Init, Suffices
  <1>2. IInv /\ Suffices => EventsSuffice
    BY SufficesImplies DEF IInv
  <1> QED
    BY <1>1, <1>2, SufficesStep, Invariance, PTL DEF Spec

-----------------------------------------------------------------------------
(***************************************************************************)
(* The finalizer.                                                          *)
(***************************************************************************)
\* Writes and deliveries keep what the versions agree on.
LEMMA SeenPush ==
    ASSUME TypeOK, FinalizerSeen, NEW m \in Mtc, versions' = Push(m),
           m.fin => m.phase # "gone" /\ m.infra \in InfraNs,
           m.fin /\ live.fin => m.infra = live.infra,
           m.fin /\ ~live.fin => Len(versions) = 1
    PROVE  FinalizerSeen' /\ live' = m
  <1>1. live' = m
    BY PushFacts DEF live
  <1>2. ASSUME NEW i \in DOMAIN versions', versions'[i].fin
        PROVE  /\ versions'[i].phase # "gone" /\ versions'[i].infra \in InfraNs
               /\ m.fin => versions'[i].infra = m.infra
    <2>1. CASE i = Len(versions')
      BY <1>1, <1>2, <2>1 DEF live
    <2>2. CASE i # Len(versions')
      <3>1. PICK j \in DOMAIN versions : versions'[i] = versions[j]
        BY <2>2, PushFacts
      <3>2. m.fin /\ ~live.fin => FALSE
        <4>1. m.fin /\ ~live.fin => versions[j] = live
          BY CopyTypes DEF live
        <4> QED
          BY <1>2, <3>1, <4>1
      <3> QED
        BY <1>2, <3>1, <3>2 DEF FinalizerSeen
    <2> QED
      BY <2>1, <2>2
  <1> QED
    BY <1>1, <1>2 DEF FinalizerSeen

LEMMA SeenFrame ==
    ASSUME TypeOK, FinalizerSeen, UNCHANGED versions PROVE FinalizerSeen' /\ live' = live
  BY DEF FinalizerSeen, live

\* A step of others that leaves the finalizer and the namespace of a guarded
\* MTC alone, makes no objects and no managed credentials.
LEMMA GuardFrame ==
    ASSUME Guarded, UNCHANGED <<pc, snap, objs>>,
           live.fin => live'.fin /\ live'.infra = live.infra,
           \A n \in InfraNs : Managed(n)' => Managed(n)
    PROVE  Guarded'
  BY DEF Guarded, Owning, Working

\* A reconcile that ends with no more objects than it found, or none.
LEMMA GuardIdle ==
    ASSUME Guarded, pc' = "idle",
           live' = live \/ (objs' = {} /\ \A n \in InfraNs : ~Managed(n)'),
           \A o \in objs' : o \in objs \/ (live.fin /\ (o.kind = "proxy" => o.ns = live.infra)),
           \A n \in InfraNs : Managed(n)' => Managed(n)
    PROVE  Guarded'
  BY DEF Guarded, Owning, Working

\* What the first k objects of a rendering add.
LEMMA AppliedPlaces ==
    ASSUME NEW k \in 0..5, NEW o \in Applied(k)
    PROVE  o \in objs \/ (o.kind = "proxy" => o.ns = plan.infra)
  BY DEF Applied, Render, Place

\* The cleanup of a guarded MTC leaves nothing.
LEMMA CleanupEmpties ==
    ASSUME TypeOK, Guarded, pc = "clean", snap.infra \in InfraNs
    PROVE  /\ Remaining(6) = {}
           /\ \A n \in InfraNs : creds[n] # None /\ creds[n].managed => RemainingCreds(6)[n] = None
  <1>1. live.infra = snap.infra
    BY DEF Guarded
  <1>2. ASSUME NEW o \in Remaining(6) PROVE FALSE
    <2>1. /\ o \in objs /\ (o.kind = "proxy" => o.ns = snap.infra)
          /\ \A i \in 1..6 : CleanOrder[i] # o.kind \/ (o.kind = "proxy" /\ o.ns # snap.infra)
      BY <1>1 DEF Remaining, Guarded
    <2>2. \A i \in 1..6 : CleanOrder[i] # o.kind
      BY <2>1
    <2>3. o.kind \in {"proxy", "routes", "grant", "mesh", "policies"}
      BY <2>1, KindFacts DEF TypeOK, Object
    <2>4. /\ CleanOrder[1] = "routes" /\ CleanOrder[2] = "grant" /\ CleanOrder[3] = "policies"
          /\ CleanOrder[4] = "mesh" /\ CleanOrder[5] = "proxy"
      BY DEF CleanOrder
    <2> QED
      BY <2>2, <2>3, <2>4
  <1>3. ASSUME NEW n \in InfraNs, creds[n] # None, creds[n].managed
        PROVE  RemainingCreds(6)[n] = None
    <2>1. n = snap.infra
      BY <1>1, <1>3 DEF Guarded, Managed
    <2> QED
      BY <1>3, <2>1 DEF RemainingCreds, TypeOK
  <1> QED
    BY <1>2, <1>3

\* Where the infrastructure namespace never changes, every step keeps it all.
LEMMA GuardStep ==
    ASSUME InfraMoves = FALSE, IInv, GuardInv, [Next]_vars PROVE GuardInv'
  <1>1. /\ TypeOK /\ FinalizerSeen /\ live \in Mtc /\ cached \in Mtc /\ NoMtc \in Mtc
        /\ (~stale => Guarded) /\ (live.fin => live.phase # "gone" /\ live.infra \in InfraNs)
    BY CopyTypes, PlaceAssumption DEF IInv, GuardInv, FinalizerSeen, live, NoMtc, Mtc
  <1>2. CASE Reconcile
    <2>1. FinalizerSeen' /\ live' = live
      BY <1>1, <1>2, SeenFrame DEF Reconcile
    <2>2. UNCHANGED <<objs, creds>>
      BY <1>2 DEF Reconcile, outVars
    <2>3. ASSUME ~stale' PROVE Guarded'
      <3> DEFINE next == Dispatch(cached, aitenant)
      <3>1. ~stale /\ Guarded /\ (cached.fin => live.fin)
        BY <1>1, <1>2, <2>3 DEF Reconcile
      <3>2. cached.fin => cached.infra = live.infra /\ cached.infra \in InfraNs
        BY <1>1, <3>1, CopyTypes DEF FinalizerSeen, cached
      <3>3. /\ next \in {"done", "wait", "gate", "clean", "release"}
            /\ next = "clean" => cached.fin
            /\ next = "release" => cached.fin /\ cached.infra \notin InfraNs
        BY <1>1, DispatchFacts DEF TypeOK
      <3>4. CASE next \in {"done", "wait"}
        <4>1. pc' = "idle"
          BY <1>2, <3>4 DEF Reconcile, End
        <4> QED
          BY <2>1, <2>2, <3>1, <4>1, GuardIdle DEF Managed
      <3>5. CASE next \notin {"done", "wait"}
        <4>1. pc' = next /\ snap' = cached
          BY <1>2, <3>5 DEF Reconcile
        <4> HIDE DEF next
        <4> QED
          BY <2>1, <2>2, <3>1, <3>2, <3>3, <3>5, <4>1 DEF Guarded, Managed, Owning, Working
      <3> QED
        BY <3>4, <3>5
    <2> QED
      BY <2>1, <2>3 DEF GuardInv
  <1>3. CASE Gate
    <2>1. FinalizerSeen' /\ live' = live /\ stale' = stale
      BY <1>1, <1>3, SeenFrame DEF Gate
    <2>2. UNCHANGED <<objs, creds>> /\ pc = "gate"
      BY <1>3 DEF Gate, outVars
    <2>3. \/ pc' = "idle" \/ (pc' = "clean" /\ snap.fin /\ snap' = snap)
          \/ (pc' = "finalizer" /\ snap' = snap)
      BY <1>3 DEF Gate, End
    <2>4. ASSUME Guarded PROVE Guarded'
      BY <2>1, <2>2, <2>3, <2>4, GuardIdle DEF Guarded, Managed, Owning, Working
    <2> QED
      BY <1>1, <2>1, <2>4 DEF GuardInv
  <1>4. CASE EnsureFinalizer
    <2>1. UNCHANGED <<objs, creds, stale>> /\ pc = "finalizer"
      BY <1>4 DEF EnsureFinalizer, outVars
    <2>2. CASE snap.fin /\ pc' = "source" /\ UNCHANGED <<versions, snap>>
      BY <1>1, <2>1, <2>2, SeenFrame DEF GuardInv, Guarded, Managed, Owning, Working
    <2>3. CASE ~snap.fin /\ fresh /\ pc' = "source" /\ WriteBack([live EXCEPT !.fin = TRUE])
               /\ live.phase = "live"
      <3> DEFINE m == [live EXCEPT !.fin = TRUE]
      <3>1. m \in Mtc /\ m.infra = live.infra /\ m.fin /\ m.phase = "live"
        BY <1>1, <2>3 DEF Mtc
      <3>2. versions' = Push(m) /\ snap' = m
        BY <2>3 DEF WriteBack
      <3> HIDE DEF m
      <3>3. live = snap /\ ~live.fin /\ Len(versions) = 1 /\ live.infra \in InfraNs
        BY <2>1, <2>3 DEF IInv, Locked, Views, PlanCurrent, PassTyped, Params, Working
      <3>4. FinalizerSeen' /\ live' = m
        BY <1>1, <3>1, <3>2, <3>3, SeenPush
      <3>5. ASSUME Guarded PROVE Guarded'
        BY <2>1, <2>3, <3>1, <3>2, <3>3, <3>4, <3>5 DEF Guarded, Managed, Owning, Working
      <3> QED
        BY <1>1, <2>1, <3>4, <3>5 DEF GuardInv
    <2>4. CASE End(TRUE, FALSE) /\ UNCHANGED <<versions, queued>>
      BY <1>1, <2>1, <2>4, SeenFrame, GuardIdle DEF GuardInv, End, Managed
    <2> QED
      BY <1>4, <2>2, <2>3, <2>4 DEF EnsureFinalizer
  <1>5. CASE ReadCredentials
    <2>1. UNCHANGED <<versions, objs, creds, stale>> /\ pc = "source"
      BY <1>5 DEF ReadCredentials
    <2>2. pc' = "idle" \/ (pc' \in {"secret", "inputs"} /\ snap' = snap)
      BY <1>5 DEF ReadCredentials, End
    <2>3. ASSUME Guarded PROVE Guarded'
      BY <1>1, <2>1, <2>2, <2>3, SeenFrame, GuardIdle DEF Guarded, Managed, Owning, Working
    <2> QED
      BY <1>1, <2>1, <2>3, SeenFrame DEF GuardInv
  <1>6. CASE ApplyCredentials
    <2>1. UNCHANGED <<versions, objs, snap, stale>> /\ pc = "secret" /\ pc' = "inputs"
      BY <1>6 DEF ApplyCredentials
    <2>2. plan.infra = snap.infra
      BY <2>1 DEF IInv, Views, PlanCurrent, Working
    <2>3. \A n \in InfraNs : n # plan.infra => creds'[n] = creds[n]
      BY <1>1, <1>6 DEF ApplyCredentials, TypeOK
    <2>4. ASSUME Guarded PROVE Guarded'
      <3>1. live.fin /\ live.infra = plan.infra /\ live' = live /\ snap.fin
        BY <1>1, <2>1, <2>2, <2>4, SeenFrame DEF Guarded, Owning, Working
      <3>2. \A n \in InfraNs : Managed(n)' => Managed(n) \/ n = plan.infra
        BY <2>3 DEF Managed
      <3> QED
        BY <2>1, <2>4, <3>1, <3>2 DEF Guarded, Owning, Working
    <2> QED
      BY <1>1, <2>1, <2>4, SeenFrame DEF GuardInv
  <1>7. CASE ReadInputs
    <2>1. UNCHANGED <<versions, objs, creds, snap, stale>> /\ pc = "inputs" /\ pc' = "apply"
      BY <1>7 DEF ReadInputs, outVars
    <2>2. ASSUME Guarded PROVE Guarded'
      BY <1>1, <2>1, <2>2, SeenFrame DEF Guarded, Managed, Owning, Working
    <2> QED
      BY <1>1, <2>1, <2>2, SeenFrame DEF GuardInv
  <1>8. CASE ApplyObjects
    <2>1. /\ UNCHANGED <<versions, creds, snap, stale>> /\ pc = "apply" /\ pc' = "prune"
          /\ objs' = Applied(5)
      BY <1>8 DEF ApplyObjects
    <2>2. plan.infra = snap.infra
      BY <2>1 DEF IInv, Views, PlanCurrent, Working
    <2>3. ASSUME Guarded PROVE Guarded'
      <3>1. live.fin /\ live.infra = plan.infra /\ live' = live /\ snap.fin
        BY <1>1, <2>1, <2>2, <2>3, SeenFrame DEF Guarded, Owning, Working
      <3>2. \A o \in objs' : o \in objs \/ (o.kind = "proxy" => o.ns = plan.infra)
        BY <2>1, AppliedPlaces
      <3> QED
        BY <2>1, <2>3, <3>1, <3>2 DEF Guarded, Managed, Owning, Working
    <2> QED
      BY <1>1, <2>1, <2>3, SeenFrame DEF GuardInv
  <1>9. CASE PruneStaleGrants
    <2>1. UNCHANGED <<versions, creds, stale>> /\ pc' = "idle" /\ objs' \subseteq objs
      BY <1>9 DEF PruneStaleGrants, End
    <2>2. ASSUME Guarded PROVE Guarded'
      BY <1>1, <2>1, <2>2, SeenFrame, GuardIdle DEF Managed
    <2> QED
      BY <1>1, <2>1, <2>2, SeenFrame DEF GuardInv
  <1>10. CASE Cleanup
    <2>1. /\ UNCHANGED <<versions, snap, stale>> /\ pc = "clean" /\ pc' = "release"
          /\ objs' = Remaining(6) /\ creds' = RemainingCreds(6) /\ snap.infra \in InfraNs
      BY <1>10 DEF Cleanup, IInv, PassTyped
    <2>2. ASSUME Guarded PROVE Guarded'
      <3>1. objs' = {} /\ \A n \in InfraNs : ~Managed(n)'
        <4>1. \A n \in InfraNs : creds'[n] \in {creds[n], None}
          BY <1>1, <2>1, CleanFacts
        <4> QED
          BY <1>1, <2>1, <2>2, <4>1, CleanupEmpties DEF Managed
      <3> QED
        BY <1>1, <2>1, <2>2, <3>1, SeenFrame DEF Guarded, Owning, Working
    <2> QED
      BY <1>1, <2>1, <2>2, SeenFrame DEF GuardInv
  <1>11. CASE Release
    <2>1. UNCHANGED <<objs, creds, stale>> /\ pc = "release" /\ pc' = "idle"
      BY <1>11 DEF Release, End, outVars
    <2>2. FinalizerSeen'
      <3> DEFINE m == IF live.phase = "deleting" THEN NoMtc ELSE [live EXCEPT !.fin = FALSE]
      <3>1. m \in Mtc /\ ~m.fin
        BY <1>1 DEF NoMtc, Mtc
      <3>2. versions' = Push(m) \/ versions' = versions
        BY <1>11 DEF Release
      <3> HIDE DEF m
      <3> QED
        BY <1>1, <3>1, <3>2, SeenPush, SeenFrame
    <2>3. ASSUME Guarded PROVE Guarded'
      <3>1. objs' = {} /\ \A n \in InfraNs : ~Managed(n)'
        BY <2>1, <2>3 DEF Guarded, Managed
      <3> QED
        BY <2>1, <3>1 DEF Guarded, Owning, Working
    <2> QED
      BY <1>1, <2>1, <2>2, <2>3 DEF GuardInv
  <1>12. CASE Deliver
    <2>1. UNCHANGED <<pc, snap, objs, creds, stale>>
      BY <1>12 DEF Deliver, outVars, workVars
    <2>2. live' = live /\ FinalizerSeen'
      <3>1. /\ live' = live
            /\ \A i \in DOMAIN versions' : \E j \in DOMAIN versions : versions'[i] = versions[j]
        BY <1>1, <1>12, TailFacts DEF Deliver, live
      <3> QED
        BY <1>1, <3>1 DEF FinalizerSeen
    <2>3. ASSUME Guarded PROVE Guarded'
      BY <2>1, <2>2, <2>3, GuardFrame DEF Managed
    <2> QED
      BY <1>1, <2>1, <2>2, <2>3 DEF GuardInv
  <1>13. CASE DeleteMtc \/ CreateMtc \/ EditMtc
    <2>1. UNCHANGED <<pc, snap, objs, creds, stale>>
      BY <1>13 DEF DeleteMtc, CreateMtc, EditMtc, outVars, workVars
    <2>2. PICK m \in Mtc : /\ versions' = Push(m)
                           /\ m.fin => live.fin /\ m.phase # "gone"
                           /\ live.fin => m.fin /\ m.infra = live.infra
      <3>1. CASE DeleteMtc
        <4>1. CASE live.fin
          <5>1. /\ [live EXCEPT !.phase = "deleting"] \in Mtc
                /\ [live EXCEPT !.phase = "deleting"].fin = live.fin
                /\ [live EXCEPT !.phase = "deleting"].phase = "deleting"
                /\ [live EXCEPT !.phase = "deleting"].infra = live.infra
            BY <1>1 DEF Mtc
          <5> QED
            BY <3>1, <4>1, <5>1 DEF DeleteMtc, Write
        <4>2. CASE ~live.fin
          <5>1. NoMtc.fin = FALSE
            BY DEF NoMtc
          <5> QED
            BY <1>1, <3>1, <4>2, <5>1 DEF DeleteMtc, Write
        <4> QED
          BY <4>1, <4>2
      <3>2. CASE CreateMtc
        <4> DEFINE m == [NoMtc EXCEPT !.phase = "live", !.default = TRUE]
        <4>1. m \in Mtc /\ m.fin = FALSE /\ ~live.fin
          BY <1>1, <3>2 DEF Mtc, NoMtc, CreateMtc
        <4>2. versions' = Push(m)
          BY <3>2 DEF CreateMtc, Write
        <4> HIDE DEF m
        <4> QED
          BY <4>1, <4>2
      <3>3. CASE EditMtc
        <4>1. CASE Write([live EXCEPT !.default = ~live.default])
          <5> DEFINE m == [live EXCEPT !.default = ~live.default]
          <5>1. m \in Mtc /\ m.fin = live.fin /\ m.infra = live.infra /\ m.phase = "live"
            BY <1>1, <3>3 DEF Mtc, EditMtc
          <5>2. versions' = Push(m)
            BY <4>1 DEF Write
          <5> HIDE DEF m
          <5> QED
            BY <5>1, <5>2
        <4>2. CASE live.infra = None /\ \E n \in InfraNs : Write([live EXCEPT !.infra = n])
          <5>1. PICK n \in InfraNs : versions' = Push([live EXCEPT !.infra = n])
            BY <4>2 DEF Write
          <5> DEFINE m == [live EXCEPT !.infra = n]
          <5>2. m \in Mtc /\ m.fin = live.fin
            BY <1>1 DEF Mtc
          <5>3. ~live.fin
            BY <1>1, <4>2, PlaceAssumption
          <5> HIDE DEF m
          <5> QED
            BY <5>1, <5>2, <5>3 DEF m
        <4> QED
          BY <3>3, <4>1, <4>2 DEF EditMtc
      <3> QED
        BY <1>13, <3>1, <3>2, <3>3
    <2>3. FinalizerSeen' /\ live' = m
      BY <1>1, <2>2, SeenPush
    <2>4. ASSUME Guarded PROVE Guarded'
      BY <2>1, <2>2, <2>3, <2>4, GuardFrame DEF Managed
    <2> QED
      BY <1>1, <2>1, <2>3, <2>4 DEF GuardInv
  <1>14. CASE EditCredentials
    <2>1. UNCHANGED <<versions, pc, snap, objs, stale>>
      BY <1>14 DEF EditCredentials, workVars
    <2>2. \A n \in InfraNs : Managed(n)' => Managed(n)
      <3>1. PICK n, r :
              n \in InfraNs /\ creds' = [creds EXCEPT ![n] = r] /\ (r = None \/ r.managed = FALSE)
        <4>1. \A d, c : [client |-> d, cookie |-> c, managed |-> FALSE].managed = FALSE
          OBVIOUS
        <4> QED
          BY <1>14, <4>1 DEF EditCredentials
      <3> QED
        BY <1>1, <3>1 DEF TypeOK, Managed
    <2>3. ASSUME Guarded PROVE Guarded'
      BY <1>1, <2>1, <2>2, <2>3, SeenFrame, GuardFrame
    <2> QED
      BY <1>1, <2>1, <2>3, SeenFrame DEF GuardInv
  <1>15. CASE EditAITenant \/ EditGateway \/ EditDsci \/ EditService \/ EditSource \/ EditRedis
                \/ EditBundle \/ Tick \/ UNCHANGED vars
    <2>1. UNCHANGED <<versions, pc, snap, objs, creds, stale>>
      BY <1>15 DEF EditAITenant, EditGateway, EditDsci, EditService, EditSource, EditRedis,
         EditBundle, Tick, vars, outVars, workVars
    <2>2. ASSUME Guarded PROVE Guarded'
      BY <1>1, <2>1, <2>2, SeenFrame, GuardFrame DEF Managed
    <2> QED
      BY <1>1, <2>1, <2>2, SeenFrame DEF GuardInv
  <1>16. CASE Fail
    <2>1. UNCHANGED <<versions, stale>> /\ pc' = "idle"
      BY <1>16 DEF Fail, End
    <2>2. ASSUME Guarded PROVE Guarded'
      <3>1. CASE pc = "apply" /\ (\E k \in 0..4 : objs' = Applied(k)) /\ UNCHANGED creds
        <4>1. PICK k \in 0..5 : objs' = Applied(k)
          BY <3>1
        <4>2. live.fin /\ live.infra = plan.infra
          BY <2>2, <3>1 DEF Guarded, Owning, Working, IInv, Views, PlanCurrent
        <4>3. \A o \in objs' : o \in objs \/ (o.kind = "proxy" => o.ns = plan.infra)
          BY <4>1, AppliedPlaces
        <4> QED
          BY <1>1, <2>1, <2>2, <3>1, <4>2, <4>3, SeenFrame, GuardIdle DEF Managed
      <3>2. CASE pc = "clean" /\ (\E k \in 0..5 : objs' = Remaining(k) /\ creds' = RemainingCreds(k))
        <4>1. PICK k \in 0..6 : objs' = Remaining(k) /\ creds' = RemainingCreds(k)
          BY <3>2
        <4>2. snap.infra \in InfraNs
          BY <3>2 DEF IInv, PassTyped
        <4>3. objs' \subseteq objs /\ \A n \in InfraNs : creds'[n] \in {creds[n], None}
          BY <1>1, <4>1, <4>2, CleanFacts
        <4> QED
          BY <1>1, <2>1, <2>2, <4>3, SeenFrame, GuardIdle DEF Managed
      <3>3. CASE UNCHANGED <<objs, creds>>
        BY <1>1, <2>1, <2>2, <3>3, SeenFrame, GuardIdle DEF Managed
      <3> QED
        BY <1>16, <3>1, <3>2, <3>3 DEF Fail
    <2> QED
      BY <1>1, <2>1, <2>2, SeenFrame DEF GuardInv
  <1>17. CASE Restart
    <2>1. versions' = <<live>> /\ UNCHANGED <<objs, creds, stale>> /\ pc' = "idle"
      BY <1>17 DEF Restart, outVars
    <2>2. live' = live /\ Len(versions') = 1 /\ DOMAIN versions' = {1} /\ versions'[1] = live
      <3>1. PICK x : x = live
        OBVIOUS
      <3>2. versions' = <<x>>
        BY <2>1, <3>1
      <3>3. versions'[Len(versions')] = x
        BY <3>2
      <3> QED
        BY <3>1, <3>2, <3>3 DEF live
    <2>3. FinalizerSeen'
      BY <1>1, <2>2 DEF FinalizerSeen
    <2>4. ASSUME Guarded PROVE Guarded'
      BY <2>1, <2>2, <2>4, GuardIdle DEF Managed
    <2> QED
      BY <1>1, <2>1, <2>3, <2>4 DEF GuardInv
  <1> QED
    BY <1>2, <1>3, <1>4, <1>5, <1>6, <1>7, <1>8, <1>9, <1>10, <1>11, <1>12, <1>13, <1>14, <1>15,
       <1>16, <1>17 DEF Next, Worker, Env

\* CleanupFinalizer does its work where status.infraNamespace never changes
\* once it is set: in every interleaving of edits, deletions and re-creations
\* of the MTC with the steps of a reconcile, with failures after any write,
\* restarts, and a cache that trails by any number of versions, what the
\* portal made is under the finalizer until a reconcile begins on a cached
\* finalizer that is already gone.
THEOREM CleanupGuaranteed ==
    ASSUME InfraMoves = FALSE PROVE Spec => []NothingOrphaned
  <1>1. Init => GuardInv
    <2> SUFFICES ASSUME Init PROVE GuardInv
      OBVIOUS
    <2> DEFINE m == [NoMtc EXCEPT !.phase = "live", !.default = TRUE]
    <2>1. ~m.fin
      BY DEF NoMtc
    <2>2. versions = <<m>>
      BY DEF Init
    <2> HIDE DEF m
    <2>3. FinalizerSeen
      BY <2>1, <2>2 DEF FinalizerSeen
    <2>4. Guarded
      BY DEF Init, Guarded, Managed, Owning, Working
    <2> QED
      BY <2>3, <2>4 DEF GuardInv
  <1>2. IInv /\ GuardInv /\ [Next]_vars => GuardInv'
    BY GuardStep
  <1>3. IInv /\ GuardInv => NothingOrphaned
    BY DEF GuardInv, Guarded, Managed, NothingOrphaned
  <1> QED
    BY <1>1, <1>2, <1>3, Invariance, PTL DEF Spec
=============================================================================
