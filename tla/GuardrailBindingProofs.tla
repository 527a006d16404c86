----------------------- MODULE GuardrailBindingProofs -----------------------
(***************************************************************************)
(* Proofs about GuardrailBinding, for every set of providers, specs and    *)
(* configurations, every lag of the cache, every kind and any number of    *)
(* disturbances: its types, that no wake-up is lost on the way from an     *)
(* AIGuardrail to the checks the dataplane enforces, and that the          *)
(* conditions of a settled policy tell the truth.                          *)
(***************************************************************************)
EXTENDS GuardrailBinding, TLAPS

-----------------------------------------------------------------------------
(***************************************************************************)
(* What the model's operators return.                                      *)
(***************************************************************************)
\* The policy that does not exist and the provider that does not are typed.
LEMMA NothingTyped == NoStatus \in Status /\ NoPolicy \in Policy /\ NoProvider \in Provider
  <1>1. NoCond \in Condition
    BY DEF NoCond, Condition
  <1>2. NoStatus \in Status
    BY <1>1 DEF NoStatus, Status
  <1>3. AnySpec \in Specs
    BY SpecAssumption DEF AnySpec
  <1>4. NoPolicy \in Policy
    BY <1>2, <1>3 DEF NoPolicy, Policy
  <1>5. NoProvider \in Provider
    BY DEF NoProvider, Provider
  <1> QED
    BY <1>2, <1>4, <1>5

\* The fields of a policy.
LEMMA PolicyFields ==
    ASSUME NEW p \in Policy
    PROVE  /\ p.gen \in Nat /\ p.spec \in Specs /\ p.st \in Status
           /\ p.phase \in {"live", "deleting", "gone"}
           /\ p.spec.prov \in Providers
           /\ p.st.cond \in [CondTypes -> Condition]
  BY SpecAssumption DEF Policy, Status

\* The cached and the live copy of the policy are policies.
LEMMA CopyTypes == TypeOK => cached \in Policy /\ live \in Policy
  BY BoundAssumption DEF TypeOK, cached, live

\* refuse publishes Accepted=False and leaves the conditions it is given.
LEMMA RefuseFacts ==
    ASSUME NEW p \in Policy, NEW c \in [CondTypes -> Condition],
           NEW why \in {"crd", "timeout", "output", "missing", "denied", "config", "notready"}
    PROVE  /\ Refuse(p, c, why) \in Status
           /\ Refuse(p, c, why).obs = p.gen
           /\ Refuse(p, c, why).rev = None /\ Refuse(p, c, why).endpoint = None
           /\ Refuse(p, c, why).cond["accepted"] = Cond("false", p.gen, why)
           /\ \A t \in CondTypes \ {"accepted"} : Refuse(p, c, why).cond[t] = c[t]
  <1>1. p.gen \in Nat
    BY PolicyFields
  <1>2. Cond("false", p.gen, why) \in Condition
    BY <1>1 DEF Cond, Condition
  <1> DEFINE d == [c EXCEPT !["accepted"] = Cond("false", p.gen, why)]
  <1>3. /\ d \in [CondTypes -> Condition]
        /\ d["accepted"] = Cond("false", p.gen, why)
        /\ \A t \in CondTypes \ {"accepted"} : d[t] = c[t]
    BY <1>2 DEF CondTypes
  <1>4. Refuse(p, c, why) = [obs |-> p.gen, cond |-> d, rev |-> None, endpoint |-> None]
    BY DEF Refuse
  <1> HIDE DEF d
  <1> QED
    BY <1>1, <1>3, <1>4 DEF Status

\* denyBinding resets every condition.
LEMMA DenyFacts ==
    ASSUME NEW p \in Policy, NEW why \in {"crd", "missing", "denied"}
    PROVE  /\ DenyBinding(p, why) \in Status
           /\ DenyBinding(p, why).obs = p.gen
           /\ DenyBinding(p, why).rev = None /\ DenyBinding(p, why).endpoint = None
           /\ DenyBinding(p, why).cond["accepted"].st = "false"
           /\ \A t \in CondTypes : DenyBinding(p, why).cond[t].gen = p.gen
           /\ \A t \in CondTypes : DenyBinding(p, why).cond[t].st # "true"
  <1> DEFINE c == [t \in CondTypes |-> IF t = "refs" THEN Cond("false", p.gen, why)
                                       ELSE Cond("unknown", p.gen, why)]
  <1>1. p.gen \in Nat
    BY PolicyFields
  <1>2. \A t \in CondTypes : c[t] \in Condition /\ c[t].gen = p.gen /\ c[t].st # "true"
    BY <1>1 DEF Cond, Condition
  <1>3. c \in [CondTypes -> Condition]
    BY <1>2
  <1>4. DenyBinding(p, why) = Refuse(p, c, why)
    BY DEF DenyBinding
  <1> HIDE DEF c
  <1>5. Cond("false", p.gen, why).st = "false" /\ Cond("false", p.gen, why).gen = p.gen
    BY DEF Cond
  <1> QED
    BY <1>2, <1>3, <1>4, <1>5, RefuseFacts

\* An existing provider that does not refuse everybody, with an endpoint, gives
\* a revision and an endpoint.
LEMMA BindingTyped ==
    ASSUME NEW p \in Policy, NEW n \in Provider, n.uid # 0, n.allow \in {"open", "selector"},
           NemoReady(n)
    PROVE  BindingRevision(p, n) \in Revision /\ <<p.spec.prov, n.place>> \in Endpoint
  BY PolicyFields DEF BindingRevision, Revision, Endpoint, NemoReady, Provider

\* Reconcile's verdict on an authorised provider.
LEMMA JudgeFacts ==
    ASSUME NEW p \in Policy, NEW n \in Provider, n.uid # 0, n.allow \in {"open", "selector"}
    PROVE  /\ Judge(p, n) \in Status
           /\ Judge(p, n).obs = p.gen
           /\ \A t \in CondTypes : Judge(p, n).cond[t].gen = p.gen
           /\ Judge(p, n).cond["accepted"].why \notin {"output", "timeout"}
           /\ Judge(p, n).cond["refs"].st = "true"
           /\ Judge(p, n).cond["compat"].st = "true" <=> Compatible(p, n)
           /\ Judge(p, n).cond["ready"].st = "true" <=> NemoReady(n)
           /\ Compatible(p, n) /\ NemoReady(n) =>
                /\ Judge(p, n).cond["accepted"].st = "true"
                /\ Judge(p, n).rev = BindingRevision(p, n)
                /\ Judge(p, n).endpoint = <<p.spec.prov, n.place>>
           /\ ~(Compatible(p, n) /\ NemoReady(n)) =>
                /\ Judge(p, n).cond["accepted"].st = "false"
                /\ Judge(p, n).rev = None /\ Judge(p, n).endpoint = None
  <1> DEFINE Is(b, why) == Cond(IF b THEN "true" ELSE "false", p.gen, why)
             c1 == [p.st.cond EXCEPT !["refs"] = Is(TRUE, "authorized")]
             c2 == [c1 EXCEPT !["compat"] = Is(Compatible(p, n), "checks")]
             c == [c2 EXCEPT !["ready"] = Is(NemoReady(n), "endpoint")]
  <1>1. p.gen \in Nat /\ p.st.cond \in [CondTypes -> Condition]
    BY PolicyFields
  <1>2. \A b \in BOOLEAN, why \in {"authorized", "checks", "endpoint"} :
          /\ Is(b, why) \in Condition /\ Is(b, why).gen = p.gen
          /\ Is(b, why).st = "true" <=> b
    BY <1>1 DEF Cond, Condition
  <1>c. Compatible(p, n) \in BOOLEAN /\ NemoReady(n) \in BOOLEAN
    BY DEF Compatible, NemoReady
  <1>3. /\ Is(TRUE, "authorized") \in Condition
        /\ Is(Compatible(p, n), "checks") \in Condition
        /\ Is(NemoReady(n), "endpoint") \in Condition
        /\ Is(TRUE, "authorized").gen = p.gen /\ Is(TRUE, "authorized").st = "true"
        /\ Is(Compatible(p, n), "checks").gen = p.gen
        /\ Is(Compatible(p, n), "checks").st = "true" <=> Compatible(p, n)
        /\ Is(NemoReady(n), "endpoint").gen = p.gen
        /\ Is(NemoReady(n), "endpoint").st = "true" <=> NemoReady(n)
    BY <1>2, <1>c
  <1>4. [p.st.cond EXCEPT !["refs"] = Is(TRUE, "authorized"),
                          !["compat"] = Is(Compatible(p, n), "checks"),
                          !["ready"] = Is(NemoReady(n), "endpoint")] = c
    OBVIOUS
  <1>5. Judge(p, n) = IF ~Compatible(p, n) THEN Refuse(p, c, "config")
                      ELSE IF ~NemoReady(n) THEN Refuse(p, c, "notready")
                      ELSE Accept(p, n, c)
    BY <1>4 DEF Judge
  <1> HIDE DEF Is
  <1>6. c1 \in [CondTypes -> Condition] /\ c1["refs"] = Is(TRUE, "authorized")
    BY <1>1, <1>3 DEF CondTypes
  <1>7. /\ c2 \in [CondTypes -> Condition] /\ c2["refs"] = c1["refs"]
        /\ c2["compat"] = Is(Compatible(p, n), "checks")
    BY <1>3, <1>6 DEF CondTypes
  <1>8. /\ c \in [CondTypes -> Condition] /\ c["refs"] = c2["refs"]
        /\ c["compat"] = c2["compat"] /\ c["ready"] = Is(NemoReady(n), "endpoint")
    BY <1>3, <1>7 DEF CondTypes
  <1> HIDE DEF c1, c2, c
  <1>9. /\ c["refs"].st = "true"
        /\ c["compat"].st = "true" <=> Compatible(p, n)
        /\ c["ready"].st = "true" <=> NemoReady(n)
        /\ \A t \in CondTypes \ {"accepted"} : c[t].gen = p.gen
    BY <1>3, <1>6, <1>7, <1>8 DEF CondTypes
  <1>10. ASSUME NEW why \in {"config", "notready"}, Judge(p, n) = Refuse(p, c, why)
         PROVE  /\ Judge(p, n) \in Status /\ Judge(p, n).obs = p.gen
                /\ Judge(p, n).cond["accepted"].gen = p.gen
                /\ Judge(p, n).cond["accepted"].why = why
                /\ Judge(p, n).cond["accepted"].st = "false"
                /\ Judge(p, n).rev = None /\ Judge(p, n).endpoint = None
                /\ \A t \in CondTypes \ {"accepted"} : Judge(p, n).cond[t] = c[t]
    <2>1. /\ Cond("false", p.gen, why).st = "false" /\ Cond("false", p.gen, why).gen = p.gen
          /\ Cond("false", p.gen, why).why = why
      BY DEF Cond
    <2> QED
      BY <1>8, <1>10, <2>1, RefuseFacts
  <1>11. ASSUME Compatible(p, n), NemoReady(n)
         PROVE  /\ Judge(p, n) \in Status /\ Judge(p, n).obs = p.gen
                /\ Judge(p, n).cond["accepted"].gen = p.gen
                /\ Judge(p, n).cond["accepted"].why = "accepted"
                /\ Judge(p, n).cond["accepted"].st = "true"
                /\ Judge(p, n).rev = BindingRevision(p, n)
                /\ Judge(p, n).endpoint = <<p.spec.prov, n.place>>
                /\ \A t \in CondTypes \ {"accepted"} : Judge(p, n).cond[t] = c[t]
    <2> DEFINE a == Cond("true", p.gen, "accepted")
               d == [c EXCEPT !["accepted"] = a]
    <2>1. a \in Condition /\ a.st = "true" /\ a.gen = p.gen /\ a.why = "accepted"
      BY <1>1 DEF Cond, Condition
    <2>2. Judge(p, n) = [obs |-> p.gen, cond |-> d, rev |-> BindingRevision(p, n),
                         endpoint |-> <<p.spec.prov, n.place>>]
      BY <1>5, <1>11 DEF Accept
    <2> HIDE DEF a
    <2>3. d \in [CondTypes -> Condition] /\ d["accepted"] = a
          /\ \A t \in CondTypes \ {"accepted"} : d[t] = c[t]
      BY <1>8, <2>1 DEF CondTypes
    <2> HIDE DEF d
    <2>4. BindingRevision(p, n) \in Revision /\ <<p.spec.prov, n.place>> \in Endpoint
      BY <1>11, BindingTyped
    <2> DEFINE e == <<p.spec.prov, n.place>>
               v == BindingRevision(p, n)
    <2>5. v \in Revision /\ e \in Endpoint /\ Judge(p, n) = [obs |-> p.gen, cond |-> d, rev |-> v, endpoint |-> e]
      BY <2>2, <2>4
    <2> HIDE DEF e, v
    <2>6. /\ Judge(p, n) \in Status /\ Judge(p, n).obs = p.gen /\ Judge(p, n).cond = d
          /\ Judge(p, n).rev = v /\ Judge(p, n).endpoint = e
      BY <1>1, <2>3, <2>5 DEF Status
    <2> QED
      BY <2>1, <2>3, <2>6 DEF e, v
  <1>12. CASE Compatible(p, n) /\ NemoReady(n)
    BY <1>9, <1>11, <1>12 DEF CondTypes
  <1>13. CASE ~(Compatible(p, n) /\ NemoReady(n))
    <2>1. PICK why \in {"config", "notready"} : Judge(p, n) = Refuse(p, c, why)
      BY <1>5, <1>13
    <2> QED
      BY <1>9, <1>10, <1>13, <2>1 DEF CondTypes
  <1> QED
    BY <1>12, <1>13

\* The merge patch of two statuses onto a third is a status; onto the very
\* status it was computed against, it is the computed one.
LEMMA MergeFacts ==
    ASSUME NEW onto \in Status, NEW original \in Status, NEW computed \in Status
    PROVE  /\ Merge(onto, original, computed) \in Status
           /\ Merge(original, original, computed) = computed
  BY DEF Merge, Status

\* What the tenant compiles is a catalog.
LEMMA CalloutsTyped ==
    ASSUME NEW p \in Policy, NEW b \in BOOLEAN, NEW names \in SUBSET CheckNames
    PROVE  Callouts(p, b, names) \in Catalog
  <1>1. /\ p.st.endpoint \in Endpoint \cup {None}
        /\ \A k \in DOMAIN p.spec.checks : p.spec.checks[k] \in Configs /\ k \in CheckNames
    BY SpecAssumption DEF Policy, Status, CheckNames
  <1> DEFINE Check == [check: CheckNames, config: Configs \cup {None}, call: Endpoint \cup {None}]
  <1>2. ASSUME NEW k \in SelectChecks(p, names)
        PROVE  /\ [check |-> k, config |-> p.spec.checks[k], call |-> p.st.endpoint] \in Check
               /\ ClosedCheck(k) \in Check
    BY <1>1, <1>2 DEF SelectChecks, ClosedCheck
  <1>3. Callouts(p, b, names) \subseteq Check
    BY <1>2 DEF Callouts
  <1> QED
    BY <1>3 DEF Catalog

\* A version that reaches the cache queues the policy.
LEMMA ArriveFacts ==
    ASSUME TypeOK, NEW vs \in Seq(Policy), Len(vs) > 1, Len(vs) <= MaxLag + 2, Arrive(vs)
    PROVE  /\ versions' \in Seq(Policy) /\ Len(versions') \in 1..(MaxLag + 1)
           /\ Len(versions') = Len(vs) - 1
           /\ \A i \in 1..Len(versions') : versions'[i] = vs[i + 1]
           /\ live' = vs[Len(vs)] /\ cached' = vs[2]
           /\ gq' = TRUE /\ tq' \in BOOLEAN
           /\ ~tq' => ~tq /\ ~CalloutChanged(vs[1], vs[2])
  <1>1. versions' = Tail(vs) /\ gq' = TRUE /\ tq' = (tq \/ CalloutChanged(vs[1], vs[2]))
    BY DEF Arrive
  <1>2. /\ versions' \in Seq(Policy) /\ Len(versions') = Len(vs) - 1 /\ Len(vs) \in Nat
        /\ \A i \in 1..Len(versions') : versions'[i] = vs[i + 1]
    BY <1>1
  <1>3. live' = vs[Len(vs)] /\ cached' = vs[2]
    BY <1>2 DEF live, cached
  <1>4. tq' \in BOOLEAN /\ (~tq' => ~tq /\ ~CalloutChanged(vs[1], vs[2]))
    BY <1>1
  <1> QED
    BY <1>1, <1>2, <1>3, <1>4, BoundAssumption

\* A write of the policy is the live version; it queues the policy or leaves the
\* cache behind, and never takes a queued key away.
LEMMA WriteFacts ==
    ASSUME TypeOK, NEW p \in Policy, Write(p)
    PROVE  /\ versions' \in Seq(Policy) /\ Len(versions') \in 1..(MaxLag + 1)
           /\ live' = p
           /\ gq' \in BOOLEAN /\ tq' \in BOOLEAN
           /\ gq' \/ Len(versions') > 1
  <1> DEFINE vs == Append(versions, p)
  <1>1. vs \in Seq(Policy) /\ Len(vs) = Len(versions) + 1 /\ vs[Len(vs)] = p
    BY DEF TypeOK
  <1>2. Len(versions) \in 1..(MaxLag + 1) /\ gq \in BOOLEAN /\ tq \in BOOLEAN
    BY DEF TypeOK
  <1>3. CASE Len(vs) > MaxLag + 1
    <2>1. Arrive(vs) /\ Len(vs) > 1 /\ Len(vs) <= MaxLag + 2
      BY <1>1, <1>2, <1>3, BoundAssumption DEF Write
    <2> HIDE DEF vs
    <2> QED
      BY <1>1, <2>1, ArriveFacts
  <1>4. CASE ~(Len(vs) > MaxLag + 1)
    <2>1. versions' = vs /\ gq' = gq /\ tq' = tq
      BY <1>4 DEF Write
    <2> QED
      BY <1>1, <1>2, <1>4, <2>1, BoundAssumption DEF live
  <1> QED
    BY <1>3, <1>4

-----------------------------------------------------------------------------
(***************************************************************************)
(* Type correctness.  A verdict is typed only because a provider without a *)
(* uid, or without permission, is never judged: that much of what the      *)
(* worker carries from one live read to the next belongs to the invariant. *)
(***************************************************************************)
ReadInv ==
    /\ gw.pc = "namespace" => gw.seen.uid # 0 /\ gw.seen.allow = "selector"
    /\ ~crd => \A p \in Providers : prov[p].uid = 0

Worker == [pc: {"idle", "provider", "namespace", "patch"}, snap: Policy,
           seen: Provider, out: Status]

\* The initial states are well typed.
LEMMA InitTyped == Init => TypeOK /\ ReadInv
  <1> SUFFICES ASSUME Init PROVE TypeOK /\ ReadInv
    OBVIOUS
  <1>0. crd \in BOOLEAN
    BY DEF Init
  <1> DEFINE start == [uid |-> 1, allow |-> "selector", configs |-> Configs, place |-> Home]
  <1>1. start \in Provider /\ start.uid # 0 /\ start.allow = "selector"
    BY PlaceAssumption DEF Provider
  <1>2. prov = [p \in Providers |-> IF crd THEN start ELSE NoProvider]
    BY DEF Init
  <1> HIDE DEF start
  <1>3. prov \in [Providers -> Provider]
    BY <1>1, <1>2, NothingTyped
  <1>4. ~crd => \A p \in Providers : prov[p].uid = 0
    BY <1>2 DEF NoProvider
  <1>5. PICK s \in Specs :
          LET p == [phase |-> "live", gen |-> 1, spec |-> s, st |-> NoStatus]
              settled == [p EXCEPT !.st = InitStatus(p)]
          IN  versions = <<settled>> /\ catalog = Callouts(settled, FALSE, CheckNames)
    BY DEF Init
  <1> DEFINE p == [phase |-> "live", gen |-> 1, spec |-> s, st |-> NoStatus]
             settled == [p EXCEPT !.st = InitStatus(p)]
  <1>6. p \in Policy
    BY NothingTyped DEF Policy
  <1>7. versions = <<settled>> /\ catalog = Callouts(settled, FALSE, CheckNames)
    BY <1>5
  <1> HIDE DEF p
  <1>8. InitStatus(p) \in Status
    <2>1. p.spec.prov \in Providers /\ p.st.cond \in [CondTypes -> Condition]
      BY <1>6, PolicyFields
    <2>2. CASE ~crd
      BY <1>6, <2>2, DenyFacts DEF InitStatus
    <2>3. CASE crd /\ p.spec.fine
      BY <1>6, <2>1, <2>3, RefuseFacts DEF InitStatus
    <2>4. CASE crd /\ ~p.spec.fine
      <3>1. prov[p.spec.prov] = start
        BY <1>2, <2>1, <2>4
      <3> QED
        BY <1>1, <1>6, <2>4, <3>1, JudgeFacts DEF InitStatus
    <2> QED
      BY <2>2, <2>3, <2>4
  <1>9. settled \in Policy
    BY <1>6, <1>8 DEF Policy
  <1> HIDE DEF settled
  <1>10. versions \in Seq(Policy) /\ Len(versions) = 1
    BY <1>7, <1>9
  <1>11. catalog \in Catalog
    BY <1>7, <1>9, CalloutsTyped
  <1>12. gw \in Worker /\ gw.pc = "idle" /\ tw \in [pc: {"idle", "publish"}, out: Catalog]
    BY NothingTyped DEF Init, GwIdle, TwIdle, Worker, Catalog
  <1>13. Len(versions) \in 1..(MaxLag + 1) /\ disturb \in 0..MaxDisturb
    BY <1>10, BoundAssumption DEF Init
  <1>14. /\ label = TRUE /\ mapper = crd /\ watching = crd /\ trans = FALSE /\ transCache = FALSE
         /\ selected = CheckNames /\ provEvents = {} /\ nsEvent = FALSE /\ transEvent = FALSE
         /\ drift = FALSE /\ gq = FALSE /\ tq = FALSE
    BY DEF Init
  <1> QED
    BY <1>0, <1>3, <1>4, <1>10, <1>11, <1>12, <1>13, <1>14 DEF TypeOK, ReadInv, Worker

\* The worker's record, whatever it has concluded.
LEMMA ConcludeTyped ==
    ASSUME NEW p \in Policy, NEW st \in Status, Conclude(p, st)
    PROVE  gw' \in Worker /\ gw'.pc = "patch" /\ gw'.snap = p /\ gw'.out = st
  BY NothingTyped DEF Conclude, Worker

\* The idle workers are typed.
LEMMA IdleTyped == GwIdle \in Worker /\ TwIdle \in [pc: {"idle", "publish"}, out: Catalog]
  BY NothingTyped DEF GwIdle, TwIdle, Worker, Catalog

\* What StartGuardrail does to the worker, one disjunct each.
LEMMA StartCases ==
    ASSUME TypeOK, StartGuardrail
    PROVE  /\ gw.pc = "idle" /\ gq' = FALSE /\ mapper' \in BOOLEAN
           /\ \/ cached.phase = "gone" /\ gw' = gw
              \/ ~mapper /\ ~crd /\ Conclude(cached, DenyBinding(cached, "crd"))
              \/ cached.spec.fine /\ Conclude(cached, Refuse(cached, cached.st.cond, "timeout"))
              \/ /\ cached.spec.output /\ trans
                 /\ Conclude(cached, Refuse(cached, cached.st.cond, "output"))
              \/ /\ ~cached.spec.fine /\ ~(cached.spec.output /\ trans)
                 /\ gw' = [pc |-> "provider", snap |-> cached, seen |-> NoProvider, out |-> NoStatus]
  BY DEF StartGuardrail, CrdInstalled, TypeOK

\* What the worker computes is typed.
LEMMA StartTyped ==
    ASSUME TypeOK, StartGuardrail
    PROVE  gw' \in Worker /\ gw'.pc # "namespace"
  <1>1. cached \in Policy /\ gw \in Worker /\ cached.st.cond \in [CondTypes -> Condition]
    BY CopyTypes, PolicyFields DEF TypeOK, Worker
  <1>2. /\ DenyBinding(cached, "crd") \in Status
        /\ Refuse(cached, cached.st.cond, "timeout") \in Status
        /\ Refuse(cached, cached.st.cond, "output") \in Status
    BY <1>1, DenyFacts, RefuseFacts
  <1>3. CASE gw' = [pc |-> "provider", snap |-> cached, seen |-> NoProvider, out |-> NoStatus]
    BY <1>1, <1>3, NothingTyped DEF Worker
  <1>4. CASE gw' = gw
    BY <1>1, <1>4, StartCases
  <1>5. ASSUME NEW st \in Status, Conclude(cached, st) PROVE gw' \in Worker /\ gw'.pc # "namespace"
    BY <1>1, <1>5, ConcludeTyped
  <1> QED
    BY <1>2, <1>3, <1>4, <1>5, StartCases

\* The worker after its live read of the provider.
LEMMA ReadProviderTyped ==
    ASSUME TypeOK, ReadProvider
    PROVE  gw' \in Worker /\ (gw'.pc = "namespace" => gw'.seen.uid # 0 /\ gw'.seen.allow = "selector")
  <1> DEFINE p == gw.snap
             n == prov[p.spec.prov]
  <1>1. p \in Policy /\ gw \in Worker
    BY DEF TypeOK, Worker
  <1>2. n \in Provider
    BY <1>1, PolicyFields DEF TypeOK
  <1>3. \/ n.uid = 0 /\ Conclude(p, DenyBinding(p, IF CrdServed THEN "missing" ELSE "crd"))
        \/ n.uid # 0 /\ n.allow = "closed" /\ Conclude(p, DenyBinding(p, "denied"))
        \/ n.uid # 0 /\ n.allow = "open" /\ Conclude(p, Judge(p, n))
        \/ n.uid # 0 /\ n.allow = "selector" /\ gw' = [gw EXCEPT !.pc = "namespace", !.seen = n]
    BY DEF ReadProvider
  <1> HIDE DEF p, n
  <1>4. ASSUME NEW st \in Status, Conclude(p, st)
        PROVE  gw' \in Worker /\ gw'.pc # "namespace"
    BY <1>1, <1>4, ConcludeTyped
  <1>5. CASE n.uid = 0 /\ Conclude(p, DenyBinding(p, IF CrdServed THEN "missing" ELSE "crd"))
    BY <1>1, <1>4, <1>5, DenyFacts
  <1>6. CASE n.uid # 0 /\ n.allow = "closed" /\ Conclude(p, DenyBinding(p, "denied"))
    BY <1>1, <1>4, <1>6, DenyFacts
  <1>7. CASE n.uid # 0 /\ n.allow = "open" /\ Conclude(p, Judge(p, n))
    BY <1>1, <1>2, <1>4, <1>7, JudgeFacts
  <1>8. CASE n.uid # 0 /\ n.allow = "selector" /\ gw' = [gw EXCEPT !.pc = "namespace", !.seen = n]
    <2>1. [gw EXCEPT !.pc = "namespace", !.seen = n]
            = [[gw EXCEPT !.pc = "namespace"] EXCEPT !.seen = n]
      OBVIOUS
    <2> QED
      BY <1>1, <1>2, <1>8, <2>1 DEF Worker
  <1> QED
    BY <1>3, <1>5, <1>6, <1>7, <1>8

\* The worker after its live read of the Namespace.
LEMMA ReadNamespaceTyped ==
    ASSUME TypeOK, ReadInv, ReadNamespace
    PROVE  gw' \in Worker /\ gw'.pc = "patch"
  <1> DEFINE p == gw.snap
             n == gw.seen
  <1>1. p \in Policy /\ n \in Provider /\ n.uid # 0 /\ n.allow = "selector"
    BY DEF TypeOK, ReadInv, ReadNamespace
  <1>2. Conclude(p, IF Allows(n) THEN Judge(p, n) ELSE DenyBinding(p, "denied"))
    BY DEF ReadNamespace
  <1> HIDE DEF p, n
  <1>3. Judge(p, n) \in Status /\ DenyBinding(p, "denied") \in Status
    BY <1>1, JudgeFacts, DenyFacts
  <1> QED
    BY <1>1, <1>2, <1>3, ConcludeTyped

\* A status patch leaves a typed policy.
LEMMA PatchTyped ==
    ASSUME TypeOK, PatchStatus
    PROVE  /\ Merge(live.st, gw.snap.st, gw.out) \in Status
           /\ [live EXCEPT !.st = Merge(live.st, gw.snap.st, gw.out)] \in Policy
  <1>1. live \in Policy /\ gw.snap \in Policy /\ gw.out \in Status
    BY CopyTypes DEF TypeOK
  <1>2. live.st \in Status /\ gw.snap.st \in Status
    BY <1>1, PolicyFields
  <1>3. Merge(live.st, gw.snap.st, gw.out) \in Status
    BY <1>1, <1>2, MergeFacts
  <1> QED
    BY <1>1, <1>3 DEF Policy

\* The versions users write are policies.
LEMMA EditsTyped ==
    ASSUME TypeOK, NEW s \in Specs
    PROVE  /\ [live EXCEPT !.gen = @ + 1, !.spec = s] \in Policy
           /\ [live EXCEPT !.phase = "deleting", !.gen = @ + 1] \in Policy
           /\ [phase |-> "live", gen |-> 1, spec |-> s, st |-> NoStatus] \in Policy
           /\ [live EXCEPT !.gen = @ + 1, !.spec = s].gen = live.gen + 1
           /\ [live EXCEPT !.phase = "deleting", !.gen = @ + 1].gen = live.gen + 1
  <1>1. live \in Policy /\ live.gen \in Nat
    BY CopyTypes, PolicyFields
  <1>2. /\ [live EXCEPT !.gen = @ + 1, !.spec = s]
             = [[live EXCEPT !.gen = live.gen + 1] EXCEPT !.spec = s]
        /\ [live EXCEPT !.phase = "deleting", !.gen = @ + 1]
             = [[live EXCEPT !.phase = "deleting"] EXCEPT !.gen = live.gen + 1]
    BY <1>1 DEF Policy
  <1>3. [live EXCEPT !.gen = live.gen + 1] \in Policy /\ [live EXCEPT !.phase = "deleting"] \in Policy
    BY <1>1 DEF Policy
  <1>4. /\ [[live EXCEPT !.gen = live.gen + 1] EXCEPT !.spec = s] \in Policy
        /\ [[live EXCEPT !.phase = "deleting"] EXCEPT !.gen = live.gen + 1] \in Policy
    BY <1>1, <1>3 DEF Policy
  <1>5. [phase |-> "live", gen |-> 1, spec |-> s, st |-> NoStatus] \in Policy
    BY NothingTyped DEF Policy
  <1> QED
    BY <1>1, <1>2, <1>4, <1>5 DEF Policy

\* A provider edit leaves typed providers.
LEMMA ProviderTyped ==
    ASSUME TypeOK, EditProvider
    PROVE  /\ prov' \in [Providers -> Provider]
           /\ \E p \in Providers : Notice(p) /\ \A q \in Providers \ {p} : prov'[q] = prov[q]
  <1>1. PICK p \in Providers :
          /\ Notice(p)
          /\ \/ \E a \in {"open", "selector", "closed"} : prov' = [prov EXCEPT ![p].allow = a]
             \/ \E c \in SUBSET Configs : prov' = [prov EXCEPT ![p].configs = c]
             \/ \E l \in Places \cup {None} : prov' = [prov EXCEPT ![p].place = l]
             \/ prov' = [prov EXCEPT ![p] = NoProvider]
             \/ prov' = [prov EXCEPT ![p] = [uid |-> disturb + 2, allow |-> "open",
                                             configs |-> Configs, place |-> Home]]
    BY DEF EditProvider
  <1>2. prov \in [Providers -> Provider] /\ prov[p] \in Provider /\ disturb + 2 \in Nat
    BY BoundAssumption DEF TypeOK
  <1>3. [uid |-> disturb + 2, allow |-> "open", configs |-> Configs, place |-> Home] \in Provider
    BY <1>2, PlaceAssumption DEF Provider
  <1>4. /\ \A a \in {"open", "selector", "closed"} : [prov[p] EXCEPT !.allow = a] \in Provider
        /\ \A c \in SUBSET Configs : [prov[p] EXCEPT !.configs = c] \in Provider
        /\ \A l \in Places \cup {None} : [prov[p] EXCEPT !.place = l] \in Provider
    BY <1>2 DEF Provider
  <1>5. \E n \in Provider : prov' = [prov EXCEPT ![p] = n]
    <2>1. ASSUME NEW a \in {"open", "selector", "closed"}, prov' = [prov EXCEPT ![p].allow = a]
          PROVE  prov' = [prov EXCEPT ![p] = [prov[p] EXCEPT !.allow = a]]
      BY <2>1
    <2>2. ASSUME NEW c \in SUBSET Configs, prov' = [prov EXCEPT ![p].configs = c]
          PROVE  prov' = [prov EXCEPT ![p] = [prov[p] EXCEPT !.configs = c]]
      BY <2>2
    <2>3. ASSUME NEW l \in Places \cup {None}, prov' = [prov EXCEPT ![p].place = l]
          PROVE  prov' = [prov EXCEPT ![p] = [prov[p] EXCEPT !.place = l]]
      BY <2>3
    <2> QED
      BY <1>1, <1>3, <1>4, <2>1, <2>2, <2>3, NothingTyped
  <1> QED
    BY <1>1, <1>2, <1>5

\* A disturbance is counted within its bound.
LEMMA DisturbTyped ==
    ASSUME TypeOK, NEW k, Disturb(k)
    PROVE  disturb' \in 0..MaxDisturb
  BY BoundAssumption DEF TypeOK, Disturb

\* The variables the workers and the events share.
RestTyped ==
    /\ prov \in [Providers -> Provider]
    /\ label \in BOOLEAN /\ crd \in BOOLEAN /\ mapper \in BOOLEAN /\ watching \in BOOLEAN
    /\ trans \in BOOLEAN /\ transCache \in BOOLEAN /\ nsEvent \in BOOLEAN
    /\ transEvent \in BOOLEAN /\ drift \in BOOLEAN
    /\ selected \subseteq CheckNames /\ provEvents \subseteq Providers
    /\ catalog \in Catalog /\ disturb \in 0..MaxDisturb
    /\ tw \in [pc: {"idle", "publish"}, out: Catalog]
PolicyTyped ==
    /\ versions \in Seq(Policy) /\ Len(versions) \in 1..(MaxLag + 1)
    /\ gq \in BOOLEAN /\ tq \in BOOLEAN

\* The types in three parts: the policy, the guardrail worker and the rest.
LEMMA TypeParts == TypeOK <=> PolicyTyped /\ gw \in Worker /\ RestTyped
  BY DEF TypeOK, PolicyTyped, RestTyped, Worker

\* Every step keeps the types: one case per action.
LEMMA TypeStep == TypeOK /\ ReadInv /\ [Next]_vars => TypeOK' /\ ReadInv'
  <1> SUFFICES ASSUME TypeOK, ReadInv, [Next]_vars PROVE TypeOK' /\ ReadInv'
    OBVIOUS
  <1> DEFINE Goal == PolicyTyped' /\ gw' \in Worker /\ RestTyped' /\ ReadInv'
  <1>t. PolicyTyped /\ gw \in Worker /\ RestTyped
    BY TypeParts
  <1>w. ASSUME NEW p \in Policy, Write(p) PROVE PolicyTyped'
    BY <1>w, WriteFacts DEF PolicyTyped
  <1>n. ASSUME UNCHANGED <<gw, prov, crd>> PROVE gw' \in Worker /\ ReadInv'
    BY <1>t, <1>n DEF ReadInv
  <1>1. ASSUME StartGuardrail PROVE Goal
    <2>1. UNCHANGED <<polVars, inputVars, eventVars, watching, tq, tw, catalog, disturb>>
      BY <1>1 DEF StartGuardrail, gFrame
    <2>2. gw' \in Worker /\ gw'.pc # "namespace" /\ gq' \in BOOLEAN /\ mapper' \in BOOLEAN
      BY <1>1, StartTyped, StartCases
    <2> QED
      BY <1>t, <2>1, <2>2 DEF polVars, inputVars, eventVars, PolicyTyped, RestTyped, ReadInv
  <1>2. ASSUME ReadProvider PROVE Goal
    BY <1>2, <1>t, ReadProviderTyped
       DEF ReadProvider, gFrame, polVars, inputVars, eventVars, PolicyTyped, RestTyped, ReadInv
  <1>3. ASSUME ReadNamespace PROVE Goal
    BY <1>3, <1>t, ReadNamespaceTyped
       DEF ReadNamespace, gFrame, polVars, inputVars, eventVars, PolicyTyped, RestTyped, ReadInv
  <1>4. ASSUME PatchStatus PROVE Goal
    <2>1. gw' \in Worker /\ gw'.pc = "idle"
      BY <1>4, IdleTyped DEF PatchStatus, GwIdle
    <2>2. PolicyTyped'
      BY <1>4, <1>t, <1>w, PatchTyped DEF PatchStatus, PolicyTyped
    <2> QED
      BY <1>4, <1>t, <2>1, <2>2 DEF PatchStatus, inputVars, eventVars, RestTyped, ReadInv
  <1>5. ASSUME CompileCatalog PROVE Goal
    <2>1. Callouts(cached, transCache, selected) \in Catalog
      BY <1>t, CopyTypes, CalloutsTyped DEF RestTyped
    <2>2. tq' \in BOOLEAN /\ tw' \in [pc: {"idle", "publish"}, out: Catalog]
      <3>1. CASE UNCHANGED <<tq, tw>>
        BY <1>t, <3>1 DEF PolicyTyped, RestTyped
      <3>2. CASE tq' = FALSE /\ tw' = [pc |-> "publish", out |-> Callouts(cached, transCache, selected)]
        BY <2>1, <3>2
      <3> QED
        BY <1>5, <3>1, <3>2 DEF CompileCatalog
    <2> QED
      BY <1>5, <1>t, <1>n, <2>2
         DEF CompileCatalog, tFrame, polVars, inputVars, eventVars, PolicyTyped, RestTyped
  <1>6. ASSUME PublishCatalog PROVE Goal
    <2>1. catalog' \in Catalog /\ tw' \in [pc: {"idle", "publish"}, out: Catalog]
      BY <1>6, <1>t, IdleTyped DEF PublishCatalog, RestTyped
    <2> QED
      BY <1>6, <1>t, <1>n, <2>1
         DEF PublishCatalog, tFrame, polVars, inputVars, eventVars, PolicyTyped, RestTyped
  <1>7. ASSUME Deliver PROVE Goal
    <2>1. PolicyTyped'
      <3>1. versions \in Seq(Policy) /\ Len(versions) > 1 /\ Len(versions) <= MaxLag + 2
        BY <1>7, <1>t, BoundAssumption DEF Deliver, PolicyTyped
      <3>2. Arrive(versions)
        BY <1>7 DEF Deliver
      <3> QED
        BY <3>1, <3>2, ArriveFacts DEF PolicyTyped
    <2> QED
      BY <1>7, <1>t, <1>n, <2>1 DEF Deliver, inputVars, eventVars, RestTyped
  <1>8. ASSUME NEW p \in Providers, DeliverProvider(p) PROVE Goal
    BY <1>8, <1>t, <1>n DEF DeliverProvider, polVars, inputVars, PolicyTyped, RestTyped
  <1>9. ASSUME DeliverNamespace \/ DeliverTranslation \/ Resync PROVE Goal
    BY <1>9, <1>t, <1>n
       DEF DeliverNamespace, DeliverTranslation, Resync, polVars, inputVars, PolicyTyped, RestTyped
  <1>10. ASSUME EditPolicy PROVE Goal
    <2>1. PICK s \in Specs : Write([live EXCEPT !.gen = @ + 1, !.spec = s])
      BY <1>10 DEF EditPolicy
    <2> QED
      BY <1>10, <1>t, <1>n, <1>w, <2>1, EditsTyped, DisturbTyped
         DEF EditPolicy, inputVars, eventVars, workFrame, RestTyped
  <1>11. ASSUME DeletePolicy PROVE Goal
    <2>1. Write(NoPolicy) \/ Write([live EXCEPT !.phase = "deleting", !.gen = @ + 1])
      BY <1>11 DEF DeletePolicy
    <2>2. PolicyTyped'
      BY <1>w, <2>1, EditsTyped, NothingTyped, SpecAssumption
    <2> QED
      BY <1>11, <1>t, <1>n, <2>2, DisturbTyped
         DEF DeletePolicy, inputVars, eventVars, workFrame, RestTyped
  <1>12. ASSUME CreatePolicy PROVE Goal
    <2>1. PICK s \in Specs : Write([phase |-> "live", gen |-> 1, spec |-> s, st |-> NoStatus])
      BY <1>12 DEF CreatePolicy
    <2> QED
      BY <1>12, <1>t, <1>n, <1>w, <2>1, EditsTyped, DisturbTyped
         DEF CreatePolicy, inputVars, eventVars, workFrame, RestTyped
  <1>13. ASSUME EditProvider PROVE Goal
    <2>1. PICK p \in Providers : Notice(p)
      BY <1>13, ProviderTyped
    <2>2. provEvents' \subseteq Providers /\ drift' \in BOOLEAN
      BY <1>t, <2>1 DEF Notice, RestTyped
    <2>3. ReadInv'
      BY <1>13 DEF EditProvider, workFrame, ReadInv
    <2> QED
      BY <1>13, <1>t, <2>2, <2>3, ProviderTyped, DisturbTyped
         DEF EditProvider, polVars, workFrame, PolicyTyped, RestTyped
  <1>14. ASSUME RelabelNamespace \/ EditTranslation PROVE Goal
    <2>1. label' \in BOOLEAN /\ trans' \in BOOLEAN /\ nsEvent' \in BOOLEAN /\ transEvent' \in BOOLEAN
      BY <1>14, <1>t DEF RelabelNamespace, EditTranslation, RestTyped
    <2>2. /\ UNCHANGED <<versions, prov, crd, selected, provEvents, drift, transCache, gq, tq>>
          /\ UNCHANGED <<mapper, watching, gw, tw, catalog>>
      BY <1>14 DEF RelabelNamespace, EditTranslation, polVars, workFrame
    <2>3. disturb' \in 0..MaxDisturb
      BY <1>14, DisturbTyped DEF RelabelNamespace, EditTranslation
    <2> QED
      BY <1>t, <1>n, <2>1, <2>2, <2>3 DEF PolicyTyped, RestTyped
  <1>15. ASSUME ChangeCrd PROVE Goal
    <2>1. prov' \in [Providers -> Provider] /\ \A p \in Providers : prov'[p].uid = 0
      BY <1>15, NothingTyped DEF ChangeCrd, NoProvider
    <2>2. provEvents' \subseteq Providers /\ crd' \in BOOLEAN /\ drift' \in BOOLEAN
      BY <1>15, <1>t DEF ChangeCrd, RestTyped
    <2> QED
      BY <1>15, <1>t, <2>1, <2>2, DisturbTyped
         DEF ChangeCrd, polVars, workFrame, PolicyTyped, RestTyped, ReadInv
  <1>16. ASSUME EditAttachment PROVE Goal
    BY <1>16, <1>t, <1>n, DisturbTyped
       DEF EditAttachment, polVars, eventVars, workFrame, PolicyTyped, RestTyped
  <1>17. ASSUME FailGuardrail PROVE Goal
    <2>1. gw' \in Worker /\ gw'.pc = "idle"
      BY <1>17, IdleTyped DEF FailGuardrail, GwIdle
    <2> QED
      BY <1>17, <1>t, <2>1, DisturbTyped
         DEF FailGuardrail, polVars, inputVars, eventVars, PolicyTyped, RestTyped, ReadInv
  <1>18. ASSUME FailTenant PROVE Goal
    <2>1. tw' \in [pc: {"idle", "publish"}, out: Catalog]
      BY <1>18, IdleTyped DEF FailTenant
    <2> QED
      BY <1>18, <1>t, <1>n, <2>1, DisturbTyped
         DEF FailTenant, polVars, inputVars, eventVars, PolicyTyped, RestTyped
  <1>19. ASSUME Restart PROVE Goal
    <2>1. gw' \in Worker /\ gw'.pc = "idle" /\ tw' \in [pc: {"idle", "publish"}, out: Catalog]
      BY <1>19, IdleTyped DEF Restart, GwIdle
    <2>2. versions' \in Seq(Policy) /\ Len(versions') \in 1..(MaxLag + 1)
      BY <1>19, CopyTypes, BoundAssumption DEF Restart
    <2> QED
      BY <1>19, <1>t, <2>1, <2>2, DisturbTyped
         DEF Restart, inputVars, PolicyTyped, RestTyped, ReadInv
  <1>20. ASSUME UNCHANGED vars PROVE Goal
    BY <1>20, <1>t, <1>n DEF vars, PolicyTyped, RestTyped
  <1>21. TypeOK' <=> PolicyTyped' /\ gw' \in Worker /\ RestTyped'
    BY DEF TypeOK, PolicyTyped, RestTyped, Worker
  <1> QED
    BY <1>1, <1>2, <1>3, <1>4, <1>5, <1>6, <1>7, <1>8, <1>9, <1>10, <1>11, <1>12, <1>13, <1>14,
       <1>15, <1>16, <1>17, <1>18, <1>19, <1>20, <1>21
       DEF Next, GuardrailWorker, TenantWorker, Events, Environment

\* Every reachable state is well typed: a status never carries an endpoint or a
\* revision of a provider that does not exist, refuses everybody or has no
\* discovered endpoint, although provider and Namespace are read at two moments.
THEOREM TypeCorrect == Spec => []TypeOK
  <1>1. Init => TypeOK /\ ReadInv
    BY InitTyped
  <1>2. TypeOK /\ ReadInv /\ [Next]_vars => TypeOK' /\ ReadInv'
    BY TypeStep
  <1> QED
    BY <1>1, <1>2, PTL DEF Spec

-----------------------------------------------------------------------------
(***************************************************************************)
(* The guardrail half.  Work is pending while the policy is queued, the    *)
(* cache trails, or a change of an input is still to be noticed.  With     *)
(* nothing pending, what the worker has read is current at every point of  *)
(* its reconcile, and what it concluded is the verdict on the inputs: the  *)
(* provider n, the label l of the Namespace and the translation setting t. *)
(***************************************************************************)
Permits(n, l) == n.uid # 0 /\ (n.allow = "open" \/ (n.allow = "selector" /\ l))
Runnable(p, t) == ~p.spec.fine /\ ~(p.spec.output /\ t)
Accepts(p, n, l, t) == Permits(n, l) /\ Compatible(p, n) /\ NemoReady(n) /\ Runnable(p, t)

\* The conditions of st tell the truth of the inputs.
Honest(p, st, n, l) ==
    /\ \A c \in CondTypes : st.cond[c].gen = p.gen
    /\ st.cond["refs"].st = "true" <=> Permits(n, l)
    /\ st.cond["compat"].st = "true" <=> Permits(n, l) /\ Compatible(p, n)
    /\ st.cond["ready"].st = "true" <=> Permits(n, l) /\ NemoReady(n)

\* st is the verdict the inputs call for.
Verdict(p, st, n, l, t) ==
    /\ st.obs = p.gen /\ st.cond["accepted"].gen = p.gen
    /\ Accepts(p, n, l, t) =>
         /\ st.cond["accepted"].st = "true"
         /\ st.endpoint = <<p.spec.prov, n.place>> /\ st.rev = BindingRevision(p, n)
    /\ ~Accepts(p, n, l, t) =>
         st.cond["accepted"].st = "false" /\ st.endpoint = None /\ st.rev = None
    /\ st.cond["accepted"].why \notin {"output", "timeout"} => Honest(p, st, n, l)

Pending ==
    \/ gq \/ Len(versions) > 1
    \/ live.spec.prov \in provEvents \/ nsEvent \/ transEvent \/ drift

provider == prov[live.spec.prov]

OnCourse ==
    /\ gw.pc = "idle" => Verdict(live, live.st, provider, label, trans)
    /\ gw.pc \in {"provider", "namespace"} => gw.snap = live /\ Runnable(live, trans)
    /\ gw.pc = "namespace" => gw.seen = provider
    /\ gw.pc = "patch" => gw.snap = live /\ Verdict(live, gw.out, provider, label, trans)

VerdictInv == ~Pending /\ live.phase # "gone" => OnCourse

(***************************************************************************)
(* The tenant half.  Unless the tenant is queued, what it published, or    *)
(* is about to, is what it would compile from its cache now: an event its  *)
(* predicate drops changes none of the inputs.                             *)
(***************************************************************************)
\* A generation stands for one spec, as long as the policy is not recreated.
SpecKept(old, new) ==
    old.phase # "gone" /\ new.phase # "gone" /\ old.gen = new.gen => old.spec = new.spec
HistoryInv == \A i \in 1..(Len(versions) - 1) : SpecKept(versions[i], versions[i + 1])

Compiled == Callouts(cached, transCache, selected)
TenantInv ==
    ~tq => /\ tw.pc = "publish" => tw.out = Compiled
           /\ tw.pc = "idle" => catalog = Compiled

TransInv == transEvent \/ transCache = trans

IInv == TypeOK /\ ReadInv /\ VerdictInv /\ HistoryInv /\ TenantInv /\ TransInv

\* denyBinding is the verdict on a provider that does not permit the consumer.
LEMMA DenyRight ==
    ASSUME NEW p \in Policy, NEW why \in {"crd", "missing", "denied"},
           NEW n, NEW l, NEW t, ~Permits(n, l)
    PROVE  Verdict(p, DenyBinding(p, why), n, l, t)
  BY DenyFacts DEF Verdict, Accepts, Honest, CondTypes

\* A refusal before the provider is read is the verdict on a policy that the
\* dataplane cannot run.
LEMMA RefuseRight ==
    ASSUME NEW p \in Policy, NEW why \in {"timeout", "output"},
           NEW n, NEW l, NEW t, ~Runnable(p, t)
    PROVE  Verdict(p, Refuse(p, p.st.cond, why), n, l, t)
  <1>1. p.st.cond \in [CondTypes -> Condition]
    BY PolicyFields
  <1>2. /\ Cond("false", p.gen, why).st = "false" /\ Cond("false", p.gen, why).gen = p.gen
        /\ Cond("false", p.gen, why).why = why
    BY DEF Cond
  <1> QED
    BY <1>1, <1>2, RefuseFacts DEF Verdict, Accepts

\* Judge is the verdict on a provider that permits the consumer.
LEMMA JudgeRight ==
    ASSUME NEW p \in Policy, NEW n \in Provider, NEW l, NEW t, Permits(n, l), Runnable(p, t)
    PROVE  Verdict(p, Judge(p, n), n, l, t)
  <1>1. n.uid # 0 /\ n.allow \in {"open", "selector"}
    BY DEF Permits
  <1> QED
    BY <1>1, JudgeFacts DEF Verdict, Accepts, Honest, CondTypes

\* An event nemoCalloutChanged drops changes nothing the tenant compiles.
LEMMA DroppedEvent ==
    ASSUME NEW old, NEW new, NEW t, NEW names, SpecKept(old, new), ~CalloutChanged(old, new)
    PROVE  Callouts(old, t, names) = Callouts(new, t, names)
  <1>1. CASE old = new
    BY <1>1
  <1>2. CASE old # new
    <2>1. old.phase # "gone" /\ new.phase # "gone" /\ CalloutInputs(old) = CalloutInputs(new)
      BY <1>2 DEF CalloutChanged
    <2>2. /\ old.gen = new.gen /\ BindingAccepted(old) = BindingAccepted(new)
          /\ old.st.endpoint = new.st.endpoint
      BY <2>1 DEF CalloutInputs
    <2>3. old.spec = new.spec
      BY <2>1, <2>2 DEF SpecKept
    <2>4. Callable(old, t) <=> Callable(new, t)
      BY <2>2, <2>3 DEF Callable, CalloutBuilds, InInfra, BindingAccepted, AcceptedTrue
    <2> QED
      BY <2>1, <2>2, <2>3, <2>4 DEF Callouts, SelectChecks
  <1> QED
    BY <1>1, <1>2

\* A version that reaches the cache keeps the tenant half.
LEMMA ArriveTenant ==
    ASSUME TypeOK, TenantInv, NEW vs \in Seq(Policy), Len(vs) > 1, Len(vs) <= MaxLag + 2,
           \A i \in 1..(Len(vs) - 1) : SpecKept(vs[i], vs[i + 1]),
           vs[1] = cached, Arrive(vs), UNCHANGED <<transCache, selected, tw, catalog>>
    PROVE  HistoryInv' /\ TenantInv'
  <1>0. Len(vs) \in Nat
    OBVIOUS
  <1>1. /\ Len(versions') = Len(vs) - 1 /\ Len(vs) \in Nat
        /\ \A i \in 1..Len(versions') : versions'[i] = vs[i + 1]
        /\ cached' = vs[2]
        /\ ~tq' => ~tq /\ ~CalloutChanged(vs[1], vs[2])
    BY <1>0, ArriveFacts
  <1>2. HistoryInv'
    <2> SUFFICES ASSUME NEW i \in 1..(Len(versions') - 1)
                 PROVE  SpecKept(versions'[i], versions'[i + 1])
      BY DEF HistoryInv
    <2>1. i + 1 \in 1..(Len(vs) - 1) /\ versions'[i] = vs[i + 1] /\ versions'[i + 1] = vs[i + 2]
      BY <1>1
    <2>2. SpecKept(vs[i + 1], vs[(i + 1) + 1]) /\ (i + 1) + 1 = i + 2
      BY <2>1
    <2> QED
      BY <2>1, <2>2
  <1>3. ~tq' => ~tq /\ Compiled' = Compiled
    <2> SUFFICES ASSUME ~tq' PROVE ~tq /\ Compiled' = Compiled
      OBVIOUS
    <2>1. SpecKept(vs[1], vs[2])
      BY <1>1
    <2>2. Callouts(vs[1], transCache, selected) = Callouts(vs[2], transCache, selected)
      BY <1>1, <2>1, DroppedEvent
    <2> QED
      BY <1>1, <2>2 DEF Compiled
  <1> QED
    BY <1>2, <1>3 DEF TenantInv

\* So does a write, of a version that keeps the spec or raises the generation.
LEMMA WriteTenant ==
    ASSUME TypeOK, TenantInv, HistoryInv, NEW p \in Policy, SpecKept(live, p), Write(p),
           UNCHANGED <<transCache, selected, tw, catalog>>
    PROVE  HistoryInv' /\ TenantInv'
  <1> DEFINE vs == Append(versions, p)
  <1>1. /\ versions \in Seq(Policy) /\ Len(versions) \in 1..(MaxLag + 1)
        /\ vs \in Seq(Policy) /\ Len(vs) = Len(versions) + 1
        /\ \A i \in 1..Len(versions) : vs[i] = versions[i]
        /\ vs[Len(versions) + 1] = p
    BY DEF TypeOK
  <1>2. \A i \in 1..(Len(vs) - 1) : SpecKept(vs[i], vs[i + 1])
    <2> SUFFICES ASSUME NEW i \in 1..(Len(vs) - 1) PROVE SpecKept(vs[i], vs[i + 1])
      OBVIOUS
    <2> HIDE DEF vs
    <2>1. CASE i = Len(versions)
      BY <1>1, <2>1 DEF live
    <2>2. CASE i # Len(versions)
      <3>1. i \in 1..(Len(versions) - 1) /\ i \in 1..Len(versions) /\ i + 1 \in 1..Len(versions)
        BY <1>1, <2>2
      <3>2. SpecKept(versions[i], versions[i + 1])
        BY <3>1 DEF HistoryInv
      <3> QED
        BY <1>1, <3>1, <3>2
    <2> QED
      BY <2>1, <2>2
  <1>3. vs[1] = cached
    BY <1>1, BoundAssumption DEF cached
  <1>4. CASE Len(vs) > MaxLag + 1
    <2>1. Arrive(vs) /\ Len(vs) > 1 /\ Len(vs) <= MaxLag + 2
      BY <1>1, <1>4, BoundAssumption DEF Write
    <2> HIDE DEF vs
    <2> QED
      BY <1>1, <1>2, <1>3, <2>1, ArriveTenant
  <1>5. CASE ~(Len(vs) > MaxLag + 1)
    <2>1. versions' = vs /\ tq' = tq
      BY <1>5 DEF Write
    <2> HIDE DEF vs
    <2>2. cached' = cached
      BY <1>3, <2>1 DEF cached
    <2> QED
      BY <1>2, <2>1, <2>2 DEF HistoryInv, TenantInv, Compiled
  <1> QED
    BY <1>4, <1>5

\* Nothing is pending initially, and the status is the verdict.
LEMMA InitInv == Init => IInv
  <1> SUFFICES ASSUME Init PROVE IInv
    OBVIOUS
  <1>1. TypeOK /\ ReadInv
    BY InitTyped
  <1>2. PICK s \in Specs :
          LET p == [phase |-> "live", gen |-> 1, spec |-> s, st |-> NoStatus]
              settled == [p EXCEPT !.st = InitStatus(p)]
          IN  versions = <<settled>> /\ catalog = Callouts(settled, FALSE, CheckNames)
    BY DEF Init
  <1> DEFINE p == [phase |-> "live", gen |-> 1, spec |-> s, st |-> NoStatus]
             n == prov[s.prov]
  <1>3. p \in Policy /\ p.spec = s /\ p.gen = 1
    BY NothingTyped DEF Policy
  <1>4. /\ cached = live /\ Len(versions) = 1
        /\ live = [p EXCEPT !.st = InitStatus(p)]
        /\ catalog = Callouts(cached, FALSE, CheckNames)
    BY <1>2 DEF live, cached
  <1>5. live.spec = s /\ live.gen = p.gen /\ live.st = InitStatus(p)
    BY <1>3, <1>4 DEF Policy
  <1> HIDE DEF p
  <1>6. Verdict(p, InitStatus(p), n, label, trans)
    <2>0. /\ label = TRUE /\ trans = FALSE /\ s.prov \in Providers
          /\ prov = [q \in Providers |->
                 IF crd THEN [uid |-> 1, allow |-> "selector", configs |-> Configs, place |-> Home]
                 ELSE NoProvider]
      BY SpecAssumption DEF Init
    <2>1. CASE ~crd
      <3>1. ~Permits(n, label)
        BY <2>0, <2>1 DEF Permits, NoProvider
      <3> QED
        BY <1>3, <2>1, <3>1, DenyRight DEF InitStatus
    <2>2. CASE crd /\ p.spec.fine
      <3>1. ~Runnable(p, trans)
        BY <2>2 DEF Runnable
      <3> QED
        BY <1>3, <2>2, <3>1, RefuseRight DEF InitStatus
    <2>3. CASE crd /\ ~p.spec.fine
      <3>1. n = [uid |-> 1, allow |-> "selector", configs |-> Configs, place |-> Home]
        BY <2>0, <2>3
      <3>2. Permits(n, label) /\ Runnable(p, trans)
        BY <2>0, <2>3, <3>1 DEF Permits, Runnable
      <3>3. n \in Provider
        BY <1>1, <2>0 DEF TypeOK
      <3> HIDE DEF n
      <3>4. InitStatus(p) = Judge(p, n)
        BY <1>3, <2>3 DEF InitStatus, n
      <3> QED
        BY <1>3, <3>2, <3>3, <3>4, JudgeRight
    <2> QED
      BY <2>1, <2>2, <2>3
  <1>7. Verdict(live, live.st, provider, label, trans)
    BY <1>3, <1>5, <1>6 DEF Verdict, Accepts, Honest, Runnable, Compatible, BindingRevision, provider
  <1>8. VerdictInv
    BY <1>7 DEF VerdictInv, OnCourse, Init, GwIdle
  <1>9. TenantInv /\ TransInv /\ HistoryInv
    <2>1. /\ transCache = FALSE /\ trans = FALSE /\ selected = CheckNames
          /\ tw = TwIdle /\ tw.pc = "idle"
      BY DEF Init, TwIdle
    <2>2. TenantInv
      BY <1>4, <2>1 DEF TenantInv, Compiled
    <2>3. HistoryInv
      BY <1>4 DEF HistoryInv
    <2> QED
      BY <2>1, <2>2, <2>3 DEF TransInv
  <1> QED
    BY <1>1, <1>8, <1>9 DEF IInv

\* A reconcile started on a current cache is on course.
LEMMA StartOnCourse ==
    ASSUME IInv, StartGuardrail, Len(versions) = 1, live.phase # "gone"
    PROVE  OnCourse'
  <1>1. cached = live /\ live \in Policy /\ live.st.cond \in [CondTypes -> Condition]
    BY CopyTypes, PolicyFields DEF IInv, cached, live
  <1>2. /\ live' = live /\ provider' = provider /\ label' = label /\ trans' = trans
    BY DEF StartGuardrail, gFrame, polVars, inputVars, live, provider
  <1>3. ASSUME NEW st \in Status, Conclude(live, st), Verdict(live, st, provider, label, trans)
        PROVE  OnCourse'
    <2>1. gw'.pc = "patch" /\ gw'.snap = live /\ gw'.out = st
      BY <1>1, <1>3, ConcludeTyped
    <2> QED
      BY <1>2, <1>3, <2>1 DEF OnCourse
  <1>4. CASE ~crd /\ Conclude(live, DenyBinding(live, "crd"))
    <2>1. ~Permits(provider, label)
      BY <1>1, <1>4, PolicyFields DEF IInv, ReadInv, Permits, provider
    <2> QED
      BY <1>1, <1>3, <1>4, <2>1, DenyRight, DenyFacts
  <1>5. CASE live.spec.fine /\ Conclude(live, Refuse(live, live.st.cond, "timeout"))
    <2>1. ~Runnable(live, trans)
      BY <1>5 DEF Runnable
    <2> QED
      BY <1>1, <1>3, <1>5, <2>1, RefuseRight, RefuseFacts
  <1>6. CASE /\ live.spec.output /\ trans
             /\ Conclude(live, Refuse(live, live.st.cond, "output"))
    <2>1. ~Runnable(live, trans)
      BY <1>6 DEF Runnable
    <2> QED
      BY <1>1, <1>3, <1>6, <2>1, RefuseRight, RefuseFacts
  <1>7. CASE /\ ~live.spec.fine /\ ~(live.spec.output /\ trans)
             /\ gw' = [pc |-> "provider", snap |-> live, seen |-> NoProvider, out |-> NoStatus]
    <2>1. Runnable(live, trans)
      BY <1>7 DEF Runnable
    <2> QED
      BY <1>2, <1>7, <2>1 DEF OnCourse
  <1> QED
    BY <1>1, <1>4, <1>5, <1>6, <1>7, StartCases DEF IInv

\* The live reads of a worker on course keep it there.
LEMMA ReadOnCourse ==
    ASSUME IInv, OnCourse, ReadProvider \/ ReadNamespace
    PROVE  OnCourse'
  <1>1. /\ live \in Policy /\ gw.snap = live /\ Runnable(live, trans)
        /\ gw \in Worker
    BY CopyTypes DEF IInv, OnCourse, ReadProvider, ReadNamespace, TypeOK, Worker
  <1>2. provider \in Provider
    BY <1>1, PolicyFields DEF IInv, TypeOK, provider
  <1>3. live' = live /\ provider' = provider /\ label' = label /\ trans' = trans
    BY DEF ReadProvider, ReadNamespace, gFrame, polVars, inputVars, live, provider
  <1>4. ASSUME NEW st \in Status, Conclude(live, st), Verdict(live, st, provider, label, trans)
        PROVE  OnCourse'
    <2>1. gw'.pc = "patch" /\ gw'.snap = live /\ gw'.out = st
      BY <1>1, <1>4, ConcludeTyped
    <2> QED
      BY <1>3, <1>4, <2>1 DEF OnCourse
  <1>5. ASSUME NEW why \in {"crd", "missing", "denied"}, ~Permits(provider, label),
               Conclude(live, DenyBinding(live, why))
        PROVE  OnCourse'
    BY <1>1, <1>4, <1>5, DenyRight, DenyFacts
  <1>6. ASSUME Permits(provider, label), Conclude(live, Judge(live, provider))
        PROVE  OnCourse'
    <2>1. provider.uid # 0 /\ provider.allow \in {"open", "selector"}
      BY <1>6 DEF Permits
    <2> QED
      BY <1>1, <1>2, <1>4, <1>6, <2>1, JudgeRight, JudgeFacts
  <1>7. CASE ReadProvider
    <2>1. \/ /\ provider.uid = 0
             /\ Conclude(live, DenyBinding(live, IF CrdServed THEN "missing" ELSE "crd"))
          \/ provider.allow = "closed" /\ Conclude(live, DenyBinding(live, "denied"))
          \/ /\ provider.uid # 0 /\ provider.allow = "open"
             /\ Conclude(live, Judge(live, provider))
          \/ gw' = [gw EXCEPT !.pc = "namespace", !.seen = provider]
      BY <1>1, <1>7 DEF ReadProvider, provider
    <2>2. CASE provider.uid = 0 /\ Conclude(live, DenyBinding(live, IF CrdServed THEN "missing" ELSE "crd"))
      <3>1. ~Permits(provider, label)
        BY <2>2 DEF Permits
      <3> QED
        BY <1>5, <2>2, <3>1
    <2>3. CASE provider.allow = "closed" /\ Conclude(live, DenyBinding(live, "denied"))
      <3>1. ~Permits(provider, label)
        BY <2>3 DEF Permits
      <3> QED
        BY <1>5, <2>3, <3>1
    <2>4. CASE provider.uid # 0 /\ provider.allow = "open" /\ Conclude(live, Judge(live, provider))
      <3>1. Permits(provider, label)
        BY <2>4 DEF Permits
      <3> QED
        BY <1>6, <2>4, <3>1
    <2>5. CASE gw' = [gw EXCEPT !.pc = "namespace", !.seen = provider]
      <3>1. [gw EXCEPT !.pc = "namespace", !.seen = provider]
              = [[gw EXCEPT !.pc = "namespace"] EXCEPT !.seen = provider]
        OBVIOUS
      <3>2. gw'.pc = "namespace" /\ gw'.seen = provider /\ gw'.snap = gw.snap
        BY <1>1, <2>5, <3>1 DEF Worker
      <3> QED
        BY <1>1, <1>3, <3>2 DEF OnCourse
    <2> QED
      BY <2>1, <2>2, <2>3, <2>4, <2>5
  <1>8. CASE ReadNamespace
    <2>1. /\ gw.seen = provider /\ provider.uid # 0 /\ provider.allow = "selector"
          /\ Conclude(live, IF Allows(provider) THEN Judge(live, provider)
                            ELSE DenyBinding(live, "denied"))
      BY <1>1, <1>8 DEF ReadNamespace, OnCourse, IInv, ReadInv
    <2>2. Allows(provider) <=> Permits(provider, label)
      BY <2>1 DEF Allows, Permits
    <2>3. CASE Allows(provider)
      BY <1>6, <2>1, <2>2, <2>3
    <2>4. CASE ~Allows(provider)
      BY <1>5, <2>1, <2>2, <2>4
    <2> QED
      BY <2>3, <2>4
  <1> QED
    BY <1>7, <1>8

\* A patch that changes nothing was computed from the live status.
LEMMA PatchOnCourse ==
    ASSUME IInv, OnCourse, PatchStatus, UNCHANGED versions
    PROVE  live.phase = "gone" \/ gq' \/ OnCourse'
  <1>1. /\ live \in Policy /\ gw.snap = live /\ gw.out \in Status /\ gw'.pc = "idle"
        /\ Verdict(live, gw.out, provider, label, trans)
    BY CopyTypes DEF IInv, OnCourse, PatchStatus, TypeOK, GwIdle
  <1>2. live' = live /\ provider' = provider /\ label' = label /\ trans' = trans
    BY DEF PatchStatus, inputVars, live, provider
  <1>3. live.st \in Status
    BY <1>1, PolicyFields
  <1>4. CASE Merge(live.st, gw.snap.st, gw.out) = live.st
    <2>1. gw.out = live.st
      BY <1>1, <1>3, <1>4, MergeFacts
    <2> QED
      BY <1>1, <1>2, <2>1 DEF OnCourse
  <1>5. CASE Write([live EXCEPT !.st = Merge(live.st, gw.snap.st, gw.out)])
    <2>1. gq' \/ Len(versions') > 1
      BY <1>5, PatchTyped, WriteFacts DEF IInv
    <2>2. CASE gq'
      BY <2>2
    <2>3. CASE ~gq'
      <3>1. live' = [live EXCEPT !.st = Merge(live.st, gw.snap.st, gw.out)]
        BY <1>5, PatchTyped, WriteFacts DEF IInv
      <3>2. live.st = Merge(live.st, gw.snap.st, gw.out)
        BY <1>1, <1>2, <3>1 DEF Policy
      <3> QED
        BY <1>4, <3>2
    <2> QED
      BY <2>2, <2>3
  <1> QED
    BY <1>4, <1>5 DEF PatchStatus

\* Every step keeps the guardrail half: whatever outdates the worker's reads
\* leaves work pending.
LEMMA VerdictStep == IInv /\ [Next]_vars => VerdictInv'
  <1> SUFFICES ASSUME IInv, [Next]_vars, ~Pending', live'.phase # "gone" PROVE OnCourse'
    BY DEF VerdictInv
  <1>t. TypeOK /\ ReadInv /\ VerdictInv /\ live \in Policy
    BY CopyTypes DEF IInv
  <1>p. ~gq' /\ ~(Len(versions') > 1) /\ ~nsEvent' /\ ~transEvent' /\ ~drift'
        /\ live'.spec.prov \notin provEvents'
    BY DEF Pending
  <1>w. ASSUME NEW p \in Policy, Write(p) PROVE FALSE
    BY <1>p, <1>t, <1>w, WriteFacts
  <1>s. ASSUME UNCHANGED <<versions, label, trans, gw>>, prov'[live.spec.prov] = prov[live.spec.prov],
               ~Pending
        PROVE  OnCourse'
    <2>1. live' = live /\ provider' = provider
      BY <1>s DEF live, provider
    <2>2. OnCourse
      BY <1>s, <1>t, <2>1 DEF VerdictInv
    <2> QED
      BY <1>s, <2>1, <2>2 DEF OnCourse
  <1>n. ASSUME UNCHANGED <<versions, gq, nsEvent, transEvent, drift, provEvents>> PROVE ~Pending
    BY <1>n, <1>p DEF Pending, live
  <1>1. CASE StartGuardrail
    <2>1. UNCHANGED versions
      BY <1>1 DEF StartGuardrail, gFrame, polVars
    <2>2. Len(versions) = 1
      <3>1. ~(Len(versions) > 1) /\ Len(versions) \in 1..(MaxLag + 1)
        BY <1>p, <1>t, <2>1 DEF TypeOK
      <3> DEFINE k == Len(versions)
      <3>2. k \in 1..(MaxLag + 1) /\ ~(k > 1)
        BY <3>1
      <3> HIDE DEF k
      <3>3. k = 1
        BY <3>2, BoundAssumption
      <3> QED
        BY <3>3 DEF k
    <2>3. live.phase # "gone"
      BY <2>1 DEF live
    <2> QED
      BY <1>1, <2>2, <2>3, StartOnCourse
  <1>2. CASE ReadProvider \/ ReadNamespace
    <2>1. UNCHANGED <<versions, gq, nsEvent, transEvent, drift, provEvents>>
      BY <1>2 DEF ReadProvider, ReadNamespace, gFrame, polVars, eventVars
    <2>2. OnCourse
      BY <1>n, <1>t, <2>1 DEF VerdictInv, live
    <2> QED
      BY <1>2, <2>2, ReadOnCourse
  <1>3. CASE PatchStatus
    <2>1. UNCHANGED versions
      BY <1>3, <1>w, PatchTyped DEF PatchStatus, IInv
    <2>2. live' = live
      BY <2>1 DEF live
    <2>3. ~gq
      BY <1>3, <1>p, <1>w, <2>2, PatchTyped DEF PatchStatus, IInv
    <2>4. ~Pending
      BY <1>3, <1>p, <2>1, <2>2, <2>3 DEF PatchStatus, eventVars, Pending
    <2>5. OnCourse
      BY <1>t, <2>2, <2>4 DEF VerdictInv
    <2> QED
      BY <1>3, <1>p, <2>1, <2>2, <2>5, PatchOnCourse
  <1>4. CASE CompileCatalog \/ PublishCatalog
    BY <1>4, <1>n, <1>s DEF CompileCatalog, PublishCatalog, tFrame, polVars, inputVars, eventVars
  <1>5. CASE Deliver
    BY <1>5, <1>p DEF Deliver, Arrive
  <1>6. CASE DeliverNamespace \/ DeliverTranslation \/ Resync
    BY <1>6, <1>p DEF DeliverNamespace, DeliverTranslation, Resync
  <1>7. ASSUME NEW p \in Providers, DeliverProvider(p) PROVE OnCourse'
    <2>1. UNCHANGED <<versions, prov, label, trans, gw, nsEvent, transEvent, drift>>
      BY <1>7 DEF DeliverProvider, polVars, inputVars
    <2>2. ~gq /\ ~(cached.phase # "gone" /\ cached.spec.prov = p) /\ provEvents' = provEvents \ {p}
      BY <1>7, <1>p, <1>t DEF DeliverProvider, TypeOK
    <2>3. cached = live
      BY <1>p, <1>t, <2>1, BoundAssumption DEF TypeOK, cached, live
    <2>4. live.phase # "gone" /\ live.spec.prov # p /\ live' = live
      BY <2>1, <2>2, <2>3 DEF live
    <2>5. ~Pending
      BY <1>p, <2>1, <2>2, <2>4 DEF Pending
    <2> QED
      BY <1>s, <2>1, <2>5
  <1>8. CASE EditPolicy
    <2>1. PICK s \in Specs : Write([live EXCEPT !.gen = @ + 1, !.spec = s])
      BY <1>8 DEF EditPolicy
    <2> QED
      BY <1>t, <1>w, <2>1, EditsTyped
  <1>9. CASE DeletePolicy
    <2>1. Write(NoPolicy) \/ Write([live EXCEPT !.phase = "deleting", !.gen = @ + 1])
      BY <1>9 DEF DeletePolicy
    <2> QED
      BY <1>t, <1>w, <2>1, EditsTyped, NothingTyped, SpecAssumption
  <1>10. CASE CreatePolicy
    <2>1. PICK s \in Specs : Write([phase |-> "live", gen |-> 1, spec |-> s, st |-> NoStatus])
      BY <1>10 DEF CreatePolicy
    <2> QED
      BY <1>t, <1>w, <2>1, EditsTyped
  <1>11. CASE EditProvider
    <2>1. PICK p \in Providers : Notice(p) /\ \A q \in Providers \ {p} : prov'[q] = prov[q]
      BY <1>11, <1>t, ProviderTyped
    <2>2. UNCHANGED <<versions, label, trans, gw, gq, nsEvent, transEvent>>
      BY <1>11 DEF EditProvider, polVars, workFrame
    <2>3. live' = live /\ live.spec.prov \in Providers
      BY <1>t, <2>2, PolicyFields DEF live
    <2>4. watching /\ provEvents' = provEvents \cup {p} /\ drift' = drift
      BY <1>p, <2>1 DEF Notice
    <2>5. live.spec.prov # p
      BY <1>p, <2>3, <2>4
    <2>6. ~Pending
      BY <1>p, <2>2, <2>3, <2>4 DEF Pending
    <2> QED
      BY <1>s, <2>1, <2>2, <2>3, <2>5, <2>6
  <1>12. CASE RelabelNamespace \/ ChangeCrd \/ EditTranslation
    BY <1>12, <1>p DEF RelabelNamespace, ChangeCrd, EditTranslation
  <1>13. CASE EditAttachment \/ FailTenant
    BY <1>13, <1>n, <1>s DEF EditAttachment, FailTenant, polVars, inputVars, eventVars, workFrame
  <1>14. CASE FailGuardrail \/ Restart
    BY <1>14, <1>p DEF FailGuardrail, Restart
  <1>15. CASE UNCHANGED vars
    BY <1>15, <1>n, <1>s DEF vars
  <1> QED
    BY <1>1, <1>2, <1>3, <1>4, <1>5, <1>6, <1>7, <1>8, <1>9, <1>10, <1>11, <1>12, <1>13, <1>14, <1>15
       DEF Next, GuardrailWorker, TenantWorker, Events, Environment

\* Every step keeps the tenant half.
LEMMA TenantStep == IInv /\ [Next]_vars => HistoryInv' /\ TenantInv' /\ TransInv'
  <1> SUFFICES ASSUME IInv, [Next]_vars PROVE HistoryInv' /\ TenantInv' /\ TransInv'
    OBVIOUS
  <1>t. TypeOK /\ HistoryInv /\ TenantInv /\ TransInv /\ live \in Policy /\ live.gen \in Nat
    BY CopyTypes, PolicyFields DEF IInv
  <1> DEFINE Goal == HistoryInv' /\ TenantInv' /\ TransInv'
             tenant == <<transCache, selected, tw, catalog>>
  <1>w. ASSUME NEW p \in Policy, Write(p), SpecKept(live, p), UNCHANGED <<tenant, trans, transEvent>>
        PROVE  Goal
    BY <1>t, <1>w, WriteTenant DEF TransInv
  <1>n. ASSUME UNCHANGED <<tenant, tq, versions>> PROVE HistoryInv' /\ TenantInv'
    BY <1>n, <1>t DEF HistoryInv, TenantInv, Compiled, cached
  <1>1. ASSUME StartGuardrail \/ ReadProvider \/ ReadNamespace PROVE Goal
    <2>1. UNCHANGED <<tenant, tq, versions, trans, transEvent>>
      BY <1>1 DEF StartGuardrail, ReadProvider, ReadNamespace, gFrame, polVars, inputVars, eventVars
    <2> QED
      BY <1>n, <1>t, <2>1 DEF TransInv
  <1>2. ASSUME PatchStatus PROVE Goal
    <2>1. UNCHANGED <<tenant, trans, transEvent>>
      BY <1>2 DEF PatchStatus, inputVars, eventVars
    <2>2. CASE UNCHANGED <<versions, tq>>
      BY <1>n, <1>t, <2>1, <2>2 DEF TransInv
    <2>3. CASE Write([live EXCEPT !.st = Merge(live.st, gw.snap.st, gw.out)])
      <3>1. SpecKept(live, [live EXCEPT !.st = Merge(live.st, gw.snap.st, gw.out)])
        BY <1>t DEF SpecKept, Policy
      <3> QED
        BY <1>2, <1>t, <1>w, <2>1, <2>3, <3>1, PatchTyped
    <2> QED
      BY <1>2, <2>2, <2>3 DEF PatchStatus
  <1>3. ASSUME CompileCatalog PROVE Goal
    <2>1. UNCHANGED <<versions, transCache, selected, catalog, trans, transEvent>>
      BY <1>3 DEF CompileCatalog, tFrame, polVars, inputVars, eventVars
    <2>2. HistoryInv' /\ TransInv' /\ Compiled' = Compiled
      BY <1>t, <2>1 DEF HistoryInv, TransInv, Compiled, cached
    <2>3. CASE UNCHANGED <<tq, tw>>
      BY <1>n, <2>1, <2>2, <2>3
    <2>4. CASE tw' = [pc |-> "publish", out |-> Compiled]
      BY <2>2, <2>4 DEF TenantInv
    <2> QED
      BY <1>3, <2>3, <2>4 DEF CompileCatalog, Compiled
  <1>4. ASSUME PublishCatalog PROVE Goal
    <2>1. UNCHANGED <<versions, transCache, selected, tq, trans, transEvent>>
      BY <1>4 DEF PublishCatalog, tFrame, polVars, inputVars, eventVars
    <2>2. HistoryInv' /\ TransInv' /\ Compiled' = Compiled
      BY <1>t, <2>1 DEF HistoryInv, TransInv, Compiled, cached
    <2>3. tw.pc = "publish" /\ tw'.pc = "idle" /\ catalog' = tw.out
      BY <1>4 DEF PublishCatalog, TwIdle
    <2> QED
      BY <1>t, <2>1, <2>2, <2>3 DEF TenantInv
  <1>5. ASSUME Deliver PROVE Goal
    <2>1. UNCHANGED <<tenant, trans, transEvent>> /\ Arrive(versions) /\ Len(versions) > 1
      BY <1>5 DEF Deliver, inputVars, eventVars
    <2>2. versions \in Seq(Policy) /\ Len(versions) <= MaxLag + 2 /\ versions[1] = cached
      BY <1>t, BoundAssumption DEF TypeOK, cached
    <2> QED
      BY <1>t, <2>1, <2>2, ArriveTenant DEF HistoryInv, TransInv
  <1>6. ASSUME NEW p \in Providers, DeliverProvider(p) PROVE Goal
    BY <1>6, <1>n, <1>t DEF DeliverProvider, polVars, inputVars, TransInv
  <1>7. ASSUME DeliverNamespace \/ Resync PROVE Goal
    BY <1>7, <1>n, <1>t DEF DeliverNamespace, Resync, polVars, inputVars, TransInv
  <1>8. ASSUME DeliverTranslation PROVE Goal
    BY <1>8, <1>t DEF DeliverTranslation, polVars, inputVars, HistoryInv, TenantInv, TransInv
  <1>9. ASSUME EditPolicy PROVE Goal
    <2>1. PICK s \in Specs : Write([live EXCEPT !.gen = @ + 1, !.spec = s])
      BY <1>9 DEF EditPolicy
    <2>2. SpecKept(live, [live EXCEPT !.gen = @ + 1, !.spec = s])
      <3>1. live.gen # [live EXCEPT !.gen = @ + 1, !.spec = s].gen
        <4>1. [live EXCEPT !.gen = @ + 1, !.spec = s].gen = live.gen + 1
          BY <1>t, EditsTyped
        <4> QED
          BY <1>t, <4>1
      <3> QED
        BY <3>1 DEF SpecKept
    <2>3. UNCHANGED <<tenant, trans, transEvent>>
      BY <1>9 DEF EditPolicy, inputVars, eventVars, workFrame
    <2> QED
      BY <1>t, <1>w, <2>1, <2>2, <2>3, EditsTyped
  <1>10. ASSUME DeletePolicy PROVE Goal
    <2>1. UNCHANGED <<tenant, trans, transEvent>>
      BY <1>10 DEF DeletePolicy, inputVars, eventVars, workFrame
    <2>2. CASE Write(NoPolicy)
      <3>1. SpecKept(live, NoPolicy)
        BY DEF SpecKept, NoPolicy
      <3> QED
        BY <1>w, <2>1, <2>2, <3>1, NothingTyped
    <2>3. CASE Write([live EXCEPT !.phase = "deleting", !.gen = @ + 1])
      <3>1. live.gen # [live EXCEPT !.phase = "deleting", !.gen = @ + 1].gen
        <4>1. [live EXCEPT !.phase = "deleting", !.gen = @ + 1].gen = live.gen + 1
          BY <1>t, EditsTyped, SpecAssumption
        <4> QED
          BY <1>t, <4>1
      <3>2. SpecKept(live, [live EXCEPT !.phase = "deleting", !.gen = @ + 1])
        BY <3>1 DEF SpecKept
      <3> QED
        BY <1>t, <1>w, <2>1, <2>3, <3>2, EditsTyped, SpecAssumption
    <2> QED
      BY <1>10, <2>2, <2>3 DEF DeletePolicy
  <1>11. ASSUME CreatePolicy PROVE Goal
    <2>1. PICK s \in Specs : Write([phase |-> "live", gen |-> 1, spec |-> s, st |-> NoStatus])
      BY <1>11 DEF CreatePolicy
    <2>2. SpecKept(live, [phase |-> "live", gen |-> 1, spec |-> s, st |-> NoStatus])
      BY <1>11 DEF CreatePolicy, SpecKept
    <2>3. UNCHANGED <<tenant, trans, transEvent>>
      BY <1>11 DEF CreatePolicy, inputVars, eventVars, workFrame
    <2> QED
      BY <1>t, <1>w, <2>1, <2>2, <2>3, EditsTyped
  <1>12. ASSUME EditProvider \/ RelabelNamespace \/ ChangeCrd PROVE Goal
    <2>1. UNCHANGED <<tenant, tq, versions, trans, transEvent>>
      BY <1>12 DEF EditProvider, RelabelNamespace, ChangeCrd, polVars, workFrame
    <2> QED
      BY <1>n, <1>t, <2>1 DEF TransInv
  <1>13. ASSUME EditTranslation PROVE Goal
    BY <1>13, <1>n DEF EditTranslation, polVars, workFrame, TransInv
  <1>14. ASSUME EditAttachment \/ FailTenant PROVE Goal
    BY <1>14, <1>t DEF EditAttachment, FailTenant, polVars, inputVars, eventVars, workFrame,
       HistoryInv, TenantInv, TransInv
  <1>15. ASSUME FailGuardrail PROVE Goal
    BY <1>15, <1>n, <1>t DEF FailGuardrail, polVars, inputVars, eventVars, TransInv
  <1>16. ASSUME Restart PROVE Goal
    BY <1>16 DEF Restart, inputVars, HistoryInv, TenantInv, TransInv
  <1>17. ASSUME UNCHANGED vars PROVE Goal
    BY <1>17, <1>n, <1>t DEF vars, TransInv
  <1> QED
    BY <1>1, <1>2, <1>3, <1>4, <1>5, <1>6, <1>7, <1>8, <1>9, <1>10, <1>11, <1>12, <1>13, <1>14, <1>15,
       <1>16, <1>17 DEF Next, GuardrailWorker, TenantWorker, Events, Environment

\* Every reachable state satisfies the inductive invariant.
THEOREM Invariance == Spec => []IInv
  <1>1. Init => IInv
    BY InitInv
  <1>2. IInv /\ [Next]_vars => IInv'
    BY TypeStep, VerdictStep, TenantStep DEF IInv
  <1> QED
    BY <1>1, <1>2, PTL DEF Spec

\* With nothing left to do the cache is current and the status is the verdict.
LEMMA QuietVerdict ==
    ASSUME IInv, Quiet, live.phase # "gone"
    PROVE  Verdict(live, live.st, provider, label, trans)
  BY DEF Quiet, IInv, VerdictInv, OnCourse, Pending

\* The inputs accept a policy exactly if the verdict on them does.
LEMMA AcceptableInputs == Acceptable(live) <=> Accepts(live, provider, label, trans)
  BY DEF Acceptable, Accepts, Permits, Compatible, NemoReady, Runnable, provider

\* A live policy's binding is called exactly where its provider is.
LEMMA CallableVerdict ==
    ASSUME live \in Policy, provider \in Provider,
           Verdict(live, live.st, provider, label, trans)
    PROVE  /\ Callable(live, trans) <=>
                live.phase = "live" /\ Acceptable(live) /\ provider.place = Home
           /\ Callable(live, trans) => live.st.endpoint = <<live.spec.prov, Home>>
  <1>1. CASE ~Acceptable(live)
    BY <1>1, AcceptableInputs DEF Verdict, Callable, BindingAccepted, AcceptedTrue
  <1>2. CASE Acceptable(live)
    <2>1. Accepts(live, provider, label, trans)
      BY <1>2, AcceptableInputs
    <2>2. /\ live.st.cond["accepted"].st = "true" /\ live.st.cond["accepted"].gen = live.gen
          /\ live.st.endpoint = <<live.spec.prov, provider.place>>
          /\ live.st.rev = BindingRevision(live, provider)
      BY <2>1 DEF Verdict
    <2>3. /\ BindingRevision(live, provider) \in Revision
          /\ <<live.spec.prov, provider.place>> \in Endpoint
      BY <2>1, BindingTyped DEF Accepts, Permits
    <2>4. live.st.rev # None /\ live.st.endpoint # None
      BY <2>2, <2>3, NoneAssumption
    <2>5. ~live.spec.fine /\ ~(live.spec.output /\ trans)
      BY <2>1 DEF Accepts, Runnable
    <2>6. live.st.endpoint[1] = live.spec.prov /\ live.st.endpoint[2] = provider.place
      BY <2>2
    <2> QED
      BY <1>2, <2>2, <2>4, <2>5, <2>6
         DEF Callable, BindingAccepted, AcceptedTrue, CalloutBuilds, InInfra
  <1> QED
    BY <1>1, <1>2

\* The invariant gives what the dataplane promises once nothing is left to do.
LEMMA Settled == IInv => NoLostUpdate
  <1> SUFFICES ASSUME IInv, Quiet PROVE Judged /\ Enforced
    BY DEF NoLostUpdate
  <1>1. live \in Policy /\ cached = live
    BY CopyTypes DEF IInv, Quiet, cached, live
  <1>2. provider \in Provider
    BY <1>1, PolicyFields DEF IInv, TypeOK, provider
  <1>3. Judged
    BY QuietVerdict, AcceptableInputs DEF Judged, Verdict, provider
  <1>4. catalog = Callouts(live, trans, selected)
    BY <1>1 DEF IInv, TenantInv, TransInv, Quiet, Compiled
  <1> DEFINE names == selected \cap DOMAIN live.spec.checks
             Called(k) == [check |-> k, config |-> live.spec.checks[k], call |-> <<live.spec.prov, Home>>]
             settled == live.phase = "live" /\ Acceptable(live) /\ provider.place = Home
  <1>e. Enforced <=> catalog = IF live.phase = "gone" THEN {}
                               ELSE {IF settled THEN Called(k) ELSE ClosedCheck(k) : k \in names}
    BY DEF Enforced, provider
  <1> HIDE DEF names, Called, settled
  <1>5. CASE live.phase = "gone"
    <2>1. catalog = {}
      BY <1>4, <1>5 DEF Callouts
    <2> QED
      BY <1>3, <1>5, <1>e, <2>1
  <1>6. CASE live.phase # "gone"
    <2>1. Callable(live, trans) <=> settled
      BY <1>1, <1>2, <1>6, QuietVerdict, CallableVerdict DEF settled
    <2>2. Callable(live, trans) => live.st.endpoint = <<live.spec.prov, Home>>
      BY <1>1, <1>2, <1>6, QuietVerdict, CallableVerdict
    <2>3. CASE settled
      <3>1. catalog = {Called(k) : k \in names}
        BY <1>4, <1>6, <2>1, <2>2, <2>3 DEF Callouts, SelectChecks, names, Called
      <3>2. {IF settled THEN Called(k) ELSE ClosedCheck(k) : k \in names} = {Called(k) : k \in names}
        BY <2>3
      <3> QED
        BY <1>3, <1>6, <1>e, <3>1, <3>2
    <2>4. CASE ~settled
      <3>1. catalog = {ClosedCheck(k) : k \in names}
        BY <1>4, <1>6, <2>1, <2>4 DEF Callouts, SelectChecks, names
      <3>2. {IF settled THEN Called(k) ELSE ClosedCheck(k) : k \in names} = {ClosedCheck(k) : k \in names}
        BY <2>4
      <3> QED
        BY <1>3, <1>6, <1>e, <3>1, <3>2
    <2> QED
      BY <2>3, <2>4
  <1> QED
    BY <1>5, <1>6

\* No wake-up is lost between an AIGuardrail, its provider and the dataplane: if
\* nothing is queued, running or undelivered, the status is the verdict on the
\* current inputs and each selected check is called or closed accordingly, for
\* any lag of the cache and any number of edits, failures and restarts.
THEOREM NoUpdateLost == Spec => []NoLostUpdate
  BY Invariance, Settled, PTL

\* A settled policy's conditions are the truth of their own inputs: nothing of an
\* earlier verdict survives a denial, though patches are unlocked merges.
THEOREM ConditionsTruthful == Spec => []ConditionsFollow
  <1>1. IInv => ConditionsFollow
    <2> SUFFICES ASSUME IInv, Quiet, live.phase # "gone",
                        live.st.cond["accepted"].why \notin {"output", "timeout"}
                 PROVE  Honest(live, live.st, provider, label)
      BY DEF ConditionsFollow, Honest, Permits, Compatible, NemoReady, provider
    <2> QED
      BY QuietVerdict DEF Verdict
  <1> QED
    BY <1>1, Invariance, PTL

=============================================================================
