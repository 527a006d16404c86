------------------------ MODULE TenantSettledProofs ------------------------
(***************************************************************************)
(* Proofs about TenantOverlay, continued: a tenant whose queue is empty is *)
(* served as its models say.  No event, failed call or publication of      *)
(* another writer is lost, the credential copies are exact, and traffic is *)
(* split by the models' weights.                                           *)
(***************************************************************************)
EXTENDS TenantOverlayProofs

-----------------------------------------------------------------------------
(***************************************************************************)
(* The inductive invariant.                                                *)
(***************************************************************************)
\* Candidates or routes of some models; the providers of routes; the routes an
\* attached model is due.
Of(S, M) == {x \in S : x.model \in M}
Providers(R) == {r.provider : r \in R}
Due(a) == Mine(a, spec, world)

\* Candidates of one name count in proportion to the weights of the models s.
Share(c) == IF c.weight = 0 THEN 1 ELSE c.weight
Asked(c, s) == s[c.model].refs[c.provider].weight
Proportional(C, s) == \A c, d \in C :
    c.name = d.name => Share(c) * Asked(d, s) = Share(d) * Asked(c, s)

\* Who is being looked at, or will be.
Busy(a) == pass.pc \in AttachPc /\ pass.model = a
Attended(a) == a \in queue \/ Busy(a)

\* An attached model is published as it is due or not at all, with its
\* credentials, and its route keeps the annotation its copies hang on.
Shows(a) ==
    LET C == Of(Content.candidates, {a}) IN
    /\ Named(C) = {} \/ Named(C) = Named(Due(a))
    /\ C # {} => a \in Accepted /\ Copied(Due(a)) \subseteq copies
    /\ Proportional(C, spec)
Complete(a) ==
    a \in Accepted /\ Due(a) # {} => Named(Of(Content.candidates, {a})) = Named(Due(a))
Exact(a) == route[a].rules = Providers(Due(a)) /\ route[a].uses = Copied(Due(a))

\* Nothing is left to do for it, but for capacity.
Fine(a) ==
    /\ Due(a) = {} => route[a] = NoRoute
    /\ Copied(Due(a)) \subseteq route[a].uses
    /\ Shows(a)
    /\ a \notin over => Exact(a) /\ Complete(a)
Rested == \A a \in Outside \cap Live(spec) : Attended(a) \/ Fine(a)

\* The pass of an attached model nobody has queued again: nothing it read has
\* changed, and the route is as its last apply left it.
Current(b) ==
    /\ b \in Live(spec) /\ pass.translation = world.translation /\ pass.want = Due(b)
    /\ pass.kind = "exclude" => Due(b) = {}
    /\ pass.kind # "exclude" => Due(b) # {} /\ Copied(Due(b)) \subseteq route[b].uses
    /\ pass.kind = "serve" => b \in Accepted
    /\ pass.kind = "withdraw" /\ (b \in Accepted \/ pass.stale # {}) => b \in over
    /\ pass.kind # "exclude" /\ pass.stale = {} => Exact(b)
    /\ pass.kind = "serve" /\ pass.pc \in {"republish", "collect"} => Exact(b)
Underway == \A b \in Outside : Busy(b) => b \in queue \/ Current(b)

\* The steps each kind of pass has.
Stage(b) ==
    /\ \/ pass.kind = "exclude" /\ pass.pc \in {"stage", "drain", "remove", "depublish"}
       \/ /\ pass.kind = "serve" /\ route[b].exists
          /\ pass.pc \in {"copy", "stage", "drain", "prune", "republish", "collect"}
       \/ pass.kind = "withdraw" /\ pass.pc \in {"withdraw", "collect"} /\ route[b].exists
    /\ pass.kind = "exclude" /\ pass.pc = "stage" => pass.stale # {}
    /\ pass.pc = "depublish" => route[b] = NoRoute
Stages == \A b \in Outside : Busy(b) => Stage(b)

\* What the last publication of a pass left out has no candidate; what it
\* served is published as it is due.
Collecting ==
    /\ pass.pc \in {"finish", "collect"} =>
          \A a \in pass.over : Of(Content.candidates, {a}) = {}
    /\ pass.pc = "collect" => \A b \in Outside : Busy(b) =>
          \/ b \in queue
          \/ /\ Shows(b)
             /\ (\E r \in pass.served : r.model = b) => Complete(b)
             /\ b \in pass.over => b \in over

\* A home pass about to publish has the attached models as they are due.
Planned(a) ==
    LET mine == Of(pass.served, {a}) IN
    /\ mine = {} \/ mine = Due(a)
    /\ mine # {} => a \in Accepted /\ Copied(Due(a)) \subseteq copies
    /\ a \in Accepted /\ Due(a) # {} /\ a \notin over \cup pass.over => mine = Due(a)
Plan ==
    pass.pc \in {"write", "publish"} =>
        /\ \A a \in Outside \cap Live(spec) : a \in queue \/ Planned(a)
        /\ \A r \in pass.served : r.model \notin pass.over

\* The tenant's own models: queued, about to be published as they resolve, or
\* published so.  The pass of a model that goes need not be repeated.
Valid ==
    LET R == Resolved(OwnLive(spec), spec, world) IN Without(R, Rejected(R))
OwnServedAs ==
    /\ \A o \in Own : Entries(o) = Named(Of(Valid, {o}))
    /\ Proportional(Of(Content.candidates, Own), spec)
OwnQuiet == \A o \in queue \cap Own : pass.pc \in HomePc /\ pass.deleting /\ o = pass.model
HomePass ==
    pass.pc \in HomePc => /\ pass.kind \in {"publish", "clear", "exclude"}
                          /\ pass.deleting =>
                                spec[pass.model].life # "live" /\ pass.kind # "exclude"
OwnKept ==
    OwnQuiet =>
        /\ pass.pc \in {"write", "publish"} \/ OwnServedAs
        /\ pass.pc \in {"write", "publish"} /\ (pass.kind = "publish" \/ pass.deleting) =>
              pass.want = Valid /\ pass.kept = {}

\* Attached models on their way out.
Parting ==
    \A a \in Outside : /\ spec[a].life = "deleting" => a \in queue
                       /\ spec[a].life = "gone" => route[a] = NoRoute

\* A copy is named by an accepted route, or somebody is going to collect.
Owed == \E a \in Outside : route[a].exists /\ Attended(a)
Accounted == Owed \/ \A p \in copies : \E a \in Accepted : p \in route[a].uses

PassInv == Underway /\ Stages /\ Collecting /\ Plan
OwnInv == HomePass /\ OwnKept
SettledInv == Rested /\ PassInv /\ OwnInv /\ Parting /\ Accounted

-----------------------------------------------------------------------------
(***************************************************************************)
(* Resolution.                                                             *)
(***************************************************************************)
\* A route stands for a reference with a weight that is not zero.
LEMMA RouteWeights ==
    ASSUME NEW s \in [Model -> ModelSpec], NEW m \in Model, NEW w, NEW r \in RoutesOf(m, s, w)
    PROVE  /\ r.model = m /\ r.provider \in DOMAIN s[m].refs
           /\ r.weight = s[m].refs[r.provider].weight /\ r.weight # 0 /\ r.weight \in Weight
  <1>1. PICK p \in DOMAIN s[m].refs :
          /\ Outcome(m, s, p, w) = "Routed"
          /\ r = [model |-> m, provider |-> p, name |-> s[m].name,
                  weight |-> s[m].refs[p].weight, format |-> s[m].refs[p].format]
    BY DEF RoutesOf
  <1>2. s[m].refs[p].weight # 0
    BY <1>1 DEF Outcome
  <1>3. s[m].refs[p].weight \in Weight
    BY RefsTyped
  <1> QED
    BY <1>1, <1>2, <1>3

\* The routes of an attached model, or of the tenant's own, ask for what the
\* models' specs say.
LEMMA AskedFacts ==
    ASSUME NEW s \in [Model -> ModelSpec], NEW w
    PROVE  /\ \A a \in Outside : \A r \in Mine(a, s, w) :
                 r.model = a /\ r.weight = Asked(r, s) /\ r.weight # 0 /\ r.weight \in Nat
           /\ \A r \in Resolved(OwnLive(s), s, w) :
                 /\ r.model \in OwnLive(s) /\ r.provider \in DOMAIN s[r.model].refs
                 /\ r.name = s[r.model].name
                 /\ r.weight = Asked(r, s) /\ r.weight # 0 /\ r.weight \in Nat
  <1>1. \A m \in Model : \A r \in RoutesOf(m, s, w) :
           /\ r.model = m /\ r.weight = Asked(r, s) /\ r.weight # 0 /\ r.weight \in Nat
           /\ r.provider \in DOMAIN s[m].refs /\ r.name = s[m].name
    <2> TAKE m \in Model
    <2> TAKE r \in RoutesOf(m, s, w)
    <2>1. /\ r.model = m /\ r.provider \in DOMAIN s[m].refs
          /\ r.weight = s[m].refs[r.provider].weight /\ r.weight # 0 /\ r.weight \in Weight
      BY RouteWeights
    <2>2. r.name = s[m].name
      BY RoutesFacts
    <2> QED
      BY <2>1, <2>2, BoundsAssumption DEF Asked
  <1>2. \A a \in Outside : Mine(a, s, w) \subseteq RoutesOf(a, s, w) /\ a \in Model
    BY DEF Mine, Model
  <1>3. \A r \in Resolved(OwnLive(s), s, w) : \E m \in OwnLive(s) : r \in RoutesOf(m, s, w)
    BY DEF Resolved
  <1>4. OwnLive(s) \subseteq Model
    BY DEF OwnLive, Live
  <1> QED
    BY <1>1, <1>2, <1>3, <1>4

\* A reference's outcome depends on its model, its provider, the grant and the
\* flag.
LEMMA OutcomeSame ==
    ASSUME NEW m, NEW s, NEW t, NEW w, NEW v, NEW p, s[m] = t[m],
           w.phase[p] = v.phase[p], Permitted(m, p, w) = Permitted(m, p, v),
           w.translation = v.translation
    PROVE  Outcome(m, s, p, w) = Outcome(m, t, p, v)
  <1>1. Found(m, p, w) = Found(m, p, v)
    BY DEF Found
  <1> QED
    BY <1>1 DEF Outcome

LEMMA RoutesSame ==
    ASSUME NEW m, NEW s, NEW t, NEW w, NEW v, s[m] = t[m],
           \A p \in DOMAIN s[m].refs : Outcome(m, s, p, w) = Outcome(m, t, p, v)
    PROVE  RoutesOf(m, s, w) = RoutesOf(m, t, v) /\ Outcomes(m, s, w) = Outcomes(m, t, v)
  BY DEF RoutesOf, Outcomes

\* Who holds a name depends on the live models that have it.
LEMMA HolderSame ==
    ASSUME NEW s, NEW t, NEW n,
           \A m \in Model : m \in Live(s) /\ s[m].name = n <=> m \in Live(t) /\ t[m].name = n
    PROVE  Holder(n, s) = Holder(n, t)
  <1> DEFINE S(u) == {i \in DOMAIN Attached : Attached[i] \in Live(u) /\ u[Attached[i]].name = n}
             H(X) == IF \E o \in OwnLive(s) : s[o].name = n THEN Tenant
                     ELSE ModelNamespace[Attached[CHOOSE i \in X : \A j \in X : i <= j]]
  <1>1. \A i \in DOMAIN Attached : Attached[i] \in Model
    BY DEF Model, Outside
  <1>2. S(s) = S(t)
    BY <1>1
  <1>3. (\E o \in OwnLive(s) : s[o].name = n) <=> (\E o \in OwnLive(t) : t[o].name = n)
    BY DEF OwnLive, Model
  <1>4. Holder(n, s) = H(S(s))
    BY DEF Holder
  <1>5. Holder(n, t) = H(S(t))
    BY <1>3 DEF Holder
  <1> HIDE DEF S, H
  <1> QED
    BY <1>2, <1>4, <1>5

LEMMA MineSame ==
    ASSUME NEW a \in Outside, NEW s \in [Model -> ModelSpec], NEW t, NEW w, NEW v, s[a] = t[a],
           Holder(s[a].name, s) = Holder(s[a].name, t),
           \A p \in DOMAIN s[a].refs : /\ Outcome(a, s, p, w) = Outcome(a, t, p, v)
                                       /\ w.phase[p] = v.phase[p]
    PROVE  Mine(a, s, w) = Mine(a, t, v)
  <1>1. RoutesOf(a, s, w) = RoutesOf(a, t, v) /\ Outcomes(a, s, w) = Outcomes(a, t, v)
    BY RoutesSame
  <1>2. ResolutionFails({a}, s, w) <=> ResolutionFails({a}, t, v)
    BY <1>1 DEF ResolutionFails
  <1>3. \A r \in RoutesOf(a, s, w) : w.phase[r.provider] = v.phase[r.provider]
    BY RouteWeights DEF Model
  <1>4. CredentialMissing(RoutesOf(a, s, w), w) <=> CredentialMissing(RoutesOf(a, t, v), v)
    BY <1>1, <1>3 DEF CredentialMissing
  <1> QED
    BY <1>1, <1>2, <1>4 DEF Mine

\* Admission divides the competing models.
LEMMA AdmissionSplits ==
    ASSUME NEW accepted, NEW own, NEW s, NEW w
    PROVE  LET admission == Admission(accepted, own, s, w)
           IN  /\ admission.fits \subseteq Outside /\ admission.over \subseteq Outside
               /\ admission.fits \cap admission.over = {}
               /\ \A a \in Outside : a \in admission.fits \cup admission.over
                                        <=> Competes(a, accepted, s, w)
  <1> DEFINE in == {i \in DOMAIN Attached : Competes(Attached[i], accepted, s, w)}
             demand == [i \in DOMAIN Attached |->
                          IF i \in in THEN Cardinality(Mine(Attached[i], s, w)) ELSE 0]
             out == {i \in in : demand[i] > Room(demand, own)[i - 1]}
  <1>1. Admission(accepted, own, s, w) =
          [fits |-> {Attached[i] : i \in in \ out}, over |-> {Attached[i] : i \in out}]
    BY DEF Admission
  <1>2. in \subseteq DOMAIN Attached /\ out \subseteq in
    OBVIOUS
  <1>3. \A i \in DOMAIN Attached : i \in in <=> Competes(Attached[i], accepted, s, w)
    OBVIOUS
  <1> HIDE DEF in, out
  <1>4. \A i, j \in DOMAIN Attached : Attached[i] = Attached[j] => i = j
    BY ModelsAssumption
  <1>5. {Attached[i] : i \in in \ out} \cap {Attached[i] : i \in out} = {}
    BY <1>2, <1>4
  <1>6. \A a \in Outside : a \in {Attached[i] : i \in in \ out} \cup {Attached[i] : i \in out}
                             <=> Competes(a, accepted, s, w)
    BY <1>2, <1>3, <1>4 DEF Outside
  <1>7. {Attached[i] : i \in in \ out} \subseteq Outside /\ {Attached[i] : i \in out} \subseteq Outside
    BY <1>2 DEF Outside
  <1> QED
    BY <1>1, <1>5, <1>6, <1>7

\* What is served of one model: all it is due, if admitted with its copies.
LEMMA ServedOf ==
    ASSUME NEW s \in [Model -> ModelSpec], NEW w, NEW have,
           NEW admission, admission.fits \subseteq Outside, NEW a \in Outside
    PROVE  Of(ServedRoutes(admission, have, s, w), {a}) =
             IF a \in admission.fits /\ Copied(Mine(a, s, w)) \subseteq have
             THEN Mine(a, s, w) ELSE {}
  <1>1. \A b \in Outside : \A r \in Mine(b, s, w) : r.model = b
    BY MineFacts
  <1> QED
    BY <1>1 DEF ServedRoutes, Of

-----------------------------------------------------------------------------
(***************************************************************************)
(* What a publication shows of some models.                                *)
(***************************************************************************)
\* Normalisation keeps providers and names, and what candidates count for.
LEMMA NormalizedShare ==
    ASSUME NEW c \in Candidate, NEW weighted \in BOOLEAN, NEW translation
    PROVE  LET n == Normalized(c, weighted, translation)
           IN  n.model = c.model /\ n.provider = c.provider /\ n.name = c.name /\ Share(n) = Share(c)
  <1>1. Normalized(c, weighted, translation).name = c.name
    BY DEF Normalized, Candidate
  <1> QED
    BY <1>1, NormalizedFacts DEF Share

\* A route's candidate counts for its weight, or for one when all weights of
\* its name are equal.
LEMMA CandidateShare ==
    ASSUME NEW R \in SUBSET Route, NEW r \in R, r.weight # 0
    PROVE  LET c == CandidateOf(r, R)
           IN  /\ c \in Candidate
               /\ c.model = r.model /\ c.provider = r.provider /\ c.name = r.name
               /\ Share(c) = IF UnequalWeights(R) THEN r.weight ELSE 1
  <1>1. CandidateOf(r, R).name = r.name
    BY DEF CandidateOf
  <1> QED
    BY <1>1, CandidateFacts DEF Share

\* Where published candidates come from.
Shown(c, K, R, translation) == Normalized(c, Weighted(K, R), translation)
Alike(n, c) ==
    n.model = c.model /\ n.provider = c.provider /\ n.name = c.name /\ Share(n) = Share(c)
LEMMA RenderSources ==
    ASSUME NEW K \in SUBSET Candidate, NEW R \in SUBSET Route, NEW translation
    PROVE  /\ Render(K, R, translation).candidates =
                 {Shown(c, K, R, translation) : c \in Sources(K, R)}
           /\ \A c \in Sources(K, R) : Alike(Shown(c, K, R, translation), c)
  <1>1. /\ Render(K, R, translation).candidates =
              {Shown(c, K, R, translation) : c \in Sources(K, R)}
        /\ Sources(K, R) \subseteq Candidate /\ Weighted(K, R) \in BOOLEAN
    BY RenderFacts DEF Shown
  <1> QED
    BY <1>1, NormalizedShare DEF Shown, Alike

\* The entries of a model are those of what is kept and of what is resolved.
LEMMA RenderNamed ==
    ASSUME NEW K \in SUBSET Candidate, NEW R \in SUBSET Route, NEW translation, NEW M
    PROVE  Named(Of(Render(K, R, translation).candidates, M)) = Named(Of(K, M)) \cup Named(Of(R, M))
  <1> DEFINE C == Render(K, R, translation).candidates
             N(c) == Shown(c, K, R, translation)
  <1>1. C = {N(c) : c \in Sources(K, R)}
    BY RenderSources
  <1>2. \A c \in Sources(K, R) :
           N(c).model = c.model /\ N(c).provider = c.provider /\ N(c).name = c.name
    BY RenderSources DEF Alike
  <1> HIDE DEF C, N
  <1>3. Named(Of(C, M)) = Named(Of(Sources(K, R), M))
    <2>1. \A x \in Of(C, M) : \E c \in Of(Sources(K, R), M) :
             x.provider = c.provider /\ x.name = c.name
      BY <1>1, <1>2 DEF Of
    <2>2. \A c \in Of(Sources(K, R), M) : \E x \in Of(C, M) :
             x.provider = c.provider /\ x.name = c.name
      BY <1>1, <1>2 DEF Of
    <2> QED
      BY <2>1, <2>2 DEF Named
  <1>4. \A r \in R : /\ CandidateOf(r, R).model = r.model
                     /\ CandidateOf(r, R).provider = r.provider /\ CandidateOf(r, R).name = r.name
    BY DEF CandidateOf
  <1>5. Named(Of(Sources(K, R), M)) = Named(Of(K, M)) \cup Named(Of(R, M))
    <2>1. \A c \in Of(Sources(K, R), M) : \/ c \in Of(K, M)
                                          \/ \E r \in Of(R, M) : c.provider = r.provider /\ c.name = r.name
      BY <1>4 DEF Of, Sources
    <2>2. Of(K, M) \subseteq Of(Sources(K, R), M)
      BY DEF Of, Sources
    <2>3. \A r \in Of(R, M) : \E c \in Of(Sources(K, R), M) :
             c.provider = r.provider /\ c.name = r.name
      BY <1>4 DEF Of, Sources
    <2> QED
      BY <2>1, <2>2, <2>3 DEF Named
  <1> QED
    BY <1>3, <1>5 DEF C

LEMMA NamedEmpty == ASSUME NEW S PROVE Named(S) = {} <=> S = {}
  BY DEF Named

\* Freshly resolved routes are shown in proportion, whatever is kept of others.
Weighs(R) == \A r \in R : r.weight # 0
AsksFor(R, s) == \A r \in R : r.weight = Asked(r, s)

LEMMA RenderFresh ==
    ASSUME NEW K \in SUBSET Candidate, NEW R \in SUBSET Route, NEW translation, NEW M, NEW s,
           Of(K, M) = {}, Weighs(Of(R, M)), AsksFor(Of(R, M), s)
    PROVE  Proportional(Of(Render(K, R, translation).candidates, M), s)
  <1> DEFINE C == Render(K, R, translation).candidates
             N(c) == Shown(c, K, R, translation)
  <1>1. C = {N(c) : c \in Sources(K, R)}
    BY RenderSources
  <1>2. \A c \in Sources(K, R) : Alike(N(c), c)
    BY RenderSources
  <1>3. /\ \A r \in R : /\ CandidateOf(r, R).model = r.model
                        /\ CandidateOf(r, R).provider = r.provider
                        /\ CandidateOf(r, R).name = r.name
        /\ \A r \in Of(R, M) :
              Share(CandidateOf(r, R)) = IF UnequalWeights(R) THEN r.weight ELSE 1
    BY CandidateShare DEF Weighs, CandidateOf, Of
  <1> HIDE DEF C, N
  <1>4. ASSUME NEW c \in Of(C, M)
        PROVE  \E r \in Of(R, M) :
                  /\ r \in R /\ r.name = c.name /\ r.weight = Asked(c, s) /\ r.weight \in Nat
                  /\ Share(c) = IF UnequalWeights(R) THEN r.weight ELSE 1
    <2>1. PICK x \in Sources(K, R) : c = N(x) /\ x.model \in M
      BY <1>1, <1>2, <1>4 DEF Of, Alike
    <2>2. x \notin K
      BY <2>1 DEF Of
    <2>3. PICK r \in R : x = CandidateOf(r, R)
      BY <2>1, <2>2 DEF Sources
    <2>4. c.model = r.model /\ c.provider = r.provider /\ c.name = r.name /\ Share(c) = Share(x)
      BY <1>2, <1>3, <2>1, <2>3 DEF Alike
    <2>5. r \in Of(R, M) /\ Share(c) = IF UnequalWeights(R) THEN r.weight ELSE 1
      BY <1>3, <1>4, <2>3, <2>4 DEF Of
    <2>6. r.weight \in Nat
      BY BoundsAssumption DEF Route
    <2> QED
      BY <2>4, <2>5, <2>6 DEF Asked, AsksFor
  <1>5. ASSUME NEW c \in Of(C, M), NEW d \in Of(C, M), c.name = d.name
        PROVE  Share(c) * Asked(d, s) = Share(d) * Asked(c, s)
    <2>1. PICK r \in R : /\ r.name = c.name /\ r.weight = Asked(c, s) /\ r.weight \in Nat
                         /\ Share(c) = IF UnequalWeights(R) THEN r.weight ELSE 1
      BY <1>4
    <2>2. PICK q \in R : /\ q.name = d.name /\ q.weight = Asked(d, s) /\ q.weight \in Nat
                         /\ Share(d) = IF UnequalWeights(R) THEN q.weight ELSE 1
      BY <1>4
    <2>3. CASE UnequalWeights(R)
      BY <2>1, <2>2, <2>3
    <2>4. CASE ~UnequalWeights(R)
      <3>1. r.weight = q.weight
        BY <1>5, <2>1, <2>2, <2>4 DEF UnequalWeights
      <3> QED
        BY <2>1, <2>2, <2>4, <3>1
    <2> QED
      BY <2>3, <2>4
  <1> QED
    BY <1>5 DEF Proportional, C

\* Kept candidates stay in proportion, whatever is published beside them.
LEMMA RenderKept ==
    ASSUME NEW K \in SUBSET Candidate, NEW R \in SUBSET Route, NEW translation, NEW M, NEW s,
           Of(R, M) = {}, Proportional(Of(K, M), s)
    PROVE  Proportional(Of(Render(K, R, translation).candidates, M), s)
  <1> DEFINE C == Render(K, R, translation).candidates
             N(c) == Shown(c, K, R, translation)
  <1>1. C = {N(c) : c \in Sources(K, R)}
    BY RenderSources
  <1>2. \A c \in Sources(K, R) : /\ N(c).model = c.model /\ N(c).provider = c.provider
                                 /\ N(c).name = c.name /\ Share(N(c)) = Share(c)
    BY RenderSources DEF Alike
  <1>3. \A r \in R : CandidateOf(r, R).model = r.model
    BY DEF CandidateOf
  <1> HIDE DEF C, N
  <1>4. \A c \in Of(C, M) : \E k \in Of(K, M) :
           k.name = c.name /\ Share(c) = Share(k) /\ Asked(c, s) = Asked(k, s)
    <2> TAKE c \in Of(C, M)
    <2>1. PICK x \in Sources(K, R) : c = N(x) /\ x.model \in M
      BY <1>1, <1>2 DEF Of
    <2>2. x \in Of(K, M)
      BY <1>3, <2>1 DEF Of, Sources
    <2> QED
      BY <1>2, <2>1, <2>2 DEF Asked
  <1>5. ASSUME NEW c \in Of(C, M), NEW d \in Of(C, M), c.name = d.name
        PROVE  Share(c) * Asked(d, s) = Share(d) * Asked(c, s)
    <2>1. PICK k \in Of(K, M) : k.name = c.name /\ Share(c) = Share(k) /\ Asked(c, s) = Asked(k, s)
      BY <1>4
    <2>2. PICK l \in Of(K, M) : l.name = d.name /\ Share(d) = Share(l) /\ Asked(d, s) = Asked(l, s)
      BY <1>4
    <2> QED
      BY <1>5, <2>1, <2>2 DEF Proportional
  <1> QED
    BY <1>5 DEF Proportional, C

-----------------------------------------------------------------------------
(***************************************************************************)
(* What leaves an attached model as it is.                                 *)
(***************************************************************************)
\* Its route, what it is due and what is published of it stay, and its
\* credentials with them.
Unmoved(a) ==
    /\ route'[a] = route[a] /\ spec'[a].refs = spec[a].refs
    /\ Mine(a, spec', world') = Mine(a, spec, world)
Untouched(a) ==
    /\ Unmoved(a)
    /\ Of(Content'.candidates, {a}) = Of(Content.candidates, {a})
    /\ Of(Content.candidates, {a}) # {} => Copied(Mine(a, spec, world)) \subseteq copies'

LEMMA UnmovedFacts ==
    ASSUME NEW a \in Outside, Unmoved(a)
    PROVE  /\ a \in Accepted' <=> a \in Accepted
           /\ Due(a)' = Due(a) /\ Due(a) = Mine(a, spec, world)
           /\ Exact(a) <=> Exact(a)'
  <1>1. a \in Accepted' <=> a \in Accepted
    BY DEF Unmoved, Accepted
  <1>2. Due(a)' = Due(a) /\ Due(a) = Mine(a, spec, world)
    BY DEF Unmoved, Due
  <1>3. Exact(a) <=> Exact(a)'
    BY <1>2 DEF Exact, Unmoved
  <1> QED
    BY <1>1, <1>2, <1>3

LEMMA UntouchedFacts ==
    ASSUME NEW a \in Outside, Untouched(a)
    PROVE  (Shows(a) => Shows(a)') /\ (Complete(a) => Complete(a)')
  <1>1. (a \in Accepted' <=> a \in Accepted) /\ Due(a)' = Due(a) /\ Due(a) = Mine(a, spec, world)
    BY UnmovedFacts DEF Untouched
  <1>2. ASSUME NEW C, C = Of(Content.candidates, {a}), Proportional(C, spec)
        PROVE  Proportional(C, spec')
    <2>1. \A c \in C : Asked(c, spec') = Asked(c, spec)
      BY <1>2 DEF Asked, Of, Untouched, Unmoved
    <2> QED
      BY <1>2, <2>1 DEF Proportional
  <1>3. Shows(a) => Shows(a)'
    BY <1>1, <1>2 DEF Shows, Untouched
  <1>4. Complete(a) => Complete(a)'
    BY <1>1 DEF Complete, Untouched
  <1> QED
    BY <1>3, <1>4

LEMMA FineKept ==
    ASSUME NEW a \in Outside, Untouched(a), Fine(a), a \in over => a \in over'
    PROVE  Fine(a)'
  <1>1. Due(a)' = Due(a) /\ route'[a] = route[a]
    BY DEF Untouched, Unmoved, Due
  <1> QED
    BY <1>1, UntouchedFacts, UnmovedFacts DEF Fine, Untouched

\* What a publication shows of a model that was planned so.
LEMMA ShowsPublished ==
    ASSUME NEW a \in Outside, Unmoved(a), NEW mine,
           Named(Of(Content'.candidates, {a})) = Named(mine),
           mine = {} \/ mine = Mine(a, spec, world),
           mine # {} => a \in Accepted /\ Copied(Mine(a, spec, world)) \subseteq copies',
           Proportional(Of(Content'.candidates, {a}), spec')
    PROVE  Shows(a)' /\ (mine = Mine(a, spec, world) => Complete(a)')
  <1>1. Due(a)' = Mine(a, spec, world)
    BY DEF Unmoved, Due
  <1>2. a \in Accepted' <=> a \in Accepted
    BY DEF Unmoved, Accepted
  <1>3. Of(Content'.candidates, {a}) # {} => mine # {}
    BY NamedEmpty
  <1>4. Shows(a)'
    <2>1. Named({}) = {}
      BY DEF Named
    <2> QED
      BY <1>1, <1>2, <1>3, <2>1 DEF Shows
  <1> QED
    BY <1>1, <1>4 DEF Complete

LEMMA FinePublished ==
    ASSUME NEW a \in Outside, Unmoved(a), Fine(a), a \in over => a \in over', NEW mine,
           Named(Of(Content'.candidates, {a})) = Named(mine),
           mine = {} \/ mine = Mine(a, spec, world),
           mine # {} => a \in Accepted /\ Copied(Mine(a, spec, world)) \subseteq copies',
           Proportional(Of(Content'.candidates, {a}), spec'),
           a \in Accepted /\ Mine(a, spec, world) # {} /\ a \notin over' =>
               mine = Mine(a, spec, world)
    PROVE  Fine(a)'
  <1>1. Due(a)' = Due(a) /\ route'[a] = route[a] /\ Due(a) = Mine(a, spec, world)
    BY DEF Unmoved, Due
  <1>2. Shows(a)' /\ (mine = Mine(a, spec, world) => Complete(a)')
    BY ShowsPublished
  <1>3. a \in Accepted' <=> a \in Accepted
    BY DEF Unmoved, Accepted
  <1>4. a \notin over' => Complete(a)'
    BY <1>1, <1>2, <1>3 DEF Complete
  <1>5. a \notin over' => Exact(a)'
    BY <1>1 DEF Fine, Exact
  <1> QED
    BY <1>1, <1>2, <1>4, <1>5 DEF Fine

\* A worker between passes has nothing to answer for.
LEMMA PassIdle ==
    ASSUME pass'.pc = "idle"
    PROVE  PassInv' /\ HomePass'
  BY DEF PassInv, Underway, Stages, Collecting, Plan, HomePass, Busy, AttachPc, HomePc

-----------------------------------------------------------------------------
(***************************************************************************)
(* Changes of specs, providers, grants and the translation flag.           *)
(***************************************************************************)
Edits ==
    \/ \E m \in Model : EditModel(m) \/ DeleteModel(m)
    \/ ChangeTranslation
    \/ \E p \in Provider : ChangeProvider(p) \/ \E n \in Namespace : ChangeGrant(n, p)

\* What a model nobody queued is due has not changed, and a model that goes or
\* has gone is not edited.
Awake ==
    /\ \A m \in Model \ queue' :
          /\ spec'[m] = spec[m]
          /\ m \in Live(spec) => /\ RoutesOf(m, spec', world') = RoutesOf(m, spec, world)
                                 /\ world'.translation = world.translation
    /\ \A a \in (Outside \cap Live(spec)) \ queue' : Mine(a, spec', world') = Mine(a, spec, world)
    /\ \A m \in Model : spec[m].life # "live" => spec'[m] = spec[m]
    /\ \A m \in Model \cap queue' : spec[m].life = "live" => spec'[m].life # "gone"

LEMMA EditsFrame ==
    ASSUME Edits
    PROVE  SteadyOff /\ UNCHANGED <<overlay, drain, rules, route, copies, over>> /\ queue \subseteq queue'
  BY DEF Edits, EditModel, DeleteModel, ChangeTranslation, ChangeProvider, ChangeGrant, Change,
         SteadyOff

LEMMA SpecAwake ==
    ASSUME TypeInv, NEW m \in Model, EditModel(m) \/ DeleteModel(m)
    PROVE  Awake
  <1>1. spec \in [Model -> ModelSpec] /\ world' = world
    BY DEF TypeInv, TypeOK, EditModel, DeleteModel
  <1>2. PICK n \in {spec'[m].name} :
          /\ spec[m].life = "live" /\ spec'[m].life # "gone" /\ m \in queue'
          /\ \A x \in Model \ {m} : spec'[x] = spec[x]
          /\ \A a \in Outside : spec[a].life # "gone" /\ spec[a].name \in {spec[m].name, n} => a \in queue'
    <2>1. CASE EditModel(m)
      <3>1. PICK v \in Version[m] : /\ spec' = [spec EXCEPT ![m].name = v.name, ![m].refs = v.refs]
                                    /\ spec[m].life = "live"
                                    /\ queue' = queue \cup ({m} \cup SameName(m, v.name))
        BY <2>1 DEF EditModel, Change
      <3>2. spec'[m] = [spec[m] EXCEPT !.name = v.name, !.refs = v.refs]
        BY <1>1, <3>1
      <3>3. spec[m] \in ModelSpec
        BY <1>1
      <3>4. spec'[m].name = v.name /\ spec'[m].life = spec[m].life
        BY <3>2, <3>3 DEF ModelSpec
      <3>5. \A x \in Model \ {m} : spec'[x] = spec[x]
        BY <1>1, <3>1
      <3> QED
        BY <3>1, <3>4, <3>5 DEF SameName
    <2>2. CASE DeleteModel(m)
      <3>1. /\ spec' = [spec EXCEPT ![m].life = "deleting"] /\ spec[m].life = "live"
            /\ queue' = queue \cup ({m} \cup SameName(m, spec[m].name))
        BY <2>2 DEF DeleteModel, Change
      <3>2. spec'[m] = [spec[m] EXCEPT !.life = "deleting"]
        BY <1>1, <3>1
      <3>3. spec[m] \in ModelSpec
        BY <1>1
      <3>4. spec'[m].name = spec[m].name /\ spec'[m].life = "deleting"
        BY <3>2, <3>3 DEF ModelSpec
      <3>5. \A x \in Model \ {m} : spec'[x] = spec[x]
        BY <1>1, <3>1
      <3> QED
        BY <3>1, <3>4, <3>5 DEF SameName
    <2> QED
      BY <2>1, <2>2
  <1>3. ASSUME NEW x \in Model \ queue' PROVE spec'[x] = spec[x] /\ RoutesOf(x, spec', world') = RoutesOf(x, spec, world)
    <2>1. spec'[x] = spec[x]
      BY <1>2
    <2>2. \A p \in DOMAIN spec'[x].refs : Outcome(x, spec', p, world) = Outcome(x, spec, p, world)
      BY <2>1, OutcomeSame
    <2> QED
      BY <1>1, <2>1, <2>2, RoutesSame
  <1>4. ASSUME NEW a \in (Outside \cap Live(spec)) \ queue'
        PROVE  Mine(a, spec', world') = Mine(a, spec, world)
    <2>1. a \in Model \ queue' /\ spec[a].life # "gone" /\ a # m
      BY <1>2 DEF Live, Model
    <2>2. spec'[a] = spec[a] /\ spec[a].name \notin {spec[m].name, spec'[m].name}
      BY <1>2, <2>1
    <2>3. \A x \in Model : x \in Live(spec) /\ spec[x].name = spec[a].name
                             <=> x \in Live(spec') /\ spec'[x].name = spec[a].name
      BY <1>2, <2>2 DEF Live
    <2>4. Holder(spec[a].name, spec) = Holder(spec[a].name, spec')
      BY <2>3, HolderSame
    <2>5. \A p \in DOMAIN spec[a].refs : Outcome(a, spec, p, world) = Outcome(a, spec', p, world)
      BY <2>2, OutcomeSame
    <2> QED
      BY <1>1, <2>2, <2>4, <2>5, MineSame
  <1>5. \A x \in Model :
           /\ spec[x].life # "live" => spec'[x] = spec[x]
           /\ spec[x].life = "live" => spec'[x].life # "gone"
    BY <1>2
  <1> QED
    BY <1>1, <1>3, <1>4, <1>5 DEF Awake

LEMMA WorldAwake ==
    ASSUME TypeInv, \/ ChangeTranslation
                    \/ \E p \in Provider : ChangeProvider(p) \/ \E n \in Namespace : ChangeGrant(n, p)
    PROVE  Awake
  <1>1. /\ spec \in [Model -> ModelSpec] /\ spec' = spec
        /\ world = [phase |-> world.phase, granted |-> world.granted,
                    translation |-> world.translation]
        /\ world.phase \in [Provider -> ProviderPhase]
    BY DEF TypeInv, TypeOK, World, ChangeTranslation, ChangeProvider, ChangeGrant
  <1> DEFINE Held(m) == /\ world'.translation = world.translation
                        /\ \A p \in DOMAIN spec[m].refs :
                              /\ world'.phase[p] = world.phase[p]
                              /\ Permitted(m, p, world') = Permitted(m, p, world)
  <1>2. ASSUME NEW m \in Live(spec) \ queue' PROVE Held(m)
    <2>1. m \in Model /\ spec[m].life # "gone" /\ DOMAIN spec[m].refs \subseteq Provider
      BY <1>1, RefsTyped DEF Live
    <2>2. CASE ChangeTranslation
      BY <2>1, <2>2 DEF ChangeTranslation, Change
    <2>3. ASSUME NEW p \in Provider, ChangeProvider(p)
          PROVE  Held(m)
      <3>1. PICK f \in ProviderPhase : world' = [world EXCEPT !.phase = [world.phase EXCEPT ![p] = f]]
        BY <2>3 DEF ChangeProvider
      <3>2. /\ world'.phase = [world.phase EXCEPT ![p] = f] /\ world'.granted = world.granted
            /\ world'.translation = world.translation
        BY <1>1, <3>1
      <3>3. p \notin DOMAIN spec[m].refs
        BY <2>1, <2>3 DEF ChangeProvider, Change, Referencing
      <3> QED
        BY <1>1, <2>1, <3>2, <3>3 DEF Permitted
    <2>4. ASSUME NEW p \in Provider, NEW n \in Namespace, ChangeGrant(n, p)
          PROVE  Held(m)
      <3>1. PICK g : /\ world' = [world EXCEPT !.granted = g]
                     /\ \A x, q : <<x, q>> # <<n, p>> => (<<x, q>> \in g <=> <<x, q>> \in world.granted)
        <4> DEFINE g == IF <<n, p>> \in world.granted THEN world.granted \ {<<n, p>>}
                        ELSE world.granted \cup {<<n, p>>}
        <4>1. world' = [world EXCEPT !.granted = g]
          BY <2>4 DEF ChangeGrant
        <4>2. \A x, q : <<x, q>> # <<n, p>> => (<<x, q>> \in g <=> <<x, q>> \in world.granted)
          OBVIOUS
        <4> HIDE DEF g
        <4> QED
          BY <4>1, <4>2
      <3>2. /\ world'.phase = world.phase /\ world'.granted = g
            /\ world'.translation = world.translation
        BY <1>1, <3>1
      <3>3. p \in DOMAIN spec[m].refs => ~Foreign(m, p)
        BY <2>1, <2>4 DEF ChangeGrant, Change, Foreign
      <3>4. \A q \in DOMAIN spec[m].refs : Foreign(m, q) => <<ModelNamespace[m], q>> # <<n, p>>
        BY <3>3
      <3> QED
        BY <3>1, <3>2, <3>4 DEF Permitted
    <2> QED
      BY <2>2, <2>3, <2>4
  <1>3. ASSUME NEW m \in Live(spec) \ queue'
        PROVE  \A p \in DOMAIN spec[m].refs : Outcome(m, spec, p, world) = Outcome(m, spec', p, world')
    BY <1>1, <1>2, OutcomeSame
  <1>4. ASSUME NEW m \in Live(spec) \ queue'
        PROVE  RoutesOf(m, spec', world') = RoutesOf(m, spec, world)
    BY <1>1, <1>3, RoutesSame
  <1>5. ASSUME NEW a \in (Outside \cap Live(spec)) \ queue'
        PROVE  Mine(a, spec', world') = Mine(a, spec, world)
    BY <1>1, <1>2, <1>3, MineSame
  <1> QED
    BY <1>1, <1>2, <1>4, <1>5 DEF Awake

LEMMA EditsAwake == TypeInv /\ Edits => Awake
  BY SpecAwake, WorldAwake DEF Edits


\* The tenant's own models are served as before.
LEMMA OwnServedKept ==
    ASSUME Of(Content'.candidates, Own) = Of(Content.candidates, Own), Valid' = Valid,
           \A o \in Own : spec'[o].refs = spec[o].refs, OwnServedAs
    PROVE  OwnServedAs'
  <1> DEFINE C == Of(Content.candidates, Own)
  <1>1. \A o \in Own : Entries(o)' = Entries(o)
    <2> TAKE o \in Own
    <2>1. /\ {x \in Content.candidates : x.model = o} = {x \in C : x.model = o}
          /\ {x \in Content'.candidates : x.model = o} = {x \in C : x.model = o}
      BY DEF Of
    <2> QED
      BY <2>1 DEF Entries
  <1>2. \A c \in C : Asked(c, spec') = Asked(c, spec)
    BY DEF Of, Asked
  <1>3. Proportional(C, spec')
    BY <1>2 DEF OwnServedAs, Proportional
  <1> QED
    BY <1>1, <1>3 DEF OwnServedAs

LEMMA ValidSame ==
    ASSUME OwnLive(spec') = OwnLive(spec),
           \A o \in OwnLive(spec) : RoutesOf(o, spec', world') = RoutesOf(o, spec, world)
    PROVE  Valid' = Valid
  <1>1. Resolved(OwnLive(spec'), spec', world') = Resolved(OwnLive(spec), spec, world)
    BY DEF Resolved
  <1> QED
    BY <1>1 DEF Valid

LEMMA SteadyPass ==
    ASSUME TypeInv, SteadyOff
    PROVE  /\ pass'.pc = pass.pc /\ pass'.want = pass.want /\ pass'.kept = pass.kept
           /\ pass'.served = pass.served /\ pass'.stale = pass.stale /\ pass'.over = pass.over
           /\ pass'.model = pass.model /\ pass'.kind = pass.kind
           /\ pass'.translation = pass.translation /\ pass'.deleting = pass.deleting
  <1> DEFINE b == pass.pc = "idle"
  <1>1. pass' = [pass EXCEPT !.steady = b]
    BY DEF SteadyOff
  <1> HIDE DEF b
  <1> QED
    BY <1>1 DEF TypeInv, PassTyped

\* Whoever changes specs, the world or verdicts queues the models concerned.
Outer ==
    /\ SteadyOff /\ Awake /\ UNCHANGED <<overlay, copies, over>> /\ queue \subseteq queue'
    /\ \A a \in Outside : /\ a \notin queue' => route'[a] = route[a]
                          /\ route'[a].exists = route[a].exists
                          /\ route[a] = NoRoute => route'[a] = NoRoute
    /\ route' = route \/ Owed'

LEMMA OuterSettled ==
    ASSUME TypeInv, SettledInv, Outer
    PROVE  SettledInv'
  <1>1. /\ UNCHANGED <<overlay, copies, over>> /\ queue \subseteq queue'
        /\ SteadyOff /\ Awake /\ Content' = Content
    BY DEF Outer, Content, NoContent
  <1>2. /\ pass'.pc = pass.pc /\ pass'.want = pass.want /\ pass'.kept = pass.kept
        /\ pass'.served = pass.served /\ pass'.stale = pass.stale /\ pass'.over = pass.over
        /\ pass'.model = pass.model /\ pass'.kind = pass.kind
        /\ pass'.translation = pass.translation /\ pass'.deleting = pass.deleting
    BY <1>1, SteadyPass
  <1>3. \A a : Busy(a)' <=> Busy(a)
    BY <1>2 DEF Busy
  <1>4. Outside \subseteq Model /\ Own \subseteq Model
    BY DEF Model
  <1>5. ASSUME NEW a \in Outside, a \notin queue'
        PROVE  /\ a \notin queue /\ spec'[a] = spec[a]
               /\ a \in Live(spec) <=> a \in Live(spec')
               /\ a \in Live(spec) => Unmoved(a) /\ world'.translation = world.translation
    BY <1>1, <1>4, <1>5 DEF Awake, Live, Unmoved, Outer
  <1>6. ASSUME NEW a \in Outside, a \notin queue', a \in Live(spec), Shows(a)
        PROVE  Untouched(a)
    BY <1>1, <1>5, <1>6 DEF Untouched, Shows, Due
  <1>7. Rested'
    <2> SUFFICES ASSUME NEW a \in Outside, a \in Live(spec'), ~Attended(a)' PROVE Fine(a)'
      BY DEF Rested
    <2>1. a \notin queue' /\ ~Busy(a)
      BY <1>3 DEF Attended
    <2>2. a \in Live(spec) /\ Fine(a)
      BY <1>5, <2>1 DEF SettledInv, Rested, Attended
    <2>3. Untouched(a)
      BY <1>6, <2>1, <2>2 DEF Fine
    <2> QED
      BY <1>1, <2>2, <2>3, FineKept
  <1>8. Underway'
    <2> SUFFICES ASSUME NEW b \in Outside, Busy(b), b \notin queue' PROVE Current(b)'
      BY <1>3 DEF Underway
    <2>1. Current(b)
      BY <1>5 DEF SettledInv, PassInv, Underway
    <2>2. Unmoved(b) /\ world'.translation = world.translation /\ b \in Live(spec')
      BY <1>5, <2>1 DEF Current
    <2>3. /\ b \in Accepted' <=> b \in Accepted
          /\ Due(b)' = Due(b) /\ (Exact(b) <=> Exact(b)')
      BY <2>2, UnmovedFacts
    <2> QED
      BY <1>1, <1>2, <2>1, <2>2, <2>3 DEF Current, Unmoved
  <1>9. Stages'
    BY <1>1, <1>2, <1>3 DEF SettledInv, PassInv, Stages, Stage, Outer
  <1>10. Collecting'
    <2>1. \A a : Of(Content'.candidates, {a}) = Of(Content.candidates, {a})
      BY <1>1
    <2>2. pass'.pc \in {"finish", "collect"} =>
             \A a \in pass'.over : Of(Content'.candidates, {a}) = {}
      BY <1>2, <2>1 DEF SettledInv, PassInv, Collecting
    <2>3. ASSUME pass'.pc = "collect", NEW b \in Outside, Busy(b)', b \notin queue'
          PROVE  /\ Shows(b)'
                 /\ (\E r \in pass'.served : r.model = b) => Complete(b)'
                 /\ b \in pass'.over => b \in over'
      <3>1. b \notin queue /\ b \in Live(spec)
        BY <1>3, <1>5, <2>3 DEF SettledInv, PassInv, Underway, Current
      <3>2. /\ Shows(b) /\ ((\E r \in pass.served : r.model = b) => Complete(b))
            /\ b \in pass.over => b \in over
        BY <1>2, <1>3, <2>3, <3>1 DEF SettledInv, PassInv, Collecting
      <3>3. Untouched(b)
        BY <1>6, <2>3, <3>1, <3>2
      <3> QED
        BY <1>1, <1>2, <3>2, <3>3, UntouchedFacts
    <2> QED
      BY <2>2, <2>3 DEF Collecting
  <1>11. Plan'
    <2>1. ASSUME pass.pc \in {"write", "publish"}, NEW a \in Outside, a \in Live(spec'), a \notin queue'
          PROVE  Planned(a)'
      <3>1. a \in Live(spec) /\ Planned(a) /\ Unmoved(a)
        BY <1>5, <2>1 DEF SettledInv, PassInv, Plan
      <3>2. Due(a)' = Due(a) /\ (a \in Accepted' <=> a \in Accepted)
        BY <3>1, UnmovedFacts
      <3> QED
        BY <1>1, <1>2, <3>1, <3>2 DEF Planned
    <2> QED
      BY <1>2, <2>1 DEF Plan, SettledInv, PassInv
  <1>12. HomePass'
    <2>1. pass.pc \in HomePc => pass.model \in Model
      BY <1>4 DEF TypeInv, PassTyped
    <2> QED
      BY <1>1, <1>2, <2>1 DEF SettledInv, OwnInv, HomePass, Awake
  <1>13. OwnKept'
    <2> SUFFICES ASSUME OwnQuiet'
                 PROVE  /\ pass'.pc \in {"write", "publish"} \/ OwnServedAs'
                        /\ pass'.pc \in {"write", "publish"} /\ (pass'.kind = "publish" \/ pass'.deleting) =>
                              pass'.want = Valid' /\ pass'.kept = {}
      BY DEF OwnKept
    <2>1. OwnQuiet
      BY <1>1, <1>2 DEF OwnQuiet
    <2>2. \A o \in Own \cap queue' : spec[o].life # "live"
      BY <1>2 DEF OwnQuiet, SettledInv, OwnInv, HomePass
    <2>3. \A o \in Own : spec'[o] = spec[o]
      BY <1>1, <1>4, <2>2 DEF Awake
    <2>4. OwnLive(spec') = OwnLive(spec)
      BY <2>3 DEF OwnLive, Live, Model
    <2>5. \A o \in OwnLive(spec) : o \in Model \ queue' /\ o \in Live(spec)
      BY <2>2 DEF OwnLive, Live
    <2>6. Valid' = Valid
      BY <1>1, <2>4, <2>5, ValidSame DEF Awake
    <2>7. OwnServedAs => OwnServedAs'
      BY <1>1, <2>3, <2>6, OwnServedKept
    <2> QED
      BY <1>2, <2>1, <2>6, <2>7 DEF SettledInv, OwnInv, OwnKept
  <1>14. Parting'
    BY <1>1, <1>4, <1>5 DEF SettledInv, Parting, Awake, Outer
  <1>15. Accounted'
    <2>1. Owed => Owed'
      BY <1>1, <1>3 DEF Owed, Attended, Outer
    <2>2. route' = route => Accepted' = Accepted
      BY DEF Accepted
    <2> QED
      BY <1>1, <2>1, <2>2 DEF SettledInv, Accounted, Outer
  <1> QED
    BY <1>7, <1>8, <1>9, <1>10, <1>11, <1>12, <1>13, <1>14, <1>15 DEF SettledInv, PassInv, OwnInv

LEMMA EditsOuter == TypeInv /\ Edits => Outer
  BY EditsFrame, EditsAwake DEF Outer

LEMMA VerdictOuter ==
    ASSUME TypeInv, NEW v \in Outside, Accept(v) \/ Refuse(v)
    PROVE  Outer
  <1>1. /\ SteadyOff /\ UNCHANGED <<spec, world, overlay, copies, over>>
        /\ queue' = queue \cup {v} /\ route[v].exists
    BY DEF Accept, Refuse, Change, SteadyOff, outside, Accepted
  <1>2. route \in [Outside -> RouteObject] /\ route[v] \in RouteObject
    BY DEF TypeInv, TypeOK
  <1>3. PICK x \in {"accepted", "refused"} : route' = [route EXCEPT ![v].verdict = x]
    BY DEF Accept, Refuse
  <1>4. [route[v] EXCEPT !.verdict = x].exists = route[v].exists
    BY <1>2 DEF RouteObject
  <1>5. /\ \A a \in Outside \ {v} : route'[a] = route[a]
        /\ route'[v].exists = route[v].exists
    BY <1>2, <1>3, <1>4
  <1>6. Owed'
    BY <1>1, <1>5 DEF Owed, Attended
  <1>7. Awake
    BY <1>1 DEF Awake
  <1>8. route[v] # NoRoute
    BY <1>1, NoRouteFacts DEF NoRouteTyped
  <1> QED
    BY <1>1, <1>5, <1>6, <1>7, <1>8 DEF Outer

\* Nothing that counts changes in the specs: no model, or one that had been
\* deleted, goes.
SpecKept ==
    /\ Live(spec') = Live(spec) /\ \A m \in Model : spec'[m].refs = spec[m].refs
    /\ \A a \in Outside \cap Live(spec) : Mine(a, spec', world') = Mine(a, spec, world)
    /\ Valid' = Valid

LEMMA SameKept == UNCHANGED <<spec, world>> => SpecKept
  BY DEF SpecKept, Valid

LEMMA GoneKept ==
    ASSUME TypeInv, NEW m \in Model, Gone(m), spec[m].life # "live", world' = world
    PROVE  SpecKept /\ \A x \in Model \ {m} : spec'[x] = spec[x]
  <1>1. spec \in [Model -> ModelSpec] /\ spec[m] \in ModelSpec
    BY DEF TypeInv, TypeOK
  <1>2. spec' = [spec EXCEPT ![m] = [spec[m] EXCEPT !.life = "gone"]]
    BY DEF Gone
  <1>3. /\ [spec[m] EXCEPT !.life = "gone"].life = "gone"
        /\ [spec[m] EXCEPT !.life = "gone"].refs = spec[m].refs
    BY <1>1 DEF ModelSpec
  <1>4. /\ \A x \in Model \ {m} : spec'[x] = spec[x]
        /\ spec'[m].life = "gone" /\ spec'[m].refs = spec[m].refs
    BY <1>1, <1>2, <1>3
  <1>5. Live(spec') = Live(spec) /\ \A x \in Live(spec) : spec'[x] = spec[x]
    BY <1>4 DEF Live
  <1>6. \A x \in Live(spec) : \A p : Outcome(x, spec, p, world) = Outcome(x, spec', p, world)
    BY <1>5, OutcomeSame
  <1>7. \A n : Holder(n, spec) = Holder(n, spec')
    <2> TAKE n
    <2>1. \A x \in Model : x \in Live(spec) /\ spec[x].name = n
                             <=> x \in Live(spec') /\ spec'[x].name = n
      BY <1>5
    <2> QED
      BY <2>1, HolderSame
  <1>8. \A a \in Outside \cap Live(spec) : Mine(a, spec', world') = Mine(a, spec, world)
    <2> TAKE a \in Outside \cap Live(spec)
    <2>1. Mine(a, spec, world) = Mine(a, spec', world)
      BY <1>1, <1>5, <1>6, <1>7, MineSame
    <2> QED
      BY <2>1
  <1>9. Valid' = Valid
    <2>1. OwnLive(spec') = OwnLive(spec)
      BY <1>5 DEF OwnLive
    <2>2. \A o \in OwnLive(spec) : RoutesOf(o, spec', world') = RoutesOf(o, spec, world)
      <3> TAKE o \in OwnLive(spec)
      <3>1. o \in Live(spec)
        BY DEF OwnLive
      <3> QED
        BY <1>5, <1>6, <3>1, RoutesSame
    <2> QED
      BY <2>1, <2>2, ValidSame
  <1> QED
    BY <1>4, <1>5, <1>8, <1>9 DEF SpecKept

\* Routes stay, or have a withdrawal recorded and their models queued.
Recorded ==
    \A a \in Outside : /\ a \notin queue' => route'[a] = route[a]
                       /\ route[a] = NoRoute => route'[a] = NoRoute
                       /\ route'[a].exists = route[a].exists
                       /\ route'[a].verdict = route[a].verdict
                       /\ route'[a].uses = route[a].uses

LEMMA PersistedKeeps ==
    ASSUME TypeInv, NEW w, NEW a \in Outside
    PROVE  /\ route[a] = NoRoute => Persisted(w)[a] = NoRoute
           /\ Persisted(w)[a].exists = route[a].exists
           /\ Persisted(w)[a].verdict = route[a].verdict
           /\ Persisted(w)[a].uses = route[a].uses
  <1>1. \A e : [route[a] EXCEPT !.evidence = e].uses = route[a].uses
    BY DEF TypeInv, TypeOK, RouteObject
  <1>2. Persisted(w)[a].uses = route[a].uses
    BY <1>1 DEF Persisted
  <1>3. ASSUME route[a] = NoRoute PROVE Persisted(w)[a] = NoRoute
    <2>1. a \notin Accepted
      BY <1>3, NoRouteFacts DEF NoRouteTyped, Accepted
    <2>2. a \notin Withdrawing(w)
      BY <2>1 DEF Withdrawing, Stale
    <2> QED
      BY <1>3, <2>2 DEF Persisted
  <1> QED
    BY <1>2, <1>3, PersistedFacts

LEMMA RecordedFacts ==
    ASSUME TypeInv, route' = route \/ (\E w : route' = Persisted(w)), Woken \subseteq queue'
    PROVE  Recorded
  <1>1. CASE route' = route
    BY <1>1 DEF Recorded
  <1>2. ASSUME NEW w, route' = Persisted(w) PROVE Recorded
    <2>1. \A a \in Outside : a \notin queue' => route'[a] = route[a]
      BY DEF Woken
    <2> QED
      BY <1>2, <2>1, PersistedKeeps DEF Recorded
  <1> QED
    BY <1>1, <1>2

\* While nothing is published and whoever is attended to stays so, models stay
\* fine if they keep their credentials.
Calm ==
    /\ Recorded /\ SpecKept /\ UNCHANGED overlay
    /\ \A a \in Outside : Attended(a) => Attended(a)'

LEMMA CalmFacts ==
    ASSUME Calm
    PROVE  /\ Content' = Content /\ Accepted' = Accepted
           /\ \A a \in Outside : a \in Live(spec) /\ a \notin queue' => Unmoved(a)
           /\ \A a \in Outside : /\ a \in Live(spec) /\ a \notin queue'
                                 /\ Of(Content.candidates, {a}) # {} => Copied(Due(a)) \subseteq copies'
                                 => Untouched(a)
           /\ Owed => Owed'
           /\ \A a \in Accepted : route'[a].uses = route[a].uses
  <1>1. Content' = Content
    BY DEF Calm, Content, NoContent
  <1>2. Accepted' = Accepted /\ \A a \in Accepted : route'[a].uses = route[a].uses
    BY DEF Calm, Recorded, Accepted
  <1>3. \A a \in Outside : a \in Live(spec) /\ a \notin queue' => Unmoved(a)
    BY DEF Calm, Recorded, SpecKept, Unmoved, Model
  <1>4. Owed => Owed'
    BY DEF Calm, Recorded, Owed
  <1> QED
    BY <1>1, <1>2, <1>3, <1>4 DEF Untouched, Due

LEMMA CalmRested ==
    ASSUME SettledInv, Calm, \A a \in Outside : a \in over => a \in over' \/ Attended(a)',
           \A a \in Outside \cap Live(spec) :
              ~Attended(a)' /\ Of(Content.candidates, {a}) # {} => Copied(Due(a)) \subseteq copies'
    PROVE  Rested'
  <1> SUFFICES ASSUME NEW a \in Outside, a \in Live(spec), ~Attended(a)' PROVE Fine(a)'
    BY DEF Rested, Calm, SpecKept
  <1>1. Fine(a) /\ a \notin queue'
    BY DEF SettledInv, Rested, Calm, Attended
  <1>2. Untouched(a)
    BY <1>1, CalmFacts
  <1> QED
    BY <1>1, <1>2, FineKept

LEMMA CalmOwn ==
    ASSUME SettledInv, Calm, OwnServedAs
    PROVE  OwnServedAs'
  BY CalmFacts, OwnServedKept DEF Calm, SpecKept, Model

LEMMA CalmAccounted ==
    ASSUME SettledInv, Calm, copies' = copies
    PROVE  Accounted'
  BY CalmFacts DEF SettledInv, Accounted

\* Collection leaves copies that accepted routes name.
LEMMA CollectedFacts ==
    ASSUME NEW out
    PROVE  /\ \A p \in Collected(out) : \E a \in Accepted \ out : p \in route[a].uses
           /\ \A a \in Outside : /\ Shows(a) /\ Copied(Due(a)) \subseteq route[a].uses
                                 /\ Of(Content.candidates, {a}) # {} /\ a \notin out
                                 => Copied(Due(a)) \subseteq Collected(out)
  BY DEF Collected, Shows

\* A call that fails: the model is queued again and nothing else happens.
LEMMA RetrySettled ==
    ASSUME TypeInv, SettledInv, Retry, pass.pc # "idle", Recorded,
           UNCHANGED <<spec, world, overlay, copies, over>>
    PROVE  SettledInv'
  <1>1. pass' = Idle /\ pass'.pc = "idle" /\ queue \cup {pass.model} \subseteq queue'
    BY DEF Retry, Idle
  <1>2. Calm
    BY <1>1, SameKept DEF Calm, Attended, Busy
  <1>3. Rested'
    <2>1. \A a \in Outside \cap Live(spec) : ~Attended(a)' => Fine(a)
      BY <1>2 DEF SettledInv, Rested, Calm
    <2> QED
      BY <1>2, <2>1, CalmRested DEF Fine, Shows
  <1>4. PassInv' /\ HomePass'
    BY <1>1, PassIdle
  <1>5. OwnKept'
    <2> SUFFICES ASSUME OwnQuiet' PROVE OwnServedAs'
      BY <1>1 DEF OwnKept
    <2>1. pass.model \notin Own /\ OwnQuiet
      BY <1>1 DEF OwnQuiet, HomePc
    <2>2. OwnServedAs
      BY <2>1 DEF SettledInv, OwnInv, OwnKept, TypeInv, PassTyped, HomePc
    <2> QED
      BY <1>2, <2>2, CalmOwn
  <1>6. Parting'
    BY <1>1 DEF SettledInv, Parting, Recorded
  <1>7. Accounted'
    BY <1>2, CalmAccounted
  <1> QED
    BY <1>3, <1>4, <1>5, <1>6, <1>7 DEF SettledInv, OwnInv

-----------------------------------------------------------------------------
(***************************************************************************)
(* The home path.                                                          *)
(***************************************************************************)
\* What the admission serves of the attached models as they are due.
Admitted(own) == Admission(Accepted, own, spec, world)
Serving(own) == ServedRoutes(Admitted(own), copies, spec, world)

LEMMA ServingFacts ==
    ASSUME TypeInv, NoClash, NEW own
    PROVE  /\ Serving(own) \in SUBSET Route /\ OfOutside(Serving(own)) /\ Weighs(Serving(own))
           /\ Admitted(own).over \subseteq Outside
           /\ \A r \in Serving(own) : r.model \notin Admitted(own).over
           /\ \A a \in Outside :
                 LET mine == Of(Serving(own), {a}) IN
                 /\ mine = {} \/ mine = Due(a)
                 /\ mine # {} => a \in Accepted /\ Copied(Due(a)) \subseteq copies
                 /\ /\ a \in Accepted \cap Live(spec) /\ Due(a) # {}
                    /\ a \notin Admitted(own).over /\ Copied(Due(a)) \subseteq copies
                    => mine = Due(a)
                 /\ AsksFor(mine, spec)
  <1> DEFINE adm == Admitted(own)
             S == Serving(own)
  <1>1. spec \in [Model -> ModelSpec]
    BY DEF TypeInv, TypeOK
  <1>2. /\ adm.fits \subseteq Outside /\ adm.over \subseteq Outside /\ adm.fits \cap adm.over = {}
        /\ \A a \in Outside : a \in adm.fits \cup adm.over <=> Competes(a, Accepted, spec, world)
    BY AdmissionSplits DEF Admitted
  <1> HIDE DEF adm
  <1>3. /\ S \subseteq Route /\ OfOutside(S)
        /\ \A r \in S : r \in Mine(r.model, spec, world)
    BY <1>1, <1>2, ServedFacts DEF Serving, adm
  <1>4. \A a \in Outside : Of(S, {a}) =
           IF a \in adm.fits /\ Copied(Due(a)) \subseteq copies THEN Due(a) ELSE {}
    BY <1>1, <1>2, ServedOf DEF Serving, adm, Due
  <1>5. \A a \in Outside : Competes(a, Accepted, spec, world) <=>
                              a \in Accepted \cap Live(spec) /\ Due(a) # {}
    BY DEF Competes, Excluded, NoClash, Due
  <1>6. \A r \in S : r.model \in Outside /\ r \in Due(r.model)
    BY <1>3 DEF OfOutside, Due
  <1>7. \A a \in Outside : \A r \in Due(a) : r.weight # 0 /\ r.weight = Asked(r, spec) /\ r.model = a
    BY <1>1, AskedFacts DEF Due
  <1> HIDE DEF S
  <1>8. Weighs(S) /\ \A a \in Outside : AsksFor(Of(S, {a}), spec)
    BY <1>6, <1>7 DEF Weighs, AsksFor, Of
  <1>9. \A r \in S : r.model \notin adm.over
    <2> TAKE r \in S
    <2>1. r \in Of(S, {r.model}) /\ r.model \in Outside
      BY <1>6 DEF Of
    <2> QED
      BY <1>2, <1>4, <2>1
  <1> QED
    BY <1>2, <1>3, <1>4, <1>5, <1>8, <1>9 DEF adm, S

\* The copies of a model that is fine and published are there.
LEMMA FineCopies ==
    ASSUME NEW a \in Outside, Fine(a), a \notin over, a \in Accepted, Due(a) # {}
    PROVE  Copied(Due(a)) \subseteq copies
  <1>1. Named(Of(Content.candidates, {a})) = Named(Due(a))
    BY DEF Fine, Complete
  <1>2. Of(Content.candidates, {a}) # {}
    BY <1>1, NamedEmpty
  <1> QED
    BY <1>2 DEF Fine, Shows

\* All routes are withdrawn only when none is valid, and a terminating model's
\* pass never keeps candidates.
LEMMA DecisionFacts ==
    ASSUME NEW m, NEW kind, kind = Decision(m, world), kind # "retain"
    PROVE  /\ kind \in {"publish", "clear", "exclude"}
           /\ kind = "clear" => Valid = {}
           /\ kind = "exclude" => spec[m].life = "live"
  <1> DEFINE R == Resolved(OwnLive(spec), spec, world)
             valid == Without(R, Rejected(R))
             D == IF ResolutionFails(OwnLive(spec), spec, world) THEN "retain"
                  ELSE IF R = {} THEN WithoutRoutes(m, world)
                  ELSE IF m \in Rejected(R) /\ spec[m].life = "live" THEN "retain"
                  ELSE IF valid = {} THEN "clear"
                  ELSE IF CredentialMissing(valid, world) THEN "retain"
                  ELSE "publish"
  <1>1. kind = D /\ Valid = valid
    BY DEF Decision, Valid
  <1>2. R = {} => valid = {}
    BY DEF Without
  <1>3. /\ WithoutRoutes(m, world) \in {"clear", "exclude", "retain"}
        /\ WithoutRoutes(m, world) = "exclude" => spec[m].life = "live"
    BY DEF WithoutRoutes
  <1> HIDE DEF R, valid
  <1> QED
    BY <1>1, <1>2, <1>3

LEMMA HomeStartSettled ==
    ASSUME TypeInv, NoClash, SettledInv, NEW m \in Own, HomeStart(m)
    PROVE  SettledInv'
  <1> DEFINE kind == Decision(m, world)
             R == Resolved(OwnLive(spec), spec, world)
             want == IF kind = "publish" THEN Without(R, Rejected(R)) ELSE {}
             kept == IF kind = "exclude"
                     THEN {c \in Preserved : c.model \notin PolicyExcluded(world)} ELSE {}
             n == Cardinality(want) + Cardinality(kept)
  <1>1. /\ pass.pc = "idle" /\ m \in queue /\ queue' = queue \ {m} /\ kind # "retain"
        /\ pass'.pc = "write" /\ pass'.model = m /\ pass'.kind = kind
        /\ pass'.want = want /\ pass'.kept = kept /\ pass'.served = Serving(n)
        /\ pass'.over = Admitted(n).over /\ pass'.deleting = (spec[m].life = "deleting")
        /\ UNCHANGED <<spec, world, overlay, route, copies, over>>
    BY DEF HomeStart, Idle, outside, Serving, Admitted
  <1>2. /\ kind \in {"publish", "clear", "exclude"}
        /\ kind = "clear" => Valid = {}
        /\ kind = "exclude" => spec[m].life = "live"
    BY <1>1, DecisionFacts
  <1>3. /\ kind = "publish" => want = Valid
        /\ kind # "publish" => want = {}
        /\ kind # "exclude" => kept = {}
    BY DEF Valid
  <1> HIDE DEF kind, want, kept, n
  <1>4. Content' = Content /\ Accepted' = Accepted
    BY <1>1 DEF Content, NoContent, Accepted
  <1>5. \A a \in Outside : /\ Attended(a)' <=> Attended(a)
                           /\ Attended(a) <=> a \in queue
                           /\ ~Busy(a)'
    BY <1>1, Disjoint DEF Attended, Busy, AttachPc
  <1>6. \A a \in Outside : Due(a)' = Due(a) /\ (Shows(a) <=> Shows(a)') /\ (Fine(a) <=> Fine(a)')
    BY <1>1, <1>4 DEF Due, Shows, Fine, Exact, Complete
  <1>7. Rested'
    BY <1>1, <1>5, <1>6 DEF SettledInv, Rested
  <1>8. Underway' /\ Stages' /\ Collecting'
    BY <1>1, <1>5 DEF Underway, Stages, Collecting
  <1>9. Plan'
    <2>1. ASSUME NEW a \in Outside, a \in Live(spec), a \notin queue
          PROVE  Planned(a)'
      <3>1. Fine(a)
        BY <1>5, <2>1 DEF SettledInv, Rested
      <3>2. a \in Accepted /\ Due(a) # {} /\ a \notin over => Copied(Due(a)) \subseteq copies
        BY <2>1, <3>1, FineCopies
      <3> DEFINE mine == Of(Serving(n), {a})
      <3>3. /\ mine = {} \/ mine = Due(a)
            /\ mine # {} => a \in Accepted /\ Copied(Due(a)) \subseteq copies
            /\ /\ a \in Accepted \cap Live(spec) /\ Due(a) # {}
               /\ a \notin Admitted(n).over /\ Copied(Due(a)) \subseteq copies
               => mine = Due(a)
        BY ServingFacts
      <3>4. Of(pass'.served, {a}) = mine
        BY <1>1
      <3> HIDE DEF mine
      <3> QED
        BY <1>1, <1>4, <1>6, <2>1, <3>2, <3>3, <3>4 DEF Planned
    <2>2. \A r \in pass'.served : r.model \notin pass'.over
      BY <1>1, ServingFacts
    <2> QED
      BY <1>1, <2>1, <2>2, Disjoint DEF Plan
  <1>10. HomePass'
    BY <1>1, <1>2 DEF HomePass
  <1>11. OwnKept'
    <2>1. Valid' = Valid
      BY <1>1 DEF Valid
    <2>2. pass'.kind = "publish" \/ pass'.deleting => pass'.want = Valid' /\ pass'.kept = {}
      BY <1>1, <1>2, <1>3, <2>1
    <2> QED
      BY <1>1, <2>2 DEF OwnKept
  <1>12. Parting'
    BY <1>1, Disjoint DEF SettledInv, Parting
  <1>13. Accounted'
    BY <1>1, <1>4, <1>5 DEF SettledInv, Accounted, Owed
  <1> QED
    BY <1>7, <1>8, <1>9, <1>10, <1>11, <1>12, <1>13 DEF SettledInv, PassInv, OwnInv

LEMMA HomeWriteSettled ==
    ASSUME TypeInv, SettledInv, HomeWrite
    PROVE  SettledInv'
  <1>1. /\ pass.pc = "write" /\ route' = Persisted(View)
        /\ UNCHANGED <<spec, world, overlay, copies, over>>
    BY DEF HomeWrite, outside
  <1>2. CASE Retry
    <2>1. Recorded
      BY <1>1, <1>2, RecordedFacts DEF Retry
    <2> QED
      BY <1>1, <1>2, <2>1, RetrySettled
  <1>3. CASE /\ pass' = [pass EXCEPT !.pc = "publish", !.retain = Withdrawing(View) # {}]
             /\ queue' = queue \cup Woken
    <2>1. /\ pass'.pc = "publish" /\ pass'.want = pass.want /\ pass'.kept = pass.kept
          /\ pass'.served = pass.served /\ pass'.over = pass.over
          /\ pass'.model = pass.model /\ pass'.kind = pass.kind /\ pass'.deleting = pass.deleting
      <3> DEFINE b == Withdrawing(View) # {}
      <3>1. pass' = [[pass EXCEPT !.pc = "publish"] EXCEPT !.retain = b]
        BY <1>3
      <3> HIDE DEF b
      <3> QED
        BY <3>1 DEF TypeInv, PassTyped
    <2>2. Recorded
      BY <1>1, <1>3, RecordedFacts
    <2>3. \A a : ~Busy(a) /\ ~Busy(a)'
      BY <1>1, <2>1 DEF Busy, AttachPc
    <2>4. Calm
      BY <1>1, <1>3, <2>2, <2>3, SameKept DEF Calm, Attended
    <2>5. Rested'
      <3>1. \A a \in Outside \cap Live(spec) : ~Attended(a)' => Fine(a)
        BY <2>4 DEF SettledInv, Rested, Calm
      <3> QED
        BY <1>1, <2>4, <3>1, CalmRested DEF Fine, Shows
    <2>6. Underway' /\ Stages' /\ Collecting'
      BY <2>1, <2>3 DEF Underway, Stages, Collecting
    <2>7. Plan'
      <3>1. ASSUME NEW a \in Outside, a \in Live(spec), a \notin queue' PROVE Planned(a)'
        <4>1. Planned(a) /\ Unmoved(a)
          BY <1>1, <1>3, <2>4, <3>1, CalmFacts DEF SettledInv, PassInv, Plan
        <4>2. Due(a)' = Due(a) /\ (a \in Accepted' <=> a \in Accepted)
          BY <4>1, UnmovedFacts
        <4> QED
          BY <1>1, <2>1, <4>1, <4>2 DEF Planned
      <3> QED
        BY <1>1, <2>1, <3>1 DEF Plan, SettledInv, PassInv
    <2>8. HomePass'
      BY <1>1, <2>1 DEF SettledInv, OwnInv, HomePass, HomePc
    <2>9. OwnKept'
      <3>1. Valid' = Valid
        BY <1>1 DEF Valid
      <3>2. OwnQuiet' => OwnQuiet
        BY <1>1, <1>3, <2>1 DEF OwnQuiet, HomePc
      <3> QED
        BY <1>1, <2>1, <3>1, <3>2 DEF SettledInv, OwnInv, OwnKept
    <2>10. Parting'
      BY <1>1, <1>3, <2>2 DEF SettledInv, Parting, Recorded
    <2>11. Accounted'
      BY <1>1, <2>4, CalmAccounted
    <2> QED
      BY <2>5, <2>6, <2>7, <2>8, <2>9, <2>10, <2>11 DEF SettledInv, PassInv, OwnInv
  <1> QED
    BY <1>2, <1>3 DEF HomeWrite

LEMMA RenderNotNone ==
    ASSUME NEW K \in SUBSET Candidate, NEW R \in SUBSET Route, NEW translation
    PROVE  Render(K, R, translation) # None
  <1> DEFINE d == Render(K, R, translation)
  <1>1. d = [candidates |-> d.candidates, policy |-> d.policy]
    BY DEF Render
  <1>2. d.candidates \in SUBSET Candidate /\ d.policy \in Policy
    BY RenderFacts
  <1> HIDE DEF d
  <1>3. d \in [candidates: SUBSET Candidate, policy: Policy]
    BY <1>1, <1>2
  <1> QED
    BY <1>3, NoneAssumption DEF d

LEMMA RenderedContent ==
    ASSUME NEW K \in SUBSET Candidate, NEW R \in SUBSET Route, NEW translation,
           overlay' = Render(K, R, translation)
    PROVE  Content' = Render(K, R, translation)
  BY RenderNotNone DEF Content

\* A home pass publishes every attached model as it planned, and its own as it
\* resolved or kept them.
LEMMA HomePublishShows ==
    ASSUME ContractInv, HomePublish
    PROVE  /\ \A m : Named(Of(Content'.candidates, {m})) =
                       Named(Of(pass.kept, {m})) \cup Named(Of(pass.want \cup pass.served, {m}))
           /\ \A M, s : Of(pass.kept, M) = {} /\ Weighs(Of(pass.want \cup pass.served, M))
                           /\ AsksFor(Of(pass.want \cup pass.served, M), s)
                           => Proportional(Of(Content'.candidates, M), s)
  <1> DEFINE R == pass.want \cup pass.served
  <1>1. pass.pc = "publish" /\ pass.kept \in SUBSET Candidate /\ R \in SUBSET Route
    BY DEF HomePublish, ContractInv, TypeInv, TypeOK
  <1>2. CASE CleanupOverlay /\ pass.kept = {} /\ R = {}
    <2>1. Content'.candidates = {}
      BY <1>2 DEF CleanupOverlay, Content, NoContent
    <2> QED
      BY <1>2, <2>1 DEF Of, Named, Proportional
  <1>3. CASE overlay' = Render(pass.kept, R, pass.translation)
    <2>1. Content'.candidates = Render(pass.kept, R, pass.translation).candidates
      BY <1>1, <1>3, RenderedContent
    <2> HIDE DEF R
    <2> QED
      BY <1>1, <2>1, RenderNamed, RenderFresh DEF R
  <1> QED
    BY <1>2, <1>3 DEF HomePublish

LEMMA HomePublishSettled ==
    ASSUME ContractInv, SettledInv, HomePublish
    PROVE  SettledInv'
  <1> DEFINE R == pass.want \cup pass.served
             C(m) == Of(Content'.candidates, {m})
  <1>1. /\ pass.pc = "publish" /\ UNCHANGED <<route, world>> /\ over' = over \cup pass.over
        /\ TypeInv /\ OfOwn(pass.kept) /\ OfOutside(pass.served) /\ OfOwn(pass.want)
        /\ pass.model \in Own /\ pass.kept \in SUBSET Candidate
        /\ pass.want \in SUBSET Route /\ pass.served \in SUBSET Route
    BY DEF HomePublish, ContractInv, HomePlan, TypeInv, TypeOK, PassTyped, HomePc
  <1>2. Woken \cap Outside = {}
    BY <1>1, Disjoint DEF Woken
  <1>3. \/ /\ pass.kind = "publish" /\ UNCHANGED spec /\ Continue("finish")
        \/ /\ pass.kind # "publish" /\ pass.deleting /\ Leave
        \/ /\ pass.kind # "publish" /\ ~pass.deleting /\ Retry /\ UNCHANGED spec
    BY DEF HomePublish
  <1>4. /\ SpecKept /\ \A a \in Outside : spec'[a] = spec[a]
        /\ \A a \in Outside : a \in queue' <=> a \in queue
        /\ \A a \in Outside : ~Busy(a) /\ ~Busy(a)'
    <2>1. CASE pass.kind = "publish" /\ UNCHANGED spec /\ Continue("finish")
      <3>1. pass'.pc = "finish" /\ queue' = queue \cup Woken
        BY <1>1, <2>1 DEF Continue, TypeInv, PassTyped
      <3> QED
        BY <1>1, <1>2, <2>1, <3>1, SameKept DEF Busy, AttachPc
    <2>2. CASE pass.kind # "publish" /\ pass.deleting /\ Leave
      <3>1. pass'.pc = "idle" /\ queue' = (queue \cup Woken) \ {pass.model} /\ Gone(pass.model)
        BY <2>2 DEF Leave, Idle
      <3>2. spec[pass.model].life # "live" /\ pass.model \in Model
        BY <1>1, <2>2 DEF SettledInv, OwnInv, HomePass, HomePc, Model
      <3> QED
        BY <1>1, <1>2, <3>1, <3>2, GoneKept, Disjoint DEF Busy, AttachPc, Model
    <2>3. CASE pass.kind # "publish" /\ ~pass.deleting /\ Retry /\ UNCHANGED spec
      <3>1. pass'.pc = "idle" /\ queue' = queue \cup Woken \cup {pass.model}
        BY <2>3 DEF Retry, Idle
      <3> QED
        BY <1>1, <1>2, <2>3, <3>1, SameKept, Disjoint DEF Busy, AttachPc
    <2> QED
      BY <1>3, <2>1, <2>2, <2>3
  <1>5. copies' = copies \/ copies' = Collected({}) \/ copies' = Collected(pass.over)
    BY DEF HomePublish, CleanupOverlay
  <1>6. Accepted' = Accepted
    BY <1>1 DEF Accepted
  <1>7. \A a \in Outside : Named(C(a)) = Named(Of(pass.served, {a}))
    <2> TAKE a \in Outside
    <2>1. Of(pass.kept, {a}) = {} /\ Of(R, {a}) = Of(pass.served, {a})
      BY <1>1, Disjoint DEF Of, OfOwn
    <2>2. Named(C(a)) = Named(Of(pass.kept, {a})) \cup Named(Of(R, {a}))
      BY HomePublishShows
    <2> QED
      BY <2>1, <2>2 DEF Named
  <1>8. ASSUME NEW a \in Outside, a \in Live(spec), Planned(a) PROVE Proportional(C(a), spec')
    <2>1. Of(pass.kept, {a}) = {} /\ Of(R, {a}) = Of(pass.served, {a})
      BY <1>1, Disjoint DEF Of, OfOwn
    <2>2. \A r \in Due(a) : r.model = a /\ r.weight # 0 /\ r.weight = Asked(r, spec)
      <3>1. spec \in [Model -> ModelSpec]
        BY <1>1 DEF TypeInv, TypeOK
      <3> HIDE DEF C, R
      <3> QED
        BY <3>1, AskedFacts DEF Due
    <2>3. \A r \in Of(pass.served, {a}) : r.weight # 0 /\ r.weight = Asked(r, spec')
      BY <1>4, <1>8, <2>2 DEF Planned, Asked, SpecKept, Model
    <2>4. Weighs(Of(R, {a})) /\ AsksFor(Of(R, {a}), spec')
      BY <2>1, <2>3 DEF Weighs, AsksFor
    <2> QED
      BY <2>1, <2>4, HomePublishShows
  <1> HIDE DEF C
  <1>9. ASSUME NEW a \in Outside, a \in Live(spec), a \notin queue
        PROVE  Fine(a) /\ Planned(a) /\ (Of(pass.served, {a}) # {} => a \notin pass.over)
    <2>1. ~Attended(a)
      BY <1>4, <1>9 DEF Attended
    <2> QED
      BY <1>1, <1>9, <2>1 DEF SettledInv, Rested, PassInv, Plan, Of
  <1>10. Rested'
    <2> SUFFICES ASSUME NEW a \in Outside, a \in Live(spec'), ~Attended(a)' PROVE Fine(a)'
      BY DEF Rested
    <2>1. a \in Live(spec) /\ a \notin queue
      BY <1>4 DEF SpecKept, Attended
    <2>2. Fine(a) /\ Planned(a) /\ (Of(pass.served, {a}) # {} => a \notin pass.over)
      BY <1>9, <2>1
    <2> DEFINE mine == Of(pass.served, {a})
    <2>3. Unmoved(a)
      BY <1>1, <1>4, <2>1 DEF Unmoved, SpecKept
    <2>4. mine # {} => a \in Accepted /\ Copied(Mine(a, spec, world)) \subseteq copies'
      BY <1>5, <2>2 DEF Planned, Collected, Fine, Due
    <2>5. /\ mine = {} \/ mine = Mine(a, spec, world)
          /\ a \in Accepted /\ Mine(a, spec, world) # {} /\ a \notin over' => mine = Mine(a, spec, world)
      BY <1>1, <2>2 DEF Planned, Due
    <2>6. Named(Of(Content'.candidates, {a})) = Named(mine) /\ Proportional(Of(Content'.candidates, {a}), spec')
      BY <1>7, <1>8, <2>1, <2>2 DEF C
    <2> HIDE DEF mine
    <2> QED
      BY <1>1, <2>2, <2>3, <2>4, <2>5, <2>6, FinePublished
  <1>11. PassInv'
    <2>1. CASE pass'.pc = "idle"
      BY <2>1, PassIdle
    <2>2. CASE Continue("finish")
      <3>1. pass'.pc = "finish" /\ pass'.over = pass.over
        BY <2>2 DEF Continue, TypeInv, PassTyped, ContractInv
      <3>2. \A a \in pass.over : Of(Content'.candidates, {a}) = {}
        <4> TAKE a \in pass.over
        <4>1. a \in Outside
          BY DEF ContractInv, TypeInv, PassTyped
        <4>2. Of(pass.served, {a}) = {}
          BY <1>1 DEF SettledInv, PassInv, Plan, Of
        <4> QED
          BY <1>7, <4>1, <4>2, NamedEmpty DEF C
      <3> QED
        BY <1>4, <3>1, <3>2 DEF PassInv, Underway, Stages, Collecting, Plan
    <2> QED
      BY <1>3, <2>1, <2>2 DEF Leave, Retry, Idle
  <1>12. HomePass'
    <2>1. CASE pass'.pc = "idle"
      BY <2>1, PassIdle
    <2>2. CASE UNCHANGED spec /\ Continue("finish")
      <3>1. /\ pass'.pc = "finish" /\ pass'.kind = pass.kind /\ pass'.deleting = pass.deleting
            /\ pass'.model = pass.model
        BY <2>2 DEF Continue, TypeInv, PassTyped, ContractInv
      <3> QED
        BY <1>1, <2>2, <3>1 DEF SettledInv, OwnInv, HomePass, HomePc
    <2> QED
      BY <1>3, <2>1, <2>2 DEF Leave, Retry, Idle
  <1>13. OwnKept'
    <2>1. pass'.pc \notin {"write", "publish"}
      BY <1>3 DEF Leave, Retry, Idle, Continue, TypeInv, PassTyped, ContractInv
    <2> SUFFICES ASSUME OwnQuiet' PROVE OwnServedAs'
      BY <2>1 DEF OwnKept
    <2>2. OwnQuiet /\ (pass.kind = "publish" \/ pass.deleting)
      <3>1. CASE Continue("finish") /\ pass.kind = "publish"
        <4>1. /\ queue \subseteq queue' /\ pass'.pc = "finish" /\ pass'.deleting = pass.deleting
              /\ pass'.model = pass.model
          BY <3>1 DEF Continue, TypeInv, PassTyped, ContractInv
        <4> QED
          BY <1>1, <3>1, <4>1 DEF OwnQuiet, HomePc
      <3>2. CASE pass.deleting /\ Leave
        <4>1. pass'.pc = "idle" /\ queue' = (queue \cup Woken) \ {pass.model}
          BY <3>2 DEF Leave, Idle
        <4> QED
          BY <1>1, <3>2, <4>1 DEF OwnQuiet, HomePc
      <3>3. CASE Retry
        <4>1. pass'.pc = "idle" /\ pass.model \in queue'
          BY <3>3 DEF Retry, Idle
        <4> QED
          BY <1>1, <4>1 DEF OwnQuiet, HomePc
      <3> QED
        BY <1>3, <3>1, <3>2, <3>3
    <2>3. pass.want = Valid /\ pass.kept = {}
      BY <1>1, <2>2 DEF SettledInv, OwnInv, OwnKept
    <2>4. Valid' = Valid /\ \A m \in Model : spec'[m].refs = spec[m].refs
      BY <1>4 DEF SpecKept
    <2>5. \A o \in Own : Of(R, {o}) = Of(Valid, {o}) /\ Of(pass.kept, {o}) = {}
      BY <1>1, <2>3, Disjoint DEF Of, OfOutside
    <2>6. \A o \in Own : Entries(o)' = Named(Of(Valid, {o}))
      <3> TAKE o \in Own
      <3>1. Named(Of(Content'.candidates, {o})) = Named(Of(pass.kept, {o})) \cup Named(Of(R, {o}))
        BY HomePublishShows
      <3>2. Entries(o)' = Named(Of(Content'.candidates, {o}))
        BY DEF Entries, Named, Of
      <3> QED
        BY <2>5, <3>1, <3>2 DEF Named
    <2>7. Weighs(Of(R, Own)) /\ AsksFor(Of(R, Own), spec')
      <3>1. \A r \in Valid : /\ r.model \in Own /\ r.weight # 0 /\ r.weight = Asked(r, spec)
        BY <1>1, AskedFacts DEF Valid, Without, OwnLive, TypeInv, TypeOK
      <3>2. Of(R, Own) = Of(Valid, Own)
        BY <1>1, <2>3, Disjoint DEF Of, OfOutside
      <3>3. \A r \in Valid : Asked(r, spec') = Asked(r, spec)
        BY <2>4, <3>1 DEF Asked, Model
      <3> QED
        BY <3>1, <3>2, <3>3 DEF Weighs, AsksFor, Of
    <2>8. Proportional(Of(Content'.candidates, Own), spec')
      <3>1. Of(pass.kept, Own) = {}
        BY <2>3 DEF Of
      <3> QED
        BY <2>7, <3>1, HomePublishShows
    <2> QED
      BY <2>4, <2>6, <2>8 DEF OwnServedAs
  <1>14. Parting'
    BY <1>1, <1>4 DEF SettledInv, Parting
  <1>15. Accounted'
    <2>1. Owed => Owed'
      BY <1>1, <1>4 DEF Owed, Attended
    <2>2. \A out : copies' = Collected(out) => \A p \in copies' : \E a \in Accepted : p \in route[a].uses
      BY CollectedFacts
    <2> QED
      BY <1>1, <1>5, <1>6, <2>1, <2>2 DEF SettledInv, Accounted
  <1> QED
    BY <1>10, <1>11, <1>12, <1>13, <1>14, <1>15 DEF SettledInv, OwnInv


LEMMA HomeFinishSettled ==
    ASSUME TypeInv, SettledInv, HomeFinish
    PROVE  SettledInv'
  <1>1. /\ pass.pc = "finish" /\ UNCHANGED <<world, overlay, over>> /\ pass.model \in Own
        /\ route' = route \/ route' = Persisted(View)
    BY DEF HomeFinish, Finished, Return, Retry, Leave, TypeInv, PassTyped, HomePc
  <1>2. CASE Retry /\ UNCHANGED <<spec, copies>>
    <2>1. Recorded
      BY <1>1, <1>2, RecordedFacts DEF Retry
    <2> QED
      BY <1>1, <1>2, <2>1, RetrySettled
  <1>3. CASE Finished
    <2>1. /\ copies' = Collected(pass.over) /\ pass'.pc = "idle"
          /\ \/ pass.deleting /\ Gone(pass.model) /\ queue' = (queue \cup Woken) \ {pass.model}
             \/ ~pass.deleting /\ UNCHANGED spec /\ queue' = queue \cup Woken
      BY <1>3 DEF Finished, Leave, Return, Idle
    <2>2. Recorded
      <3>1. \A a \in Outside : a \in queue' <=> a \in queue \cup Woken
        BY <1>1, <2>1, Disjoint
      <3>2. CASE route' = route
        BY <3>2 DEF Recorded
      <3>3. CASE route' = Persisted(View)
        <4>1. \A a \in Outside : a \notin queue' => route'[a] = route[a]
          BY <3>1 DEF Woken
        <4>2. \A a \in Outside : /\ route[a] = NoRoute => route'[a] = NoRoute
                                 /\ route'[a].exists = route[a].exists
                                 /\ route'[a].verdict = route[a].verdict
                                 /\ route'[a].uses = route[a].uses
          BY <3>3, PersistedKeeps
        <4> QED
          BY <4>1, <4>2 DEF Recorded
      <3> QED
        BY <1>1, <3>2, <3>3
    <2>3. SpecKept /\ \A a \in Outside : spec'[a] = spec[a]
      <3>1. CASE pass.deleting /\ Gone(pass.model)
        <4>1. spec[pass.model].life # "live" /\ pass.model \in Model
          BY <1>1, <3>1 DEF SettledInv, OwnInv, HomePass, HomePc, Model
        <4> QED
          BY <1>1, <3>1, <4>1, GoneKept, Disjoint DEF Model
      <3>2. CASE UNCHANGED spec
        BY <1>1, <3>2, SameKept
      <3> QED
        BY <2>1, <3>1, <3>2
    <2>4. Calm
      <3>1. \A a \in Outside : Attended(a) => Attended(a)'
        BY <1>1, <2>1, Disjoint DEF Attended, Busy, AttachPc
      <3> QED
        BY <1>1, <2>2, <2>3, <3>1 DEF Calm
    <2>5. Rested'
      <3>1. ASSUME NEW a \in Outside \cap Live(spec), ~Attended(a)', Of(Content.candidates, {a}) # {}
            PROVE  Copied(Due(a)) \subseteq copies'
        <4>1. Fine(a)
          BY <2>4, <3>1 DEF SettledInv, Rested, Calm
        <4>2. a \notin pass.over
          BY <1>1, <3>1 DEF SettledInv, PassInv, Collecting
        <4> QED
          BY <2>1, <3>1, <4>1, <4>2, CollectedFacts DEF Fine
      <3> QED
        BY <1>1, <2>4, <3>1, CalmRested
    <2>6. PassInv' /\ HomePass'
      BY <2>1, PassIdle
    <2>7. OwnKept'
      <3> SUFFICES ASSUME OwnQuiet' PROVE OwnServedAs'
        BY <2>1 DEF OwnKept
      <3>1. OwnQuiet
        BY <1>1, <2>1 DEF OwnQuiet, HomePc
      <3>2. OwnServedAs
        BY <1>1, <3>1 DEF SettledInv, OwnInv, OwnKept
      <3> QED
        BY <2>4, <3>2, CalmOwn
    <2>8. Parting'
      BY <1>1, <2>1, <2>2, <2>3, Disjoint DEF SettledInv, Parting, Recorded
    <2>9. Accounted'
      <3>1. \A p \in copies' : \E a \in Accepted : p \in route[a].uses
        BY <2>1, CollectedFacts
      <3> QED
        BY <2>4, <3>1, CalmFacts DEF Accounted
    <2> QED
      BY <2>5, <2>6, <2>7, <2>8, <2>9 DEF SettledInv, OwnInv
  <1> QED
    BY <1>2, <1>3 DEF HomeFinish

-----------------------------------------------------------------------------
(***************************************************************************)
(* The attachment path.                                                    *)
(***************************************************************************)
\* An applied route exists and names the copies its routes need.
LEMMA ApplyUses ==
    ASSUME TypeInv, NEW a \in Outside, NEW R, NEW stale, Apply(a, R, stale)
    PROVE  /\ \A b \in Outside \ {a} : route'[b] = route[b]
           /\ route'[a].exists
           /\ route'[a].rules = Providers(R) \cup stale
           /\ route'[a].uses = Copied(R) \cup IF stale = {} THEN {} ELSE route[a].uses
  <1>1. PICK e : route' = [route EXCEPT ![a] =
                      [exists |-> TRUE, verdict |-> route[a].verdict,
                       rules |-> {r.provider : r \in R} \cup stale, evidence |-> e,
                       uses |-> Copied(R) \cup IF stale = {} THEN {} ELSE route[a].uses]]
    BY DEF Apply
  <1>2. route \in [Outside -> RouteObject]
    BY DEF TypeInv, TypeOK
  <1> DEFINE o == [exists |-> TRUE, verdict |-> route[a].verdict,
                   rules |-> {r.provider : r \in R} \cup stale, evidence |-> e,
                   uses |-> Copied(R) \cup IF stale = {} THEN {} ELSE route[a].uses]
  <1>3. /\ o.exists /\ o.rules = {r.provider : r \in R} \cup stale
        /\ o.uses = Copied(R) \cup IF stale = {} THEN {} ELSE route[a].uses
    OBVIOUS
  <1>4. route' = [route EXCEPT ![a] = o]
    BY <1>1
  <1> HIDE DEF o
  <1> QED
    BY <1>2, <1>3, <1>4 DEF Providers

\* What a pass does to its own model's route leaves the others fine.
LEMMA OthersRested ==
    ASSUME SettledInv, NEW v \in Outside, SpecKept, UNCHANGED overlay,
           \A b \in Outside \ {v} : /\ route'[b] = route[b] /\ (Attended(b) => Attended(b)')
                                    /\ b \in over => b \in over',
           v \in Live(spec) => Attended(v)' \/ Fine(v)',
           \A b \in (Outside \cap Live(spec)) \ {v} :
              Fine(b) /\ Of(Content.candidates, {b}) # {} => Copied(Due(b)) \subseteq copies'
    PROVE  Rested'
  <1> SUFFICES ASSUME NEW b \in Outside, b # v, b \in Live(spec), ~Attended(b)' PROVE Fine(b)'
    BY DEF Rested, SpecKept
  <1>1. Fine(b)
    BY DEF SettledInv, Rested
  <1>2. Content' = Content
    BY DEF Content, NoContent
  <1>3. Unmoved(b)
    BY <1>1 DEF Unmoved, SpecKept, Model
  <1>4. Untouched(b)
    BY <1>1, <1>2, <1>3 DEF Untouched, Due
  <1> QED
    BY <1>1, <1>4, FineKept

\* The tenant's own models do not notice.
LEMMA AttachOwn ==
    ASSUME SettledInv, SpecKept, UNCHANGED overlay, pass.pc \notin HomePc, pass'.pc \notin HomePc,
           queue \cap Own \subseteq queue'
    PROVE  HomePass' /\ OwnKept'
  <1>1. HomePass'
    BY DEF HomePass
  <1>2. Content' = Content
    BY DEF Content, NoContent
  <1>3. ASSUME OwnQuiet' PROVE OwnServedAs'
    <2>1. OwnQuiet
      BY <1>3 DEF OwnQuiet
    <2>2. OwnServedAs
      BY <2>1 DEF SettledInv, OwnInv, OwnKept, HomePc
    <2> QED
      BY <1>2, <2>2, OwnServedKept DEF SpecKept, Model
  <1> QED
    BY <1>1, <1>3 DEF OwnKept, HomePc

LEMMA StartSettled ==
    ASSUME SettledInv, NEW a \in Outside, pass.pc = "idle", a \in Live(spec),
           UNCHANGED <<spec, world, overlay, copies, rules>>,
           queue' = (queue \ {a}) \cup Woken, over \subseteq over',
           \A b \in Outside \ {a} : route'[b] = route[b], route' = route \/ route'[a].exists,
           \A b : Busy(b)' <=> b = a, a \notin queue' => Current(a)', Stage(a)',
           pass'.pc \in AttachPc, pass'.pc # "collect"
    PROVE  SettledInv'
  <1>1. /\ pass.pc \notin HomePc /\ pass'.pc \notin HomePc
        /\ pass'.pc \notin {"write", "publish", "finish", "collect"}
    BY DEF HomePc, AttachPc
  <1>2. \A b : ~Busy(b)
    BY DEF Busy, AttachPc
  <1>3. /\ \A b \in Outside \ {a} : b \in queue' <=> b \in queue
        /\ queue \cap Own \subseteq queue'
    BY Disjoint DEF Woken
  <1>4. \A b \in Outside \ {a} : Attended(b) => Attended(b)'
    BY <1>2, <1>3 DEF Attended
  <1>5. Attended(a)' /\ SpecKept
    BY SameKept DEF Attended
  <1>6. Rested'
    BY <1>4, <1>5, OthersRested DEF Fine, Shows
  <1>7. PassInv'
    BY <1>1 DEF PassInv, Underway, Stages, Collecting, Plan
  <1>8. HomePass' /\ OwnKept'
    BY <1>1, <1>3, <1>5, AttachOwn
  <1>9. Parting'
    BY <1>3 DEF SettledInv, Parting, Live
  <1>10. Accounted'
    <2>1. CASE route'[a].exists
      BY <1>5, <2>1 DEF Accounted, Owed
    <2>2. CASE route' = route /\ ~route[a].exists
      <3>1. Owed => Owed'
        BY <1>4, <2>2 DEF Owed
      <3>2. Accepted' = Accepted
        BY <2>2 DEF Accepted
      <3> QED
        BY <2>2, <3>1, <3>2 DEF SettledInv, Accounted
    <2> QED
      BY <2>1, <2>2
  <1> QED
    BY <1>6, <1>7, <1>8, <1>9, <1>10 DEF SettledInv, OwnInv

LEMMA AttachStartSettled ==
    ASSUME TypeInv, NoClash, SettledInv, NEW a \in Outside, AttachStart(a)
    PROVE  SettledInv'
  <1> DEFINE stale == Stale(a, world)
             admission == Admitted(Cardinality(Preserved))
  <1>1. /\ pass.pc = "idle" /\ a \in queue /\ a \in Live(spec)
        /\ UNCHANGED <<spec, world, overlay, copies, rules>>
        /\ queue' = (queue \ {a}) \cup Woken /\ over' = over \cup ({a} \cap admission.over)
    BY DEF AttachStart, outside, Admitted
  <1>2. stale # {} => a \in Accepted
    BY DEF Stale
  <1>3. \/ Due(a) = {} /\ Exclude(a, stale)
        \/ /\ Due(a) # {}
           /\ Attach(a, IF a \in Accepted \ admission.over THEN "serve" ELSE "withdraw", stale)
    BY <1>1 DEF AttachStart, Admitted, NoClash, Excluded, Due
  <1> HIDE DEF stale, admission
  <1>4. CASE Due(a) = {} /\ Exclude(a, stale)
    <2> DEFINE pc == IF stale = {} THEN "remove" ELSE "stage"
    <2>1. /\ pass'.pc = pc /\ pass'.model = a /\ pass'.kind = "exclude" /\ pass'.want = {}
          /\ pass'.translation = world.translation /\ pass'.stale = stale
      BY <1>4 DEF Exclude, Idle
    <2>2. /\ \A b \in Outside \ {a} : route'[b] = route[b]
          /\ route' = route \/ route'[a].exists
      BY <1>4, ApplyUses DEF Exclude
    <2>3. pc \in {"remove", "stage"} /\ (pc = "stage" => stale # {})
      OBVIOUS
    <2> HIDE DEF pc
    <2> QED
      <3>1. \A b : Busy(b)' <=> b = a
        BY <2>1, <2>3 DEF Busy, AttachPc
      <3>2. a \notin queue' => Current(a)'
        <4>2. Due(a)' = Due(a)
          BY <1>1 DEF Due
        <4> QED
          BY <1>1, <1>4, <2>1, <4>2 DEF Current
      <3>3. Stage(a)'
        BY <2>1, <2>3 DEF Stage
      <3>4. pass'.pc \in AttachPc /\ pass'.pc # "collect"
        BY <2>1, <2>3 DEF AttachPc
      <3> QED
        BY <1>1, <2>2, <3>1, <3>2, <3>3, <3>4, StartSettled
  <1>5. CASE /\ Due(a) # {}
             /\ Attach(a, IF a \in Accepted \ admission.over THEN "serve" ELSE "withdraw", stale)
    <2> DEFINE kind == IF a \in Accepted \ admission.over THEN "serve" ELSE "withdraw"
               pc == IF kind = "serve" THEN "copy" ELSE "withdraw"
    <2>1. /\ pass'.pc = pc /\ pass'.model = a /\ pass'.kind = kind /\ pass'.want = Due(a)
          /\ pass'.translation = world.translation /\ pass'.stale = stale
      BY <1>5 DEF Attach, Idle, Due
    <2>2. Apply(a, Due(a), stale)
      BY <1>5 DEF Attach, Due
    <2>3. /\ pc \in {"copy", "withdraw"} /\ kind \in {"serve", "withdraw"}
          /\ kind = "serve" => pc = "copy" /\ a \in Accepted
          /\ kind = "withdraw" => pc = "withdraw" /\ (a \in Accepted => a \in admission.over)
      OBVIOUS
    <2> HIDE DEF pc, kind
    <2>4. /\ \A b \in Outside \ {a} : route'[b] = route[b]
          /\ route'[a].exists /\ Copied(Due(a)) \subseteq route'[a].uses
          /\ stale = {} => route'[a].rules = Providers(Due(a)) /\ route'[a].uses = Copied(Due(a))
      <3>1. /\ \A b \in Outside \ {a} : route'[b] = route[b]
            /\ route'[a].exists
            /\ route'[a].rules = Providers(Due(a)) \cup stale
            /\ route'[a].uses = Copied(Due(a)) \cup IF stale = {} THEN {} ELSE route[a].uses
        BY <2>2, ApplyUses
      <3> QED
        BY <3>1
    <2>5. \A b : Busy(b)' <=> b = a
      BY <2>1, <2>3 DEF Busy, AttachPc
    <2>6. ASSUME a \notin queue' PROVE Current(a)'
      <3>1. route'[a] = route[a]
        BY <1>1, <2>6 DEF Woken
      <3>2. Due(a)' = Due(a)
        BY <1>1 DEF Due
      <3>3. a \in Accepted' <=> a \in Accepted
        BY <3>1 DEF Accepted
      <3>4. stale = {} => Exact(a)'
        BY <2>4, <3>2 DEF Exact
      <3>5. pass'.kind = "withdraw" /\ (a \in Accepted' \/ pass'.stale # {}) => a \in over'
        BY <1>1, <1>2, <2>1, <2>3, <3>3
      <3> QED
        BY <1>1, <1>5, <2>1, <2>3, <2>4, <3>2, <3>3, <3>4, <3>5 DEF Current
    <2>7. Stage(a)'
      BY <2>1, <2>3, <2>4 DEF Stage
    <2>8. pass'.pc \in AttachPc /\ pass'.pc # "collect"
      BY <2>1, <2>3 DEF AttachPc
    <2> QED
      BY <1>1, <2>4, <2>5, <2>6, <2>7, <2>8, StartSettled
  <1> QED
    BY <1>3, <1>4, <1>5


\* A pass that goes on still knows what it read.
LEMMA CurrentMoves ==
    ASSUME NEW b \in Outside, Current(b), Unmoved(b), UNCHANGED <<spec, world>>,
           b \in over => b \in over', pass'.want = pass.want, pass'.kind = pass.kind,
           pass'.translation = pass.translation, pass'.stale = pass.stale,
           pass.kind = "serve" /\ pass'.pc \in {"republish", "collect"} => Exact(b)
    PROVE  Current(b)'
  <1>1. /\ b \in Accepted' <=> b \in Accepted
        /\ Due(b)' = Due(b) /\ (Exact(b) <=> Exact(b)')
    BY UnmovedFacts
  <1>2. route'[b] = route[b] /\ Live(spec') = Live(spec)
    BY DEF Unmoved
  <1> QED
    BY <1>1, <1>2 DEF Current

LEMMA PassAttach ==
    ASSUME NEW b \in Outside, pass'.pc \in AttachPc, pass'.model = b,
           b \in queue' \/ Current(b)', Stage(b)',
           pass'.pc = "collect" =>
              /\ \A a \in pass'.over : Of(Content'.candidates, {a}) = {}
              /\ \/ b \in queue'
                 \/ /\ Shows(b)' /\ ((\E r \in pass'.served : r.model = b) => Complete(b)')
                    /\ b \in pass'.over => b \in over'
    PROVE  PassInv'
  <1>1. \A a : Busy(a)' <=> a = b
    BY DEF Busy
  <1>2. pass'.pc \notin {"write", "publish", "finish"}
    BY DEF AttachPc
  <1> QED
    BY <1>1, <1>2 DEF PassInv, Underway, Stages, Collecting, Plan

\* A step that publishes nothing and touches only its own model's route.
LEMMA StepSettled ==
    ASSUME SettledInv, NEW b \in Outside, Busy(b), UNCHANGED <<spec, world, overlay>>,
           queue \subseteq queue', pass'.pc \notin HomePc,
           \A c \in Outside \ {b} : route'[c] = route[c] /\ (c \in over => c \in over'),
           route'[b] = route[b] \/ route'[b] = NoRoute \/ route[b].exists,
           b \in Live(spec) => Attended(b)' \/ Fine(b)',
           \A c \in (Outside \cap Live(spec)) \ {b} :
              Fine(c) /\ Of(Content.candidates, {c}) # {} => Copied(Due(c)) \subseteq copies',
           PassInv', Accounted'
    PROVE  SettledInv'
  <1>1. SpecKept /\ pass.pc \notin HomePc
    BY SameKept DEF Busy, AttachPc, HomePc
  <1>2. \A c \in Outside \ {b} : Attended(c) => Attended(c)'
    BY DEF Attended, Busy
  <1>3. Rested'
    BY <1>1, <1>2, OthersRested
  <1>4. HomePass' /\ OwnKept'
    BY <1>1, AttachOwn
  <1>5. Parting'
    <2>1. ~NoRoute.exists
      BY NoRouteFacts DEF NoRouteTyped
    <2> QED
      BY <2>1 DEF SettledInv, Parting
  <1> QED
    BY <1>3, <1>4, <1>5 DEF SettledInv, OwnInv

LEMMA ContinueFacts ==
    ASSUME TypeInv, NEW next, Continue(next)
    PROVE  /\ pass'.pc = next /\ pass'.model = pass.model /\ pass'.kind = pass.kind
           /\ pass'.want = pass.want /\ pass'.translation = pass.translation
           /\ pass'.stale = pass.stale /\ queue' = queue \cup Woken
  BY DEF Continue, TypeInv, PassTyped

LEMMA BusyFacts ==
    ASSUME TypeInv, SettledInv, pass.pc \in AttachPc
    PROVE  /\ pass.model \in Outside /\ Busy(pass.model) /\ Stage(pass.model)
           /\ pass.model \in queue \/ Current(pass.model)
  BY DEF TypeInv, PassTyped, Busy, SettledInv, PassInv, Stages, Underway

LEMMA CopyCredentialsSettled ==
    ASSUME TypeInv, SettledInv, CopyCredentials
    PROVE  SettledInv'
  <1>1. pass.pc = "copy" /\ UNCHANGED <<spec, world, overlay, route, over>>
    BY DEF CopyCredentials, outside
  <1>2. CASE Retry /\ UNCHANGED copies
    <2>1. Recorded
      BY <1>1, <1>2, RecordedFacts DEF Retry
    <2> QED
      BY <1>1, <1>2, <2>1, RetrySettled
  <1>3. CASE Continue("stage") /\ copies' = copies \cup Copied(pass.want)
    <2>1. PICK b \in Outside : b = pass.model /\ Busy(b) /\ Stage(b) /\ (b \in queue \/ Current(b))
      BY <1>1, BusyFacts DEF AttachPc
    <2>2. /\ pass'.pc = "stage" /\ pass'.model = b /\ pass'.kind = pass.kind
          /\ pass'.want = pass.want /\ pass'.translation = pass.translation
          /\ pass'.stale = pass.stale /\ queue' = queue \cup Woken
      BY <1>3, <2>1, ContinueFacts
    <2>3. pass.kind = "serve" /\ route[b].exists
      BY <1>1, <2>1 DEF Stage
    <2>4. b \in queue' \/ Current(b)'
      <3>1. Unmoved(b)
        BY <1>1 DEF Unmoved
      <3> QED
        BY <1>1, <2>1, <2>2, <3>1, CurrentMoves
    <2>5. Stage(b)'
      BY <1>1, <2>2, <2>3 DEF Stage
    <2>6. PassInv'
      BY <2>1, <2>2, <2>4, <2>5, PassAttach DEF AttachPc
    <2>7. Attended(b)'
      BY <2>2 DEF Attended, Busy, AttachPc
    <2>8. Accounted'
      BY <1>1, <2>1, <2>3, <2>7 DEF Accounted, Owed
    <2> QED
      BY <1>1, <1>3, <2>1, <2>2, <2>6, <2>7, <2>8, StepSettled DEF HomePc, Fine, Shows
  <1> QED
    BY <1>2, <1>3 DEF CopyCredentials

LEMMA AttachDrainSettled ==
    ASSUME TypeInv, SettledInv, AttachDrain
    PROVE  SettledInv'
  <1> DEFINE next == IF pass.kind = "exclude" THEN "remove" ELSE "prune"
  <1>1. pass.pc = "drain" /\ UNCHANGED <<spec, world, overlay, route, copies, over>>
    BY DEF AttachDrain, outside
  <1>2. CASE Retry
    <2>1. Recorded
      BY <1>1, <1>2, RecordedFacts DEF Retry
    <2> QED
      BY <1>1, <1>2, <2>1, RetrySettled
  <1>3. CASE Continue(next)
    <2>1. PICK b \in Outside : b = pass.model /\ Busy(b) /\ Stage(b) /\ (b \in queue \/ Current(b))
      BY <1>1, BusyFacts DEF AttachPc
    <2>2. /\ pass'.pc = next /\ pass'.model = b /\ pass'.kind = pass.kind
          /\ pass'.want = pass.want /\ pass'.translation = pass.translation
          /\ pass'.stale = pass.stale /\ queue' = queue \cup Woken
      BY <1>3, <2>1, ContinueFacts
    <2>3. \/ pass.kind = "exclude" /\ next = "remove"
          \/ pass.kind = "serve" /\ next = "prune" /\ route[b].exists
      BY <1>1, <2>1 DEF Stage
    <2> HIDE DEF next
    <2>4. b \in queue' \/ Current(b)'
      <3>1. Unmoved(b)
        BY <1>1 DEF Unmoved
      <3> QED
        BY <1>1, <2>1, <2>2, <2>3, <3>1, CurrentMoves
    <2>5. Stage(b)'
      BY <1>1, <2>2, <2>3 DEF Stage
    <2>6. PassInv'
      BY <2>1, <2>2, <2>3, <2>4, <2>5, PassAttach DEF AttachPc
    <2>7. Attended(b)' /\ \A a : Attended(a) => Attended(a)'
      BY <2>1, <2>2, <2>3 DEF Attended, Busy, AttachPc
    <2>8. Accounted'
      <3>1. Accepted' = Accepted
        BY <1>1 DEF Accepted
      <3> QED
        BY <1>1, <2>7, <3>1 DEF SettledInv, Accounted, Owed
    <2> QED
      BY <1>1, <2>1, <2>2, <2>3, <2>6, <2>7, <2>8, StepSettled DEF HomePc, Fine, Shows
  <1> QED
    BY <1>2, <1>3 DEF AttachDrain

LEMMA AttachPruneSettled ==
    ASSUME TypeInv, SettledInv, AttachPrune
    PROVE  SettledInv'
  <1>1. /\ pass.pc = "prune" /\ UNCHANGED <<spec, world, overlay, copies, over>>
        /\ Apply(pass.model, pass.want, {})
    BY DEF AttachPrune, outside
  <1>2. PICK b \in Outside : b = pass.model /\ Busy(b) /\ Stage(b) /\ (b \in queue \/ Current(b))
    BY <1>1, BusyFacts DEF AttachPc
  <1>3. /\ pass'.pc = "republish" /\ pass'.model = b /\ pass'.kind = pass.kind
        /\ pass'.want = pass.want /\ pass'.translation = pass.translation
        /\ pass'.stale = pass.stale /\ queue' = queue \cup Woken
    BY <1>2, ContinueFacts DEF AttachPrune
  <1>4. /\ \A c \in Outside \ {b} : route'[c] = route[c]
        /\ route'[b].exists
        /\ route'[b].rules = Providers(pass.want) /\ route'[b].uses = Copied(pass.want)
    <2>1. /\ \A c \in Outside \ {b} : route'[c] = route[c]
          /\ route'[b].exists
          /\ route'[b].rules = Providers(pass.want) \cup {}
          /\ route'[b].uses = Copied(pass.want) \cup IF {} = {} THEN {} ELSE route[b].uses
      BY <1>1, <1>2, ApplyUses
    <2> QED
      BY <2>1
  <1>5. pass.kind = "serve" /\ route[b].exists
    BY <1>1, <1>2 DEF Stage
  <1>6. ASSUME b \notin queue' PROVE Current(b)'
    <2>1. Current(b) /\ route'[b] = route[b]
      BY <1>2, <1>3, <1>6 DEF Woken
    <2>2. Unmoved(b)
      BY <1>1, <2>1 DEF Unmoved
    <2>3. Exact(b)
      BY <1>4, <2>1 DEF Exact, Current
    <2> QED
      BY <1>1, <1>2, <1>3, <2>1, <2>2, <2>3, CurrentMoves
  <1>7. Stage(b)'
    BY <1>3, <1>4, <1>5 DEF Stage
  <1>8. PassInv'
    BY <1>2, <1>3, <1>6, <1>7, PassAttach DEF AttachPc
  <1>9. Attended(b)'
    BY <1>3 DEF Attended, Busy, AttachPc
  <1>10. Accounted'
    BY <1>2, <1>4, <1>9 DEF Accounted, Owed
  <1> QED
    BY <1>1, <1>2, <1>3, <1>4, <1>5, <1>8, <1>9, <1>10, StepSettled DEF HomePc, Fine, Shows

LEMMA AttachCollectSettled ==
    ASSUME TypeInv, SettledInv, AttachCollect
    PROVE  SettledInv'
  <1>1. PICK b \in Outside : b = pass.model /\ Busy(b) /\ Stage(b) /\ (b \in queue \/ Current(b))
    BY BusyFacts DEF AttachCollect, AttachPc
  <1> DEFINE served == pass.kind = "serve" /\ \E r \in pass.served : r.model = b
             again == \/ pass.kind = "serve" /\ b \in Accepted /\ ~served /\ b \notin pass.over
                      \/ route[b].verdict = "waiting"
  <1>2. /\ pass.pc = "collect" /\ UNCHANGED <<spec, world, overlay, route>>
        /\ copies' = Collected(pass.over) /\ over' = IF served THEN over \ {b} ELSE over
        /\ pass' = Idle /\ queue \subseteq queue' /\ (again => b \in queue')
    BY <1>1 DEF AttachCollect, outside, Retry, Return
  <1>3. pass'.pc = "idle" /\ \A a : ~Busy(a)'
    BY <1>2 DEF Idle, Busy, AttachPc
  <1> HIDE DEF served, again
  <1>4. \A a \in Outside : Of(Content.candidates, {a}) # {} => a \notin pass.over
    BY <1>2 DEF SettledInv, PassInv, Collecting
  <1>5. ASSUME b \in Live(spec), b \notin queue' PROVE Fine(b)'
    <2>1. Current(b) /\ ~again
      BY <1>1, <1>2, <1>5
    <2>2. /\ Shows(b) /\ ((\E r \in pass.served : r.model = b) => Complete(b))
          /\ b \in pass.over => b \in over
      BY <1>1, <1>2, <1>5 DEF SettledInv, PassInv, Collecting
    <2>3. \/ pass.kind = "serve" /\ b \in Accepted /\ Exact(b)
          \/ /\ pass.kind = "withdraw" /\ ~served
             /\ b \notin over => b \notin Accepted /\ Exact(b)
      BY <1>1, <1>2, <2>1 DEF Stage, Current, served
    <2>4. Due(b) # {} /\ Copied(Due(b)) \subseteq route[b].uses
      BY <1>1, <1>2, <2>1 DEF Stage, Current
    <2>5. Content' = Content /\ Due(b) = Mine(b, spec, world)
      BY <1>2 DEF Content, NoContent, Due
    <2>6. Of(Content.candidates, {b}) # {} => Copied(Due(b)) \subseteq copies'
      BY <1>2, <1>4, <2>2, <2>4, CollectedFacts
    <2>7. Unmoved(b)
      BY <1>2 DEF Unmoved
    <2>8. Untouched(b)
      BY <2>5, <2>6, <2>7 DEF Untouched
    <2>9. /\ Shows(b)' /\ (Complete(b) => Complete(b)') /\ Due(b)' = Due(b)
          /\ Exact(b) <=> Exact(b)'
      BY <2>2, <2>7, <2>8, UntouchedFacts, UnmovedFacts
    <2>10. b \notin over' => Exact(b) /\ Complete(b)
      <3>1. CASE served
        BY <2>2, <2>3, <3>1 DEF served
      <3>2. CASE ~served
        <4>1. b \notin over' => b \notin over /\ b \notin pass.over
          BY <1>2, <2>2, <3>2
        <4>2. pass.kind = "serve" /\ b \in Accepted => b \in pass.over
          BY <2>1, <3>2 DEF again
        <4> QED
          BY <2>3, <4>1, <4>2 DEF Complete
      <3> QED
        BY <3>1, <3>2
    <2> QED
      BY <1>2, <2>4, <2>9, <2>10 DEF Fine
  <1>6. PassInv'
    BY <1>3, PassIdle
  <1>7. Accounted'
    <2>1. Accepted' = Accepted
      BY <1>2 DEF Accepted
    <2> QED
      BY <1>2, <2>1, CollectedFacts DEF Accounted
  <1>8. b \in Live(spec) => Attended(b)' \/ Fine(b)'
    BY <1>5 DEF Attended
  <1>9. \A c \in (Outside \cap Live(spec)) \ {b} :
           Fine(c) /\ Of(Content.candidates, {c}) # {} => Copied(Due(c)) \subseteq copies'
    BY <1>2, <1>4, CollectedFacts DEF Fine
  <1>10. \A c \in Outside \ {b} : route'[c] = route[c] /\ (c \in over => c \in over')
    BY <1>2
  <1>11. pass'.pc \notin HomePc /\ route'[b] = route[b]
    BY <1>2, <1>3 DEF HomePc
  <1> QED
    BY <1>1, <1>2, <1>6, <1>7, <1>8, <1>9, <1>10, <1>11, StepSettled

LEMMA AttachRemoveSettled ==
    ASSUME TypeInv, SettledInv, AttachRemove
    PROVE  SettledInv'
  <1>1. PICK b \in Outside : b = pass.model /\ Busy(b) /\ Stage(b) /\ (b \in queue \/ Current(b))
    BY BusyFacts DEF AttachRemove, AttachPc
  <1>2. /\ pass.pc = "remove" /\ UNCHANGED <<spec, world, overlay, over>>
        /\ route' = [route EXCEPT ![b] = NoRoute]
        /\ copies' = IF route[b].exists THEN Collected({b}) ELSE copies
    BY <1>1 DEF AttachRemove, outside
  <1>3. /\ pass'.pc = "depublish" /\ pass'.model = b /\ pass'.kind = pass.kind
        /\ pass'.want = pass.want /\ pass'.translation = pass.translation
        /\ pass'.stale = pass.stale /\ queue' = queue \cup Woken
    BY <1>1, ContinueFacts DEF AttachRemove
  <1>4. /\ \A c \in Outside \ {b} : route'[c] = route[c]
        /\ route'[b] = NoRoute
    BY <1>2 DEF TypeInv, TypeOK
  <1>5. pass.kind = "exclude"
    BY <1>1, <1>2 DEF Stage
  <1>6. ASSUME b \notin queue' PROVE Current(b)'
    <2>1. Current(b) /\ route'[b] = route[b]
      BY <1>1, <1>3, <1>6 DEF Woken
    <2>2. Unmoved(b)
      BY <1>2, <2>1 DEF Unmoved
    <2> QED
      BY <1>1, <1>2, <1>3, <1>5, <2>1, <2>2, CurrentMoves
  <1>7. Stage(b)'
    BY <1>3, <1>4, <1>5 DEF Stage
  <1>8. PassInv'
    BY <1>1, <1>3, <1>6, <1>7, PassAttach DEF AttachPc
  <1>9. Attended(b)'
    BY <1>3 DEF Attended, Busy, AttachPc
  <1>10. Accounted'
    <2>1. \A c \in Outside \ {b} : c \in Accepted' <=> c \in Accepted
      BY <1>4 DEF Accepted
    <2>2. CASE route[b].exists
      <3>1. \A p \in copies' : \E a \in Accepted \ {b} : p \in route[a].uses
        BY <1>2, <2>2, CollectedFacts
      <3> QED
        BY <1>4, <2>1, <3>1 DEF Accounted, Accepted
    <2>3. CASE ~route[b].exists
      <3>1. Owed => Owed'
        BY <1>1, <1>3, <1>4, <2>3 DEF Owed, Attended, Busy
      <3>2. b \notin Accepted
        BY <2>3 DEF Accepted
      <3>3. \A a \in Accepted : a \in Accepted' /\ route'[a] = route[a]
        BY <1>4, <2>1, <3>2 DEF Accepted
      <3> QED
        BY <1>2, <2>3, <3>1, <3>3 DEF SettledInv, Accounted
    <2> QED
      BY <2>2, <2>3
  <1>11. \A c \in (Outside \cap Live(spec)) \ {b} :
           Fine(c) /\ Of(Content.candidates, {c}) # {} => Copied(Due(c)) \subseteq copies'
    BY <1>2, CollectedFacts DEF Fine, Shows
  <1>12. queue \subseteq queue' /\ pass'.pc \notin HomePc
    BY <1>3 DEF HomePc
  <1> QED
    BY <1>1, <1>2, <1>4, <1>8, <1>9, <1>10, <1>11, <1>12, StepSettled

LEMMA AttachReleaseSettled ==
    ASSUME TypeInv, SettledInv, NEW a \in Outside, AttachRelease(a)
    PROVE  SettledInv'
  <1>1. /\ pass.pc = "idle" /\ spec[a].life = "deleting" /\ Gone(a) /\ queue' = queue \ {a}
        /\ route' = [route EXCEPT ![a] = NoRoute] /\ copies' = Collected({a})
        /\ UNCHANGED <<world, overlay, pass, over>>
    BY DEF AttachRelease
  <1>2. a \in Model /\ spec \in [Model -> ModelSpec]
    BY DEF Model, TypeInv, TypeOK
  <1>3. SpecKept /\ \A x \in Model \ {a} : spec'[x] = spec[x]
    BY <1>1, <1>2, GoneKept
  <1>4. \A c \in Outside \ {a} : route'[c] = route[c]
    BY <1>1 DEF TypeInv, TypeOK
  <1>5. route'[a] = NoRoute
    BY <1>1 DEF TypeInv, TypeOK
  <1>6. \A c : ~Busy(c) /\ ~Busy(c)'
    BY <1>1 DEF Busy, AttachPc
  <1>7. \A c \in Outside \ {a} : Attended(c) => Attended(c)'
    BY <1>1, <1>6 DEF Attended
  <1>8. Rested'
    <2>1. a \notin Live(spec)
      BY <1>1 DEF Live
    <2>2. \A c \in (Outside \cap Live(spec)) \ {a} :
             Fine(c) /\ Of(Content.candidates, {c}) # {} => Copied(Due(c)) \subseteq copies'
      BY <1>1, CollectedFacts DEF Fine
    <2> QED
      BY <1>1, <1>3, <1>4, <1>7, <2>1, <2>2, OthersRested
  <1>9. PassInv'
    BY <1>1, PassIdle
  <1>10. HomePass' /\ OwnKept'
    <2>1. queue \cap Own \subseteq queue'
      BY <1>1, Disjoint
    <2> QED
      BY <1>1, <1>3, <2>1, AttachOwn DEF HomePc
  <1>11. Parting'
    <2>1. \A c \in Outside \ {a} : spec'[c] = spec[c]
      BY <1>3 DEF Model
    <2>2. spec'[a].life = "gone"
      <3>1. spec'[a] = [spec[a] EXCEPT !.life = "gone"] /\ spec[a] \in ModelSpec
        BY <1>1, <1>2 DEF Gone
      <3> QED
        BY <3>1 DEF ModelSpec
    <2> QED
      BY <1>1, <1>4, <1>5, <2>1, <2>2 DEF SettledInv, Parting
  <1>12. Accounted'
    <2>1. \A p \in copies' : \E c \in Accepted \ {a} : p \in route[c].uses
      BY <1>1, CollectedFacts
    <2> QED
      BY <1>4, <2>1 DEF Accounted, Accepted
  <1> QED
    BY <1>8, <1>9, <1>10, <1>11, <1>12 DEF SettledInv, OwnInv

LEMMA FailSettled ==
    ASSUME TypeInv, SettledInv, Fail
    PROVE  SettledInv'
  <1>1. Retry /\ pass.pc # "idle" /\ UNCHANGED <<spec, world, overlay, copies, over, route>>
    BY DEF Fail
  <1>2. Recorded
    BY <1>1, RecordedFacts DEF Retry
  <1> QED
    BY <1>1, <1>2, RetrySettled

LEMMA PublishedPass ==
    ASSUME TypeInv, NEW served, NEW excess, Published(served, excess)
    PROVE  /\ queue' = queue \cup Woken
           /\ pass.pc = "depublish" => pass'.pc = "idle"
           /\ pass.pc # "depublish" =>
                 /\ pass'.pc = IF pass.pc = "stage" /\ pass.stale # {} THEN "drain" ELSE "collect"
                 /\ pass'.model = pass.model /\ pass'.kind = pass.kind
                 /\ pass'.want = pass.want /\ pass'.translation = pass.translation
                 /\ pass'.stale = pass.stale
                 /\ pass'.served = served /\ pass'.over = excess
  <1>1. CASE pass.pc = "depublish"
    BY <1>1 DEF Published, AfterPublish, Idle
  <1>2. CASE pass.pc # "depublish"
    <2> DEFINE next == IF pass.pc = "stage" /\ pass.stale # {} THEN "drain" ELSE "collect"
    <2>1. AfterPublish = next /\ next # "idle"
      BY <1>2 DEF AfterPublish
    <2>2. /\ pass' = [pass EXCEPT !.pc = next, !.served = served, !.over = excess]
          /\ queue' = queue \cup Woken
      BY <2>1 DEF Published
    <2> HIDE DEF next
    <2>3. /\ pass'.pc = next /\ pass'.model = pass.model /\ pass'.kind = pass.kind
          /\ pass'.want = pass.want /\ pass'.translation = pass.translation
          /\ pass'.stale = pass.stale
          /\ pass'.served = served /\ pass'.over = excess
      BY <2>2 DEF TypeInv, PassTyped
    <2> QED
      BY <1>2, <2>2, <2>3 DEF next
  <1> QED
    BY <1>1, <1>2

\* The pass after a publication: it drains, collects or is over.
LEMMA PublishedStage ==
    ASSUME TypeInv, NEW served, NEW excess, Published(served, excess), NEW b \in Outside,
           b = pass.model, Stage(b), pass.pc \in {"stage", "withdraw", "republish", "depublish"},
           route'[b].exists = route[b].exists
    PROVE  \/ pass.pc = "depublish" /\ pass.kind = "exclude" /\ pass'.pc = "idle"
           \/ /\ pass'.pc \in {"drain", "collect"} /\ pass'.model = b /\ Stage(b)'
              /\ pass'.pc = "collect" /\ pass.kind = "serve" =>
                    pass.pc = "republish" \/ pass.stale = {}
  <1>1. /\ pass.pc = "depublish" => pass'.pc = "idle"
        /\ pass.pc # "depublish" =>
              /\ pass'.pc = IF pass.pc = "stage" /\ pass.stale # {} THEN "drain" ELSE "collect"
              /\ pass'.model = pass.model /\ pass'.kind = pass.kind
    BY PublishedPass
  <1> QED
    BY <1>1 DEF Stage

\* A tenant that changed since the pass began is left alone: the model is in
\* the queue.
LEMMA AttachSkipSettled ==
    ASSUME TypeInv, SettledInv, pass.pc \in {"stage", "withdraw", "republish", "depublish"},
           world.translation # pass.translation, Published({}, {}),
           UNCHANGED <<spec, world, overlay, route, copies, over>>
    PROVE  SettledInv'
  <1>1. PICK b \in Outside : b = pass.model /\ Busy(b) /\ Stage(b) /\ (b \in queue \/ Current(b))
    BY BusyFacts DEF AttachPc
  <1>2. b \in queue /\ queue \subseteq queue'
    BY <1>1, PublishedPass DEF Current
  <1>3. \/ pass'.pc = "idle"
        \/ pass'.pc \in {"drain", "collect"} /\ pass'.model = b /\ Stage(b)' /\ pass'.over = {}
    BY <1>1, PublishedStage, PublishedPass
  <1>4. PassInv'
    <2>1. CASE pass'.pc = "idle"
      BY <2>1, PassIdle
    <2>2. CASE pass'.pc \in {"drain", "collect"} /\ pass'.model = b /\ Stage(b)' /\ pass'.over = {}
      BY <1>2, <2>2, PassAttach DEF AttachPc
    <2> QED
      BY <1>3, <2>1, <2>2
  <1>5. Accounted'
    <2>1. Accepted' = Accepted
      BY DEF Accepted
    <2>2. \A a : Attended(a) => Attended(a)'
      BY <1>1, <1>2 DEF Attended, Busy
    <2> QED
      BY <2>1, <2>2 DEF SettledInv, Accounted, Owed
  <1>6. Attended(b)' /\ pass'.pc \notin HomePc
    BY <1>2, <1>3 DEF Attended, HomePc
  <1> QED
    BY <1>1, <1>2, <1>4, <1>5, <1>6, StepSettled DEF Fine, Shows

\* What an attachment pass publishes: own candidates as they are, attached
\* models as the admission serves them.
LEMMA AttachPublishShows ==
    ASSUME TypeInv, NoClash, NEW n, NEW t,
           \/ Preserved = {} /\ Serving(n) = {} /\ CleanupOverlay
           \/ overlay' = Render(Preserved, Serving(n), t)
    PROVE  /\ \A m : Named(Of(Content'.candidates, {m})) =
                       Named(Of(Preserved, {m})) \cup Named(Of(Serving(n), {m}))
           /\ \A a \in Outside :
                 /\ Named(Of(Content'.candidates, {a})) = Named(Of(Serving(n), {a}))
                 /\ Proportional(Of(Content'.candidates, {a}), spec)
           /\ Proportional(Preserved, spec) => Proportional(Of(Content'.candidates, Own), spec)
           /\ Proportional(Of(Content'.candidates, Outside), spec)
  <1> DEFINE S == Serving(n)
  <1>1. /\ S \in SUBSET Route /\ OfOutside(S) /\ Weighs(S)
        /\ \A a \in Outside : AsksFor(Of(S, {a}), spec)
    BY ServingFacts
  <1>2. Preserved \in SUBSET Candidate /\ OfOwn(Preserved)
    BY StateFacts
  <1> HIDE DEF S
  <1>3. /\ \A a \in Outside : Of(Preserved, {a}) = {} /\ Weighs(Of(S, {a}))
        /\ Of(S, Own) = {} /\ Of(Preserved, Own) = Preserved
        /\ Of(Preserved, Outside) = {} /\ Weighs(Of(S, Outside))
    BY <1>1, <1>2, Disjoint DEF Of, OfOwn, OfOutside, Weighs
  <1>4. CASE Preserved = {} /\ S = {} /\ CleanupOverlay
    <2>1. Content'.candidates = {}
      BY <1>4 DEF CleanupOverlay, Content, NoContent
    <2> QED
      BY <1>4, <2>1 DEF Of, Named, Proportional, S
  <1>5. CASE overlay' = Render(Preserved, S, t)
    <2>1. Content'.candidates = Render(Preserved, S, t).candidates
      BY <1>1, <1>2, <1>5, RenderedContent
    <2>2. \A m : Named(Of(Content'.candidates, {m})) = Named(Of(Preserved, {m})) \cup Named(Of(S, {m}))
      BY <1>1, <1>2, <2>1, RenderNamed
    <2>3. \A a \in Outside : Named(Of(Content'.candidates, {a})) = Named(Of(S, {a}))
      BY <1>3, <2>2 DEF Named
    <2>4. \A a \in Outside : Proportional(Of(Content'.candidates, {a}), spec)
      BY <1>1, <1>2, <1>3, <2>1, RenderFresh
    <2>5. Proportional(Preserved, spec) => Proportional(Of(Content'.candidates, Own), spec)
      BY <1>1, <1>2, <1>3, <2>1, RenderKept
    <2>6. AsksFor(Of(S, Outside), spec)
      BY <1>1 DEF AsksFor, Of
    <2>7. Proportional(Of(Content'.candidates, Outside), spec)
      BY <1>1, <1>2, <1>3, <2>1, <2>6, RenderFresh
    <2> QED
      BY <2>2, <2>3, <2>4, <2>5, <2>7 DEF S
  <1> QED
    BY <1>4, <1>5 DEF S

\* Served as they resolve, all own candidates are preserved.
LEMMA PreservedAll ==
    ASSUME TypeInv, OwnServedAs
    PROVE  Preserved = Of(Content.candidates, Own)
  <1>1. ASSUME NEW c \in Content.candidates, c.model \in Own PROVE c \in Preserved
    <2> DEFINE o == c.model
    <2>1. <<c.provider, c.name>> \in Entries(o) /\ Entries(o) = Named(Of(Valid, {o}))
      BY <1>1 DEF Entries, OwnServedAs
    <2>2. PICK r \in Valid : r.model = o /\ r.provider = c.provider
      BY <2>1 DEF Named, Of
    <2>3. spec \in [Model -> ModelSpec] /\ r \in Resolved(OwnLive(spec), spec, world)
      BY DEF TypeInv, TypeOK, Valid, Without
    <2>4. r.model \in OwnLive(spec) /\ r.provider \in DOMAIN spec[r.model].refs
      BY <2>3, AskedFacts
    <2> QED
      BY <1>1, <2>2, <2>4 DEF Preserved, OwnLive
  <1> QED
    BY <1>1 DEF Preserved, Of

LEMMA AttachPublishSettled ==
    ASSUME ContractInv, NoClash, SettledInv, AttachPublish
    PROVE  SettledInv'
  <1> DEFINE n == Cardinality(Preserved)
  <1>1. /\ TypeInv /\ pass.pc \in {"stage", "withdraw", "republish", "depublish"}
        /\ UNCHANGED <<spec, world>>
    BY DEF ContractInv, AttachPublish, outside
  <1>2. CASE /\ world.translation # pass.translation
             /\ UNCHANGED <<overlay, drain, route, copies, over>> /\ Published({}, {})
    BY <1>1, <1>2, AttachSkipSettled
  <1>3. CASE /\ route' = Persisted(View) /\ UNCHANGED <<overlay, drain, copies, over>> /\ Retry
    <2>1. Recorded
      BY <1>1, <1>3, RecordedFacts DEF Retry
    <2> QED
      BY <1>1, <1>3, <2>1, RetrySettled
  <1>4. CASE /\ world.translation = pass.translation /\ route' = Persisted(View)
             /\ over' = over \cup Admitted(n).over
             /\ \/ Preserved = {} /\ Serving(n) = {} /\ CleanupOverlay
                \/ overlay' = Render(Preserved, Serving(n), pass.translation) /\ UNCHANGED copies
             /\ Published(Serving(n), Admitted(n).over)
    <2> HIDE DEF n
    <2>1. PICK b \in Outside : b = pass.model /\ Busy(b) /\ Stage(b) /\ (b \in queue \/ Current(b))
      BY <1>1, BusyFacts DEF AttachPc
    <2> DEFINE S == Serving(n)
               adm == Admitted(n)
    <2>2. queue' = queue \cup Woken /\ Recorded
      BY <1>1, <1>4, PublishedPass, RecordedFacts
    <2>3. /\ adm.over \subseteq Outside /\ \A r \in S : r.model \notin adm.over
          /\ \A a \in Outside : LET mine == Of(S, {a}) IN
                 /\ mine = {} \/ mine = Due(a)
                 /\ mine # {} => a \in Accepted /\ Copied(Due(a)) \subseteq copies
                 /\ /\ a \in Accepted \cap Live(spec) /\ Due(a) # {}
                    /\ a \notin adm.over /\ Copied(Due(a)) \subseteq copies
                    => mine = Due(a)
      BY <1>1, ServingFacts
    <2>4. /\ \A m : Named(Of(Content'.candidates, {m})) =
                       Named(Of(Preserved, {m})) \cup Named(Of(S, {m}))
          /\ \A a \in Outside :
                 /\ Named(Of(Content'.candidates, {a})) = Named(Of(S, {a}))
                 /\ Proportional(Of(Content'.candidates, {a}), spec)
          /\ Proportional(Preserved, spec) => Proportional(Of(Content'.candidates, Own), spec)
      BY <1>1, <1>4, AttachPublishShows
    <2>5. /\ copies' = copies \/ (S = {} /\ copies' = Collected({}))
          /\ Accepted' = Accepted /\ over' = over \cup adm.over
      BY <1>4, <2>2 DEF CleanupOverlay, Recorded, Accepted
    <2>6. \/ pass.pc = "depublish" /\ pass.kind = "exclude" /\ pass'.pc = "idle"
          \/ /\ pass'.pc \in {"drain", "collect"} /\ pass'.model = b /\ Stage(b)'
             /\ pass'.pc = "collect" /\ pass.kind = "serve" =>
                   pass.pc = "republish" \/ pass.stale = {}
      BY <1>1, <1>4, <2>1, <2>2, PublishedStage DEF Recorded
    <2> HIDE DEF S, adm
    <2>7. \A a \in Outside : a \notin queue' => Unmoved(a) /\ a \notin queue
      BY <1>1, <2>2 DEF Recorded, Unmoved
    <2>8. \A a \in Outside : Of(S, {a}) # {} => Copied(Mine(a, spec, world)) \subseteq copies'
      <3>1. \A a : S = {} => Of(S, {a}) = {}
        BY DEF Of
      <3> QED
        BY <2>3, <2>5, <3>1 DEF Due
    <2>9. ASSUME NEW a \in Outside, a \in Live(spec), a \notin queue', a # b
          PROVE  Fine(a)'
      <3>1. Fine(a) /\ Unmoved(a)
        BY <2>1, <2>7, <2>9 DEF SettledInv, Rested, Attended, Busy
      <3>2. a \in Accepted /\ Due(a) # {} /\ a \notin over => Copied(Due(a)) \subseteq copies
        BY <3>1, FineCopies
      <3> DEFINE mine == Of(S, {a})
      <3>3. /\ mine = {} \/ mine = Mine(a, spec, world)
            /\ mine # {} => a \in Accepted /\ Copied(Mine(a, spec, world)) \subseteq copies'
            /\ a \in Accepted /\ Mine(a, spec, world) # {} /\ a \notin over' =>
                  mine = Mine(a, spec, world)
        BY <2>3, <2>5, <2>8, <2>9, <3>2 DEF Due
      <3>4. /\ Named(Of(Content'.candidates, {a})) = Named(mine)
            /\ Proportional(Of(Content'.candidates, {a}), spec')
        BY <1>1, <2>4
      <3> HIDE DEF mine
      <3> QED
        BY <2>5, <3>1, <3>3, <3>4, FinePublished
    <2>10. ASSUME b \notin queue'
           PROVE  /\ Current(b) /\ Unmoved(b) /\ Shows(b)'
                  /\ (\E r \in S : r.model = b) => Complete(b)'
      <3> DEFINE mine == Of(S, {b})
      <3>1. Current(b) /\ Unmoved(b)
        BY <2>1, <2>7, <2>10
      <3>2. /\ mine = {} \/ mine = Mine(b, spec, world)
            /\ mine # {} => b \in Accepted /\ Copied(Mine(b, spec, world)) \subseteq copies'
        BY <2>3, <2>8 DEF Due
      <3>3. /\ Named(Of(Content'.candidates, {b})) = Named(mine)
            /\ Proportional(Of(Content'.candidates, {b}), spec')
        BY <1>1, <2>4
      <3>4. (\E r \in S : r.model = b) => mine # {}
        BY DEF Of
      <3> HIDE DEF mine
      <3> QED
        BY <3>1, <3>2, <3>3, <3>4, ShowsPublished
    <2>11. ASSUME b \notin queue', pass.pc = "depublish", pass.kind = "exclude"
           PROVE  Fine(b)'
      <3>1. Current(b) /\ Unmoved(b) /\ Shows(b)' /\ route[b] = NoRoute
        BY <2>1, <2>10, <2>11 DEF Stage
      <3>2. Due(b)' = {} /\ route'[b] = NoRoute
        BY <2>11, <3>1, UnmovedFacts DEF Current, Unmoved
      <3>3. Copied({}) = {} /\ Providers({}) = {} /\ NoRoute.rules = {} /\ NoRoute.uses = {}
        BY DEF Copied, Providers, NoRoute
      <3>4. Exact(b)' /\ Complete(b)'
        BY <3>2, <3>3 DEF Exact, Complete
      <3> QED
        BY <3>1, <3>2, <3>3, <3>4 DEF Fine
    <2>12. Rested'
      <3> SUFFICES ASSUME NEW a \in Outside, a \in Live(spec), ~Attended(a)' PROVE Fine(a)'
        BY <1>1 DEF Rested
      <3>1. a \notin queue' /\ (a = b => pass'.pc \notin {"drain", "collect"} \/ pass'.model # b)
        BY DEF Attended, Busy, AttachPc
      <3> QED
        BY <2>6, <2>9, <2>11, <3>1
    <2>13. PassInv'
      <3>1. CASE pass'.pc = "idle"
        BY <3>1, PassIdle
      <3>2. CASE /\ pass'.pc \in {"drain", "collect"} /\ pass'.model = b /\ Stage(b)'
                 /\ pass'.pc = "collect" /\ pass.kind = "serve" =>
                       pass.pc = "republish" \/ pass.stale = {}
        <4>1. /\ pass'.kind = pass.kind /\ pass'.want = pass.want /\ pass'.served = S
              /\ pass'.translation = pass.translation /\ pass'.stale = pass.stale
              /\ pass'.over = adm.over
          BY <1>1, <1>4, <3>2, PublishedPass DEF S, adm
        <4>2. b \in queue' \/ Current(b)'
          <5> SUFFICES ASSUME b \notin queue' PROVE Current(b)'
            OBVIOUS
          <5>1. Current(b) /\ Unmoved(b)
            BY <2>10
          <5>2. pass.kind = "serve" /\ pass'.pc \in {"republish", "collect"} => Exact(b)
            BY <3>2, <5>1 DEF Current
          <5> QED
            BY <1>1, <2>5, <4>1, <5>1, <5>2, CurrentMoves
        <4>3. \A a \in pass'.over : Of(Content'.candidates, {a}) = {}
          <5> TAKE a \in pass'.over
          <5>1. a \in Outside /\ Of(S, {a}) = {}
            BY <2>3, <4>1 DEF Of
          <5> QED
            BY <2>4, <5>1, NamedEmpty
        <4>4. b \in queue' \/ /\ Shows(b)' /\ ((\E r \in pass'.served : r.model = b) => Complete(b)')
                              /\ b \in pass'.over => b \in over'
          BY <2>5, <2>10, <4>1
        <4> QED
          BY <3>2, <4>2, <4>3, <4>4, PassAttach DEF AttachPc
      <3> QED
        BY <2>6, <3>1, <3>2
    <2>14. pass'.pc \notin HomePc /\ HomePass'
      BY <2>6 DEF HomePc, HomePass
    <2>15. OwnKept'
      <3> SUFFICES ASSUME OwnQuiet' PROVE OwnServedAs'
        BY <2>14 DEF OwnKept, HomePc
      <3>1. OwnQuiet
        BY <2>2, <2>14 DEF OwnQuiet
      <3>2. OwnServedAs
        BY <1>1, <3>1 DEF SettledInv, OwnInv, OwnKept
      <3>3. Preserved = Of(Content.candidates, Own)
        BY <1>1, <3>2, PreservedAll
      <3>4. \A o \in Own : Entries(o)' = Entries(o)
        <4> TAKE o \in Own
        <4>1. Of(S, {o}) = {}
          <5>1. OfOutside(S)
            BY <1>1, ServingFacts DEF S
          <5> QED
            BY <5>1, Disjoint DEF Of, OfOutside
        <4>2. Of(Preserved, {o}) = {x \in Content.candidates : x.model = o}
          BY <3>3 DEF Of
        <4>3. Named(Of(Content'.candidates, {o})) = Named(Of(Preserved, {o})) \cup Named(Of(S, {o}))
          BY <2>4
        <4>4. Named(Of(Content'.candidates, {o})) = Named(Of(Preserved, {o}))
          BY <4>1, <4>3 DEF Named
        <4>5. Entries(o)' = Named(Of(Content'.candidates, {o}))
          BY DEF Entries, Named, Of
        <4>6. Entries(o) = Named(Of(Preserved, {o}))
          BY <4>2 DEF Entries, Named
        <4> QED
          BY <4>4, <4>5, <4>6
      <3>5. Valid' = Valid
        BY <1>1 DEF Valid
      <3>6. Proportional(Of(Content'.candidates, Own), spec')
        BY <1>1, <2>4, <3>2, <3>3 DEF OwnServedAs
      <3> QED
        BY <3>2, <3>4, <3>5, <3>6 DEF OwnServedAs
    <2>16. Parting'
      BY <1>1, <2>2 DEF SettledInv, Parting, Recorded
    <2>17. Accounted'
      <3>1. \A a \in Accepted : route'[a].uses = route[a].uses
        BY <2>2 DEF Recorded, Accepted
      <3>2. CASE copies' = Collected({})
        <4>1. \A p \in copies' : \E a \in Accepted : p \in route[a].uses
          BY <3>2, CollectedFacts
        <4> QED
          BY <2>5, <3>1, <4>1 DEF Accounted
      <3>3. CASE copies' = copies
        <4>1. \A a \in Outside : route[a].exists /\ Attended(a) => route'[a].exists /\ Attended(a)'
          <5> SUFFICES ASSUME NEW a \in Outside, route[a].exists, Attended(a)
                       PROVE  route'[a].exists /\ Attended(a)'
            OBVIOUS
          <5>1. route'[a].exists
            BY <2>2 DEF Recorded
          <5>2. CASE a \in queue
            BY <2>2, <5>1, <5>2 DEF Attended
          <5>3. CASE a = b
            <6>1. pass.pc # "depublish"
              BY <2>1, <5>3, NoRouteFacts DEF Stage, NoRouteTyped
            <6> QED
              BY <2>6, <5>1, <5>3, <6>1 DEF Attended, Busy, AttachPc
          <5> QED
            BY <2>1, <5>2, <5>3 DEF Attended, Busy
        <4> QED
          BY <2>5, <3>1, <3>3, <4>1 DEF SettledInv, Accounted, Owed
      <3> QED
        BY <2>5, <3>2, <3>3
    <2> QED
      BY <2>12, <2>13, <2>14, <2>15, <2>16, <2>17 DEF SettledInv, OwnInv
  <1> QED
    <2>1. world.translation = pass.translation => View = world
      BY <1>1, ViewFacts
    <2> QED
      BY <1>2, <1>3, <1>4, <2>1 DEF AttachPublish, Publish, Admitted, Serving

-----------------------------------------------------------------------------
(***************************************************************************)
(* The invariant.                                                          *)
(***************************************************************************)
LEMMA QuietSettled ==
    ASSUME SettledInv, UNCHANGED <<spec, world, overlay, route, copies, queue, pass, over>>
    PROVE  SettledInv'
  <1>1. Content' = Content /\ Accepted' = Accepted /\ Valid' = Valid
    BY DEF Content, NoContent, Accepted, Valid
  <1>2. \A a : Due(a)' = Due(a) /\ (Busy(a)' <=> Busy(a)) /\ (Attended(a)' <=> Attended(a))
    BY DEF Due, Busy, Attended
  <1>3. \A a : (Shows(a)' <=> Shows(a)) /\ (Complete(a)' <=> Complete(a)) /\ (Exact(a)' <=> Exact(a))
    BY <1>1, <1>2 DEF Shows, Complete, Exact
  <1>4. \A a : Fine(a)' <=> Fine(a)
    BY <1>2, <1>3 DEF Fine
  <1>5. Rested' /\ Parting' /\ Accounted'
    BY <1>1, <1>2, <1>4 DEF SettledInv, Rested, Parting, Accounted, Owed
  <1>6. Underway'
    BY <1>1, <1>2, <1>3 DEF SettledInv, PassInv, Underway, Current
  <1>7. Stages'
    BY <1>2 DEF SettledInv, PassInv, Stages, Stage
  <1>8. Collecting'
    BY <1>1, <1>2, <1>3 DEF SettledInv, PassInv, Collecting
  <1>9. Plan'
    BY <1>1, <1>2 DEF SettledInv, PassInv, Plan, Planned
  <1>10. OwnServedAs' <=> OwnServedAs
    BY <1>1 DEF OwnServedAs, Entries
  <1>11. OwnInv'
    BY <1>1, <1>10 DEF SettledInv, OwnInv, HomePass, OwnKept, OwnQuiet
  <1> QED
    BY <1>5, <1>6, <1>7, <1>8, <1>9, <1>11 DEF SettledInv, PassInv

\* A tenant that starts served is at rest.
LEMMA ServedInit ==
    ASSUME Init, Settled, TypeInv, NoClash
    PROVE  /\ \A a \in Outside : Fine(a)
           /\ OwnServedAs /\ Accounted /\ Proportional(Of(Content.candidates, Outside), spec)
  <1> DEFINE R == Resolved(Own, spec, world)
             in == {a \in Outside : ~Excluded(a, spec, world)}
             n == Cardinality(R)
             admission == Admission(in, n, spec, world)
             served == UNION {Mine(a, spec, world) : a \in admission.fits}
  <1>1. /\ spec \in [Model -> ModelSpec] /\ \A m \in Model : spec[m].life = "live"
        /\ Own \in SUBSET Model /\ Outside \subseteq Model
    BY DEF Init, TypeInv, TypeOK, Model
  <1>2. OwnLive(spec) = Own /\ Outside \cap Live(spec) = Outside
    BY <1>1 DEF OwnLive, Live
  <1>3. \A a \in Outside : Excluded(a, spec, world) <=> Due(a) = {}
    BY <1>2 DEF NoClash, Excluded, Due
  <1>4. /\ Rejected(R) = {} /\ overlay = Render({}, R \cup served, TRUE)
        /\ copies = Copied(served) /\ over = admission.over
        /\ \A a \in Outside : route[a] =
              IF a \notin in THEN NoRoute
              ELSE [exists |-> TRUE, verdict |-> "accepted",
                    rules |-> {r.provider : r \in Mine(a, spec, world)}, evidence |-> {},
                    uses |-> Copied(Mine(a, spec, world))]
    BY DEF Settled
  <1>5. /\ Accepted = in /\ \A a \in Outside : a \in in <=> Due(a) # {}
        /\ \A a \in Outside : a \notin in => route[a] = NoRoute
        /\ \A a \in in : route[a].rules = Providers(Due(a)) /\ route[a].uses = Copied(Due(a))
    <2>1. \A a \in Outside : a \in in <=> Due(a) # {}
      BY <1>3
    <2>4. in \subseteq Outside
      OBVIOUS
    <2> HIDE DEF in
    <2>2. \A a \in in : /\ route[a].exists /\ route[a].verdict = "accepted"
                        /\ route[a].rules = Providers(Due(a)) /\ route[a].uses = Copied(Due(a))
      <3> TAKE a \in in
      <3>1. route[a] = [exists |-> TRUE, verdict |-> "accepted",
                        rules |-> Providers(Due(a)), evidence |-> {}, uses |-> Copied(Due(a))]
        BY <1>4, <2>4 DEF Due, Providers
      <3> QED
        BY <3>1
    <2>3. \A a \in Outside : a \notin in => route[a] = NoRoute /\ ~route[a].exists
      BY <1>4, NoRouteFacts DEF NoRouteTyped
    <2> QED
      BY <2>1, <2>2, <2>3, <2>4 DEF Accepted
  <1> HIDE DEF in, n
  <1>6. /\ admission.fits \subseteq Outside /\ admission.over \subseteq Outside
        /\ \A a \in Outside : a \in admission.fits \cup admission.over
                                <=> Competes(a, in, spec, world)
    BY AdmissionSplits
  <1>7. admission = Admitted(n)
    BY <1>5 DEF Admitted
  <1> HIDE DEF admission
  <1>8. \A a \in admission.fits : Copied(Due(a)) \subseteq copies /\ a \in in
    <2>1. \A a \in admission.fits : Due(a) \subseteq served
      BY DEF Due
    <2> QED
      BY <1>4, <1>6, <2>1 DEF Copied, Competes
  <1>9. served = Serving(n)
    BY <1>7, <1>8 DEF Serving, ServedRoutes, Due
  <1>10. /\ served \in SUBSET Route /\ OfOutside(served) /\ Weighs(served)
         /\ \A a \in Outside :
               LET mine == Of(served, {a}) IN
               /\ mine = {} \/ mine = Due(a)
               /\ mine # {} => a \in Accepted /\ Copied(Due(a)) \subseteq copies
               /\ /\ a \in Accepted \cap Live(spec) /\ Due(a) # {}
                  /\ a \notin admission.over /\ Copied(Due(a)) \subseteq copies
                  => mine = Due(a)
               /\ AsksFor(mine, spec)
    BY <1>7, <1>9, ServingFacts
  <1>11. /\ R \in SUBSET Route /\ OfOwn(R)
         /\ \A r \in R : r.weight # 0 /\ r.weight = Asked(r, spec)
    BY <1>1, <1>2, ResolvedFacts, AskedFacts DEF OfOwn
  <1>12. Valid = R
    BY <1>2, <1>4 DEF Valid, Without
  <1>13. \A p \in copies : \E a \in admission.fits : p \in Copied(Due(a))
    BY <1>4 DEF Copied, Due
  <1> HIDE DEF R, served
  <1> DEFINE all == R \cup served
  <1>14. {} \in SUBSET Candidate /\ all \in SUBSET Route
    BY <1>10, <1>11
  <1>15. Content.candidates = Render({}, all, TRUE).candidates
    <2>1. Render({}, all, TRUE) # None
      BY <1>14, RenderNotNone
    <2> QED
      BY <1>4, <2>1 DEF Content
  <1>16. /\ \A a \in Outside : Of(all, {a}) = Of(served, {a})
         /\ \A o \in Own : Of(all, {o}) = Of(R, {o})
         /\ Of(all, Own) = R
    BY <1>10, <1>11, Disjoint DEF Of, OfOwn, OfOutside
  <1> HIDE DEF all
  <1>17. \A m : Named(Of(Content.candidates, {m})) = Named(Of(all, {m}))
    <2> TAKE m
    <2>1. Named(Of(Content.candidates, {m})) = Named(Of({}, {m})) \cup Named(Of(all, {m}))
      <3>1. PICK t : t = TRUE
        OBVIOUS
      <3>2. Content.candidates = Render({}, all, t).candidates
        BY <1>15, <3>1
      <3>3. Named(Of(Render({}, all, t).candidates, {m})) = Named(Of({}, {m})) \cup Named(Of(all, {m}))
        BY <1>14, RenderNamed
      <3> QED
        BY <3>2, <3>3
    <2> QED
      BY <2>1 DEF Of, Named
  <1>18. ASSUME NEW M, Weighs(Of(all, M)), AsksFor(Of(all, M), spec)
         PROVE  Proportional(Of(Content.candidates, M), spec)
    <2>1. Of({}, M) = {}
      BY DEF Of
    <2> QED
      BY <1>14, <1>15, <1>18, <2>1, RenderFresh
  <1>19. ASSUME NEW a \in Outside PROVE Fine(a)
    <2> DEFINE mine == Of(served, {a})
    <2>1. /\ mine = {} \/ mine = Due(a)
          /\ mine # {} => a \in Accepted /\ Copied(Due(a)) \subseteq copies
          /\ /\ a \in Accepted \cap Live(spec) /\ Due(a) # {}
             /\ a \notin admission.over /\ Copied(Due(a)) \subseteq copies
             => mine = Due(a)
          /\ Weighs(mine) /\ AsksFor(mine, spec)
      BY <1>10 DEF Weighs, Of
    <2>2. /\ Named(Of(Content.candidates, {a})) = Named(mine)
          /\ Proportional(Of(Content.candidates, {a}), spec)
      <3> HIDE DEF mine
      <3>1. Of(all, {a}) = mine
        BY <1>16 DEF mine
      <3> QED
        BY <1>17, <1>18, <2>1, <3>1
    <2> HIDE DEF mine
    <2>3. Shows(a)
      <3>1. Of(Content.candidates, {a}) # {} => mine # {}
        BY <2>2, NamedEmpty
      <3>2. Named({}) = {}
        BY DEF Named
      <3> QED
        BY <2>1, <2>2, <3>1, <3>2 DEF Shows
    <2>4. Exact(a)
      <3>1. Copied({}) = {} /\ Providers({}) = {} /\ NoRoute.rules = {} /\ NoRoute.uses = {}
        BY DEF Copied, Providers, NoRoute
      <3> QED
        BY <1>5, <3>1 DEF Exact
    <2>5. a \notin over => Complete(a)
      <3> SUFFICES ASSUME a \notin over, a \in Accepted, Due(a) # {}
                   PROVE  Named(Of(Content.candidates, {a})) = Named(Due(a))
        BY DEF Complete
      <3>1. Competes(a, in, spec, world)
        BY <1>2, <1>3, <1>5 DEF Competes
      <3>2. a \in admission.fits
        BY <1>4, <1>6, <3>1
      <3> QED
        BY <1>2, <1>4, <1>8, <2>1, <2>2, <3>2
    <2> QED
      BY <1>5, <2>3, <2>4, <2>5 DEF Fine, Exact
  <1>20. OwnServedAs
    <2>1. \A o \in Own : Entries(o) = Named(Of(Valid, {o}))
      <3> TAKE o \in Own
      <3>1. Entries(o) = Named(Of(Content.candidates, {o}))
        BY DEF Entries, Named, Of
      <3> QED
        BY <1>12, <1>16, <1>17, <3>1
    <2>2. Weighs(Of(all, Own)) /\ AsksFor(Of(all, Own), spec)
      BY <1>11, <1>16 DEF Weighs, AsksFor
    <2> QED
      BY <1>18, <2>1, <2>2 DEF OwnServedAs
  <1>21. Accounted
    BY <1>5, <1>8, <1>13 DEF Accounted
  <1>22. Proportional(Of(Content.candidates, Outside), spec)
    <2>1. \A a \in Outside : Weighs(Of(all, {a})) /\ AsksFor(Of(all, {a}), spec)
      BY <1>10, <1>16 DEF Weighs, Of
    <2>2. Weighs(Of(all, Outside)) /\ AsksFor(Of(all, Outside), spec)
      BY <2>1 DEF Weighs, AsksFor, Of
    <2> QED
      BY <1>18, <2>2
  <1> QED
    BY <1>19, <1>20, <1>21, <1>22

LEMMA SettledInit == TypeInv /\ NoClash /\ Init => SettledInv
  <1> SUFFICES ASSUME TypeInv, NoClash, Init PROVE SettledInv
    OBVIOUS
  <1>1. pass.pc = "idle" /\ \A m \in Model : spec[m].life = "live"
    BY DEF Init, Idle
  <1>2. PassInv /\ HomePass
    BY <1>1 DEF PassInv, Underway, Stages, Collecting, Plan, HomePass, Busy, AttachPc, HomePc
  <1>3. Parting
    BY <1>1 DEF Parting, Model
  <1>4. CASE Empty
    <2>1. queue = Model /\ copies = {} /\ overlay = None
      BY <1>4 DEF Empty
    <2>2. Rested
      BY <2>1 DEF Rested, Attended, Model
    <2>3. OwnKept
      <3> SUFFICES ASSUME OwnQuiet PROVE OwnServedAs
        BY <1>1 DEF OwnKept
      <3>1. Own = {}
        BY <1>1, <2>1 DEF OwnQuiet, HomePc, Model
      <3> QED
        BY <3>1 DEF OwnServedAs, Of, Proportional
    <2>4. Accounted
      BY <2>1 DEF Accounted
    <2> QED
      BY <1>2, <1>3, <2>2, <2>3, <2>4 DEF SettledInv, OwnInv
  <1>5. CASE Settled
    <2>1. (\A a \in Outside : Fine(a)) /\ OwnServedAs /\ Accounted
      BY <1>5, ServedInit
    <2>2. Rested /\ OwnKept
      BY <1>1, <2>1 DEF Rested, OwnKept
    <2> QED
      BY <1>2, <1>3, <2>1, <2>2 DEF SettledInv, OwnInv
  <1> QED
    BY <1>4, <1>5 DEF Init

LEMMA SettledStep == ContractInv /\ NoClash /\ SettledInv /\ [Next]_vars => SettledInv'
  <1> SUFFICES ASSUME ContractInv, NoClash, SettledInv, [Next]_vars PROVE SettledInv'
    OBVIOUS
  <1>1. TypeInv
    BY DEF ContractInv
  <1>2. CASE UNCHANGED vars
    BY <1>2, QuietSettled DEF vars
  <1>3. CASE Home
    BY <1>1, <1>3, HomeStartSettled, HomeWriteSettled, HomePublishSettled, HomeFinishSettled
       DEF Home
  <1>4. CASE Attachment
    <2>1. CASE \E a \in Outside : AttachStart(a) \/ AttachRelease(a)
      BY <1>1, <2>1, AttachStartSettled, AttachReleaseSettled
    <2>2. CASE AttachPublish
      BY <2>2, AttachPublishSettled
    <2>3. CASE CopyCredentials \/ AttachDrain \/ AttachPrune
      BY <1>1, <2>3, CopyCredentialsSettled, AttachDrainSettled, AttachPruneSettled
    <2>4. CASE AttachCollect \/ AttachRemove
      BY <1>1, <2>4, AttachCollectSettled, AttachRemoveSettled
    <2> QED
      BY <1>4, <2>1, <2>2, <2>3, <2>4 DEF Attachment
  <1>5. CASE Fail
    BY <1>1, <1>5, FailSettled
  <1>6. CASE Roll
    BY <1>6, QuietSettled DEF Roll
  <1>7. CASE Edits
    BY <1>1, <1>7, EditsOuter, OuterSettled
  <1>8. CASE \E a \in Outside : Accept(a) \/ Refuse(a)
    BY <1>1, <1>8, VerdictOuter, OuterSettled
  <1> QED
    BY <1>2, <1>3, <1>4, <1>5, <1>6, <1>7, <1>8 DEF Next, Environment, Edits

-----------------------------------------------------------------------------
(***************************************************************************)
(* Attached models of one namespace and name share its traffic: the last   *)
(* publication weighed them together, and whoever has changed since will   *)
(* be looked at.                                                           *)
(***************************************************************************)
\* Live attached models nobody has to look at again, but for what the last
\* publication of a pass leaves to collect.
Undisturbed == {a \in Outside \cap Live(spec) : a \notin queue /\ (Busy(a) => pass.pc = "collect")}
Balanced == Proportional(Of(Content.candidates, Undisturbed), spec)

LEMMA ProportionalPart ==
    ASSUME NEW C, NEW M, NEW N, N \subseteq M, NEW s, Proportional(Of(C, M), s)
    PROVE  Proportional(Of(C, N), s)
  BY DEF Proportional, Of

\* Nothing was published, and nobody joins them.
LEMMA BalancedKept ==
    ASSUME Balanced, overlay' = overlay,
           \A a \in Undisturbed' : a \in Undisturbed /\ spec'[a].refs = spec[a].refs
    PROVE  Balanced'
  <1>1. Content' = Content
    BY DEF Content, NoContent
  <1>2. PICK U : U = Undisturbed'
    OBVIOUS
  <1>3. \A a \in U : a \in Undisturbed /\ spec'[a].refs = spec[a].refs
    BY <1>2
  <1>4. Proportional(Of(Content.candidates, U), spec)
    <2>1. U \subseteq Undisturbed
      BY <1>3
    <2> QED
      BY <2>1, ProportionalPart DEF Balanced
  <1>5. \A c \in Of(Content.candidates, U) : Asked(c, spec') = Asked(c, spec)
    BY <1>3 DEF Of, Asked
  <1>6. Proportional(Of(Content.candidates, U), spec')
    BY <1>4, <1>5 DEF Proportional
  <1> QED
    BY <1>1, <1>2, <1>6 DEF Balanced

\* A home pass that does not publish.
LEMMA BalancedHome ==
    ASSUME Balanced, overlay' = overlay, pass.pc \notin AttachPc,
           \A a \in Outside : spec'[a] = spec[a] /\ (a \in queue => a \in queue')
    PROVE  Balanced'
  <1>1. \A a \in Undisturbed' : a \in Undisturbed /\ spec'[a].refs = spec[a].refs
    BY DEF Undisturbed, Busy, Live
  <1> QED
    BY <1>1, BalancedKept

LEMMA BalancedRetry ==
    ASSUME Balanced, Retry, UNCHANGED <<spec, overlay>>
    PROVE  Balanced'
  <1>1. queue \cup {pass.model} \subseteq queue'
    BY DEF Retry
  <1>2. \A a \in Undisturbed' : a \in Undisturbed /\ spec'[a].refs = spec[a].refs
    BY <1>1 DEF Undisturbed, Busy
  <1> QED
    BY <1>2, BalancedKept

\* A pass that goes on to anything but the collection.
LEMMA BalancedGoesOn ==
    ASSUME TypeInv, Balanced, NEW next \in AttachPc \ {"collect"}, Continue(next),
           UNCHANGED <<spec, overlay>>
    PROVE  Balanced'
  <1>1. pass'.pc = next /\ pass'.model = pass.model /\ queue \subseteq queue'
    BY ContinueFacts
  <1>2. \A a \in Undisturbed' : a \in Undisturbed /\ spec'[a].refs = spec[a].refs
    BY <1>1 DEF Undisturbed, Busy
  <1> QED
    BY <1>2, BalancedKept

LEMMA BalancedOuter ==
    ASSUME TypeInv, Balanced, Outer
    PROVE  Balanced'
  <1>1. pass'.pc = pass.pc /\ pass'.model = pass.model /\ queue \subseteq queue' /\ overlay' = overlay
    BY SteadyPass DEF Outer
  <1>2. \A a \in Outside : a \notin queue' => spec'[a] = spec[a]
    BY DEF Outer, Awake, Model
  <1>3. \A a \in Undisturbed' : a \in Undisturbed /\ spec'[a].refs = spec[a].refs
    BY <1>1, <1>2 DEF Undisturbed, Busy, Live
  <1> QED
    BY <1>1, <1>3, BalancedKept

\* What a home pass planned for the models nobody queued since it weighs them as
\* they ask.
LEMMA BalancedHomePublish ==
    ASSUME ContractInv, SettledInv, HomePublish
    PROVE  Balanced'
  <1> DEFINE R == pass.want \cup pass.served
  <1>1. /\ pass.pc = "publish" /\ world' = world
        /\ TypeInv /\ OfOwn(pass.kept) /\ OfOwn(pass.want) /\ pass.model \in Own
    BY DEF HomePublish, ContractInv, HomePlan, TypeInv, TypeOK, PassTyped, HomePc
  <1>2. \A a \in Outside : spec'[a] = spec[a] /\ (a \in queue => a \in queue')
    <2>1. CASE UNCHANGED spec /\ queue \subseteq queue'
      BY <2>1
    <2>2. CASE Leave
      <3>1. spec' = [spec EXCEPT ![pass.model].life = "gone"] /\ queue \ {pass.model} \subseteq queue'
        BY <2>2 DEF Leave, Gone
      <3>2. spec \in [Model -> ModelSpec] /\ Outside \subseteq Model
        BY <1>1 DEF TypeInv, TypeOK, Model
      <3> QED
        BY <1>1, <3>1, <3>2, Disjoint
    <2> QED
      BY <2>1, <2>2 DEF HomePublish, Continue, Retry
  <1>3. PICK U : U = Undisturbed'
    OBVIOUS
  <1>4. \A a \in U : a \in Outside \cap Live(spec) /\ a \notin queue
    BY <1>2, <1>3 DEF Undisturbed, Live
  <1>5. \A a \in U : Planned(a)
    BY <1>1, <1>4 DEF SettledInv, PassInv, Plan
  <1>6. \A a \in Outside : \A r \in Due(a) : r.model = a /\ r.weight # 0 /\ r.weight = Asked(r, spec)
    <2>1. spec \in [Model -> ModelSpec]
      BY <1>1 DEF TypeInv, TypeOK
    <2> QED
      BY <2>1, AskedFacts DEF Due
  <1>7. Of(pass.kept, U) = {} /\ Of(R, U) = Of(pass.served, U)
    BY <1>1, <1>4, Disjoint DEF Of, OfOwn
  <1>8. \A r \in Of(pass.served, U) : r.weight # 0 /\ r.weight = Asked(r, spec')
    <2> TAKE r \in Of(pass.served, U)
    <2>1. r.model \in U /\ r \in Of(pass.served, {r.model})
      BY DEF Of
    <2>2. r \in Due(r.model)
      BY <1>5, <2>1 DEF Planned
    <2> QED
      BY <1>2, <1>4, <1>6, <2>1, <2>2 DEF Asked
  <1>9. Weighs(Of(R, U)) /\ AsksFor(Of(R, U), spec')
    BY <1>7, <1>8 DEF Weighs, AsksFor
  <1>10. Proportional(Of(Content'.candidates, U), spec')
    BY <1>7, <1>9, HomePublishShows
  <1> QED
    BY <1>3, <1>10 DEF Balanced

LEMMA BalancedHomePass ==
    ASSUME TypeInv, Balanced, (\E m \in Own : HomeStart(m)) \/ HomeWrite \/ HomeFinish
    PROVE  Balanced'
  <1>1. CASE \E m \in Own : HomeStart(m)
    <2>1. PICK m \in Own : HomeStart(m)
      BY <1>1
    <2>2. overlay' = overlay /\ spec' = spec /\ queue' = queue \ {m} /\ pass.pc = "idle"
      BY <2>1 DEF HomeStart, outside
    <2> QED
      BY <2>2, Disjoint, BalancedHome DEF AttachPc
  <1>2. CASE HomeWrite
    <2>1. overlay' = overlay /\ spec' = spec /\ queue \subseteq queue' /\ pass.pc = "write"
      BY <1>2 DEF HomeWrite, outside, Retry
    <2> QED
      BY <2>1, BalancedHome DEF AttachPc
  <1>3. CASE HomeFinish
    <2>1. overlay' = overlay /\ pass.pc = "finish" /\ pass.model \in Own
      BY <1>3 DEF HomeFinish, TypeInv, PassTyped, HomePc
    <2>2. \/ UNCHANGED spec /\ queue \subseteq queue'
          \/ Gone(pass.model) /\ queue \ {pass.model} \subseteq queue'
      BY <1>3 DEF HomeFinish, Finished, Retry, Return, Leave
    <2>3. spec \in [Model -> ModelSpec] /\ Outside \subseteq Model
      BY DEF TypeInv, TypeOK, Model
    <2>4. \A a \in Outside : spec'[a] = spec[a] /\ (a \in queue => a \in queue')
      BY <2>1, <2>2, <2>3, Disjoint DEF Gone
    <2> QED
      BY <2>1, <2>4, BalancedHome DEF AttachPc
  <1> QED
    BY <1>1, <1>2, <1>3

\* A publication weighs every attached model as it asks.
LEMMA BalancedAttachPublish ==
    ASSUME TypeInv, NoClash, SettledInv, Balanced, AttachPublish
    PROVE  Balanced'
  <1> DEFINE n == Cardinality(Preserved)
  <1>1. pass.pc \in {"stage", "withdraw", "republish", "depublish"} /\ UNCHANGED spec
    BY DEF AttachPublish, outside
  <1>2. CASE world.translation # pass.translation /\ UNCHANGED overlay /\ Published({}, {})
    <2>1. PICK b \in Outside : b = pass.model /\ (b \in queue \/ Current(b))
      BY <1>1, BusyFacts DEF AttachPc
    <2>2. b \in queue /\ queue \subseteq queue'
      BY <1>2, <2>1, PublishedPass DEF Current
    <2>3. \A a \in Undisturbed' : a \in Undisturbed /\ spec'[a].refs = spec[a].refs
      BY <1>1, <2>1, <2>2 DEF Undisturbed, Busy
    <2> QED
      BY <1>2, <2>3, BalancedKept
  <1>3. CASE UNCHANGED overlay /\ Retry
    BY <1>1, <1>3, BalancedRetry
  <1>4. CASE /\ world.translation = pass.translation
             /\ \/ Preserved = {} /\ Serving(n) = {} /\ CleanupOverlay
                \/ overlay' = Render(Preserved, Serving(n), pass.translation)
    <2> HIDE DEF n
    <2>1. Proportional(Of(Content'.candidates, Outside), spec)
      BY <1>4, AttachPublishShows
    <2>2. Undisturbed' \subseteq Outside
      BY DEF Undisturbed
    <2> QED
      BY <1>1, <2>1, <2>2, ProportionalPart DEF Balanced
  <1>5. world.translation = pass.translation => View = world
    BY DEF View, TypeInv, TypeOK, World
  <1> QED
    BY <1>2, <1>3, <1>4, <1>5 DEF AttachPublish, Publish, Serving, Admitted

LEMMA BalancedAttachPass ==
    ASSUME TypeInv, SettledInv, Balanced,
           CopyCredentials \/ AttachDrain \/ AttachPrune \/ AttachCollect \/ AttachRemove
    PROVE  Balanced'
  <1>1. UNCHANGED <<spec, overlay>>
    BY DEF CopyCredentials, AttachDrain, AttachPrune, AttachCollect, AttachRemove, outside
  <1>2. CASE Retry
    BY <1>1, <1>2, BalancedRetry
  <1>3. CASE \E next \in AttachPc \ {"collect"} : Continue(next)
    BY <1>1, <1>3, BalancedGoesOn
  <1>4. CASE pass.pc = "collect" /\ Return
    <2>1. pass'.pc = "idle" /\ queue \subseteq queue'
      BY <1>4 DEF Return, Idle
    <2>2. \A a \in Undisturbed' : a \in Undisturbed /\ spec'[a].refs = spec[a].refs
      BY <1>1, <1>4, <2>1 DEF Undisturbed
    <2> QED
      BY <1>1, <2>2, BalancedKept
  <1> QED
    BY <1>2, <1>3, <1>4
       DEF CopyCredentials, AttachDrain, AttachPrune, AttachCollect, AttachRemove, AttachPc

LEMMA BalancedStart ==
    ASSUME TypeInv, Balanced, NEW a \in Outside, AttachStart(a) \/ AttachRelease(a)
    PROVE  Balanced'
  <1>1. CASE AttachStart(a)
    <2>1. /\ pass.pc = "idle" /\ UNCHANGED <<spec, overlay>> /\ queue \ {a} \subseteq queue'
          /\ pass'.model = a /\ pass'.pc \in AttachPc \ {"collect"}
      BY <1>1 DEF AttachStart, Exclude, Attach, Idle, outside, AttachPc
    <2>2. \A b \in Undisturbed' : b \in Undisturbed /\ spec'[b].refs = spec[b].refs
      BY <2>1 DEF Undisturbed, Busy, AttachPc
    <2> QED
      BY <2>1, <2>2, BalancedKept
  <1>2. CASE AttachRelease(a)
    <2>1. /\ pass.pc = "idle" /\ overlay' = overlay /\ queue' = queue \ {a}
          /\ spec' = [spec EXCEPT ![a].life = "gone"]
      BY <1>2 DEF AttachRelease, Gone
    <2>2. spec \in [Model -> ModelSpec] /\ Outside \subseteq Model /\ spec[a] \in ModelSpec
      BY DEF TypeInv, TypeOK, Model
    <2>3. spec'[a].life = "gone" /\ \A b \in Outside \ {a} : spec'[b] = spec[b]
      BY <2>1, <2>2 DEF ModelSpec
    <2>4. \A b \in Undisturbed' : b \in Undisturbed /\ spec'[b].refs = spec[b].refs
      BY <2>1, <2>3 DEF Undisturbed, Busy, AttachPc, Live
    <2> QED
      BY <2>1, <2>4, BalancedKept
  <1> QED
    BY <1>1, <1>2

LEMMA BalancedInit == TypeInv /\ NoClash /\ Init => Balanced
  <1> SUFFICES ASSUME TypeInv, NoClash, Init PROVE Balanced
    OBVIOUS
  <1>1. CASE Empty
    <2>1. Content.candidates = {}
      BY <1>1 DEF Empty, Content, NoContent
    <2> QED
      BY <2>1 DEF Balanced, Proportional, Of
  <1>2. CASE Settled
    <2>1. Proportional(Of(Content.candidates, Outside), spec)
      BY <1>2, ServedInit
    <2>2. Undisturbed \subseteq Outside
      BY DEF Undisturbed
    <2> QED
      BY <2>1, <2>2, ProportionalPart DEF Balanced
  <1> QED
    BY <1>1, <1>2 DEF Init

LEMMA BalancedStep == ContractInv /\ NoClash /\ SettledInv /\ Balanced /\ [Next]_vars => Balanced'
  <1> SUFFICES ASSUME ContractInv, NoClash, SettledInv, Balanced, [Next]_vars PROVE Balanced'
    OBVIOUS
  <1>1. TypeInv
    BY DEF ContractInv
  <1>2. CASE UNCHANGED <<spec, overlay, queue, pass>>
    <2>1. Undisturbed' = Undisturbed
      BY <1>2 DEF Undisturbed, Busy
    <2> QED
      BY <1>2, <2>1, BalancedKept
  <1>3. CASE Home
    BY <1>1, <1>3, BalancedHomePass, BalancedHomePublish DEF Home
  <1>4. CASE Attachment
    BY <1>1, <1>4, BalancedStart, BalancedAttachPublish, BalancedAttachPass DEF Attachment
  <1>5. CASE Fail
    BY <1>5, BalancedRetry DEF Fail
  <1>6. CASE Edits \/ \E a \in Outside : Accept(a) \/ Refuse(a)
    BY <1>1, <1>6, EditsOuter, VerdictOuter, BalancedOuter
  <1> QED
    BY <1>2, <1>3, <1>4, <1>5, <1>6 DEF Next, Environment, Edits, Roll, vars

-----------------------------------------------------------------------------
(***************************************************************************)
(* Theorems.                                                               *)
(***************************************************************************)
LEMMA EntriesOf == \A m : Entries(m) = Named(Of(Content.candidates, {m}))
  BY DEF Entries, Named, Of

\* With nothing to do the tenant's own models are published as they resolve.
LEMMA OwnAtRest ==
    ASSUME SettledInv, pass.pc = "idle", queue \cap Own = {}
    PROVE  OwnServedAs
  <1>1. OwnQuiet
    BY DEF OwnQuiet
  <1> QED
    BY <1>1 DEF SettledInv, OwnInv, OwnKept

LEMMA FineAtRest ==
    ASSUME SettledInv, pass.pc = "idle", NEW a \in Outside \cap Live(spec), a \notin queue
    PROVE  Fine(a)
  BY DEF SettledInv, Rested, Attended, Busy, AttachPc

LEMMA SettledCaughtUp == NoClash /\ SettledInv => CaughtUp
  <1> SUFFICES ASSUME NoClash, SettledInv, pass.pc = "idle"
               PROVE  /\ \A a \in (Outside \cap Live(spec)) \ (queue \cup over) :
                            /\ Entries(a) = IF Competes(a, Accepted, spec, world)
                                            THEN Named(Mine(a, spec, world)) ELSE {}
                            /\ route[a].rules = IF Excluded(a, spec, world) THEN {}
                                                ELSE {r.provider : r \in Mine(a, spec, world)}
                      /\ queue \cap Own = {} =>
                            \A o \in Own : Entries(o) = Named(Of(Valid, {o}))
    BY DEF CaughtUp, Valid, Of
  <1>1. ASSUME NEW a \in (Outside \cap Live(spec)) \ (queue \cup over)
        PROVE  /\ Entries(a) = IF Competes(a, Accepted, spec, world)
                               THEN Named(Mine(a, spec, world)) ELSE {}
               /\ route[a].rules = IF Excluded(a, spec, world) THEN {}
                                   ELSE {r.provider : r \in Mine(a, spec, world)}
    <2>1. Fine(a) /\ Shows(a) /\ Exact(a) /\ Complete(a)
      BY <1>1, FineAtRest DEF Fine
    <2>2. Excluded(a, spec, world) <=> Due(a) = {}
      BY <1>1 DEF NoClash, Excluded, Due
    <2>3. Competes(a, Accepted, spec, world) <=> a \in Accepted /\ Due(a) # {}
      BY <1>1, <2>2 DEF Competes
    <2>4. Entries(a) = Named(Of(Content.candidates, {a})) /\ Due(a) = Mine(a, spec, world)
      BY EntriesOf DEF Due
    <2>5. ~Competes(a, Accepted, spec, world) => Entries(a) = {}
      BY <2>1, <2>3, <2>4, NamedEmpty DEF Shows
    <2>6. Providers({}) = {} /\ Providers(Due(a)) = {r.provider : r \in Mine(a, spec, world)}
      BY DEF Providers, Due
    <2>7. Competes(a, Accepted, spec, world) => Entries(a) = Named(Mine(a, spec, world))
      BY <2>1, <2>3, <2>4 DEF Complete
    <2>8. route[a].rules = IF Excluded(a, spec, world) THEN {}
                           ELSE {r.provider : r \in Mine(a, spec, world)}
      BY <2>1, <2>2, <2>6 DEF Exact
    <2> QED
      BY <2>5, <2>7, <2>8
  <1>2. queue \cap Own = {} => \A o \in Own : Entries(o) = Named(Of(Valid, {o}))
    BY OwnAtRest DEF OwnServedAs
  <1> QED
    BY <1>1, <1>2

LEMMA NamedMember ==
    ASSUME NEW S, NEW T, Named(S) = Named(T), NEW x \in S
    PROVE  \E y \in T : x.provider = y.provider /\ x.name = y.name
  <1>1. <<x.provider, x.name>> \in Named(T)
    BY DEF Named
  <1> QED
    BY <1>1 DEF Named

\* What is published of a model that is fine needs the copies the model is due.
LEMMA ShownCopies ==
    ASSUME NEW a \in Outside, Named(Of(Content.candidates, {a})) = Named(Due(a))
    PROVE  Copied(Of(Content.candidates, {a})) = Copied(Due(a))
  <1> DEFINE C == Of(Content.candidates, {a})
  <1>1. ASSUME NEW x \in C PROVE \E y \in Due(a) : x.provider = y.provider
    BY NamedMember
  <1>2. ASSUME NEW x \in Due(a) PROVE \E y \in C : x.provider = y.provider
    BY NamedMember
  <1> HIDE DEF C
  <1> QED
    BY <1>1, <1>2 DEF Copied, C

LEMMA SettledCredentials == TypeInv /\ SettledInv => CredentialsExact
  <1> DEFINE L == Outside \cap Live(spec)
             P == {c \in Content.candidates : c.model \in L}
  <1> SUFFICES ASSUME TypeInv, SettledInv, pass.pc = "idle", queue = {}
               PROVE  /\ Copied(P) \subseteq copies
                      /\ copies \subseteq Copied(P) \cup UNION {route[a].uses : a \in Accepted \cap over}
    BY DEF CredentialsExact
  <1>1. \A a \in L : Fine(a)
    BY FineAtRest
  <1>2. \A p \in Copied(P) : \E a \in L : p \in Copied(Of(Content.candidates, {a}))
    BY DEF Copied, Of
  <1>3. \A a \in L : Copied(Of(Content.candidates, {a})) \subseteq Copied(P)
    BY DEF Copied, Of
  <1> HIDE DEF P
  <1>4. ASSUME NEW a \in L PROVE Copied(Of(Content.candidates, {a})) \subseteq copies
    <2> DEFINE C == Of(Content.candidates, {a})
    <2>1. CASE C = {}
      BY <2>1 DEF Copied
    <2>2. CASE C # {}
      <3>1. Named(C) = Named(Due(a)) /\ Copied(Due(a)) \subseteq copies
        BY <1>1, <2>2, NamedEmpty DEF Fine, Shows
      <3> QED
        BY <3>1, ShownCopies
    <2> QED
      BY <2>1, <2>2
  <1>5. ASSUME NEW p \in copies
        PROVE  p \in Copied(P) \/ \E a \in Accepted \cap over : p \in route[a].uses
    <2>1. ~Owed
      BY DEF Owed, Attended, Busy, AttachPc
    <2>2. PICK a \in Accepted : p \in route[a].uses
      BY <2>1 DEF SettledInv, Accounted
    <2>3. a \in Outside /\ route[a].exists
      BY DEF Accepted
    <2>4. a \in L
      <3>1. spec[a].life \in {"live", "deleting", "gone"} /\ a \in Model
        BY <2>3 DEF TypeInv, TypeOK, ModelSpec, Model
      <3>2. route[a] # NoRoute
        BY <2>3, NoRouteFacts DEF NoRouteTyped
      <3> QED
        BY <2>3, <3>1, <3>2 DEF SettledInv, Parting, Live
    <2>5. CASE a \notin over
      <3>1. Exact(a) /\ Complete(a)
        BY <1>1, <2>4, <2>5 DEF Fine
      <3>2. p \in Copied(Due(a))
        BY <2>2, <3>1 DEF Exact
      <3>3. Due(a) # {}
        BY <3>2 DEF Copied
      <3>4. Named(Of(Content.candidates, {a})) = Named(Due(a))
        BY <3>1, <3>3 DEF Complete
      <3> QED
        BY <1>3, <2>3, <2>4, <3>2, <3>4, ShownCopies
    <2> QED
      BY <2>2, <2>5
  <1> QED
    BY <1>2, <1>4, <1>5

\* Candidates of one name are all attached models', or all the tenant's own.
LEMMA SettledShares == TypeInv /\ SettledInv /\ Balanced => TrafficShares
  <1> SUFFICES ASSUME TypeInv, SettledInv, Balanced, pass.pc = "idle", queue = {},
                      NEW c \in Content.candidates, NEW d \in Content.candidates,
                      spec[c.model].life = "live", spec[d.model].life = "live", c.name = d.name
               PROVE  Share(c) * Asked(d, spec) = Share(d) * Asked(c, spec)
    BY DEF TrafficShares, Share, Asked
  <1>1. spec \in [Model -> ModelSpec] /\ \A x \in {c, d} : x.model \in Model
    BY DEF TypeInv, TypeOK, Candidate
  <1>2. OwnServedAs
    BY OwnAtRest
  <1>3. ASSUME NEW x \in {c, d}, x.model \in Outside
        PROVE  Holder(x.name, spec) = ModelNamespace[x.model]
    <2> DEFINE a == x.model
    <2>1. a \in Outside \cap Live(spec)
      BY <1>1, <1>3 DEF Live
    <2>2. Shows(a)
      BY <2>1, FineAtRest DEF Fine
    <2>3. x \in Of(Content.candidates, {a})
      BY DEF Of
    <2>4. Named(Of(Content.candidates, {a})) = Named(Due(a))
      BY <2>2, <2>3, NamedEmpty DEF Shows
    <2>5. PICK r \in Due(a) : r.name = x.name
      BY <2>3, <2>4, NamedMember
    <2>6. r.name = spec[a].name
      BY <1>1, <1>3, MineFacts DEF Due
    <2>7. Holder(spec[a].name, spec) = ModelNamespace[a]
      BY DEF Due, Mine
    <2> QED
      BY <2>5, <2>6, <2>7
  <1>4. ASSUME NEW x \in {c, d}, x.model \in Own
        PROVE  Holder(x.name, spec) = Tenant
    <2>1. <<x.provider, x.name>> \in Named(Of(Valid, {x.model}))
      BY <1>2, <1>4 DEF OwnServedAs, Entries
    <2>2. PICK r \in Valid : r.name = x.name
      BY <2>1 DEF Named, Of
    <2>3. r.model \in OwnLive(spec) /\ r.name = spec[r.model].name
      BY <1>1, AskedFacts DEF Valid, Without
    <2> QED
      BY <2>2, <2>3 DEF Holder
  <1>5. CASE c.model \in Own /\ d.model \in Own
    BY <1>2, <1>5 DEF OwnServedAs, Proportional, Of
  <1>6. CASE c.model \in Outside /\ d.model \in Outside
    <2>1. \A x \in {c, d} : x.model \in Undisturbed
      BY <1>1, <1>6 DEF Undisturbed, Live, Busy, AttachPc
    <2> QED
      BY <2>1 DEF Balanced, Proportional, Of
  <1>7. ASSUME NEW x \in {c, d}, NEW y \in {c, d}, x.model \in Own, y.model \in Outside PROVE FALSE
    BY <1>3, <1>4, <1>7, ModelsAssumption
  <1> QED
    BY <1>1, <1>5, <1>6, <1>7 DEF Model

\* The invariant holds in every behaviour in which attached models do not clash.
LEMMA AlwaysSettled == Spec /\ []NoClash => [](TypeInv /\ SettledInv /\ Balanced)
  <1>1. ContractInv => TypeInv
    BY DEF ContractInv
  <1>2. Spec => []ContractInv
    BY ContractInit, ContractStep, PTL DEF Spec
  <1>3. ContractInv /\ NoClash /\ Init => SettledInv /\ Balanced
    BY <1>1, SettledInit, BalancedInit
  <1> QED
    BY <1>1, <1>2, <1>3, SettledStep, BalancedStep, PTL DEF Spec

\* No event, failed call or other writer's publication is lost: whatever order
\* models, providers, grants, the flag, verdicts and the worker's calls come in,
\* a model nobody has to look at again has the route and the candidates the
\* present configuration asks for (the watches of SetupWithManager,
\* publishTenantOverlay, publishAttachmentTenantWithRetainedRoutes).
THEOREM NothingMissed == Spec /\ []NoClash => []CaughtUp
  BY AlwaysSettled, SettledCaughtUp, PTL

\* Once a tenant is at rest its namespace holds the credential copies the
\* published candidates mount, and no others but those of models left out for
\* capacity, although copies are written by one pass and collected by any
\* (applyCredentialCopies, gcTenantState).
THEOREM CopiesExact == Spec /\ []NoClash => []CredentialsExact
  BY AlwaysSettled, SettledCredentials, PTL

\* Once a tenant is at rest the ExtProc splits a name's traffic as the models'
\* weights say, those of several attached models of one namespace and name
\* included, whichever path rendered the weights last and however often kept
\* candidates were normalised (deriveSelectionMetadata,
\* normalizeWeightedCandidates).
THEOREM SharesKept == Spec /\ []NoClash => []TrafficShares
  BY AlwaysSettled, SettledShares, PTL
=============================================================================
