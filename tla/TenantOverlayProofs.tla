------------------------ MODULE TenantOverlayProofs ------------------------
(***************************************************************************)
(* Proofs about TenantOverlay for every set of models, providers, names    *)
(* and weights, every capacity and every number of changes: its types;     *)
(* that every published overlay satisfies the contract of the ExtProc,     *)
(* whichever path wrote it; and that the rules of attached models outlive  *)
(* their candidates.                                                       *)
(***************************************************************************)
EXTENDS TenantOverlay, FiniteSetTheorems, WellFoundedInduction, TLAPS

-----------------------------------------------------------------------------
(***************************************************************************)
(* The inductive invariant.                                                *)
(***************************************************************************)
\* One element for each model and provider.
Functional(S) == \A x, y \in S : x.model = y.model /\ x.provider = y.provider => x = y
OfOwn(S) == \A x \in S : x.model \in Own
OfOutside(S) == \A x \in S : x.model \in Outside

\* What the record of a pass holds.
PassTyped ==
    /\ pass = [pc |-> pass.pc, model |-> pass.model, kind |-> pass.kind,
               translation |-> pass.translation, want |-> pass.want, kept |-> pass.kept,
               keep |-> pass.keep, served |-> pass.served, over |-> pass.over,
               stale |-> pass.stale, retain |-> pass.retain, deleting |-> pass.deleting,
               steady |-> pass.steady]
    /\ pass.pc \in HomePc => pass.model \in Own /\ OfOwn(pass.want)
    /\ pass.pc \in AttachPc => pass.model \in Outside
    /\ pass.want \in SUBSET Route /\ pass.served \in SUBSET Route
    /\ pass.over \in SUBSET Outside

\* The part of the contract that needs no counting.
WellFormed(content) ==
    LET C == content.candidates IN
    /\ content.policy = "weightedRandom" => \A c \in C : c.group /\ c.weight > 0
    /\ content.policy # "weightedRandom" => \A c \in C : c.weight = 0
    /\ (\E c \in C : c.group) => content.policy # "none"
    /\ Functional(C)

\* A home pass publishes own models as they resolve or as they were kept,
\* never both, beside attached ones.
HomePlan ==
    pass.pc \in {"write", "publish"} =>
        /\ pass.want = {} \/ pass.kept = {}
        /\ OfOwn(pass.kept) /\ OfOutside(pass.served)
        /\ Functional(pass.want) /\ Functional(pass.kept) /\ Functional(pass.served)

TypeInv == TypeOK /\ PassTyped
ContractInv == TypeInv /\ WellFormed(Content) /\ HomePlan

\* The tenant's own references fit into an overlay.
OwnFits == Cardinality(Own \X Provider) <= Capacity

CapacityInv ==
    /\ ContractInv
    /\ Cardinality(Content.candidates) <= Capacity
    /\ pass.pc \in {"write", "publish"} =>
          Cardinality(pass.want) + Cardinality(pass.kept) + Cardinality(pass.served) <= Capacity

\* No attached model is rejected with its group, so that a model that is left
\* out has no routes.
NoClash == \A a \in Outside \cap Live(spec) :
    Excluded(a, spec, world) => Mine(a, spec, world) = {}

\* The providers the pass wants for its attached model.
Wanted == {r.provider : r \in pass.want}
\* Neither the overlay nor the pods, in the last step, select another one.
Reduced(content) == \A c \in content.candidates : c.model = pass.model => c.provider \in Wanted

\* While nothing it depends on changes an attachment pass works for a live
\* model on the routes it has now; when it drains the overlay holds no other
\* candidate of the model, and when it prunes or removes the pods do not either,
\* or the route that goes had no rule.
StagedInv ==
    /\ pass.pc \in AttachPc /\ pass.kind = "exclude" => pass.want = {}
    /\ pass.pc \in AttachPc => pass.kind \in {"serve", "withdraw", "exclude"}
    /\ pass.pc = "remove" => pass.kind = "exclude"
    /\ pass.pc \in AttachPc /\ pass.steady =>
          /\ pass.model \in Live(spec) /\ pass.translation = world.translation
          /\ pass.want = Mine(pass.model, spec, world)
    /\ pass.pc \in {"drain", "prune"} /\ pass.steady => Reduced(Content)
    /\ pass.pc = "prune" /\ pass.steady => running = Content
    /\ pass.pc = "remove" /\ pass.steady =>
          \/ Reduced(Content) /\ running = Content
          \/ pass.model \in Accepted => route[pass.model].rules = {}

-----------------------------------------------------------------------------
(***************************************************************************)
(* Operators of Overlay.                                                   *)
(***************************************************************************)
\* No model is both the tenant's own and attached.
LEMMA Disjoint == Own \cap Outside = {}
  BY ModelsAssumption

\* A reference of a well-typed model has a weight and a format.
LEMMA RefsTyped ==
    ASSUME NEW s \in [Model -> ModelSpec], NEW m \in Model
    PROVE  /\ s[m].name \in Name /\ DOMAIN s[m].refs \subseteq Provider
           /\ \A p \in DOMAIN s[m].refs :
                 s[m].refs[p].weight \in Weight /\ s[m].refs[p].format \in Format
  <1>1. s[m] \in ModelSpec
    OBVIOUS
  <1>2. s[m].name \in Name /\ s[m].refs \in References
    BY <1>1 DEF ModelSpec
  <1>3. PICK S \in SUBSET Provider : s[m].refs \in [S -> Reference]
    BY <1>2 DEF References
  <1>4. DOMAIN s[m].refs = S /\ \A p \in S : s[m].refs[p] \in Reference
    BY <1>3
  <1> QED
    BY <1>2, <1>4 DEF Reference

\* The routes of one model: its own, one for each provider.
LEMMA RoutesFacts ==
    ASSUME NEW s \in [Model -> ModelSpec], NEW m \in Model, NEW w
    PROVE  /\ RoutesOf(m, s, w) \subseteq Route
           /\ \A r \in RoutesOf(m, s, w) : r.model = m /\ r.name = s[m].name
           /\ Functional(RoutesOf(m, s, w))
  <1> DEFINE P == {q \in DOMAIN s[m].refs : Outcome(m, s, q, w) = "Routed"}
             T(p) == [model |-> m, provider |-> p, name |-> s[m].name,
                      weight |-> s[m].refs[p].weight, format |-> s[m].refs[p].format]
  <1>1. RoutesOf(m, s, w) = {T(p) : p \in P}
    BY DEF RoutesOf
  <1>2. \A p \in P : T(p) \in Route
    BY RefsTyped DEF Route
  <1>3. \A p \in P : T(p).model = m /\ T(p).name = s[m].name /\ T(p).provider = p
    OBVIOUS
  <1> HIDE DEF P, T
  <1> QED
    BY <1>1, <1>2, <1>3 DEF Functional

\* An attached model has its resolved routes or none.
LEMMA MineFacts ==
    ASSUME NEW s \in [Model -> ModelSpec], NEW a \in Outside, NEW w
    PROVE  /\ Mine(a, s, w) \subseteq Route
           /\ \A r \in Mine(a, s, w) : r.model = a /\ r.name = s[a].name
           /\ Functional(Mine(a, s, w))
  <1>1. Mine(a, s, w) = {} \/ Mine(a, s, w) = RoutesOf(a, s, w)
    BY DEF Mine
  <1>2. a \in Model
    BY DEF Model
  <1> QED
    BY <1>1, <1>2, RoutesFacts DEF Functional

\* The routes of several models.
LEMMA ResolvedFacts ==
    ASSUME NEW s \in [Model -> ModelSpec], NEW M \in SUBSET Model, NEW w
    PROVE  /\ Resolved(M, s, w) \subseteq Route
           /\ \A r \in Resolved(M, s, w) : r.model \in M
           /\ Functional(Resolved(M, s, w))
  <1>1. \A r \in Resolved(M, s, w) : \E m \in M : r \in RoutesOf(m, s, w)
    BY DEF Resolved
  <1>2. \A r \in Resolved(M, s, w) : r.model \in M /\ r \in RoutesOf(r.model, s, w) /\ r \in Route
    BY <1>1, RoutesFacts
  <1>3. ASSUME NEW x \in Resolved(M, s, w), NEW y \in Resolved(M, s, w),
               x.model = y.model, x.provider = y.provider
        PROVE  x = y
    BY <1>2, <1>3, RoutesFacts DEF Functional
  <1> QED
    BY <1>2, <1>3 DEF Functional

\* Admission is about attached models, and what is served are their routes.
LEMMA AdmissionFacts ==
    ASSUME NEW accepted, NEW own, NEW s, NEW w
    PROVE  /\ Admission(accepted, own, s, w).fits \subseteq Outside
           /\ Admission(accepted, own, s, w).over \subseteq Outside
  <1> DEFINE in == {i \in DOMAIN Attached : Competes(Attached[i], accepted, s, w)}
             demand == [i \in DOMAIN Attached |->
                          IF i \in in THEN Cardinality(Mine(Attached[i], s, w)) ELSE 0]
             out == {i \in in : demand[i] > Room(demand, own)[i - 1]}
  <1>1. Admission(accepted, own, s, w) =
          [fits |-> {Attached[i] : i \in in \ out}, over |-> {Attached[i] : i \in out}]
    BY DEF Admission
  <1>2. in \subseteq DOMAIN Attached /\ out \subseteq DOMAIN Attached
    OBVIOUS
  <1> HIDE DEF in, out
  <1> QED
    BY <1>1, <1>2 DEF Outside

LEMMA ServedFacts ==
    ASSUME NEW s \in [Model -> ModelSpec], NEW w, NEW have,
           NEW admission, admission.fits \subseteq Outside
    PROVE  /\ ServedRoutes(admission, have, s, w) \subseteq Route
           /\ OfOutside(ServedRoutes(admission, have, s, w))
           /\ \A r \in ServedRoutes(admission, have, s, w) : r \in Mine(r.model, s, w)
           /\ Functional(ServedRoutes(admission, have, s, w))
  <1> DEFINE S == ServedRoutes(admission, have, s, w)
  <1>1. \A r \in S : \E a \in Outside : r \in Mine(a, s, w)
    BY DEF ServedRoutes
  <1>2. \A r \in S : r.model \in Outside /\ r \in Mine(r.model, s, w) /\ r \in Route
    BY <1>1, MineFacts
  <1>3. ASSUME NEW x \in S, NEW y \in S, x.model = y.model, x.provider = y.provider
        PROVE  x = y
    BY <1>2, <1>3, MineFacts DEF Functional
  <1> QED
    BY <1>2, <1>3 DEF Functional, OfOutside

LEMMA CopiedFacts ==
    ASSUME NEW R \in SUBSET Route
    PROVE  Copied(R) \subseteq Provider
  BY DEF Copied, Route

-----------------------------------------------------------------------------
(***************************************************************************)
(* Render.                                                                 *)
(***************************************************************************)
\* Normalisation keeps a candidate's identity.
LEMMA NormalizedFacts ==
    ASSUME NEW c \in Candidate, NEW weighted \in BOOLEAN, NEW translation
    PROVE  LET n == Normalized(c, weighted, translation)
           IN  /\ n \in Candidate /\ n.model = c.model /\ n.provider = c.provider
               /\ n.group = (c.group \/ weighted)
               /\ n.weight = IF weighted /\ c.weight = 0 THEN 1 ELSE c.weight
  <1> DEFINE g == c.group \/ weighted
             v == IF weighted /\ c.weight = 0 THEN 1 ELSE c.weight
             f == IF translation THEN c.profile ELSE "none"
  <1>1. /\ c = [model |-> c.model, provider |-> c.provider, name |-> c.name,
               group |-> c.group, weight |-> c.weight, profile |-> c.profile]
        /\ c.model \in Model /\ c.provider \in Provider /\ c.name \in Name
        /\ c.group \in BOOLEAN /\ c.weight \in Weight /\ c.profile \in Format \cup {"none"}
    BY DEF Candidate
  <1>2. Normalized(c, weighted, translation) =
          [model |-> c.model, provider |-> c.provider, name |-> c.name, group |-> g,
           weight |-> v, profile |-> f]
    <2>1. Normalized(c, weighted, translation) =
            [[[c EXCEPT !.group = g] EXCEPT !.weight = v] EXCEPT !.profile = f]
      BY DEF Normalized
    <2> HIDE DEF g, v, f
    <2>2. [c EXCEPT !.group = g] =
            [model |-> c.model, provider |-> c.provider, name |-> c.name, group |-> g,
             weight |-> c.weight, profile |-> c.profile]
      BY <1>1
    <2> QED
      BY <2>1, <2>2
  <1>3. g \in BOOLEAN /\ v \in Weight /\ f \in Format \cup {"none"}
    BY <1>1, BoundsAssumption
  <1> HIDE DEF g, v, f
  <1>4. LET n == Normalized(c, weighted, translation)
        IN  /\ n \in Candidate /\ n.model = c.model /\ n.provider = c.provider
            /\ n.group = g /\ n.weight = v
    BY <1>1, <1>2, <1>3 DEF Candidate
  <1> QED
    BY <1>4 DEF g, v

\* The candidate of a route has the route's identity.
LEMMA CandidateFacts ==
    ASSUME NEW R \in SUBSET Route, NEW r \in R
    PROVE  LET c == CandidateOf(r, R)
           IN  /\ c \in Candidate /\ c.model = r.model /\ c.provider = r.provider
               /\ c.group = (UnequalWeights(R) \/ r.name \in SharedNames(R))
               /\ c.weight = IF UnequalWeights(R) THEN r.weight ELSE 0
  <1> DEFINE g == UnequalWeights(R) \/ r.name \in SharedNames(R)
             v == IF UnequalWeights(R) THEN r.weight ELSE 0
  <1>1. CandidateOf(r, R) = [model |-> r.model, provider |-> r.provider, name |-> r.name,
                             group |-> g, weight |-> v, profile |-> r.format]
    BY DEF CandidateOf
  <1>2. /\ r.model \in Model /\ r.provider \in Provider /\ r.name \in Name
        /\ r.weight \in Weight /\ r.format \in Format
    BY DEF Route
  <1>3. g \in BOOLEAN /\ v \in Weight
    BY <1>2, BoundsAssumption
  <1> HIDE DEF g, v
  <1>4. LET c == CandidateOf(r, R)
        IN  /\ c \in Candidate /\ c.model = r.model /\ c.provider = r.provider
            /\ c.group = g /\ c.weight = v
    BY <1>1, <1>2, <1>3 DEF Candidate
  <1> QED
    BY <1>4 DEF g, v

\* What is rendered, by name.
Weighted(K, R) == UnequalWeights(R) \/ \E c \in K : c.weight # 0
Sources(K, R) == K \cup {CandidateOf(r, R) : r \in R}

LEMMA RenderFacts ==
    ASSUME NEW K \in SUBSET Candidate, NEW R \in SUBSET Route, NEW translation
    PROVE  LET d == Render(K, R, translation)
           IN  /\ d.candidates = {Normalized(c, Weighted(K, R), translation) : c \in Sources(K, R)}
               /\ d.policy = IF Weighted(K, R) THEN "weightedRandom"
                             ELSE IF SharedNames(R) # {} \/ \E c \in K : c.group
                             THEN "random" ELSE "none"
               /\ d.candidates \subseteq Candidate /\ d.policy \in Policy
               /\ Sources(K, R) \subseteq Candidate /\ Weighted(K, R) \in BOOLEAN
  <1>1. Sources(K, R) \subseteq Candidate /\ Weighted(K, R) \in BOOLEAN
    BY CandidateFacts DEF Sources, Weighted
  <1>2. /\ Render(K, R, translation).candidates =
              {Normalized(c, Weighted(K, R), translation) : c \in Sources(K, R)}
        /\ Render(K, R, translation).policy =
              IF Weighted(K, R) THEN "weightedRandom"
              ELSE IF SharedNames(R) # {} \/ \E c \in K : c.group THEN "random" ELSE "none"
    BY DEF Render, Weighted, Sources
  <1>3. \A c \in Sources(K, R) : Normalized(c, Weighted(K, R), translation) \in Candidate
    BY <1>1, NormalizedFacts
  <1> QED
    BY <1>1, <1>2, <1>3 DEF Policy

\* Every candidate published comes from a kept one or from a route.
LEMMA RenderOrigins ==
    ASSUME NEW K \in SUBSET Candidate, NEW R \in SUBSET Route, NEW translation,
           NEW c \in Render(K, R, translation).candidates
    PROVE  \/ \E k \in K : k.model = c.model /\ k.provider = c.provider
           \/ \E r \in R : r.model = c.model /\ r.provider = c.provider
  <1>1. /\ Render(K, R, translation).candidates =
              {Normalized(x, Weighted(K, R), translation) : x \in Sources(K, R)}
        /\ Sources(K, R) \subseteq Candidate /\ Weighted(K, R) \in BOOLEAN
    BY RenderFacts
  <1>2. PICK x \in Sources(K, R) : c = Normalized(x, Weighted(K, R), translation)
    BY <1>1
  <1>3. x \in Candidate /\ x.model = c.model /\ x.provider = c.provider
    BY <1>1, <1>2, NormalizedFacts
  <1> QED
    BY <1>3, CandidateFacts DEF Sources

\* Whatever is kept and resolved, the document rendered is well formed, if no
\* model contributes both kinds and none a provider twice.
LEMMA RenderWellFormed ==
    ASSUME NEW K \in SUBSET Candidate, NEW R \in SUBSET Route, NEW translation,
           Functional(K), Functional(R), \A k \in K, r \in R : k.model # r.model
    PROVE  WellFormed(Render(K, R, translation))
  <1> DEFINE d == Render(K, R, translation)
             wt == Weighted(K, R)
             N(c) == Normalized(c, wt, translation)
  <1>1. /\ d.candidates = {N(c) : c \in Sources(K, R)}
        /\ Sources(K, R) \subseteq Candidate /\ wt \in BOOLEAN
        /\ d.policy = IF wt THEN "weightedRandom"
                      ELSE IF SharedNames(R) # {} \/ \E c \in K : c.group
                      THEN "random" ELSE "none"
    BY RenderFacts
  <1>2. \A c \in Sources(K, R) :
           /\ N(c).model = c.model /\ N(c).provider = c.provider
           /\ N(c).group = (c.group \/ wt)
           /\ N(c).weight = IF wt /\ c.weight = 0 THEN 1 ELSE c.weight
           /\ c.weight \in Nat
    BY <1>1, NormalizedFacts, BoundsAssumption DEF Candidate
  <1>3. \A c \in Sources(K, R) :
           \/ c \in K
           \/ \E r \in R : /\ c = CandidateOf(r, R) /\ c.model = r.model /\ c.provider = r.provider
                           /\ c.group = (UnequalWeights(R) \/ r.name \in SharedNames(R))
                           /\ c.weight = IF UnequalWeights(R) THEN r.weight ELSE 0
    BY CandidateFacts DEF Sources
  <1> HIDE DEF N, d, wt
  <1>4. wt => \A c \in Sources(K, R) : N(c).group /\ N(c).weight > 0
    <2> SUFFICES ASSUME wt, NEW c \in Sources(K, R) PROVE N(c).group /\ N(c).weight > 0
      OBVIOUS
    <2>1. N(c).group = TRUE
      BY <1>2, Zenon
    <2>2. N(c).weight > 0
      BY <1>2
    <2> QED
      BY <2>1, <2>2, Zenon
  <1>5. ~wt => \A c \in Sources(K, R) : c.weight = 0
    BY <1>3 DEF wt, Weighted
  <1>6. ~wt /\ (\E c \in Sources(K, R) : c.group)
          => SharedNames(R) # {} \/ \E c \in K : c.group
    BY <1>3 DEF wt, Weighted
  <1>7. ASSUME NEW x \in Sources(K, R), NEW y \in Sources(K, R),
               x.model = y.model, x.provider = y.provider
        PROVE  x = y
    BY <1>3, <1>7 DEF Functional
  <1>8. Functional(d.candidates)
    <2>1. ASSUME NEW x \in d.candidates, NEW y \in d.candidates,
                 x.model = y.model, x.provider = y.provider
          PROVE  x = y
      <3>1. PICK u \in Sources(K, R) : x = N(u)
        BY <1>1
      <3>2. PICK v \in Sources(K, R) : y = N(v)
        BY <1>1
      <3>3. u = v
        BY <1>2, <1>7, <2>1, <3>1, <3>2
      <3> QED
        BY <3>1, <3>2, <3>3
    <2> QED
      BY <2>1 DEF Functional
  <1>9. \A c \in d.candidates : /\ wt => c.group /\ c.weight > 0
                                /\ ~wt => c.weight = 0
    BY <1>1, <1>2, <1>4, <1>5
  <1>10. (\E c \in d.candidates : c.group) => d.policy # "none"
    <2> SUFFICES ASSUME NEW c \in Sources(K, R), N(c).group, ~wt
                 PROVE  d.policy = "random"
      BY <1>1
    <2>1. c.group
      BY <1>1, <1>2
    <2> QED
      BY <1>1, <1>6, <2>1
  <1>11. (d.policy = "weightedRandom") = wt
    BY <1>1
  <1>12. WellFormed(d)
    BY <1>8, <1>9, <1>10, <1>11 DEF WellFormed
  <1> QED
    BY <1>12 DEF d

-----------------------------------------------------------------------------
(***************************************************************************)
(* Types.                                                                  *)
(***************************************************************************)
\* What the operators on the state yield.
LEMMA StateFacts ==
    ASSUME TypeInv
    PROVE  /\ Content.candidates \in SUBSET Candidate /\ Content.policy \in Policy
           /\ Preserved \in SUBSET Candidate /\ OfOwn(Preserved)
           /\ Preserved \subseteq Content.candidates
           /\ \A out : Collected(out) \subseteq Provider
           /\ \A a \in Outside : \A w : Stale(a, w) \subseteq Provider /\ Stale(a, w) \subseteq route[a].rules
           /\ OwnLive(spec) \in SUBSET Model /\ OwnLive(spec) \subseteq Own
           /\ Own \subseteq Model /\ Outside \subseteq Model
  <1>1. Content.candidates \in SUBSET Candidate /\ Content.policy \in Policy
    BY DEF TypeInv, TypeOK
  <1>2. \A a \in Outside : route[a].rules \subseteq Provider
    BY DEF TypeInv, TypeOK, RouteObject
  <1>3. \A a \in Outside : \A w : Stale(a, w) \subseteq Provider /\ Stale(a, w) \subseteq route[a].rules
    BY <1>2 DEF Stale
  <1>4. \A out : Collected(out) \subseteq Provider
    BY DEF TypeInv, TypeOK, Collected
  <1>5. OwnLive(spec) \in SUBSET Model /\ OwnLive(spec) \subseteq Own
    BY DEF OwnLive, Live, Model
  <1>6. Preserved \subseteq Content.candidates /\ OfOwn(Preserved)
    BY DEF Preserved, OfOwn
  <1> QED
    BY <1>1, <1>3, <1>4, <1>5, <1>6 DEF Model

\* Recording a withdrawal changes nothing else of a route.
LEMMA PersistedFacts ==
    ASSUME TypeInv, NEW w
    PROVE  /\ Persisted(w) \in [Outside -> RouteObject]
           /\ \A a \in Outside : /\ Persisted(w)[a].rules = route[a].rules
                                 /\ Persisted(w)[a].verdict = route[a].verdict
                                 /\ Persisted(w)[a].exists = route[a].exists
  <1>1. ASSUME NEW a \in Outside, NEW e \in SUBSET (Provider \X Name)
        PROVE  /\ [route[a] EXCEPT !.evidence = e] \in RouteObject
               /\ [route[a] EXCEPT !.evidence = e].rules = route[a].rules
               /\ [route[a] EXCEPT !.evidence = e].verdict = route[a].verdict
               /\ [route[a] EXCEPT !.evidence = e].exists = route[a].exists
    <2>1. route[a] \in RouteObject
      BY DEF TypeInv, TypeOK
    <2> QED
      BY <1>1, <2>1 DEF RouteObject
  <1>2. \A a \in Outside : Proof(a, Stale(a, w)) \in SUBSET (Provider \X Name)
    <2>1. \A a \in Outside : spec[a].name \in Name
      BY RefsTyped DEF TypeInv, TypeOK, Model
    <2> QED
      BY <2>1, StateFacts DEF Proof
  <1>3. /\ Persisted(w) = [a \in Outside |-> Persisted(w)[a]]
        /\ \A a \in Outside : \/ Persisted(w)[a] = route[a]
                              \/ Persisted(w)[a] = [route[a] EXCEPT !.evidence = Proof(a, Stale(a, w))]
    BY DEF Persisted
  <1>4. \A a \in Outside : route[a] \in RouteObject
    BY DEF TypeInv, TypeOK
  <1>5. \A a \in Outside : /\ Persisted(w)[a] \in RouteObject
                           /\ Persisted(w)[a].rules = route[a].rules
                           /\ Persisted(w)[a].verdict = route[a].verdict
                           /\ Persisted(w)[a].exists = route[a].exists
    <2> TAKE a \in Outside
    <2>1. CASE Persisted(w)[a] = route[a]
      BY <1>4, <2>1
    <2>2. CASE Persisted(w)[a] = [route[a] EXCEPT !.evidence = Proof(a, Stale(a, w))]
      BY <1>1, <1>2, <2>2
    <2> QED
      BY <1>3, <2>1, <2>2
  <1> QED
    BY <1>3, <1>5

\* Applying a route gives it the rules of R and the retained ones.
LEMMA ApplyFacts ==
    ASSUME TypeInv, NEW a \in Outside, NEW R \in SUBSET Route, NEW stale \in SUBSET Provider,
           Apply(a, R, stale)
    PROVE  /\ route' \in [Outside -> RouteObject]
           /\ \A b \in Outside \ {a} : route'[b] = route[b]
           /\ route'[a].rules = {r.provider : r \in R} \cup stale
           /\ route'[a].verdict = route[a].verdict
  <1>1. route \in [Outside -> RouteObject] /\ route[a] \in RouteObject
    BY DEF TypeInv, TypeOK
  <1>2. spec[a].name \in Name
    BY RefsTyped DEF TypeInv, TypeOK, Model
  <1>3. PICK e \in SUBSET (Provider \X Name) :
          route' = [route EXCEPT ![a] =
                      [exists |-> TRUE, verdict |-> route[a].verdict,
                       rules |-> {r.provider : r \in R} \cup stale, evidence |-> e,
                       uses |-> Copied(R) \cup IF stale = {} THEN {} ELSE route[a].uses]]
    <2>1. /\ route[a].evidence \in SUBSET (Provider \X Name)
          /\ Proof(a, stale) \in SUBSET (Provider \X Name)
      BY <1>1, <1>2 DEF RouteObject, Proof
    <2> QED
      BY <1>1, <2>1 DEF Apply
  <1>4. /\ {r.provider : r \in R} \cup stale \in SUBSET Provider
        /\ Copied(R) \cup (IF stale = {} THEN {} ELSE route[a].uses) \in SUBSET Provider
        /\ route[a].verdict \in {"waiting", "accepted", "refused"}
    BY <1>1, CopiedFacts DEF RouteObject, Route
  <1> DEFINE o == [exists |-> TRUE, verdict |-> route[a].verdict,
                   rules |-> {r.provider : r \in R} \cup stale, evidence |-> e,
                   uses |-> Copied(R) \cup IF stale = {} THEN {} ELSE route[a].uses]
  <1>5. o \in RouteObject /\ o.rules = {r.provider : r \in R} \cup stale /\ o.verdict = route[a].verdict
    BY <1>4 DEF RouteObject
  <1>6. route' = [route EXCEPT ![a] = o]
    BY <1>3
  <1> HIDE DEF o
  <1> QED
    BY <1>1, <1>5, <1>6

\* A worker with nothing to do is well typed.
LEMMA IdleTyped ==
    ASSUME pass' = Idle
    PROVE  /\ PassTyped' /\ pass'.pc = "idle" /\ pass'.want = {} /\ pass'.served = {}
           /\ pass'.kept = {} /\ pass'.stale = {} /\ pass'.steady = TRUE /\ pass'.kind = None
  BY DEF Idle, PassTyped, HomePc, AttachPc, OfOwn

\* What the queue receives are models.
LEMMA WokenFacts == Woken \subseteq Model
  BY DEF Woken, Model

NoRouteTyped == NoRoute \in RouteObject /\ NoRoute.rules = {} /\ ~NoRoute.exists

LEMMA NoRouteFacts == NoRouteTyped
  BY DEF NoRouteTyped, NoRoute, RouteObject

\* The tenant starts well typed.
LEMMA TypeInit == Init => TypeInv
  <1> SUFFICES ASSUME Init PROVE TypeInv
    OBVIOUS
  <1>1. spec \in [Model -> ModelSpec]
    <2>1. \A m \in Model : Initial[m] \in [name: Name, refs: References]
      BY VersionsAssumption
    <2> QED
      BY <2>1 DEF Init, ModelSpec
  <1>2. world \in World
    BY DEF Init, World, ProviderPhase
  <1>3. PassTyped /\ pass = Idle /\ pass.pc = "idle" /\ pass.want = {} /\ pass.served = {}
        /\ pass.kept = {} /\ pass.stale = {}
    BY DEF Init, Idle, PassTyped, HomePc, AttachPc
  <1>4. CASE Empty
    BY <1>1, <1>2, <1>3, <1>4, NoRouteFacts
    DEF Empty, Init, TypeInv, TypeOK, Content, NoContent, Policy, NoRouteTyped
  <1>5. CASE Settled
    <2> DEFINE R == Resolved(Own, spec, world)
               in == {a \in Outside : ~Excluded(a, spec, world)}
               admission == Admission(in, Cardinality(R), spec, world)
               served == UNION {Mine(a, spec, world) : a \in admission.fits}
    <2>1. R \in SUBSET Route
      BY <1>1, ResolvedFacts DEF Model
    <2>2. served \in SUBSET Route
      <3>1. admission.fits \subseteq Outside
        BY AdmissionFacts
      <3>2. \A a \in Outside : Mine(a, spec, world) \subseteq Route
        BY <1>1, MineFacts
      <3> QED
        BY <3>1, <3>2
    <2> HIDE DEF R, admission, served
    <2>3. /\ overlay = Render({}, R \cup served, TRUE) /\ running = overlay
          /\ rules = Pairs(R) /\ copies = Copied(served) /\ queue = {} /\ over = admission.over
      BY <1>5 DEF Settled, Init, R, served, admission
    <2>4. overlay.candidates \in SUBSET Candidate /\ overlay.policy \in Policy
      <3>1. R \cup served \in SUBSET Route /\ {} \in SUBSET Candidate
        BY <2>1, <2>2
      <3> QED
        BY <2>3, <3>1, RenderFacts
    <2>5. \A c \in {Content, running} : c.candidates \subseteq Candidate /\ c.policy \in Policy
      <3>1. Content = NoContent \/ Content = overlay
        BY DEF Content
      <3>2. NoContent.candidates \in SUBSET Candidate /\ NoContent.policy \in Policy
        BY DEF NoContent, Policy
      <3> QED
        BY <2>3, <2>4, <3>1, <3>2
    <2>6. rules \subseteq Own \X Provider
      <3>1. \A r \in R : r.model \in Own
        BY <1>1, ResolvedFacts DEF Model, R
      <3> QED
        BY <2>1, <2>3, <3>1 DEF Pairs, Route
    <2>7. route \in [Outside -> RouteObject]
      <3> DEFINE M(a) == Mine(a, spec, world)
                 O(a) == [exists |-> TRUE, verdict |-> "accepted",
                          rules |-> {r.provider : r \in M(a)}, evidence |-> {},
                          uses |-> Copied(M(a))]
      <3>1. \A a \in Outside : M(a) \in SUBSET Route
        BY <1>1, MineFacts
      <3>2. \A a \in Outside : O(a) \in RouteObject
        <4> TAKE a \in Outside
        <4>1. {r.provider : r \in M(a)} \in SUBSET Provider /\ Copied(M(a)) \in SUBSET Provider
          BY <3>1, CopiedFacts DEF Route
        <4> QED
          BY <4>1 DEF RouteObject
      <3>3. route = [a \in Outside |-> IF a \notin in THEN NoRoute ELSE O(a)]
        BY <1>5 DEF Settled
      <3> HIDE DEF O, in
      <3> QED
        BY <3>2, <3>3, NoRouteFacts DEF NoRouteTyped
    <2>8. copies \subseteq Provider
      BY <2>2, <2>3, CopiedFacts
    <2>9. over \subseteq Outside
      BY <2>3, AdmissionFacts DEF admission
    <2> QED
      BY <1>1, <1>2, <1>3, <2>3, <2>5, <2>6, <2>7, <2>8, <2>9 DEF TypeInv, TypeOK
  <1> QED
    BY <1>4, <1>5 DEF Init

\* A home pass decides on routes of own models or keeps candidates of theirs.
LEMMA HomeStartType == ASSUME TypeInv, NEW m \in Own, HomeStart(m) PROVE TypeInv'
  <1> DEFINE kind == Decision(m, world)
             R == Resolved(OwnLive(spec), spec, world)
             want == IF kind = "publish" THEN Without(R, Rejected(R)) ELSE {}
             keep == OwnLive(spec) \ PolicyExcluded(world)
             kept == IF kind = "exclude"
                     THEN {c \in Preserved : c.model \notin PolicyExcluded(world)} ELSE {}
             admission == Admission(Accepted, Cardinality(want) + Cardinality(kept), spec, world)
             served == ServedRoutes(admission, copies, spec, world)
  <1>1. /\ pass' = [pc |-> "write", model |-> m, kind |-> kind,
                    translation |-> world.translation, want |-> want, kept |-> kept,
                    keep |-> keep, served |-> served, over |-> admission.over, stale |-> {},
                    retain |-> FALSE, deleting |-> (spec[m].life = "deleting"), steady |-> TRUE]
        /\ queue' = queue \ {m}
        /\ UNCHANGED <<outside, overlay, drain, rules, route, copies, over>>
    BY DEF HomeStart, Idle
  <1>2. want \in SUBSET Route /\ kept \in SUBSET Candidate /\ admission.fits \subseteq Outside
        /\ admission.over \subseteq Outside
    BY StateFacts, ResolvedFacts, AdmissionFacts DEF TypeInv, TypeOK, Without
  <1>3. OfOwn(want)
    BY StateFacts, ResolvedFacts DEF TypeInv, TypeOK, Without, OfOwn
  <1>4. served \in SUBSET Route
    BY <1>2, ServedFacts DEF TypeInv, TypeOK
  <1> HIDE DEF kind, want, keep, kept, admission, served
  <1>5. PassTyped' /\ pass'.pc = "write" /\ pass'.kept = kept /\ pass'.stale = {}
    BY <1>1, <1>2, <1>3, <1>4 DEF PassTyped, HomePc, AttachPc, OfOwn
  <1> QED
    BY <1>1, <1>2, <1>4, <1>5
    DEF TypeInv, TypeOK, PassTyped, outside, Content, HomePc

\* The next step of a pass, and its end.
LEMMA ContinueType ==
    ASSUME TypeInv, NEW next, Continue(next)
    PROVE  /\ pass' = [pass EXCEPT !.pc = next] /\ queue' \subseteq Model /\ pass'.pc = next
           /\ pass'.want = pass.want /\ pass'.kept = pass.kept /\ pass'.served = pass.served
           /\ pass'.stale = pass.stale /\ pass'.over = pass.over /\ pass'.model = pass.model
           /\ pass'.kind = pass.kind /\ pass'.translation = pass.translation
           /\ pass'.steady = pass.steady
           /\ (next \in HomePc /\ pass.pc \in HomePc) \/ (next \in AttachPc /\ pass.pc \in AttachPc)
                => PassTyped'
  <1>1. pass' = [pc |-> next, model |-> pass.model, kind |-> pass.kind,
               translation |-> pass.translation, want |-> pass.want, kept |-> pass.kept,
               keep |-> pass.keep, served |-> pass.served, over |-> pass.over,
               stale |-> pass.stale, retain |-> pass.retain, deleting |-> pass.deleting,
               steady |-> pass.steady]
    BY DEF Continue, TypeInv, PassTyped
  <1> QED
    BY <1>1, WokenFacts DEF Continue, TypeInv, TypeOK, PassTyped, HomePc, AttachPc, OfOwn

LEMMA EndType ==
    ASSUME TypeInv, Return \/ Leave \/ (Retry /\ pass.pc # "idle")
    PROVE  pass' = Idle /\ queue' \subseteq Model
  <1>1. pass.pc # "idle" => pass.model \in Model
    BY DEF TypeInv, TypeOK, PassTyped, Model
  <1> QED
    BY <1>1, WokenFacts DEF Return, Leave, Retry, TypeInv, TypeOK

\* What TypeInv' needs when the pass has ended.
LEMMA IdleType ==
    ASSUME pass' = Idle, queue' \subseteq Model, spec' \in [Model -> ModelSpec], world' \in World,
           \A c \in {Content', running'} : c.candidates \subseteq Candidate /\ c.policy \in Policy,
           rules' \subseteq Own \X Provider, route' \in [Outside -> RouteObject],
           copies' \subseteq Provider, over' \subseteq Outside
    PROVE  TypeInv'
  BY IdleTyped DEF TypeInv, TypeOK

\* A published document, or none, is what the next state reads.
LEMMA ContentType ==
    ASSUME \/ overlay' = None
           \/ overlay'.candidates \subseteq Candidate /\ overlay'.policy \in Policy
           \/ overlay' = overlay /\ Content.candidates \subseteq Candidate /\ Content.policy \in Policy
    PROVE  Content'.candidates \subseteq Candidate /\ Content'.policy \in Policy
  <1>1. NoContent.candidates \subseteq Candidate /\ NoContent.policy \in Policy
    BY DEF NoContent, Policy
  <1>2. Content' = IF overlay' = None THEN NoContent ELSE overlay'
    BY DEF Content, NoContent
  <1>3. Content = IF overlay = None THEN NoContent ELSE overlay
    BY DEF Content
  <1> QED
    BY <1>1, <1>2, <1>3

LEMMA GoneType ==
    ASSUME TypeInv, NEW m \in Model, Gone(m)
    PROVE  spec' \in [Model -> ModelSpec]
  <1>1. spec[m] \in ModelSpec /\ spec \in [Model -> ModelSpec]
    BY DEF TypeInv, TypeOK
  <1>2. [spec[m] EXCEPT !.life = "gone"] \in ModelSpec
    BY <1>1 DEF ModelSpec
  <1>3. spec' = [spec EXCEPT ![m] = [spec[m] EXCEPT !.life = "gone"]]
    BY DEF Gone
  <1> QED
    BY <1>1, <1>2, <1>3

LEMMA HomeWriteType == TypeInv /\ HomeWrite => TypeInv'
  <1> SUFFICES ASSUME TypeInv, HomeWrite PROVE TypeInv'
    OBVIOUS
  <1>1. /\ route' \in [Outside -> RouteObject] /\ pass.pc = "write"
        /\ UNCHANGED <<outside, overlay, drain, copies, over>>
    BY PersistedFacts DEF HomeWrite
  <1>2. rules' \subseteq Own \X Provider
    <2>1. \A r \in pass.want : <<r.model, r.provider>> \in Own \X Provider
      BY <1>1 DEF TypeInv, PassTyped, Route, OfOwn, HomePc
    <2>2. \A c \in Content.candidates : c.model \in Own => <<c.model, c.provider>> \in Own \X Provider
      BY StateFacts DEF Candidate
    <2>3. PICK S : rules' = S /\ \/ S = rules \cup Pairs(pass.want)
                                       \cup Pairs({c \in Content.candidates : c.model \in Own})
                                       /\ pass.kind = "publish"
                                 \/ S \subseteq rules
      BY DEF HomeWrite
    <2>4. rules \subseteq Own \X Provider
      BY DEF TypeInv, TypeOK
    <2> QED
      BY <1>1, <2>1, <2>2, <2>3, <2>4 DEF Pairs
  <1>3. spec' \in [Model -> ModelSpec] /\ world' \in World /\ copies' \subseteq Provider
        /\ over' \subseteq Outside
        /\ \A c \in {Content', running'} : c.candidates \subseteq Candidate /\ c.policy \in Policy
    BY <1>1, ContentType, StateFacts DEF TypeInv, TypeOK, outside
  <1>4. CASE Blocked(View) # {}
    BY <1>1, <1>2, <1>3, <1>4, EndType, IdleType DEF HomeWrite
  <1>5. CASE Blocked(View) = {}
    <2> DEFINE b == Withdrawing(View) # {}
    <2>1. pass' = [pc |-> "publish", model |-> pass.model, kind |-> pass.kind,
               translation |-> pass.translation, want |-> pass.want, kept |-> pass.kept,
               keep |-> pass.keep, served |-> pass.served, over |-> pass.over,
               stale |-> pass.stale, retain |-> b, deleting |-> pass.deleting,
               steady |-> pass.steady]
      <3>1. pass' = [[pass EXCEPT !.pc = "publish"] EXCEPT !.retain = b]
        BY <1>5 DEF HomeWrite
      <3> HIDE DEF b
      <3> QED
        BY <3>1 DEF TypeInv, PassTyped
    <2> HIDE DEF b
    <2>2. queue' \subseteq Model
      BY <1>5, WokenFacts DEF HomeWrite, TypeInv, TypeOK
    <2>3. PassTyped' /\ pass'.pc = "publish" /\ pass'.kept = pass.kept /\ pass'.stale = pass.stale
      BY <1>1, <2>1 DEF TypeInv, PassTyped, HomePc, AttachPc, OfOwn
    <2> QED
      BY <1>1, <1>2, <1>3, <2>1, <2>2, <2>3 DEF TypeInv, TypeOK, PassTyped, HomePc
  <1> QED
    BY <1>4, <1>5

\* The document a home pass publishes.
LEMMA HomeRender ==
    ASSUME TypeInv
    PROVE  LET d == Render(pass.kept, pass.want \cup pass.served, pass.translation)
           IN  d.candidates \subseteq Candidate /\ d.policy \in Policy
  <1>1. pass.kept \in SUBSET Candidate /\ pass.want \cup pass.served \in SUBSET Route
    BY DEF TypeInv, TypeOK, PassTyped
  <1> QED
    BY <1>1, RenderFacts

LEMMA HomePublishType == TypeInv /\ HomePublish => TypeInv'
  <1> SUFFICES ASSUME TypeInv, HomePublish PROVE TypeInv'
    OBVIOUS
  <1>1. /\ pass.pc = "publish" /\ over' = over \cup pass.over /\ pass.model \in Model
        /\ UNCHANGED <<rules, route, world, running, changes>>
    BY DEF HomePublish, TypeInv, PassTyped, HomePc, Model
  <1>2. /\ Content'.candidates \subseteq Candidate /\ Content'.policy \in Policy
        /\ copies' \subseteq Provider
    <2> DEFINE d == Render(pass.kept, pass.want \cup pass.served, pass.translation)
    <2>1. /\ overlay' = None \/ overlay' = d
          /\ \/ copies' = copies \/ \E out : copies' = Collected(out)
      BY DEF HomePublish, CleanupOverlay
    <2>2. d.candidates \subseteq Candidate /\ d.policy \in Policy
      BY HomeRender
    <2> HIDE DEF d
    <2>3. Content'.candidates \subseteq Candidate /\ Content'.policy \in Policy
      BY <2>1, <2>2, ContentType
    <2> QED
      BY <2>1, <2>3, StateFacts DEF TypeInv, TypeOK
  <1>3. spec' \in [Model -> ModelSpec]
    BY <1>1, GoneType DEF HomePublish, Leave, TypeInv, TypeOK
  <1>4. over' \subseteq Outside
    BY <1>1 DEF TypeInv, TypeOK, PassTyped
  <1>5. CASE Continue("finish")
    BY <1>1, <1>2, <1>3, <1>4, <1>5, ContinueType DEF TypeInv, TypeOK, PassTyped, HomePc
  <1>6. CASE Return \/ Retry \/ Leave
    BY <1>1, <1>2, <1>3, <1>4, <1>6, EndType, IdleType DEF TypeInv, TypeOK
  <1> QED
    BY <1>5, <1>6 DEF HomePublish

LEMMA HomeFinishType == TypeInv /\ HomeFinish => TypeInv'
  <1> SUFFICES ASSUME TypeInv, HomeFinish PROVE TypeInv'
    OBVIOUS
  <1>1. /\ pass.pc = "finish" /\ pass.model \in Model
        /\ UNCHANGED <<world, running, overlay, over, changes>>
    BY DEF HomeFinish, TypeInv, PassTyped, HomePc, Model
  <1>2. rules' \subseteq Own \X Provider
    <2>1. \A r \in pass.want : <<r.model, r.provider>> \in Own \X Provider
      BY <1>1 DEF TypeInv, PassTyped, Route, OfOwn, HomePc
    <2>2. rules' = rules \/ rules' = Pairs(pass.want)
      BY DEF HomeFinish
    <2> QED
      BY <2>1, <2>2 DEF Pairs, TypeInv, TypeOK
  <1>3. route' \in [Outside -> RouteObject]
    <2>1. route' = route \/ route' = Persisted(View)
      BY DEF HomeFinish
    <2> QED
      BY <2>1, PersistedFacts DEF TypeInv, TypeOK
  <1>4. spec' \in [Model -> ModelSpec] /\ copies' \subseteq Provider
    <2>1. /\ UNCHANGED spec \/ Gone(pass.model)
          /\ UNCHANGED copies \/ copies' = Collected(pass.over)
      BY DEF HomeFinish, Finished, Leave
    <2> QED
      BY <1>1, <2>1, GoneType, StateFacts DEF TypeInv, TypeOK
  <1>5. Return \/ Retry \/ Leave
    BY DEF HomeFinish, Finished
  <1>6. \A c \in {Content', running'} : c.candidates \subseteq Candidate /\ c.policy \in Policy
    BY <1>1, ContentType, StateFacts DEF TypeInv, TypeOK
  <1>7. pass' = Idle /\ queue' \subseteq Model
    BY <1>1, <1>5, EndType
  <1> QED
    BY <1>1, <1>2, <1>3, <1>4, <1>6, <1>7, IdleType DEF TypeInv, TypeOK

\* The first write of an attachment pass.
LEMMA AttachStartPass ==
    ASSUME TypeInv, NEW a \in Outside, AttachStart(a)
    PROVE  LET stale == Stale(a, world) IN
           /\ a \in Live(spec) /\ pass.pc = "idle"
           /\ \/ /\ Excluded(a, spec, world)
                 /\ pass' = [pc |-> IF stale = {} THEN "remove" ELSE "stage", model |-> a,
                       kind |-> "exclude", translation |-> world.translation, want |-> {},
                       kept |-> {}, keep |-> {}, served |-> {}, over |-> {}, stale |-> stale,
                       retain |-> FALSE, deleting |-> FALSE, steady |-> TRUE]
                 /\ IF stale = {} THEN UNCHANGED route ELSE Apply(a, {}, stale)
              \/ \E kind \in {"serve", "withdraw"} :
                 /\ ~Excluded(a, spec, world)
                 /\ kind = "serve" => a \in Accepted
                 /\ kind = "withdraw" /\ a \in Accepted => a \in over'
                 /\ pass' = [pc |-> IF kind = "serve" THEN "copy" ELSE "withdraw",
                       model |-> a, kind |-> kind,
                       translation |-> world.translation, want |-> Mine(a, spec, world),
                       kept |-> {}, keep |-> {}, served |-> {}, over |-> {}, stale |-> stale,
                       retain |-> FALSE, deleting |-> FALSE, steady |-> TRUE]
                 /\ Apply(a, Mine(a, spec, world), stale)
           /\ queue' = (queue \ {a}) \cup Woken
           /\ over \subseteq over' /\ over' \subseteq over \cup {a}
           /\ UNCHANGED <<outside, overlay, drain, rules, copies>>
  <1> DEFINE admission == Admission(Accepted, Cardinality(Preserved), spec, world)
  <1>1. over' = over \cup ({a} \cap admission.over)
    BY DEF AttachStart
  <1>2. CASE Excluded(a, spec, world)
    <2> HIDE DEF admission
    <2> QED
      BY <1>1, <1>2 DEF AttachStart, Exclude, Idle
  <1>3. CASE ~Excluded(a, spec, world)
    <2>1. PICK kind \in {"serve", "withdraw"} :
            /\ Attach(a, kind, Stale(a, world))
            /\ kind = "serve" => a \in Accepted
            /\ kind = "withdraw" /\ a \in Accepted => a \in admission.over
      BY <1>3 DEF AttachStart
    <2> HIDE DEF admission
    <2> QED
      BY <1>1, <1>3, <2>1 DEF AttachStart, Attach, Idle
  <1> QED
    BY <1>2, <1>3

LEMMA AttachStartType == ASSUME TypeInv, NEW a \in Outside, AttachStart(a) PROVE TypeInv'
  <1>1. /\ Mine(a, spec, world) \in SUBSET Route /\ Stale(a, world) \in SUBSET Provider
        /\ {} \in SUBSET Route
    BY MineFacts, StateFacts DEF TypeInv, TypeOK
  <1>2. route' \in [Outside -> RouteObject]
    BY <1>1, AttachStartPass, ApplyFacts DEF TypeInv, TypeOK
  <1>3. PICK next, kind, want, stale :
          /\ next \in AttachPc /\ want \in SUBSET Route /\ stale \in SUBSET Provider
          /\ pass' = [pc |-> next, model |-> a, kind |-> kind, translation |-> world.translation,
                      want |-> want, kept |-> {}, keep |-> {}, served |-> {}, over |-> {},
                      stale |-> stale, retain |-> FALSE, deleting |-> FALSE, steady |-> TRUE]
    <2>1. \A next \in {"copy", "withdraw", "remove", "stage"} : next \in AttachPc
      BY DEF AttachPc
    <2> QED
      BY <1>1, <2>1, AttachStartPass
  <1>4. /\ PassTyped' /\ pass'.pc = next /\ pass'.kept = {} /\ pass'.stale = stale
        /\ pass'.want = want /\ pass'.served = {}
    BY <1>3 DEF PassTyped, HomePc, AttachPc
  <1>5. /\ UNCHANGED <<outside, overlay, drain, rules, copies>> /\ over' \subseteq Outside
        /\ queue' = (queue \ {a}) \cup Woken
    BY AttachStartPass DEF TypeInv, TypeOK
  <1>6. \A c \in {Content', running'} : c.candidates \subseteq Candidate /\ c.policy \in Policy
    BY <1>5, ContentType, StateFacts DEF TypeInv, TypeOK, outside
  <1> QED
    BY <1>2, <1>3, <1>4, <1>5, <1>6, WokenFacts DEF TypeInv, TypeOK, outside

\* The steps of an attachment pass that write neither specs nor the overlay.
LEMMA AttachStepType ==
    ASSUME TypeInv, CopyCredentials \/ AttachDrain \/ AttachPrune \/ AttachCollect \/ AttachRemove
    PROVE  TypeInv'
  <1>1. /\ pass.pc \in AttachPc /\ pass.model \in Outside
        /\ UNCHANGED <<outside, overlay, rules>>
    BY DEF CopyCredentials, AttachDrain, AttachPrune, AttachCollect, AttachRemove, AttachPc,
       TypeInv, PassTyped
  <1>2. \A c \in {Content', running'} : c.candidates \subseteq Candidate /\ c.policy \in Policy
    BY <1>1, ContentType, StateFacts DEF TypeInv, TypeOK, outside
  <1>3. copies' \subseteq Provider
    <2>1. Copied(pass.want) \subseteq Provider
      BY CopiedFacts DEF TypeInv, PassTyped
    <2> QED
      BY <2>1, StateFacts DEF CopyCredentials, AttachDrain, AttachPrune, AttachCollect,
         AttachRemove, TypeInv, TypeOK
  <1>4. over' \subseteq Outside
    BY DEF CopyCredentials, AttachDrain, AttachPrune, AttachCollect, AttachRemove, TypeInv, TypeOK
  <1>5. route' \in [Outside -> RouteObject]
    <2>1. CASE AttachPrune
      <3>1. pass.want \in SUBSET Route /\ {} \in SUBSET Provider
        BY DEF TypeInv, PassTyped
      <3> QED
        BY <1>1, <2>1, <3>1, ApplyFacts DEF AttachPrune
    <2>2. CASE AttachRemove
      BY <1>1, <2>2, NoRouteFacts DEF AttachRemove, TypeInv, TypeOK, NoRouteTyped
    <2>3. CASE CopyCredentials \/ AttachDrain \/ AttachCollect
      BY <2>3 DEF CopyCredentials, AttachDrain, AttachCollect, TypeInv, TypeOK
    <2> QED
      BY <2>1, <2>2, <2>3
  <1>6. \/ Return \/ (Retry /\ pass.pc # "idle")
        \/ \E next \in {"stage", "prune", "remove", "republish", "depublish"} : Continue(next)
    BY <1>1 DEF CopyCredentials, AttachDrain, AttachPrune, AttachCollect, AttachRemove, AttachPc
  <1>7. CASE Return \/ (Retry /\ pass.pc # "idle")
    BY <1>1, <1>2, <1>3, <1>4, <1>5, <1>7, EndType, IdleType DEF TypeInv, TypeOK, outside
  <1>8. ASSUME NEW next \in {"stage", "prune", "remove", "republish", "depublish"}, Continue(next)
        PROVE  TypeInv'
    <2>1. next \in AttachPc
      BY DEF AttachPc
    <2>2. /\ PassTyped' /\ queue' \subseteq Model /\ pass'.pc = next /\ pass'.kept = pass.kept
          /\ pass'.want = pass.want /\ pass'.served = pass.served /\ pass'.stale = pass.stale
      BY <1>1, <1>8, <2>1, ContinueType
    <2> QED
      BY <1>1, <1>2, <1>3, <1>4, <1>5, <2>1, <2>2 DEF TypeInv, TypeOK, outside
  <1> QED
    BY <1>6, <1>7, <1>8

\* What follows a publication of an attachment pass.
LEMMA PublishedType ==
    ASSUME TypeInv, pass.pc \in {"stage", "withdraw", "republish", "depublish"},
           NEW R \in SUBSET Route, NEW excess \in SUBSET Outside, Published(R, excess)
    PROVE  /\ queue' \subseteq Model
           /\ \/ pass' = Idle
              \/ /\ AfterPublish \in {"drain", "collect"}
                 /\ pass' = [pc |-> AfterPublish, model |-> pass.model, kind |-> pass.kind,
                     translation |-> pass.translation, want |-> pass.want, kept |-> pass.kept,
                     keep |-> pass.keep, served |-> R, over |-> excess, stale |-> pass.stale,
                     retain |-> pass.retain, deleting |-> pass.deleting, steady |-> pass.steady]
  <1>1. queue' \subseteq Model
    BY WokenFacts DEF Published, TypeInv, TypeOK
  <1>2. CASE AfterPublish = "idle"
    BY <1>1, <1>2 DEF Published
  <1>3. CASE AfterPublish # "idle"
    <2>1. AfterPublish \in {"drain", "collect"}
      BY <1>3 DEF AfterPublish
    <2>2. PICK n : n = AfterPublish
      OBVIOUS
    <2>3. pass' = [[[pass EXCEPT !.pc = n] EXCEPT !.served = R] EXCEPT !.over = excess]
      BY <1>3, <2>2 DEF Published
    <2>4. [pass EXCEPT !.pc = n] =
              [pc |-> n, model |-> pass.model, kind |-> pass.kind,
               translation |-> pass.translation, want |-> pass.want, kept |-> pass.kept,
               keep |-> pass.keep, served |-> pass.served, over |-> pass.over,
               stale |-> pass.stale, retain |-> pass.retain, deleting |-> pass.deleting,
               steady |-> pass.steady]
      BY DEF TypeInv, PassTyped
    <2>5. pass' = [pc |-> n, model |-> pass.model, kind |-> pass.kind,
               translation |-> pass.translation, want |-> pass.want, kept |-> pass.kept,
               keep |-> pass.keep, served |-> R, over |-> excess,
               stale |-> pass.stale, retain |-> pass.retain, deleting |-> pass.deleting,
               steady |-> pass.steady]
      BY <2>3, <2>4
    <2> QED
      BY <1>1, <2>1, <2>2, <2>5
  <1> QED
    BY <1>2, <1>3

\* The routes an attachment pass publishes beside the preserved candidates.
AttachedRoutes ==
    ServedRoutes(Admission(Accepted, Cardinality(Preserved), spec, View), copies, spec, View)

LEMMA AttachedRoutesFacts ==
    ASSUME TypeInv
    PROVE  /\ AttachedRoutes \in SUBSET Route /\ OfOutside(AttachedRoutes)
           /\ Functional(AttachedRoutes)
           /\ \A r \in AttachedRoutes : r \in Mine(r.model, spec, View)
  <1>1. Admission(Accepted, Cardinality(Preserved), spec, View).fits \subseteq Outside
    BY AdmissionFacts
  <1> QED
    BY <1>1, ServedFacts DEF AttachedRoutes, TypeInv, TypeOK

\* The three outcomes of a publication by an attachment pass.
LEMMA AttachPublishCases ==
    ASSUME TypeInv, AttachPublish
    PROVE  LET admission == Admission(Accepted, Cardinality(Preserved), spec, View)
               d == Render(Preserved, AttachedRoutes, pass.translation)
           IN
           /\ pass.pc \in {"stage", "withdraw", "republish", "depublish"}
           /\ UNCHANGED <<outside, rules>>
           /\ \/ /\ world.translation # pass.translation
                 /\ UNCHANGED <<overlay, drain, route, copies, over>> /\ Published({}, {})
              \/ /\ world.translation = pass.translation
                 /\ route' = Persisted(View) /\ UNCHANGED <<overlay, drain, copies, over>> /\ Retry
              \/ /\ world.translation = pass.translation
                 /\ route' = Persisted(View) /\ over' = over \cup admission.over
                 /\ \/ CleanupOverlay
                    \/ overlay' = d /\ UNCHANGED <<drain, copies>>
                 /\ Published(AttachedRoutes, admission.over)
  BY DEF AttachPublish, AttachedRoutes, Publish

LEMMA AttachPublishType == TypeInv /\ AttachPublish => TypeInv'
  <1> SUFFICES ASSUME TypeInv, AttachPublish PROVE TypeInv'
    OBVIOUS
  <1> DEFINE admission == Admission(Accepted, Cardinality(Preserved), spec, View)
             d == Render(Preserved, AttachedRoutes, pass.translation)
  <1>1. /\ pass.pc \in {"stage", "withdraw", "republish", "depublish"}
        /\ UNCHANGED <<outside, rules>>
    BY AttachPublishCases
  <1>2. admission.over \in SUBSET Outside /\ AttachedRoutes \in SUBSET Route
    BY AdmissionFacts, AttachedRoutesFacts
  <1>3. d.candidates \subseteq Candidate /\ d.policy \in Policy
    BY <1>2, StateFacts, RenderFacts
  <1>4. /\ overlay' = None \/ overlay' = d \/ overlay' = overlay
        /\ \/ copies' = copies \/ \E out : copies' = Collected(out)
        /\ over' = over \/ over' = over \cup admission.over
        /\ route' = route \/ route' = Persisted(View)
    BY AttachPublishCases DEF CleanupOverlay
  <1> HIDE DEF d, admission
  <1>5. \A c \in {Content', running'} : c.candidates \subseteq Candidate /\ c.policy \in Policy
    BY <1>1, <1>3, <1>4, ContentType, StateFacts DEF TypeInv, TypeOK, outside
  <1>6. copies' \subseteq Provider /\ over' \subseteq Outside /\ route' \in [Outside -> RouteObject]
    BY <1>2, <1>4, StateFacts, PersistedFacts DEF TypeInv, TypeOK
  <1>7. CASE Retry
    BY <1>1, <1>5, <1>6, <1>7, EndType, IdleType DEF TypeInv, TypeOK, outside
  <1>8. ASSUME NEW R \in SUBSET Route, NEW excess \in SUBSET Outside, Published(R, excess)
        PROVE  TypeInv'
    <2>1. queue' \subseteq Model
      BY <1>1, <1>8, PublishedType
    <2>2. CASE pass' = Idle
      BY <1>1, <1>5, <1>6, <2>1, <2>2, IdleType DEF TypeInv, TypeOK, outside
    <2>3. CASE pass' # Idle
      <3>1. PICK next \in {"drain", "collect"} :
              pass' = [pc |-> next, model |-> pass.model, kind |-> pass.kind,
                     translation |-> pass.translation, want |-> pass.want, kept |-> pass.kept,
                     keep |-> pass.keep, served |-> R, over |-> excess, stale |-> pass.stale,
                     retain |-> pass.retain, deleting |-> pass.deleting, steady |-> pass.steady]
        BY <1>1, <1>8, <2>3, PublishedType
      <3>2. /\ PassTyped' /\ pass'.pc = next /\ pass'.kept = pass.kept
            /\ pass'.want = pass.want /\ pass'.served = R /\ pass'.stale = pass.stale
        BY <1>1, <1>8, <3>1 DEF TypeInv, PassTyped, HomePc, AttachPc
      <3>3. next \in AttachPc
        BY DEF AttachPc
      <3> QED
        BY <1>1, <1>5, <1>6, <1>8, <2>1, <3>2, <3>3 DEF TypeInv, TypeOK, PassTyped, outside
    <2> QED
      BY <2>2, <2>3
  <1>9. {} \in SUBSET Route /\ {} \in SUBSET Outside
    OBVIOUS
  <1> QED
    BY <1>2, <1>7, <1>8, <1>9, AttachPublishCases DEF admission

\* A change by someone else marks a running pass and wakes models.
SteadyOff == pass' = [pass EXCEPT !.steady = pass.pc = "idle"]

LEMMA SteadyFacts ==
    ASSUME TypeInv, SteadyOff
    PROVE  /\ PassTyped' /\ pass'.pc = pass.pc /\ pass'.want = pass.want
           /\ pass'.kept = pass.kept /\ pass'.served = pass.served /\ pass'.stale = pass.stale
           /\ pass'.model = pass.model /\ pass'.kind = pass.kind
           /\ (pass.pc # "idle" => ~pass'.steady)
  <1> DEFINE b == pass.pc = "idle"
  <1>1. pass' = [pass EXCEPT !.steady = b]
    BY DEF SteadyOff
  <1>2. b = FALSE \/ pass.pc = "idle"
    OBVIOUS
  <1> HIDE DEF b
  <1>3. pass' = [pc |-> pass.pc, model |-> pass.model, kind |-> pass.kind,
               translation |-> pass.translation, want |-> pass.want, kept |-> pass.kept,
               keep |-> pass.keep, served |-> pass.served, over |-> pass.over,
               stale |-> pass.stale, retain |-> pass.retain, deleting |-> pass.deleting,
               steady |-> b]
    BY <1>1 DEF TypeInv, PassTyped
  <1>4. pass.pc # "idle" => pass'.steady = FALSE
    BY <1>2, <1>3
  <1>5. /\ PassTyped' /\ pass'.pc = pass.pc /\ pass'.want = pass.want
        /\ pass'.kept = pass.kept /\ pass'.served = pass.served /\ pass'.stale = pass.stale
        /\ pass'.model = pass.model /\ pass'.kind = pass.kind
    BY <1>3 DEF TypeInv, PassTyped, OfOwn
  <1> QED
    BY <1>4, <1>5

LEMMA AttachReleaseType == ASSUME TypeInv, NEW a \in Outside, AttachRelease(a) PROVE TypeInv'
  <1>1. /\ spec' \in [Model -> ModelSpec]
        /\ UNCHANGED <<world, overlay, running, drain, rules, pass, over, changes>>
    BY GoneType, StateFacts DEF AttachRelease
  <1>2. copies' \subseteq Provider /\ queue' \subseteq Model
    BY StateFacts DEF AttachRelease, TypeInv, TypeOK
  <1>3. route' \in [Outside -> RouteObject]
    BY NoRouteFacts DEF AttachRelease, TypeInv, TypeOK, NoRouteTyped
  <1>4. PassTyped'
    BY <1>1 DEF TypeInv, PassTyped, OfOwn
  <1>5. \A c \in {Content', running'} : c.candidates \subseteq Candidate /\ c.policy \in Policy
    BY <1>1, ContentType, StateFacts DEF TypeInv, TypeOK
  <1> QED
    BY <1>1, <1>2, <1>3, <1>4, <1>5 DEF TypeInv, TypeOK

\* What a change of a spec, of the world or of a route must still show.
LEMMA EditType ==
    ASSUME TypeInv, SteadyOff, queue' \subseteq Model,
           spec' \in [Model -> ModelSpec], world' \in World, route' \in [Outside -> RouteObject],
           UNCHANGED <<overlay, running, drain, rules, copies, over>>
    PROVE  TypeInv'
  <1>1. \A c \in {Content', running'} : c.candidates \subseteq Candidate /\ c.policy \in Policy
    BY ContentType, StateFacts DEF TypeInv, TypeOK
  <1> QED
    BY <1>1, SteadyFacts DEF TypeInv, TypeOK, PassTyped

LEMMA EditSpecType ==
    ASSUME TypeInv, NEW m \in Model, EditModel(m) \/ DeleteModel(m)
    PROVE  TypeInv'
  <1>1. spec \in [Model -> ModelSpec] /\ spec[m] \in ModelSpec
    BY DEF TypeInv, TypeOK
  <1>2. spec' \in [Model -> ModelSpec]
    <2>1. CASE EditModel(m)
      <3>1. PICK v \in Version[m] : spec' = [spec EXCEPT ![m].name = v.name, ![m].refs = v.refs]
        BY <2>1 DEF EditModel
      <3>2. v.name \in Name /\ v.refs \in References
        <4>1. v \in [name: Name, refs: References]
          BY VersionsAssumption
        <4> QED
          BY <4>1
      <3>3. spec' = [[spec EXCEPT ![m].name = v.name] EXCEPT ![m].refs = v.refs]
        BY <3>1
      <3>4. [spec EXCEPT ![m].name = v.name] \in [Model -> ModelSpec]
        <4>1. [spec[m] EXCEPT !.name = v.name] \in ModelSpec
          BY <1>1, <3>2 DEF ModelSpec
        <4> QED
          BY <1>1, <4>1
      <3> DEFINE s == [spec EXCEPT ![m].name = v.name]
      <3>5. s[m] \in ModelSpec
        BY <3>4
      <3>6. [s[m] EXCEPT !.refs = v.refs] \in ModelSpec
        BY <3>2, <3>5 DEF ModelSpec
      <3> QED
        BY <3>3, <3>4, <3>6
    <2>2. CASE DeleteModel(m)
      <3>1. [spec[m] EXCEPT !.life = "deleting"] \in ModelSpec
        BY <1>1 DEF ModelSpec
      <3> QED
        BY <1>1, <2>2, <3>1 DEF DeleteModel
    <2> QED
      BY <2>1, <2>2
  <1>3. /\ SteadyOff /\ UNCHANGED <<world, route, overlay, running, drain, rules, copies, over>>
    BY DEF EditModel, DeleteModel, Change, SteadyOff
  <1>4. queue' \subseteq Model
    BY DEF EditModel, DeleteModel, Change, SameName, TypeInv, TypeOK, Model
  <1> QED
    BY <1>2, <1>3, <1>4, EditType DEF TypeInv, TypeOK

LEMMA EditWorldType ==
    ASSUME TypeInv, \/ ChangeTranslation
                    \/ \E p \in Provider : ChangeProvider(p)
                    \/ \E p \in Provider, n \in Namespace : ChangeGrant(n, p)
    PROVE  TypeInv'
  <1>1. /\ world \in World
        /\ world = [phase |-> world.phase, granted |-> world.granted,
                    translation |-> world.translation]
        /\ world.phase \in [Provider -> ProviderPhase] /\ world.translation \in BOOLEAN
        /\ world.granted \in SUBSET (Namespace \X Provider)
    BY DEF TypeInv, TypeOK, World
  <1>2. world' \in World
    <2>1. CASE ChangeTranslation
      <3>1. PICK b \in BOOLEAN : b = ~world.translation
        OBVIOUS
      <3>2. world' = [world EXCEPT !.translation = b]
        BY <2>1, <3>1 DEF ChangeTranslation
      <3> QED
        BY <1>1, <3>2 DEF World
    <2>2. CASE \E p \in Provider : ChangeProvider(p)
      <3>1. PICK p \in Provider, f \in ProviderPhase : world' = [world EXCEPT !.phase[p] = f]
        BY <2>2 DEF ChangeProvider
      <3>2. [world.phase EXCEPT ![p] = f] \in [Provider -> ProviderPhase]
        BY <1>1
      <3>3. world' = [world EXCEPT !.phase = [world.phase EXCEPT ![p] = f]]
        BY <3>1
      <3> QED
        BY <1>1, <3>2, <3>3 DEF World
    <2>3. CASE \E p \in Provider, n \in Namespace : ChangeGrant(n, p)
      <3>1. PICK g \in SUBSET (Namespace \X Provider) : world' = [world EXCEPT !.granted = g]
        <4>1. PICK p \in Provider, n \in Namespace : ChangeGrant(n, p)
          BY <2>3
        <4> DEFINE g == IF <<n, p>> \in world.granted THEN world.granted \ {<<n, p>>}
                        ELSE world.granted \cup {<<n, p>>}
        <4>2. g \in SUBSET (Namespace \X Provider)
          BY <1>1
        <4>3. world' = [world EXCEPT !.granted = g]
          BY <4>1 DEF ChangeGrant
        <4> HIDE DEF g
        <4> QED
          BY <4>2, <4>3
      <3> QED
        BY <1>1, <3>1 DEF World
    <2> QED
      BY <2>1, <2>2, <2>3
  <1>3. SteadyOff /\ UNCHANGED <<spec, route, overlay, running, drain, rules, copies, over>>
    BY DEF ChangeTranslation, ChangeProvider, ChangeGrant, Change, SteadyOff
  <1>4. queue' \subseteq Model
    BY DEF ChangeTranslation, ChangeProvider, ChangeGrant, Change, Referencing, TypeInv, TypeOK
  <1> QED
    BY <1>2, <1>3, <1>4, EditType DEF TypeInv, TypeOK

LEMMA VerdictFacts ==
    ASSUME TypeInv, NEW a \in Outside, Accept(a) \/ Refuse(a)
    PROVE  /\ SteadyOff /\ queue' \subseteq Model
           /\ UNCHANGED <<spec, world, overlay, running, drain, rules, copies, over>>
           /\ route' \in [Outside -> RouteObject]
           /\ \A b \in Outside : route'[b].rules = route[b].rules
  <1>1. route \in [Outside -> RouteObject] /\ route[a] \in RouteObject
    BY DEF TypeInv, TypeOK
  <1>2. PICK v \in {"accepted", "refused"} : route' = [route EXCEPT ![a].verdict = v]
    BY DEF Accept, Refuse
  <1>3. /\ [route[a] EXCEPT !.verdict = v] \in RouteObject
        /\ [route[a] EXCEPT !.verdict = v].rules = route[a].rules
    BY <1>1 DEF RouteObject
  <1>4. route' = [route EXCEPT ![a] = [route[a] EXCEPT !.verdict = v]]
    BY <1>2
  <1>5. /\ SteadyOff /\ queue' \subseteq Model
        /\ UNCHANGED <<spec, world, overlay, running, drain, rules, copies, over>>
    BY DEF Accept, Refuse, Change, SteadyOff, outside, TypeInv, TypeOK, Model
  <1> QED
    BY <1>1, <1>3, <1>4, <1>5

\* One step of anybody.
LEMMA TypeStep == TypeInv /\ [Next]_vars => TypeInv'
  <1> SUFFICES ASSUME TypeInv, [Next]_vars PROVE TypeInv'
    OBVIOUS
  <1>1. CASE UNCHANGED vars
    <2>1. Content' = Content
      BY <1>1 DEF vars, Content, NoContent
    <2> QED
      BY <1>1, <2>1 DEF TypeInv, TypeOK, PassTyped, vars
  <1>2. CASE Home
    BY <1>2, HomeStartType, HomeWriteType, HomePublishType, HomeFinishType DEF Home
  <1>3. CASE Attachment
    BY <1>3, AttachStartType, AttachReleaseType, AttachStepType, AttachPublishType DEF Attachment
  <1>4. CASE Fail
    <2>1. /\ pass.pc # "idle" /\ Retry
          /\ UNCHANGED <<spec, world, running, overlay, drain, rules, route, copies, over>>
      BY <1>4 DEF Fail
    <2>2. pass' = Idle /\ queue' \subseteq Model
      BY <2>1, EndType
    <2>3. \A c \in {Content', running'} : c.candidates \subseteq Candidate /\ c.policy \in Policy
      BY <2>1, ContentType, StateFacts DEF TypeInv, TypeOK
    <2> QED
      BY <2>1, <2>2, <2>3, IdleType DEF TypeInv, TypeOK
  <1>5. CASE Roll
    <2>1. running' = Content
          /\ UNCHANGED <<spec, world, overlay, drain, rules, route, copies, queue, pass, over>>
      BY <1>5 DEF Roll
    <2>2. \A c \in {Content', running'} : c.candidates \subseteq Candidate /\ c.policy \in Policy
      BY <2>1, ContentType, StateFacts
    <2> QED
      BY <2>1, <2>2 DEF TypeInv, TypeOK, PassTyped
  <1>6. CASE \E m \in Model : EditModel(m) \/ DeleteModel(m)
    BY <1>6, EditSpecType
  <1>7. CASE \/ ChangeTranslation
             \/ \E p \in Provider : ChangeProvider(p) \/ \E n \in Namespace : ChangeGrant(n, p)
    BY <1>7, EditWorldType
  <1>8. CASE \E a \in Outside : Accept(a) \/ Refuse(a)
    BY <1>8, VerdictFacts, EditType DEF TypeInv, TypeOK
  <1> QED
    BY <1>1, <1>2, <1>3, <1>4, <1>5, <1>6, <1>7, <1>8 DEF Next, Environment

\* Every reachable state is well typed: routes, rules, candidates and what the
\* pass carries between its calls are over the tenant's models, providers and
\* names, for any constants.
THEOREM TypeCorrect == Spec => []TypeOK
  <1>1. TypeInv => TypeOK
    BY DEF TypeInv
  <1> QED
    BY <1>1, TypeInit, TypeStep, PTL DEF Spec

-----------------------------------------------------------------------------
(***************************************************************************)
(* The contract of the ExtProc.                                            *)
(***************************************************************************)
\* Two functional sets of different models are functional together.
LEMMA FunctionalUnion ==
    ASSUME NEW S, NEW T, Functional(S), Functional(T), OfOwn(S), OfOutside(T)
    PROVE  Functional(S \cup T)
  BY Disjoint DEF Functional, OfOwn, OfOutside

LEMMA NoContentWellFormed == WellFormed(NoContent)
  BY DEF WellFormed, NoContent, Functional

LEMMA ContractInit == Init => ContractInv
  <1> SUFFICES ASSUME Init PROVE ContractInv
    OBVIOUS
  <1>1. TypeInv /\ pass.pc = "idle"
    BY TypeInit DEF Init, Idle
  <1>2. WellFormed(Content)
    <2>1. CASE Empty
      BY <2>1, NoContentWellFormed DEF Empty, Content
    <2>2. CASE Settled
      <3> DEFINE R == Resolved(Own, spec, world)
                 in == {a \in Outside : ~Excluded(a, spec, world)}
                 admission == Admission(in, Cardinality(R), spec, world)
                 served == UNION {Mine(a, spec, world) : a \in admission.fits}
      <3>1. R \in SUBSET Route /\ OfOwn(R) /\ Functional(R)
        BY <1>1, ResolvedFacts DEF Model, TypeInv, TypeOK, OfOwn
      <3>2. served \in SUBSET Route /\ OfOutside(served) /\ Functional(served)
        <4>1. admission.fits \subseteq Outside
          BY AdmissionFacts
        <4>2. \A r \in served : \E a \in Outside : r \in Mine(a, spec, world)
          BY <4>1
        <4> HIDE DEF served
        <4>3. spec \in [Model -> ModelSpec]
          BY <1>1 DEF TypeInv, TypeOK
        <4>4. \A r \in served : r.model \in Outside /\ r \in Mine(r.model, spec, world) /\ r \in Route
          BY <4>2, <4>3, MineFacts
        <4>5. ASSUME NEW x \in served, NEW y \in served, x.model = y.model,
                     x.provider = y.provider
              PROVE  x = y
          BY <4>3, <4>4, <4>5, MineFacts DEF Functional
        <4> QED
          BY <4>4, <4>5 DEF Functional, OfOutside
      <3>3. overlay = Render({}, R \cup served, TRUE)
        BY <2>2 DEF Settled
      <3> HIDE DEF R, served
      <3>4. /\ Functional(R \cup served) /\ R \cup served \in SUBSET Route
            /\ {} \in SUBSET Candidate /\ Functional({})
        BY <3>1, <3>2, FunctionalUnion DEF Functional
      <3>5. WellFormed(overlay)
        BY <3>3, <3>4, RenderWellFormed
      <3> QED
        BY <3>5, NoContentWellFormed DEF Content
    <2> QED
      BY <2>1, <2>2 DEF Init
  <1> QED
    BY <1>1, <1>2 DEF ContractInv, HomePlan

\* What a home pass decides.
LEMMA HomeStartPlan ==
    ASSUME TypeInv, WellFormed(Content), NEW m \in Own, HomeStart(m)
    PROVE  HomePlan'
  <1> DEFINE kind == Decision(m, world)
             R == Resolved(OwnLive(spec), spec, world)
             want == IF kind = "publish" THEN Without(R, Rejected(R)) ELSE {}
             kept == IF kind = "exclude"
                     THEN {c \in Preserved : c.model \notin PolicyExcluded(world)} ELSE {}
             admission == Admission(Accepted, Cardinality(want) + Cardinality(kept), spec, world)
             served == ServedRoutes(admission, copies, spec, world)
  <1>1. pass'.want = want /\ pass'.kept = kept /\ pass'.served = served
    BY DEF HomeStart, Idle
  <1>2. spec \in [Model -> ModelSpec]
    BY DEF TypeInv, TypeOK
  <1>3. Functional(R) /\ want \subseteq R
    BY <1>2, StateFacts, ResolvedFacts DEF Without
  <1>4. kept \subseteq Preserved /\ OfOwn(Preserved) /\ Functional(Preserved)
    BY StateFacts DEF WellFormed, Functional
  <1>5. OfOutside(served) /\ Functional(served)
    <2>1. admission.fits \subseteq Outside
      BY AdmissionFacts
    <2> QED
      BY <1>2, <2>1, ServedFacts
  <1>6. want = {} \/ kept = {}
    OBVIOUS
  <1> HIDE DEF want, kept, served, R
  <1> QED
    BY <1>1, <1>3, <1>4, <1>5, <1>6 DEF HomePlan, Functional, OfOwn

\* Only two steps publish.
LEMMA OverlayKept ==
    ASSUME [Next]_vars, ~HomePublish, ~AttachPublish
    PROVE  overlay' = overlay /\ Content' = Content
  <1>1. overlay' = overlay
    BY DEF Next, Home, Attachment, Environment, vars, HomeStart, HomeWrite, HomeFinish,
       AttachStart, AttachRelease, CopyCredentials, AttachDrain, AttachPrune, AttachCollect,
       AttachRemove, Fail, ChangeTranslation, Roll, EditModel, DeleteModel, ChangeProvider,
       ChangeGrant, Accept, Refuse, Change
  <1> QED
    BY <1>1 DEF Content, NoContent

\* A home plan is made by HomeStart, and kept until it is published.
LEMMA PlanKept ==
    ASSUME TypeInv, [Next]_vars, pass'.pc \in {"write", "publish"},
           ~(\E m \in Own : HomeStart(m))
    PROVE  /\ pass.pc \in {"write", "publish"} /\ pass'.want = pass.want
           /\ pass'.kept = pass.kept /\ pass'.served = pass.served
  <1>1. CASE UNCHANGED vars
    BY <1>1 DEF vars
  <1>2. CASE HomeWrite
    <2>1. CASE Blocked(View) # {}
      BY <1>2, <2>1, IdleTyped DEF HomeWrite, Retry
    <2>2. CASE Blocked(View) = {}
      <3>1. pass' = [[pass EXCEPT !.pc = "publish"] EXCEPT !.retain = (Withdrawing(View) # {})]
        BY <1>2, <2>2 DEF HomeWrite
      <3> QED
        BY <1>2, <3>1 DEF HomeWrite, TypeInv, PassTyped
    <2> QED
      BY <2>1, <2>2
  <1>3. CASE HomePublish \/ HomeFinish
    <2>1. Return \/ Retry \/ Leave \/ Continue("finish")
      BY <1>3 DEF HomePublish, HomeFinish, Finished
    <2> QED
      BY <2>1, ContinueType, IdleTyped DEF Return, Retry, Leave
  <1>4. CASE \E a \in Outside : AttachStart(a)
    <2>1. pass'.pc \in {"remove", "stage", "copy", "withdraw"}
      BY <1>4, AttachStartPass
    <2> QED
      BY <2>1
  <1>5. CASE \E a \in Outside : AttachRelease(a)
    BY <1>5 DEF AttachRelease
  <1>6. CASE CopyCredentials \/ AttachDrain \/ AttachPrune \/ AttachCollect \/ AttachRemove
    <2>1. \/ Return \/ Retry
          \/ \E next \in {"stage", "prune", "remove", "republish", "depublish"} : Continue(next)
      BY <1>6 DEF CopyCredentials, AttachDrain, AttachPrune, AttachCollect, AttachRemove
    <2> QED
      BY <2>1, ContinueType, IdleTyped DEF Return, Retry
  <1>7. CASE AttachPublish
    <2>1. pass' = Idle \/ pass'.pc \in {"drain", "collect"}
      <3>1. CASE Retry
        BY <3>1 DEF Retry
      <3>2. ASSUME NEW R \in SUBSET Route, NEW excess \in SUBSET Outside, Published(R, excess)
            PROVE  pass' = Idle \/ pass'.pc \in {"drain", "collect"}
        <4>1. pass.pc \in {"stage", "withdraw", "republish", "depublish"}
          BY <1>7, AttachPublishCases
        <4>2. CASE pass' # Idle
          <5>1. PICK next \in {"drain", "collect"} :
                  pass' = [pc |-> next, model |-> pass.model, kind |-> pass.kind,
                     translation |-> pass.translation, want |-> pass.want, kept |-> pass.kept,
                     keep |-> pass.keep, served |-> R, over |-> excess, stale |-> pass.stale,
                     retain |-> pass.retain, deleting |-> pass.deleting, steady |-> pass.steady]
            BY <3>2, <4>1, <4>2, PublishedType
          <5> QED
            BY <5>1
        <4> QED
          BY <4>2
      <3>3. /\ {} \in SUBSET Route /\ {} \in SUBSET Outside /\ AttachedRoutes \in SUBSET Route
            /\ Admission(Accepted, Cardinality(Preserved), spec, View).over \in SUBSET Outside
        BY AttachedRoutesFacts, AdmissionFacts
      <3> QED
        BY <1>7, <3>1, <3>2, <3>3, AttachPublishCases
    <2> QED
      BY <2>1, IdleTyped
  <1>8. CASE Fail
    BY <1>8, IdleTyped DEF Fail, Retry
  <1>9. CASE Roll
    BY <1>9 DEF Roll
  <1>10. CASE SteadyOff
    BY <1>10, SteadyFacts
  <1>11. Environment => Fail \/ Roll \/ SteadyOff
    BY DEF Environment, ChangeTranslation, EditModel, DeleteModel, ChangeProvider, ChangeGrant,
       Accept, Refuse, Change, SteadyOff
  <1> QED
    BY <1>1, <1>2, <1>3, <1>4, <1>5, <1>6, <1>7, <1>8, <1>9, <1>10, <1>11
    DEF Next, Home, Attachment

LEMMA ContractStep == ContractInv /\ [Next]_vars => ContractInv'
  <1> SUFFICES ASSUME ContractInv, [Next]_vars PROVE ContractInv'
    OBVIOUS
  <1>1. TypeInv /\ WellFormed(Content) /\ HomePlan /\ TypeInv'
    BY TypeStep DEF ContractInv
  <1>2. WellFormed(Content)'
    <2>1. CASE HomePublish
      <3> DEFINE R == pass.want \cup pass.served
                 d == Render(pass.kept, R, pass.translation)
      <3>1. overlay' = None \/ overlay' = d
        BY <2>1 DEF HomePublish, CleanupOverlay
      <3>2. /\ pass.kept \in SUBSET Candidate /\ pass.want \in SUBSET Route
            /\ pass.served \in SUBSET Route /\ OfOwn(pass.want)
            /\ pass.want = {} \/ pass.kept = {}
            /\ OfOwn(pass.kept) /\ OfOutside(pass.served)
            /\ Functional(pass.want) /\ Functional(pass.kept) /\ Functional(pass.served)
        BY <1>1, <2>1 DEF HomePublish, TypeInv, TypeOK, PassTyped, HomePlan, HomePc
      <3>3. Functional(R) /\ R \in SUBSET Route /\ \A k \in pass.kept, r \in R : k.model # r.model
        BY <3>2, FunctionalUnion, Disjoint DEF OfOwn, OfOutside
      <3>4. WellFormed(d)
        BY <3>2, <3>3, RenderWellFormed
      <3> HIDE DEF d
      <3> QED
        BY <3>1, <3>4, NoContentWellFormed DEF Content, WellFormed, Functional, NoContent
    <2>2. CASE AttachPublish
      <3> DEFINE d == Render(Preserved, AttachedRoutes, pass.translation)
      <3>1. overlay' = None \/ overlay' = d \/ overlay' = overlay
        BY <1>1, <2>2, AttachPublishCases DEF CleanupOverlay
      <3>2. /\ Preserved \in SUBSET Candidate /\ OfOwn(Preserved) /\ Functional(Preserved)
            /\ AttachedRoutes \in SUBSET Route /\ OfOutside(AttachedRoutes)
            /\ Functional(AttachedRoutes)
        BY <1>1, StateFacts, AttachedRoutesFacts DEF WellFormed, Functional
      <3>3. \A k \in Preserved, r \in AttachedRoutes : k.model # r.model
        BY <3>2, Disjoint DEF OfOwn, OfOutside
      <3>4. WellFormed(d)
        BY <3>2, <3>3, RenderWellFormed
      <3> HIDE DEF d
      <3> QED
        BY <1>1, <3>1, <3>4, NoContentWellFormed DEF Content, WellFormed, Functional, NoContent
    <2>3. CASE ~HomePublish /\ ~AttachPublish
      BY <1>1, <2>3, OverlayKept DEF WellFormed, Functional
    <2> QED
      BY <2>1, <2>2, <2>3
  <1>3. HomePlan'
    <2>1. CASE \E m \in Own : HomeStart(m)
      BY <1>1, <2>1, HomeStartPlan
    <2>2. CASE ~(\E m \in Own : HomeStart(m))
      BY <1>1, <2>2, PlanKept DEF HomePlan, Functional, OfOwn, OfOutside
    <2> QED
      BY <2>1, <2>2
  <1> QED
    BY <1>1, <1>2, <1>3 DEF ContractInv

\* What the published overlay is, without its size.
OverlayWellFormed == WellFormed(Content)

\* Every overlay any path publishes is one the ExtProc accepts, but for its
\* size: modes, weights and groups agree over kept and resolved candidates and
\* no model has a provider twice (Render, normalizeWeightedCandidates).
THEOREM DocumentsWellFormed == Spec => []OverlayWellFormed
  <1>1. ContractInv => OverlayWellFormed
    BY DEF ContractInv, OverlayWellFormed
  <1> QED
    BY <1>1, ContractInit, ContractStep, PTL DEF Spec

-----------------------------------------------------------------------------
(***************************************************************************)
(* Staged withdrawal of attached models' rules.                            *)
(***************************************************************************)
\* A pass that has not read a translation flag since changed sees the world.
LEMMA ViewFacts ==
    ASSUME TypeInv, pass.translation = world.translation
    PROVE  View = world
  <1>1. world = [phase |-> world.phase, granted |-> world.granted,
                 translation |-> world.translation]
    BY DEF TypeInv, TypeOK, World
  <1> QED
    BY <1>1 DEF View

LEMMA StagedInit == Init => StagedInv
  BY DEF Init, Idle, StagedInv, AttachPc

\* Steps after which there is no attachment pass, or only a disturbed one.
LEMMA StagedQuiet ==
    ASSUME StagedInv,
           \/ pass'.pc \notin AttachPc
           \/ /\ ~pass'.steady /\ pass'.pc = pass.pc
              /\ pass'.kind = pass.kind /\ pass'.want = pass.want
    PROVE  StagedInv'
  <1>1. {"drain", "prune", "remove"} \subseteq AttachPc
    BY DEF AttachPc
  <1> QED
    BY <1>1 DEF StagedInv, AttachPc

\* The next step of an undisturbed pass keeps its model, its routes and what
\* they were computed from.
LEMMA StagedContinues ==
    ASSUME TypeInv, StagedInv, pass.pc \in AttachPc, pass'.pc \in AttachPc,
           pass'.model = pass.model, pass'.kind = pass.kind, pass'.want = pass.want,
           pass'.translation = pass.translation, pass'.steady = pass.steady,
           UNCHANGED <<spec, world>>
    PROVE  /\ pass'.kind = "exclude" => pass'.want = {}
           /\ pass'.kind \in {"serve", "withdraw", "exclude"}
           /\ pass'.steady => /\ pass'.model \in Live(spec)'
                              /\ pass'.translation = world'.translation
                              /\ pass'.want = Mine(pass.model, spec, world)'
  BY DEF StagedInv, Live, Model, Outside

\* With the routes the pass wants, a publication holds no other candidate of
\* its model.
LEMMA PublishReduces ==
    ASSUME TypeInv, StagedInv, pass.pc \in AttachPc, pass.steady
    PROVE  Reduced(Render(Preserved, AttachedRoutes, pass.translation)) /\ Reduced(NoContent)
  <1> DEFINE d == Render(Preserved, AttachedRoutes, pass.translation)
  <1>1. /\ pass.want = Mine(pass.model, spec, world) /\ View = world
        /\ pass.model \in Outside
    BY ViewFacts DEF StagedInv, TypeInv, PassTyped
  <1>2. ASSUME NEW c \in d.candidates, c.model = pass.model
        PROVE  c.provider \in Wanted
    <2>1. \/ \E k \in Preserved : k.model = c.model /\ k.provider = c.provider
          \/ \E r \in AttachedRoutes : r.model = c.model /\ r.provider = c.provider
      BY <1>2, StateFacts, AttachedRoutesFacts, RenderOrigins
    <2>2. ~\E k \in Preserved : k.model = c.model
      BY <1>1, <1>2, StateFacts, Disjoint DEF OfOwn
    <2>3. PICK r \in AttachedRoutes : r.model = c.model /\ r.provider = c.provider
      BY <2>1, <2>2
    <2>4. r \in Mine(r.model, spec, View)
      BY <2>3, AttachedRoutesFacts
    <2> QED
      BY <1>1, <1>2, <2>3, <2>4 DEF Wanted
  <1> QED
    BY <1>2 DEF Reduced, NoContent

LEMMA StagedAttachStart ==
    ASSUME TypeInv, NoClash, NEW a \in Outside, AttachStart(a)
    PROVE  StagedInv'
  <1> DEFINE stale == Stale(a, world)
  <1>1. /\ a \in Live(spec) /\ pass.pc = "idle" /\ UNCHANGED <<spec, world>>
    BY AttachStartPass DEF outside
  <1>2. CASE Excluded(a, spec, world) /\ stale = {}
    <2>1. /\ pass' = [pc |-> "remove", model |-> a,
                       kind |-> "exclude", translation |-> world.translation, want |-> {},
                       kept |-> {}, keep |-> {}, served |-> {}, over |-> {}, stale |-> stale,
                       retain |-> FALSE, deleting |-> FALSE, steady |-> TRUE]
          /\ UNCHANGED route
      BY <1>2 DEF AttachStart, Exclude, Idle
    <2>2. Mine(a, spec, world) = {}
      BY <1>1, <1>2 DEF NoClash
    <2>3. a \in Accepted => route[a].rules = {}
      BY <1>1, <1>2, <2>2 DEF Stale
    <2>4. (a \in Accepted)' => route'[a].rules = {}
      BY <2>1, <2>3 DEF Accepted
    <2>5. a \in Live(spec)' /\ Mine(a, spec, world)' = {}
      BY <1>1, <2>2 DEF Live
    <2> QED
      BY <1>1, <2>1, <2>4, <2>5 DEF StagedInv, AttachPc
  <1>3. CASE Excluded(a, spec, world) /\ stale # {}
    <2>1. pass' = [pc |-> "stage", model |-> a,
                       kind |-> "exclude", translation |-> world.translation, want |-> {},
                       kept |-> {}, keep |-> {}, served |-> {}, over |-> {}, stale |-> stale,
                       retain |-> FALSE, deleting |-> FALSE, steady |-> TRUE]
      BY <1>3 DEF AttachStart, Exclude, Idle
    <2>2. Mine(a, spec, world) = {}
      BY <1>1, <1>3 DEF NoClash
    <2>3. a \in Live(spec)' /\ Mine(a, spec, world)' = {}
      BY <1>1, <2>2 DEF Live
    <2> QED
      BY <1>1, <2>1, <2>3 DEF StagedInv, AttachPc
  <1>4. CASE ~Excluded(a, spec, world)
    <2>1. PICK next \in {"copy", "withdraw"}, kind \in {"serve", "withdraw"} :
            pass' = [pc |-> next, model |-> a, kind |-> kind,
                       translation |-> world.translation, want |-> Mine(a, spec, world),
                       kept |-> {}, keep |-> {}, served |-> {}, over |-> {}, stale |-> stale,
                       retain |-> FALSE, deleting |-> FALSE, steady |-> TRUE]
      BY <1>4, AttachStartPass
    <2>2. a \in Live(spec)' /\ Mine(a, spec, world)' = Mine(a, spec, world)
      BY <1>1 DEF Live
    <2> QED
      BY <1>1, <2>1, <2>2 DEF StagedInv, AttachPc
  <1> QED
    BY <1>2, <1>3, <1>4

LEMMA StagedAttachPublish ==
    ASSUME TypeInv, StagedInv, AttachPublish
    PROVE  StagedInv'
  <1> DEFINE admission == Admission(Accepted, Cardinality(Preserved), spec, View)
             d == Render(Preserved, AttachedRoutes, pass.translation)
  <1>1. /\ pass.pc \in {"stage", "withdraw", "republish", "depublish"} /\ pass.pc \in AttachPc
        /\ UNCHANGED <<spec, world>>
    BY AttachPublishCases DEF outside, AttachPc
  <1>2. CASE pass' = Idle
    BY <1>2, IdleTyped, StagedQuiet DEF AttachPc
  <1>3. CASE pass' # Idle
    <2>1. PICK R \in SUBSET Route, excess \in SUBSET Outside : Published(R, excess)
      <3>1. /\ {} \in SUBSET Route /\ {} \in SUBSET Outside /\ AttachedRoutes \in SUBSET Route
            /\ admission.over \in SUBSET Outside
        BY AttachedRoutesFacts, AdmissionFacts
      <3>2. ~Retry
        BY <1>3 DEF Retry
      <3> HIDE DEF admission
      <3> QED
        BY <3>1, <3>2, AttachPublishCases DEF admission
    <2>2. PICK next \in {"drain", "collect"} :
            pass' = [pc |-> next, model |-> pass.model, kind |-> pass.kind,
                     translation |-> pass.translation, want |-> pass.want, kept |-> pass.kept,
                     keep |-> pass.keep, served |-> R, over |-> excess, stale |-> pass.stale,
                     retain |-> pass.retain, deleting |-> pass.deleting, steady |-> pass.steady]
      BY <1>1, <1>3, <2>1, PublishedType
    <2>3. /\ pass'.pc = next /\ pass'.model = pass.model /\ pass'.kind = pass.kind
          /\ pass'.translation = pass.translation /\ pass'.want = pass.want
          /\ pass'.steady = pass.steady /\ pass'.pc \in AttachPc
      BY <2>2 DEF AttachPc
    <2>4. /\ pass'.kind = "exclude" => pass'.want = {}
          /\ pass'.kind \in {"serve", "withdraw", "exclude"}
          /\ pass'.steady => /\ pass'.model \in Live(spec)'
                             /\ pass'.translation = world'.translation
                             /\ pass'.want = Mine(pass.model, spec, world)'
      BY <1>1, <2>3, StagedContinues
    <2>5. ASSUME pass'.steady PROVE Reduced(Content)'
      <3>1. pass.steady
        BY <2>3, <2>5
      <3>2. pass.translation = world.translation
        BY <1>1, <3>1 DEF StagedInv
      <3>3. overlay' = None \/ overlay' = d
        <4>1. ~Retry
          BY <1>3 DEF Retry
        <4> HIDE DEF d
        <4> QED
          BY <3>2, <4>1, AttachPublishCases DEF CleanupOverlay, d
      <3>4. \A c \in Content'.candidates : c.model = pass.model => c.provider \in Wanted
        <4>1. Reduced(d) /\ Reduced(NoContent)
          BY <1>1, <3>1, PublishReduces
        <4>2. Content' = NoContent \/ Content' = d
          <5> HIDE DEF d
          <5> QED
            BY <3>3 DEF Content, NoContent
        <4> HIDE DEF d
        <4> QED
          BY <4>1, <4>2 DEF Reduced
      <3>5. Wanted' = Wanted
        BY <2>3 DEF Wanted
      <3> QED
        BY <2>3, <3>4, <3>5 DEF Reduced
    <2> QED
      BY <2>3, <2>4, <2>5 DEF StagedInv
  <1> QED
    BY <1>2, <1>3

LEMMA StagedAttachStep ==
    ASSUME TypeInv, StagedInv,
           CopyCredentials \/ AttachDrain \/ AttachPrune \/ AttachCollect \/ AttachRemove
    PROVE  StagedInv'
  <1>1. pass.pc \in AttachPc /\ UNCHANGED <<spec, world, overlay, running>> /\ Content' = Content
    BY DEF CopyCredentials, AttachDrain, AttachPrune, AttachCollect, AttachRemove, AttachPc,
       outside, Content, NoContent
  <1>2. CASE pass' = Idle
    BY <1>2, IdleTyped, StagedQuiet DEF AttachPc
  <1>3. CASE pass' # Idle
    <2>1. PICK next \in {"stage", "prune", "remove", "republish", "depublish"} :
            /\ Continue(next)
            /\ next = "prune" => AttachDrain /\ Drained
            /\ next = "remove" => AttachDrain /\ Drained /\ pass.kind = "exclude"
      BY <1>3 DEF CopyCredentials, AttachDrain, AttachPrune, AttachCollect, AttachRemove,
         Return, Retry
    <2>2. /\ pass'.pc = next /\ pass'.model = pass.model /\ pass'.kind = pass.kind
          /\ pass'.translation = pass.translation /\ pass'.want = pass.want
          /\ pass'.steady = pass.steady /\ pass'.pc \in AttachPc
      BY <2>1, ContinueType DEF AttachPc
    <2>3. /\ pass'.kind = "exclude" => pass'.want = {}
          /\ pass'.kind \in {"serve", "withdraw", "exclude"}
          /\ pass'.steady => /\ pass'.model \in Live(spec)'
                             /\ pass'.translation = world'.translation
                             /\ pass'.want = Mine(pass.model, spec, world)'
      BY <1>1, <2>2, StagedContinues
    <2>4. CASE next \notin {"prune", "remove"}
      BY <2>1, <2>2, <2>3, <2>4 DEF StagedInv
    <2>5. CASE next \in {"prune", "remove"}
      <3>1. pass.pc = "drain" /\ overlay # None /\ running = overlay
        BY <2>1, <2>5 DEF AttachDrain, Drained
      <3>2. running' = Content'
        BY <1>1, <3>1 DEF Content
      <3>3. pass'.steady => Reduced(Content)'
        <4>1. Wanted' = Wanted
          BY <2>2 DEF Wanted
        <4> QED
          BY <1>1, <2>2, <3>1, <4>1 DEF StagedInv, Reduced
      <3>4. next = "remove" => pass'.kind = "exclude"
        BY <2>1, <2>2
      <3> QED
        BY <2>2, <2>3, <3>2, <3>3, <3>4 DEF StagedInv
    <2> QED
      BY <2>4, <2>5
  <1> QED
    BY <1>2, <1>3

LEMMA StagedStep == TypeInv /\ StagedInv /\ NoClash /\ [Next]_vars => StagedInv'
  <1> SUFFICES ASSUME TypeInv, StagedInv, NoClash, [Next]_vars PROVE StagedInv'
    OBVIOUS
  <1>1. CASE UNCHANGED vars
    BY <1>1 DEF vars, StagedInv, Live, Reduced, Wanted, Content, NoContent, Accepted
  <1>2. CASE \E m \in Own : HomeStart(m)
    <2>1. pass'.pc = "write"
      BY <1>2 DEF HomeStart, Idle
    <2> QED
      BY <2>1, StagedQuiet DEF AttachPc
  <1>3. CASE HomeWrite
    <2>1. pass'.pc = "publish" \/ pass' = Idle
      <3>1. CASE Blocked(View) # {}
        BY <1>3, <3>1 DEF HomeWrite, Retry
      <3>2. CASE Blocked(View) = {}
        <4>1. pass' = [[pass EXCEPT !.pc = "publish"] EXCEPT !.retain = (Withdrawing(View) # {})]
          BY <1>3, <3>2 DEF HomeWrite
        <4> QED
          BY <4>1 DEF TypeInv, PassTyped
      <3> QED
        BY <3>1, <3>2
    <2> QED
      BY <2>1, IdleTyped, StagedQuiet DEF AttachPc
  <1>4. CASE HomePublish \/ HomeFinish
    <2>1. Return \/ Retry \/ Leave \/ Continue("finish")
      BY <1>4 DEF HomePublish, HomeFinish, Finished
    <2>2. pass'.pc \in {"idle", "finish"}
      BY <2>1, ContinueType, IdleTyped DEF Return, Retry, Leave
    <2> QED
      BY <2>2, StagedQuiet DEF AttachPc
  <1>5. CASE \E a \in Outside : AttachStart(a)
    BY <1>5, StagedAttachStart
  <1>6. CASE \E a \in Outside : AttachRelease(a)
    <2>1. pass'.pc = "idle"
      BY <1>6 DEF AttachRelease
    <2> QED
      BY <2>1, StagedQuiet DEF AttachPc
  <1>7. CASE CopyCredentials \/ AttachDrain \/ AttachPrune \/ AttachCollect \/ AttachRemove
    BY <1>7, StagedAttachStep
  <1>8. CASE AttachPublish
    BY <1>8, StagedAttachPublish
  <1>9. CASE Fail
    BY <1>9, IdleTyped, StagedQuiet DEF Fail, Retry, AttachPc
  <1>10. CASE Roll
    <2>1. /\ running' = Content /\ Content' = Content
          /\ UNCHANGED <<spec, world, route, pass>>
      BY <1>10 DEF Roll, Content, NoContent
    <2> QED
      BY <2>1 DEF StagedInv, Live, Reduced, Wanted, Accepted
  <1>11. CASE SteadyOff
    <2>1. pass.pc = "idle" => pass'.pc \notin AttachPc
      BY <1>11, SteadyFacts DEF AttachPc
    <2> QED
      BY <1>11, <2>1, SteadyFacts, StagedQuiet
  <1>12. Environment => Fail \/ Roll \/ SteadyOff
    BY DEF Environment, ChangeTranslation, EditModel, DeleteModel, ChangeProvider, ChangeGrant,
       Accept, Refuse, Change, SteadyOff
  <1> QED
    BY <1>1, <1>2, <1>3, <1>4, <1>5, <1>6, <1>7, <1>8, <1>9, <1>10, <1>11, <1>12
    DEF Next, Home, Attachment

\* RuleKept's action.
KeepsRules ==
    \A a \in Accepted \cap Live(spec) :
        pass.steady /\ route'[a].verdict # "refused" =>
            \A p \in route[a].rules \ route'[a].rules :
                \A c \in Content.candidates \cup running.candidates :
                    c.model = a => c.provider # p

LEMMA RulesStep == TypeInv /\ StagedInv /\ NoClash /\ [Next]_vars => KeepsRules
  <1> SUFFICES ASSUME TypeInv, StagedInv, NoClash, [Next]_vars PROVE KeepsRules
    OBVIOUS
  <1>1. CASE \A a \in Outside : route'[a].rules = route[a].rules
    BY <1>1 DEF KeepsRules, Accepted
  <1>2. CASE \E a \in Outside : AttachStart(a)
    <2>1. PICK a \in Outside : AttachStart(a)
      BY <1>2
    <2> DEFINE stale == Stale(a, world)
    <2>2. /\ a \in Live(spec) /\ stale \in SUBSET Provider
          /\ Mine(a, spec, world) \in SUBSET Route /\ {} \in SUBSET Route
      BY <2>1, AttachStartPass, StateFacts, MineFacts DEF TypeInv, TypeOK
    <2>3. a \in Accepted => stale = route[a].rules \ {r.provider : r \in Mine(a, spec, world)}
      BY <2>2 DEF Stale
    <2>4. \/ UNCHANGED route
          \/ /\ \A b \in Outside \ {a} : route'[b] = route[b]
             /\ route'[a].rules = {r.provider : r \in Mine(a, spec, world)} \cup stale
      <3>1. Excluded(a, spec, world) => Mine(a, spec, world) = {}
        BY <2>2 DEF NoClash
      <3> HIDE DEF stale
      <3>2. \/ UNCHANGED route
            \/ Apply(a, Mine(a, spec, world), stale)
        BY <2>1, <3>1, AttachStartPass DEF stale
      <3> QED
        BY <2>2, <3>2, ApplyFacts
    <2> HIDE DEF stale
    <2>5. \A b \in Accepted : route[b].rules \subseteq route'[b].rules
      BY <2>3, <2>4 DEF Accepted
    <2> QED
      BY <2>5 DEF KeepsRules
  <1>3. CASE \E a \in Outside : AttachRelease(a)
    <2>1. PICK a \in Outside : AttachRelease(a)
      BY <1>3
    <2>2. a \notin Live(spec) /\ \A b \in Outside \ {a} : route'[b] = route[b]
      BY <2>1 DEF AttachRelease, Live, TypeInv, TypeOK
    <2> QED
      BY <2>2 DEF KeepsRules, Accepted
  <1>4. CASE AttachPrune
    <2>1. pass.pc = "prune" /\ pass.model \in Outside /\ pass.want \in SUBSET Route
          /\ {} \in SUBSET Provider
      BY <1>4 DEF AttachPrune, TypeInv, PassTyped, AttachPc
    <2>2. /\ \A b \in Outside \ {pass.model} : route'[b] = route[b]
          /\ route'[pass.model].rules = Wanted
      <3>1. Apply(pass.model, pass.want, {})
        BY <1>4 DEF AttachPrune
      <3>2. /\ \A b \in Outside \ {pass.model} : route'[b] = route[b]
            /\ route'[pass.model].rules = {r.provider : r \in pass.want} \cup {}
        BY <2>1, <3>1, ApplyFacts
      <3> QED
        BY <3>2 DEF Wanted
    <2>3. pass.steady => Reduced(Content) /\ running = Content
      BY <2>1 DEF StagedInv
    <2> QED
      BY <2>2, <2>3 DEF KeepsRules, Reduced, Accepted
  <1>5. CASE AttachRemove
    <2>1. pass.pc = "remove" /\ pass.model \in Outside /\ pass.pc \in AttachPc
      BY <1>5 DEF AttachRemove, TypeInv, PassTyped, AttachPc
    <2>2. \A b \in Outside \ {pass.model} : route'[b] = route[b]
      BY <1>5 DEF AttachRemove, TypeInv, TypeOK
    <2>3. pass.steady => \/ Reduced(Content) /\ running = Content /\ Wanted = {}
                         \/ pass.model \in Accepted => route[pass.model].rules = {}
      BY <2>1 DEF StagedInv, Wanted
    <2> QED
      BY <2>2, <2>3 DEF KeepsRules, Reduced, Accepted
  <1>6. CASE AttachPublish \/ HomeWrite \/ HomeFinish
    <2>1. route' = route \/ route' = Persisted(View)
      BY <1>6, AttachPublishCases DEF HomeWrite, HomeFinish
    <2>2. \A a \in Outside : route'[a].rules = route[a].rules
      BY <2>1, PersistedFacts
    <2> QED
      BY <1>1, <2>2
  <1>7. CASE \E a \in Outside : Accept(a) \/ Refuse(a)
    BY <1>1, <1>7, VerdictFacts
  <1>8. CASE UNCHANGED route
    BY <1>1, <1>8
  <1> QED
    BY <1>2, <1>3, <1>4, <1>5, <1>6, <1>7, <1>8
    DEF Next, Home, Attachment, Environment, vars, HomeStart, HomePublish, CopyCredentials,
        AttachDrain, AttachCollect, Fail, ChangeTranslation, Roll, EditModel, DeleteModel,
        ChangeProvider, ChangeGrant

\* A rule leaves the accepted route of a live attached model only when neither
\* the overlay nor the pods can select its candidate, whatever fails, is edited
\* or is published by others between the steps of the withdrawal, as long as no
\* model is rejected with its selection group (reconcileEligibleAttachment,
\* reconcileExcludedAttachment).
THEOREM RulesOutliveCandidates == Spec /\ []NoClash => RuleKept
  <1>1. Init => TypeInv /\ StagedInv
    BY TypeInit, StagedInit
  <1>2. TypeInv /\ StagedInv /\ NoClash /\ [Next]_vars => (TypeInv /\ StagedInv)'
    BY TypeStep, StagedStep
  <1>3. TypeInv /\ StagedInv /\ NoClash /\ [Next]_vars => [KeepsRules]_vars
    BY RulesStep
  <1>4. Spec /\ []NoClash => [][KeepsRules]_vars
    BY <1>1, <1>2, <1>3, PTL DEF Spec
  <1> QED
    BY <1>4, PTL DEF RuleKept, KeepsRules

-----------------------------------------------------------------------------
(***************************************************************************)
(* Capacity.                                                               *)
(***************************************************************************)
\* A set of numbers has a least one.
LEMMA Least ==
    ASSUME NEW T \in SUBSET Nat, T # {}
    PROVE  \E x \in T : \A y \in T : x <= y
  <1>1. PICK x \in T : \A y \in T : ~(<<y, x>> \in OpToRel(<, Nat))
    <2> HIDE DEF OpToRel
    <2> QED
      BY NatLessThanWellFounded, WFMin
  <1>2. ASSUME NEW y \in T PROVE x <= y
    <2>1. y < x => <<y, x>> \in OpToRel(<, Nat)
      BY DEF OpToRel
    <2>2. ~(y < x)
      BY <1>1, <2>1, Zenon
    <2> QED
      BY <2>2
  <1> QED
    BY <1>2

\* One step of the admission: what the i-th leaves of what it finds.
Left(demand, i, found) == IF demand[i] <= found THEN found - demand[i] ELSE found

\* f gives what is left after each of the n oldest.
IsRoom(f, n, demand, own) ==
    f = [i \in 0..n |-> IF i = 0 THEN Capacity - own ELSE Left(demand, i, f[i - 1])]

LEMMA RoomIs ==
    ASSUME NEW demand, NEW own
    PROVE  Room(demand, own) = CHOOSE f : IsRoom(f, Len(Attached), demand, own)
  BY DEF Room, IsRoom, Left

\* The oldest attached models are numbered from one.
LEMMA AttachedFacts == Len(Attached) \in Nat /\ DOMAIN Attached = 1..Len(Attached)
  BY ModelsAssumption

\* Such a function exists, model after model.
LEMMA RoomExists ==
    ASSUME NEW demand \in [DOMAIN Attached -> Nat], NEW own \in Nat, NEW n \in 0..Len(Attached)
    PROVE  \E f \in [0..n -> Int] : IsRoom(f, n, demand, own)
  <1> DEFINE T == {m \in 0..Len(Attached) : ~\E f \in [0..m -> Int] : IsRoom(f, m, demand, own)}
  <1> SUFFICES ASSUME T # {} PROVE FALSE
    OBVIOUS
  <1>1. T \in SUBSET Nat
    BY AttachedFacts
  <1>2. PICK m \in T : \A y \in T : m <= y
    BY <1>1, Least
  <1>3. CASE m = 0
    <2> DEFINE f == [i \in 0..0 |-> Capacity - own]
    <2>1. f \in [0..0 -> Int] /\ IsRoom(f, 0, demand, own)
      BY BoundsAssumption DEF IsRoom
    <2> QED
      BY <1>2, <1>3, <2>1
  <1>4. CASE m # 0
    <2>1. m \in 1..Len(Attached) /\ m - 1 \in 0..Len(Attached) /\ m - 1 \notin T
      <3>1. m \in 0..Len(Attached)
        OBVIOUS
      <3> HIDE DEF T
      <3> QED
        BY <1>2, <1>4, <3>1, AttachedFacts
    <2>2. PICK f \in [0..(m - 1) -> Int] : IsRoom(f, m - 1, demand, own)
      BY <2>1
    <2> DEFINE g == [i \in 0..m |-> IF i = m THEN Left(demand, m, f[m - 1]) ELSE f[i]]
    <2>3. demand[m] \in Nat /\ f[m - 1] \in Int
      <3>1. m - 1 \in 0..(m - 1) /\ m \in DOMAIN Attached
        BY <2>1, AttachedFacts
      <3> HIDE DEF T, g
      <3> QED
        BY <3>1
    <2>4. Left(demand, m, f[m - 1]) \in Int
      BY <2>3 DEF Left
    <2>5. g \in [0..m -> Int]
      BY <2>1, <2>4
    <2>6. \A i \in 0..(m - 1) : f[i] = IF i = 0 THEN Capacity - own ELSE Left(demand, i, f[i - 1])
      <3> HIDE DEF g
      <3> QED
        BY <2>2 DEF IsRoom
    <2>7. \A i \in 0..m : g[i] = IF i = 0 THEN Capacity - own ELSE Left(demand, i, g[i - 1])
      <3> TAKE i \in 0..m
      <3>1. CASE i = m
        <4>1. g[m] = Left(demand, m, f[m - 1]) /\ g[m - 1] = f[m - 1]
          BY <2>1
        <4> QED
          BY <1>4, <3>1, <4>1
      <3>2. CASE i # m /\ i # 0
        <4>1. g[i] = f[i] /\ g[i - 1] = f[i - 1] /\ i \in 0..(m - 1)
          BY <2>1, <3>2
        <4> QED
          BY <2>6, <3>2, <4>1
      <3>3. CASE i = 0 /\ i # m
        <4>1. g[0] = f[0] /\ 0 \in 0..(m - 1)
          BY <2>1
        <4> QED
          BY <2>6, <3>3, <4>1
      <3> QED
        BY <3>1, <3>2, <3>3
    <2>8. g = [i \in 0..m |-> g[i]]
      OBVIOUS
    <2> HIDE DEF g
    <2>9. IsRoom(g, m, demand, own)
      BY <2>7, <2>8 DEF IsRoom
    <2> QED
      BY <1>2, <2>5, <2>9
  <1> QED
    BY <1>3, <1>4

\* What Room computes: each model in turn takes what it demands if there is
\* room (admitAttachments).
LEMMA RoomFacts ==
    ASSUME NEW demand \in [DOMAIN Attached -> Nat], NEW own \in Nat
    PROVE  /\ Room(demand, own)[0] = Capacity - own
           /\ \A i \in 1..Len(Attached) :
                 Room(demand, own)[i] = Left(demand, i, Room(demand, own)[i - 1])
           /\ \A i \in 0..Len(Attached) : Room(demand, own)[i] \in Int
  <1> DEFINE r == Room(demand, own)
             N == Len(Attached)
  <1>1. IsRoom(r, N, demand, own)
    <2>1. \E f : IsRoom(f, N, demand, own)
      <3>1. N \in 0..N
        BY AttachedFacts
      <3> QED
        BY <3>1, RoomExists
    <2>2. r = CHOOSE f : IsRoom(f, N, demand, own)
      BY RoomIs
    <2> HIDE DEF r, N
    <2> QED
      BY <2>1, <2>2
  <1> HIDE DEF r
  <1>2. \A i \in 0..N : r[i] = IF i = 0 THEN Capacity - own ELSE Left(demand, i, r[i - 1])
    <2>1. r = [i \in 0..N |-> IF i = 0 THEN Capacity - own ELSE Left(demand, i, r[i - 1])]
      BY <1>1 DEF IsRoom
    <2> DEFINE E(i) == IF i = 0 THEN Capacity - own ELSE Left(demand, i, r[i - 1])
    <2>2. r = [i \in 0..N |-> E(i)]
      BY <2>1
    <2> HIDE DEF E
    <2>3. \A i \in 0..N : r[i] = E(i)
      BY <2>2
    <2> QED
      BY <2>3 DEF E
  <1>3. \A i \in 0..N : r[i] \in Int
    <2> DEFINE T == {i \in 0..N : r[i] \notin Int}
    <2> SUFFICES ASSUME T # {} PROVE FALSE
      OBVIOUS
    <2>1. T \in SUBSET Nat
      BY AttachedFacts
    <2>2. PICK i \in T : \A y \in T : i <= y
      BY <2>1, Least
    <2>3. i # 0
      BY <1>2, <2>2, BoundsAssumption
    <2>4. i \in 1..N /\ i - 1 \in 0..N /\ i - 1 \notin T
      BY <2>2, <2>3, AttachedFacts
    <2>5. r[i - 1] \in Int /\ demand[i] \in Nat
      BY <2>4, AttachedFacts
    <2> QED
      BY <1>2, <2>2, <2>3, <2>5 DEF Left
  <1>4. \A i \in 1..N : i \in 0..N /\ i # 0
    BY AttachedFacts
  <1>5. 0 \in 0..N
    BY AttachedFacts
  <1>6. r[0] = Capacity - own /\ \A i \in 1..N : r[i] = Left(demand, i, r[i - 1])
    BY <1>2, <1>4, <1>5
  <1> QED
    BY <1>3, <1>6 DEF r

\* A set with one element for each model and provider is finite, and no larger
\* than the pairs it can have.
LEMMA FunctionalCard ==
    ASSUME NEW S, NEW A, IsFiniteSet(A), Functional(S),
           \A x \in S : x.model \in A /\ x.provider \in Provider
    PROVE  IsFiniteSet(S) /\ Cardinality(S) <= Cardinality(A \X Provider)
  <1> DEFINE f == [x \in S |-> <<x.model, x.provider>>]
  <1>1. IsFiniteSet(A \X Provider)
    BY ModelsAssumption, FS_Product
  <1>2. f \in Injection(S, A \X Provider)
    <2>1. f \in [S -> A \X Provider]
      OBVIOUS
    <2>2. \A x, y \in S : f[x] = f[y] => x = y
      BY DEF Functional
    <2> QED
      BY <2>1, <2>2 DEF Injection, IsInjective
  <1> QED
    BY <1>1, <1>2, FS_Injection

\* The union of two finite sets is no larger than both together.
LEMMA UnionCard ==
    ASSUME NEW S, NEW T, IsFiniteSet(S), IsFiniteSet(T)
    PROVE  /\ IsFiniteSet(S \cup T) /\ Cardinality(S \cup T) <= Cardinality(S) + Cardinality(T)
           /\ Cardinality(S) \in Nat /\ Cardinality(T) \in Nat /\ Cardinality(S \cup T) \in Nat
  <1>1. /\ Cardinality(S) \in Nat /\ Cardinality(T) \in Nat /\ IsFiniteSet(S \cap T)
        /\ Cardinality(S \cap T) \in Nat /\ IsFiniteSet(S \cup T) /\ Cardinality(S \cup T) \in Nat
    BY FS_CardinalityType, FS_Intersection, FS_Union
  <1>2. Cardinality(S \cup T) = Cardinality(S) + Cardinality(T) - Cardinality(S \cap T)
    BY FS_Union
  <1> QED
    BY <1>1, <1>2

\* A publication has no more candidates than it was given candidates and routes.
LEMMA RenderCard ==
    ASSUME NEW K \in SUBSET Candidate, NEW R \in SUBSET Route, NEW translation,
           IsFiniteSet(K), IsFiniteSet(R)
    PROVE  /\ Cardinality(Render(K, R, translation).candidates) <= Cardinality(K) + Cardinality(R)
           /\ Cardinality(Render(K, R, translation).candidates) \in Nat
  <1>0. Render(K, R, translation).candidates =
          {Normalized(c, Weighted(K, R), translation) : c \in Sources(K, R)}
    BY DEF Render, Weighted, Sources
  <1> DEFINE C == Render(K, R, translation).candidates
             I == {CandidateOf(r, R) : r \in R}
             g == [r \in R |-> CandidateOf(r, R)]
             f == [c \in Sources(K, R) |-> Normalized(c, Weighted(K, R), translation)]
  <1>1. IsFiniteSet(I) /\ Cardinality(I) <= Cardinality(R)
    <2>1. g \in Surjection(R, I)
      BY DEF Surjection
    <2> QED
      BY <2>1, FS_Surjection
  <1>2. Sources(K, R) = K \cup I
    BY DEF Sources
  <1> HIDE DEF I
  <1>3. /\ IsFiniteSet(Sources(K, R)) /\ Cardinality(Sources(K, R)) \in Nat
        /\ Cardinality(Sources(K, R)) <= Cardinality(K) + Cardinality(R)
    BY <1>1, <1>2, UnionCard, FS_CardinalityType
  <1>4. f \in Surjection(Sources(K, R), C)
    <2> DEFINE N(c) == Normalized(c, Weighted(K, R), translation)
    <2>1. C = {N(c) : c \in Sources(K, R)} /\ f = [c \in Sources(K, R) |-> N(c)]
      BY <1>0, Zenon
    <2> HIDE DEF C, f, N
    <2> QED
      BY <2>1 DEF Surjection
  <1>5. IsFiniteSet(C) /\ Cardinality(C) <= Cardinality(Sources(K, R)) /\ Cardinality(C) \in Nat
    <2> HIDE DEF C, f
    <2> QED
      BY <1>3, <1>4, FS_Surjection, FS_CardinalityType
  <1>6. Cardinality(K) \in Nat /\ Cardinality(R) \in Nat
    BY FS_CardinalityType
  <1> HIDE DEF C
  <1>7. Cardinality(C) <= Cardinality(K) + Cardinality(R)
    BY <1>3, <1>5, <1>6
  <1> QED
    BY <1>5, <1>7 DEF C

\* The models attached are finitely many, and so are routes of theirs.
LEMMA RoutesFinite ==
    ASSUME NEW S \in SUBSET Route, Functional(S), OfOutside(S)
    PROVE  IsFiniteSet(S)
  <1> DEFINE n == Len(Attached)
             f == [i \in 1..n |-> Attached[i]]
  <1>1. n \in Nat /\ DOMAIN Attached = 1..n
    BY AttachedFacts
  <1>2. IsFiniteSet(1..n)
    BY <1>1, FS_Interval
  <1>3. f \in Surjection(1..n, Outside)
    <2>1. Outside = {Attached[i] : i \in 1..n}
      BY <1>1 DEF Outside
    <2> HIDE DEF n
    <2> QED
      BY <2>1 DEF Surjection
  <1>4. IsFiniteSet(Outside)
    BY <1>2, <1>3, FS_Surjection
  <1>5. \A x \in S : x.model \in Outside /\ x.provider \in Provider
    BY DEF OfOutside, Route
  <1> QED
    BY <1>4, <1>5, FunctionalCard

\* The routes of the attached models that fit, admitted oldest first, each if
\* there is room for it, stay within what the tenant's own candidates leave.
\* By induction over the models: what the first n of them hold and what is left
\* after them is together no more than what there was (admitAttachments).
LEMMA AdmissionCard ==
    ASSUME NEW s \in [Model -> ModelSpec], NEW w, NEW accepted, NEW own \in 0..Capacity
    PROVE  LET R == UNION {Mine(a, s, w) : a \in Admission(accepted, own, s, w).fits}
           IN  IsFiniteSet(R) /\ Cardinality(R) <= Capacity - own
  <1> DEFINE in == {i \in DOMAIN Attached : Competes(Attached[i], accepted, s, w)}
             demand == [i \in DOMAIN Attached |->
                          IF i \in in THEN Cardinality(Mine(Attached[i], s, w)) ELSE 0]
             out == {i \in in : demand[i] > Room(demand, own)[i - 1]}
             M == [i \in DOMAIN Attached |-> Mine(Attached[i], s, w)]
             R == UNION {Mine(a, s, w) : a \in Admission(accepted, own, s, w).fits}
  <1>1. Admission(accepted, own, s, w).fits = {Attached[i] : i \in in \ out}
    BY DEF Admission
  <1>2. \A i \in DOMAIN Attached : Attached[i] \in Outside
    BY DEF Outside
  <1>3. \A i \in DOMAIN Attached : IsFiniteSet(M[i])
    <2> TAKE i \in DOMAIN Attached
    <2> DEFINE a == Attached[i]
               S == Mine(a, s, w)
    <2>1. S \subseteq Route /\ (\A r \in S : r.model = a) /\ Functional(S)
      BY <1>2, MineFacts
    <2> HIDE DEF a, S
    <2>2. \A r \in S : r.model \in {a} /\ r.provider \in Provider
      BY <2>1 DEF Route
    <2>3. IsFiniteSet({a})
      BY FS_Singleton
    <2>4. IsFiniteSet(S)
      BY <2>1, <2>2, <2>3, FunctionalCard
    <2> QED
      BY <2>4 DEF S, a
  <1>4. demand = [i \in DOMAIN Attached |-> IF i \in in THEN Cardinality(M[i]) ELSE 0]
    OBVIOUS
  <1>5. R = UNION {M[i] : i \in in \ out}
    <2>1. R = UNION {Mine(Attached[i], s, w) : i \in in \ out}
      <3> HIDE DEF in, out
      <3> QED
        BY <1>1
    <2>2. \A i \in in \ out : M[i] = Mine(Attached[i], s, w)
      <3> HIDE DEF out
      <3> QED
        OBVIOUS
    <2> HIDE DEF M, R, out, in
    <2> QED
      BY <2>1, <2>2
  <1>6. in \in SUBSET DOMAIN Attached /\ out = {i \in in : demand[i] > Room(demand, own)[i - 1]}
    OBVIOUS
  <1> HIDE DEF M, R, in, demand, out
  <1> DEFINE N == Len(Attached)
             U(n) == UNION {M[i] : i \in {j \in in \ out : j <= n}}
             P(n) == /\ IsFiniteSet(U(n)) /\ Room(demand, own)[n] >= 0
                     /\ Cardinality(U(n)) + Room(demand, own)[n] <= Capacity - own
             T == {n \in 0..N : ~P(n)}
  <1>7. /\ N \in Nat /\ DOMAIN Attached = 1..N /\ Capacity \in Nat /\ own \in Nat
        /\ own <= Capacity
    BY AttachedFacts, BoundsAssumption
  <1>8. \A i \in DOMAIN Attached : Cardinality(M[i]) \in Nat
    BY <1>3, FS_CardinalityType
  <1>9. demand \in [DOMAIN Attached -> Nat]
    BY <1>4, <1>8
  <1>10. PICK room : /\ room = Room(demand, own) /\ room[0] = Capacity - own
                    /\ \A i \in 1..N : room[i] = Left(demand, i, room[i - 1])
                    /\ \A j \in 0..N : room[j] \in Int
    BY <1>7, <1>9, RoomFacts
  <1>11. T = {}
    <2> SUFFICES ASSUME T # {} PROVE FALSE
      OBVIOUS
    <2>1. T \in SUBSET Nat
      BY <1>7
    <2>2. PICK n \in T : \A y \in T : n <= y
      BY <2>1, Least
    <2>3. n \in 0..N /\ ~P(n)
      OBVIOUS
    <2>4. n # 0
      <3>1. U(0) = {}
        BY <1>6, <1>7
      <3> HIDE DEF U
      <3>2. IsFiniteSet(U(0)) /\ Cardinality(U(0)) = 0
        BY <3>1, FS_EmptySet
      <3>3. room[0] >= 0 /\ 0 + room[0] <= Capacity - own
        BY <1>7, <1>10
      <3>4. P(0)
        BY <1>10, <3>2, <3>3
      <3> QED
        BY <2>3, <3>4
    <2>5. n \in 1..N /\ n - 1 \in 0..N /\ P(n - 1)
      <3> HIDE DEF P
      <3>1. n \in 1..N /\ n - 1 \in 0..N /\ n - 1 \notin T
        <4> HIDE DEF T
        <4> QED
          BY <1>7, <2>2, <2>3, <2>4
      <3> QED
        BY <3>1
    <2>6. room[n] = Left(demand, n, room[n - 1]) /\ room[n - 1] \in Int
      BY <1>10, <2>5
    <2>7. demand[n] \in Nat /\ n \in DOMAIN Attached
      BY <1>7, <1>9, <2>5
    <2>8. CASE n \in in \ out
      <3>1. demand[n] = Cardinality(M[n]) /\ demand[n] <= room[n - 1]
        BY <1>4, <1>6, <1>10, <2>6, <2>7, <2>8
      <3>2. U(n) = U(n - 1) \cup M[n]
        <4>1. {j \in in \ out : j <= n} = {j \in in \ out : j <= n - 1} \cup {n}
          BY <1>6, <1>7, <2>5, <2>8
        <4> QED
          BY <4>1
      <3> HIDE DEF U
      <3>3. IsFiniteSet(U(n)) /\ Cardinality(U(n)) <= Cardinality(U(n - 1)) + demand[n]
            /\ Cardinality(U(n)) \in Nat /\ Cardinality(U(n - 1)) \in Nat
        BY <1>3, <2>5, <2>7, <3>1, <3>2, UnionCard
      <3>4. room[n] = room[n - 1] - demand[n]
        BY <2>6, <3>1 DEF Left
      <3>5. Cardinality(U(n - 1)) + room[n - 1] <= Capacity - own
        BY <1>10, <2>5
      <3>6. room[n] >= 0 /\ Cardinality(U(n)) + room[n] <= Capacity - own
        BY <1>7, <2>6, <2>7, <3>1, <3>3, <3>4, <3>5
      <3> QED
        BY <1>10, <2>3, <3>3, <3>6
    <2>9. CASE n \notin in \ out
      <3>1. U(n) = U(n - 1)
        <4>1. {j \in in \ out : j <= n} = {j \in in \ out : j <= n - 1}
          BY <1>6, <1>7, <2>5, <2>9
        <4> QED
          BY <4>1
      <3> HIDE DEF U
      <3>2. room[n - 1] >= 0
        BY <1>10, <2>5
      <3>3. room[n] = room[n - 1]
        <4>1. CASE n \in out
          <5>1. demand[n] > room[n - 1]
            BY <1>6, <1>10, <4>1
          <5> QED
            BY <2>6, <2>7, <5>1 DEF Left
        <4>2. CASE n \notin in
          <5>1. demand[n] = 0
            BY <1>4, <2>7, <4>2
          <5> QED
            BY <2>6, <3>2, <5>1 DEF Left
        <4> QED
          BY <2>9, <4>1, <4>2
      <3> QED
        BY <1>10, <2>3, <2>5, <3>1, <3>3
    <2> QED
      BY <2>8, <2>9
  <1>12. P(N)
    <2> HIDE DEF P
    <2> QED
      BY <1>7, <1>11
  <1>13. U(N) = R
    <2>1. {j \in in \ out : j <= N} = in \ out
      BY <1>6, <1>7
    <2> QED
      BY <1>5, <2>1
  <1> HIDE DEF U
  <1>14. Cardinality(U(N)) \in Nat /\ room[N] \in Int
    BY <1>7, <1>10, <1>12, FS_CardinalityType
  <1>15. Cardinality(U(N)) <= Capacity - own
    BY <1>7, <1>10, <1>12, <1>14
  <1> QED
    BY <1>12, <1>13, <1>15 DEF R

\* And so do those of them whose credentials are copied.
LEMMA ServedCard ==
    ASSUME NEW s \in [Model -> ModelSpec], NEW w, NEW accepted, NEW own \in 0..Capacity, NEW have
    PROVE  LET R == ServedRoutes(Admission(accepted, own, s, w), have, s, w)
           IN  /\ IsFiniteSet(R) /\ Cardinality(R) \in Nat
               /\ Cardinality(R) + own <= Capacity
  <1> DEFINE A == Admission(accepted, own, s, w)
             S == UNION {Mine(a, s, w) : a \in A.fits}
             R == ServedRoutes(A, have, s, w)
  <1>1. IsFiniteSet(S) /\ Cardinality(S) <= Capacity - own
    BY AdmissionCard
  <1>2. R \in SUBSET S
    BY DEF ServedRoutes
  <1> HIDE DEF S, R
  <1>3. IsFiniteSet(R) /\ Cardinality(R) <= Cardinality(S)
    BY <1>1, <1>2, FS_Subset
  <1>4. Cardinality(R) \in Nat /\ Cardinality(S) \in Nat /\ Capacity \in Nat
    BY <1>1, <1>3, FS_CardinalityType, BoundsAssumption
  <1>5. Cardinality(R) + own <= Capacity
    BY <1>1, <1>3, <1>4
  <1> QED
    BY <1>3, <1>4, <1>5 DEF R

\* Candidates or routes of own models, one for each provider, are no more than
\* their references.
LEMMA OwnCard ==
    ASSUME OwnFits, NEW S, S \in SUBSET Candidate \/ S \in SUBSET Route, Functional(S), OfOwn(S)
    PROVE  IsFiniteSet(S) /\ Cardinality(S) \in 0..Capacity
  <1>1. \A x \in S : x.model \in Own /\ x.provider \in Provider
    BY DEF Candidate, Route, OfOwn
  <1>2. IsFiniteSet(S) /\ Cardinality(S) <= Cardinality(Own \X Provider)
    BY <1>1, FunctionalCard, ModelsAssumption
  <1>3. Cardinality(S) \in Nat /\ Cardinality(Own \X Provider) \in Nat /\ Capacity \in Nat
    BY <1>2, FS_CardinalityType, FS_Product, ModelsAssumption, BoundsAssumption
  <1>4. Cardinality(Own \X Provider) <= Capacity
    BY DEF OwnFits
  <1> QED
    BY <1>2, <1>3, <1>4

\* Nothing published is within any limit.
LEMMA NoContentCard == Cardinality(NoContent.candidates) <= Capacity
  <1>1. Cardinality({}) = 0
    BY FS_EmptySet
  <1>2. NoContent.candidates = {}
    BY DEF NoContent
  <1> QED
    BY <1>1, <1>2, BoundsAssumption

LEMMA CapacityInit == OwnFits /\ Init => CapacityInv
  <1> SUFFICES ASSUME OwnFits, Init PROVE CapacityInv
    OBVIOUS
  <1>1. ContractInv /\ pass.pc = "idle"
    BY ContractInit DEF Init, Idle
  <1>2. spec \in [Model -> ModelSpec]
    BY <1>1 DEF ContractInv, TypeInv, TypeOK
  <1>3. Cardinality(Content.candidates) <= Capacity
    <2>1. CASE Empty
      BY <2>1, NoContentCard DEF Empty, Content
    <2>2. CASE Settled
      <3> DEFINE R == Resolved(Own, spec, world)
                 in == {a \in Outside : ~Excluded(a, spec, world)}
                 served == UNION {Mine(a, spec, world) :
                                    a \in Admission(in, Cardinality(R), spec, world).fits}
      <3>1. overlay = Render({}, R \cup served, TRUE)
        BY <2>2 DEF Settled
      <3>2. R \in SUBSET Route /\ OfOwn(R) /\ Functional(R)
        BY <1>2, ResolvedFacts DEF Model, OfOwn
      <3>3. served \in SUBSET Route
        <4>1. Admission(in, Cardinality(R), spec, world).fits \subseteq Outside
          BY AdmissionFacts
        <4>2. \A a \in Outside : Mine(a, spec, world) \subseteq Route
          BY <1>2, MineFacts
        <4> HIDE DEF R, in
        <4> QED
          BY <4>1, <4>2
      <3>4. IsFiniteSet(R) /\ Cardinality(R) \in 0..Capacity
        <4> HIDE DEF R
        <4> QED
          BY <3>2, OwnCard
      <3>5. IsFiniteSet(served) /\ Cardinality(served) <= Capacity - Cardinality(R)
        <4> HIDE DEF R, in
        <4> QED
          BY <1>2, <3>4, AdmissionCard
      <3> HIDE DEF R, served
      <3>6. /\ IsFiniteSet(R \cup served) /\ Cardinality(R \cup served) \in Nat
            /\ Cardinality(served) \in Nat
            /\ Cardinality(R \cup served) <= Cardinality(R) + Cardinality(served)
        BY <3>4, <3>5, UnionCard
      <3>7. IsFiniteSet({}) /\ Cardinality({}) = 0 /\ {} \in SUBSET Candidate
        BY FS_EmptySet
      <3>8. /\ Cardinality(overlay.candidates) <= Cardinality({}) + Cardinality(R \cup served)
            /\ Cardinality(overlay.candidates) \in Nat
        <4>1. R \cup served \in SUBSET Route
          BY <3>2, <3>3
        <4> QED
          BY <3>1, <3>6, <3>7, <4>1, RenderCard
      <3>9. Cardinality(overlay.candidates) <= Capacity
        BY <3>4, <3>5, <3>6, <3>7, <3>8, BoundsAssumption
      <3> QED
        BY <3>9, NoContentCard DEF Content
    <2> QED
      BY <2>1, <2>2 DEF Init
  <1> QED
    BY <1>1, <1>3 DEF CapacityInv

\* What a home pass plans fits: the attached models get what is left.
LEMMA HomeStartCard ==
    ASSUME OwnFits, ContractInv, NEW m \in Own, HomeStart(m)
    PROVE  Cardinality(pass'.want) + Cardinality(pass'.kept) + Cardinality(pass'.served) <= Capacity
  <1> DEFINE kind == Decision(m, world)
             R == Resolved(OwnLive(spec), spec, world)
             want == IF kind = "publish" THEN Without(R, Rejected(R)) ELSE {}
             kept == IF kind = "exclude"
                     THEN {c \in Preserved : c.model \notin PolicyExcluded(world)} ELSE {}
             own == Cardinality(want) + Cardinality(kept)
             served == ServedRoutes(Admission(Accepted, own, spec, world), copies, spec, world)
  <1>1. pass'.want = want /\ pass'.kept = kept /\ pass'.served = served
    BY DEF HomeStart, Idle
  <1>2. TypeInv /\ spec \in [Model -> ModelSpec] /\ WellFormed(Content)
    BY DEF ContractInv, TypeInv, TypeOK
  <1>3. want \in SUBSET Route /\ Functional(want) /\ OfOwn(want)
    <2>1. Functional(R) /\ R \subseteq Route /\ OfOwn(R) /\ want \subseteq R
      BY <1>2, StateFacts, ResolvedFacts DEF Without, OfOwn
    <2> HIDE DEF R, want
    <2> QED
      BY <2>1 DEF Functional, OfOwn
  <1>4. kept \in SUBSET Candidate /\ Functional(kept) /\ OfOwn(kept)
    <2>1. kept \subseteq Preserved /\ OfOwn(Preserved) /\ Functional(Preserved)
          /\ Preserved \in SUBSET Candidate
      BY <1>2, StateFacts DEF WellFormed, Functional
    <2> HIDE DEF kept
    <2> QED
      BY <2>1 DEF Functional, OfOwn
  <1>5. want = {} \/ kept = {}
    OBVIOUS
  <1> HIDE DEF want, kept
  <1>6. Cardinality(want) \in 0..Capacity /\ Cardinality(kept) \in 0..Capacity
    BY <1>3, <1>4, OwnCard
  <1>7. own \in 0..Capacity
    <2>1. Cardinality({}) = 0
      BY FS_EmptySet
    <2> QED
      BY <1>5, <1>6, <2>1, BoundsAssumption
  <1> HIDE DEF own
  <1>8. Cardinality(served) \in Nat /\ Cardinality(served) + own <= Capacity
    BY <1>2, <1>7, ServedCard
  <1> HIDE DEF served
  <1>9. own + Cardinality(served) <= Capacity
    BY <1>7, <1>8, BoundsAssumption
  <1> QED
    BY <1>1, <1>9 DEF own

LEMMA CapacityStep == OwnFits /\ CapacityInv /\ [Next]_vars => CapacityInv'
  <1> SUFFICES ASSUME OwnFits, CapacityInv, [Next]_vars PROVE CapacityInv'
    OBVIOUS
  <1>1. ContractInv /\ TypeInv /\ WellFormed(Content) /\ HomePlan /\ ContractInv'
    BY ContractStep DEF CapacityInv, ContractInv
  <1>2. Cardinality(Content'.candidates) <= Capacity
    <2>1. CASE HomePublish
      <3> DEFINE W == pass.want
                 K == pass.kept
                 S == pass.served
                 d == Render(K, W \cup S, pass.translation)
      <3>1. overlay' = None \/ overlay' = d
        BY <2>1 DEF HomePublish, CleanupOverlay
      <3>2. /\ pass.pc = "publish" /\ K \in SUBSET Candidate /\ W \in SUBSET Route
            /\ S \in SUBSET Route /\ OfOwn(W) /\ OfOwn(K) /\ OfOutside(S)
            /\ Functional(W) /\ Functional(K) /\ Functional(S)
        BY <1>1, <2>1 DEF HomePublish, TypeInv, TypeOK, PassTyped, HomePlan, HomePc
      <3>3. Cardinality(W) + Cardinality(K) + Cardinality(S) <= Capacity
        BY <3>2 DEF CapacityInv
      <3> HIDE DEF W, K, S
      <3>4. /\ IsFiniteSet(W) /\ IsFiniteSet(K) /\ Cardinality(W) \in Nat /\ Cardinality(K) \in Nat
        BY <3>2, OwnCard, BoundsAssumption
      <3>5. IsFiniteSet(S) /\ Cardinality(S) \in Nat
        BY <3>2, RoutesFinite, FS_CardinalityType
      <3>6. /\ IsFiniteSet(W \cup S) /\ Cardinality(W \cup S) \in Nat
            /\ Cardinality(W \cup S) <= Cardinality(W) + Cardinality(S)
        BY <3>4, <3>5, UnionCard
      <3>7. /\ Cardinality(d.candidates) <= Cardinality(K) + Cardinality(W \cup S)
            /\ Cardinality(d.candidates) \in Nat
        BY <3>2, <3>4, <3>6, RenderCard
      <3> HIDE DEF d
      <3>8. Cardinality(d.candidates) <= Capacity
        BY <3>3, <3>4, <3>5, <3>6, <3>7, BoundsAssumption
      <3> QED
        BY <3>1, <3>8, NoContentCard DEF Content, NoContent
    <2>2. CASE AttachPublish
      <3> DEFINE K == Preserved
                 R == AttachedRoutes
                 d == Render(K, R, pass.translation)
      <3>1. overlay' = None \/ overlay' = d \/ overlay' = overlay
        BY <1>1, <2>2, AttachPublishCases DEF CleanupOverlay
      <3>2. K \in SUBSET Candidate /\ OfOwn(K) /\ Functional(K) /\ R \in SUBSET Route
        BY <1>1, StateFacts, AttachedRoutesFacts DEF WellFormed, Functional
      <3>3. IsFiniteSet(K) /\ Cardinality(K) \in 0..Capacity
        <4> HIDE DEF K
        <4> QED
          BY <3>2, OwnCard
      <3>4. IsFiniteSet(R) /\ Cardinality(R) \in Nat /\ Cardinality(R) + Cardinality(K) <= Capacity
        <4>1. spec \in [Model -> ModelSpec]
          BY <1>1 DEF TypeInv, TypeOK
        <4> QED
          BY <3>3, <4>1, ServedCard DEF AttachedRoutes
      <3> HIDE DEF K, R
      <3>5. /\ Cardinality(d.candidates) <= Cardinality(K) + Cardinality(R)
            /\ Cardinality(d.candidates) \in Nat
        BY <3>2, <3>3, <3>4, RenderCard
      <3> HIDE DEF d
      <3>6. Cardinality(d.candidates) <= Capacity
        BY <3>3, <3>4, <3>5, BoundsAssumption
      <3>7. CASE overlay' = overlay
        <4>1. Content' = Content
          BY <3>7 DEF Content, NoContent
        <4> QED
          BY <4>1 DEF CapacityInv
      <3> QED
        BY <3>1, <3>6, <3>7, NoContentCard DEF Content, NoContent
    <2>3. CASE ~HomePublish /\ ~AttachPublish
      BY <2>3, OverlayKept DEF CapacityInv
    <2> QED
      BY <2>1, <2>2, <2>3
  <1>3. pass'.pc \in {"write", "publish"} =>
          Cardinality(pass'.want) + Cardinality(pass'.kept) + Cardinality(pass'.served) <= Capacity
    <2>1. CASE \E m \in Own : HomeStart(m)
      BY <1>1, <2>1, HomeStartCard
    <2>2. CASE ~(\E m \in Own : HomeStart(m))
      BY <1>1, <2>2, PlanKept DEF CapacityInv
    <2> QED
      BY <2>1, <2>2
  <1> QED
    BY <1>1, <1>2, <1>3 DEF CapacityInv

\* Whichever path publishes, and whatever changed since its pass began, the
\* overlay is one the ExtProc accepts, its size included, if the tenant's own
\* references fit: only attached models are admitted by their number
\* (admitAttachments), so the hypothesis is about the home models.
THEOREM ContractKept == ASSUME OwnFits PROVE Spec => []PraxisContract
  <1>1. CapacityInv => PraxisContract
    BY DEF CapacityInv, ContractInv, WellFormed, Functional, PraxisContract
  <1>2. Init => CapacityInv
    BY CapacityInit
  <1>3. CapacityInv /\ [Next]_vars => CapacityInv'
    BY CapacityStep
  <1> QED
    BY <1>1, <1>2, <1>3, PTL DEF Spec
=============================================================================
