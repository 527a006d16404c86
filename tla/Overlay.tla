------------------------------ MODULE Overlay ------------------------------
(***************************************************************************)
(* What a tenant's overlay should hold: which provider references of an    *)
(* ExternalModel resolve (pkg/resolver), which models are excluded, how    *)
(* the overlay's capacity is shared out among the models other namespaces  *)
(* attach to the tenant's Gateway (pkg/controller/attachment.go), and what *)
(* a publication renders (pkg/envelope).  Pure functions of the            *)
(* configuration s, a model's spec, and w, the providers, ReferenceGrants  *)
(* and the tenant's translation flag.                                      *)
(*                                                                         *)
(* A tenant's own model overrides the credential of a provider of another  *)
(* namespace with a Secret of its own; an attached model inherits it.      *)
(***************************************************************************)
EXTENDS Integers, Sequences, FiniteSets

CONSTANTS
    Own,                \* models of the tenant's namespace
    Attached,           \* models of other namespaces, a sequence, oldest first
    Provider, Name,
    Tenant,             \* the tenant's namespace
    ModelNamespace, ProviderNamespace,
    ProviderType,       \* openai or anthropic
    Weight,             \* weights of references, zero included
    Capacity,           \* maxOverlayCandidates (1024)
    MaxProviders        \* providers an HTTPRoute's 16 rules leave room for (7)

Outside == {Attached[i] : i \in DOMAIN Attached}
Model == Own \cup Outside
Namespace == {ModelNamespace[m] : m \in Model}

ASSUME ModelsAssumption ==
    /\ IsFiniteSet(Own) /\ IsFiniteSet(Provider) /\ Attached \in Seq(Outside)
    /\ \A o \in Own : ModelNamespace[o] = Tenant
    /\ \A a \in Outside : ModelNamespace[a] # Tenant
    /\ \A i, j \in DOMAIN Attached : Attached[i] = Attached[j] => i = j
ASSUME BoundsAssumption ==
    Weight \subseteq Nat /\ {0, 1} \subseteq Weight /\ Capacity \in Nat /\ MaxProviders \in Nat

Format == {"chat", "messages"}
\* valid: transport, path, trust and port of the reference resolve, and no
\* other active reference names the same provider.
Reference == [weight: Weight, format: Format, valid: BOOLEAN]
References == UNION {[S -> Reference] : S \in SUBSET Provider}
ModelSpec == [name: Name, refs: References, life: {"live", "deleting", "gone"}]
\* absent stands for terminating too.
ProviderPhase == {"absent", "failed", "uncredentialed", "ready"}
World == [phase: [Provider -> ProviderPhase],
          granted: SUBSET (Namespace \X Provider), translation: BOOLEAN]

Route == [model: Model, provider: Provider, name: Name, weight: Weight, format: Format]
\* weight zero: no traffic_weight; profile: the api_format field.
Candidate == [model: Model, provider: Provider, name: Name, group: BOOLEAN,
              weight: Weight, profile: Format \cup {"none"}]
Policy == {"none", "random", "weightedRandom"}

Live(s) == {m \in Model : s[m].life = "live"}
OwnLive(s) == Own \cap Live(s)
Foreign(m, p) == ProviderNamespace[p] # ModelNamespace[m]

-----------------------------------------------------------------------------
(***************************************************************************)
(* Resolution of references.                                               *)
(***************************************************************************)
\* A ReferenceGrant of the provider's namespace permits the reference.
Permitted(m, p, w) == ~Foreign(m, p) \/ <<ModelNamespace[m], p>> \in w.granted

\* providerInputs and foreignProviders: what the resolver is given.
Found(m, p, w) == w.phase[p] # "absent" /\ Permitted(m, p, w)

SupportedFormat(p, format) ==
    format = (IF ProviderType[p] = "anthropic" THEN "messages" ELSE "chat")

HardErrors == {"Unsupported", "Invalid"}

\* resolve, then skipUnreadyCredentials: the first test that applies decides.
Outcome(m, s, p, w) ==
    LET ref == s[m].refs[p]
        found == Found(m, p, w)
    IN  IF ref.weight = 0 THEN "WeightDisabled"
        ELSE IF ~found /\ Foreign(m, p) THEN "RefNotPermitted"
        ELSE IF /\ ref.format = "messages" /\ ~w.translation
                /\ ~found \/ ProviderType[p] = "anthropic"
             THEN "TranslationDisabled"
        ELSE IF ~found THEN "RefNotFound"
        ELSE IF w.phase[p] = "failed" THEN "ProviderNotReady"
        ELSE IF ~SupportedFormat(p, ref.format) THEN "Unsupported"
        ELSE IF ~ref.valid THEN "Invalid"
        ELSE IF w.phase[p] = "uncredentialed" /\ Foreign(m, p) /\ m \notin Own
             THEN "ProviderNotReady"
        ELSE "Routed"

Outcomes(m, s, w) == {Outcome(m, s, p, w) : p \in DOMAIN s[m].refs}

\* An unsupported or invalid reference fails the whole call.
ResolutionFails(M, s, w) == \E m \in M : Outcomes(m, s, w) \cap HardErrors # {}

RoutesOf(m, s, w) ==
    {[model |-> m, provider |-> p, name |-> s[m].name,
      weight |-> s[m].refs[p].weight, format |-> s[m].refs[p].format] :
        p \in {q \in DOMAIN s[m].refs : Outcome(m, s, q, w) = "Routed"}}
Resolved(M, s, w) == UNION {RoutesOf(m, s, w) : m \in M}

\* validateResolvedCredentials
CredentialMissing(R, w) ==
    \E r \in R : w.phase[r.provider] = "uncredentialed" /\ ~Foreign(r.model, r.provider)

\* explicitlyWeightDisabledModels, translationPolicyExcludedModels: models all
\* of whose references are skipped for that reason.
SkippedOnly(M, reason, s, w) == {m \in M : Outcomes(m, s, w) = {reason}}

-----------------------------------------------------------------------------
(***************************************************************************)
(* Selection: which resolved models may be published.                      *)
(***************************************************************************)
\* httpRouteRuleCount: models with too many providers.
TooMany(R) ==
    {r.model : r \in {x \in R : Cardinality({y \in R : y.model = x.model}) > MaxProviders}}

\* excludeUnsupportedModelSelection: every model of a client name that two
\* models bind to one provider, and every model with too many rules.
Rejected(R) ==
    LET clash == {r.name : r \in {x \in R : \E y \in R :
                    y.name = x.name /\ y.provider = x.provider /\ y.model # x.model}}
    IN  {r.model : r \in {x \in R : x.name \in clash}} \cup TooMany(R)

Without(R, M) == {r \in R : r.model \notin M}

\* attachmentCandidates: the tenant's own models hold their names, else the
\* oldest attached model does, whether or not it resolves.
Holder(n, s) ==
    LET sharing == {i \in DOMAIN Attached : Attached[i] \in Live(s) /\ s[Attached[i]].name = n}
        oldest == CHOOSE i \in sharing : \A j \in sharing : i <= j
    IN  IF \E o \in OwnLive(s) : s[o].name = n THEN Tenant
        ELSE ModelNamespace[Attached[oldest]]

\* resolveAttachedModel: the routes of an attached model; none when its name
\* is held elsewhere, its resolution fails or it has too many providers.
Mine(a, s, w) ==
    LET R == RoutesOf(a, s, w)
    IN  IF \/ Holder(s[a].name, s) # ModelNamespace[a]
           \/ ResolutionFails({a}, s, w)
           \/ CredentialMissing(R, w)
           \/ Cardinality(R) > MaxProviders
        THEN {} ELSE R

\* A model rejected with its group is excluded and keeps its routes.
Excluded(a, s, w) ==
    \/ Mine(a, s, w) = {}
    \/ a \in Rejected(UNION {Mine(b, s, w) : b \in Outside \cap Live(s)})

\* localizeRoutes: a credential of another namespace, or one with a header of
\* its own, is mounted from a copy in the tenant's namespace.
Copied(R) == {r.provider : r \in {x \in R :
    ProviderNamespace[x.provider] # Tenant \/ ProviderType[x.provider] = "anthropic"}}

-----------------------------------------------------------------------------
(***************************************************************************)
(* admitAttachments: accepted, eligible models oldest first, within the    *)
(* capacity own candidates leave.                                          *)
(***************************************************************************)
Competes(a, accepted, s, w) ==
    a \in accepted \cap Live(s) /\ ~Excluded(a, s, w)

\* What is left after the i oldest, of which each takes what it demands if
\* there is room.
Room(demand, own) ==
    LET room[i \in 0 .. Len(Attached)] ==
            IF i = 0 THEN Capacity - own
            ELSE IF demand[i] <= room[i - 1] THEN room[i - 1] - demand[i]
            ELSE room[i - 1]
    IN  room

Admission(accepted, own, s, w) ==
    LET in == {i \in DOMAIN Attached : Competes(Attached[i], accepted, s, w)}
        demand == [i \in DOMAIN Attached |->
                     IF i \in in THEN Cardinality(Mine(Attached[i], s, w)) ELSE 0]
        room == Room(demand, own)
        over == {i \in in : demand[i] > room[i - 1]}
    IN  [fits |-> {Attached[i] : i \in in \ over}, over |-> {Attached[i] : i \in over}]

\* servedAttachments: those admitted whose credential copies exist.
ServedRoutes(admission, copies, s, w) ==
    UNION {Mine(a, s, w) :
             a \in {b \in admission.fits : Copied(Mine(b, s, w)) \subseteq copies}}

-----------------------------------------------------------------------------
(***************************************************************************)
(* Render: candidates kept from the last publication and resolved routes.  *)
(***************************************************************************)
\* deriveSelectionMetadata
SharedNames(R) == {r.name : r \in {x \in R : \E y \in R : y # x /\ y.name = x.name}}
UnequalWeights(R) == \E x, y \in R : x.name = y.name /\ x.weight # y.weight

\* Fault: the weights are left to the normalisation.
CandidateUnweighted(r, R) ==
    [model |-> r.model, provider |-> r.provider, name |-> r.name,
     group |-> UnequalWeights(R) \/ r.name \in SharedNames(R), weight |-> 0,
     profile |-> r.format]

\* A route's candidate before normalisation.
CandidateOf(r, R) ==
    [model |-> r.model, provider |-> r.provider, name |-> r.name,
     group |-> UnequalWeights(R) \/ r.name \in SharedNames(R),
     weight |-> IF UnequalWeights(R) THEN r.weight ELSE 0, profile |-> r.format]

\* Fault: the default is added to the weights that are there.
NormalizedShifted(c, weighted, translation) ==
    [c EXCEPT !.group = @ \/ weighted, !.weight = IF weighted THEN @ + 1 ELSE @,
              !.profile = IF translation THEN @ ELSE "none"]

\* normalizeWeightedCandidates, and profiles only with translation enabled.
Normalized(c, weighted, translation) ==
    [c EXCEPT !.group = @ \/ weighted,
              !.weight = IF weighted /\ @ = 0 THEN 1 ELSE @,
              !.profile = IF translation THEN @ ELSE "none"]

\* Fault: kept candidates are appended as they were published.
RenderVerbatim(preserved, R, translation) ==
    LET weighted == UnequalWeights(R)
    IN  [candidates |-> preserved \cup
            {Normalized(CandidateOf(r, R), weighted, translation) : r \in R},
         policy |-> IF weighted THEN "weightedRandom"
                    ELSE IF SharedNames(R) # {} THEN "random" ELSE "none"]

Render(preserved, R, translation) ==
    LET weighted == UnequalWeights(R) \/ \E c \in preserved : c.weight # 0
        random == SharedNames(R) # {} \/ \E c \in preserved : c.group
    IN  [candidates |-> {Normalized(c, weighted, translation) :
                           c \in preserved \cup {CandidateOf(r, R) : r \in R}},
         policy |-> IF weighted THEN "weightedRandom"
                    ELSE IF random THEN "random" ELSE "none"]
=============================================================================
