--------------------------- MODULE TenantOverlay ---------------------------
(***************************************************************************)
(* One steady tenant's overlay and everyone who writes it: the home path   *)
(* of its own ExternalModels (pkg/controller/reconciler.go) and the        *)
(* attachment path of models of other namespaces, each with an HTTPRoute   *)
(* of its own that the Gateway has to accept and credential copies in the  *)
(* tenant's namespace (pkg/controller/attachment.go).  One worker takes    *)
(* models from the queue; a pass is a sequence of API writes between which *)
(* models, providers, grants, the translation flag, the Gateway and the    *)
(* ExtProc pods (external) change.                                         *)
(*                                                                         *)
(* Withdrawing a provider from an attached model is staged: the rule stays *)
(* in the accepted route, the candidate it stood for is recorded on the    *)
(* route, and the rule goes when the pods serve the reduced overlay and    *)
(* the drain interval has passed.                                          *)
(*                                                                         *)
(* The caches are current; the route EnvoyFilter, the DestinationRules and *)
(* provider transport are left out.                                        *)
(***************************************************************************)
EXTENDS Overlay

CONSTANTS
    None,
    Version,      \* the names and references each model's spec may have
    Initial,      \* the one it starts with
    Kinds,        \* which changes happen
    MaxChanges    \* how many of them

ASSUME VersionsAssumption == \A m \in Model :
    {Initial[m]} \cup Version[m] \subseteq [name: Name, refs: References]
ASSUME NoneAssumption == None \notin [candidates: SUBSET Candidate, policy: Policy]

VARIABLES
    spec, world,  \* the ExternalModels; providers, grants and translation
    overlay,      \* the published overlay: candidates and policy, or None
    running,      \* the overlay every ExtProc pod serves
    drain,        \* the overlay the withdrawal drain annotation is about
    rules,        \* provider rules of the own models' HTTPRoutes
    route,        \* the attached models' HTTPRoutes
    copies,       \* providers whose credential is copied to the tenant
    queue, pass,  \* the work queue and the worker's pass
    over,         \* attached models left out for capacity since they were last served
    changes

vars == <<spec, world, overlay, running, drain, rules, route, copies, queue, pass,
          over, changes>>
outside == <<spec, world, running, changes>>

NoContent == [candidates |-> {}, policy |-> "none"]
Content == IF overlay = None THEN NoContent ELSE overlay

\* verdict: the Accepted condition of any generation.  evidence: the
\* withdrawal annotation, providers with the name their candidate had.  uses:
\* the annotation naming the credential copies the route needs.
RouteObject == [exists: BOOLEAN, verdict: {"waiting", "accepted", "refused"},
                rules: SUBSET Provider, evidence: SUBSET (Provider \X Name),
                uses: SUBSET Provider]
NoRoute == [exists |-> FALSE, verdict |-> "waiting", rules |-> {}, evidence |-> {},
            uses |-> {}]

\* What a pass decided and read: kind; the translation flag; routes wanted for
\* own models, or for the attached model; kept candidates and own models;
\* attached routes to publish; attached models over capacity; rules being
\* withdrawn; retain, whether any withdrawal is pending; deleting, whether it
\* read its model as terminating.  steady: nothing it depends on has changed
\* since it began.
Idle == [pc |-> "idle", model |-> None, kind |-> None, translation |-> FALSE,
         want |-> {}, kept |-> {}, keep |-> {}, served |-> {}, over |-> {},
         stale |-> {}, retain |-> FALSE, deleting |-> FALSE, steady |-> TRUE]
HomePc == {"write", "publish", "finish"}
AttachPc == {"copy", "withdraw", "stage", "drain", "prune", "republish", "collect",
             "remove", "depublish"}

\* What the pass resolves against: the flag it read, the providers as they are.
View == [world EXCEPT !.translation = pass.translation]
Accepted == {a \in Outside : route[a].exists /\ route[a].verdict = "accepted"}
Pairs(R) == {<<r.model, r.provider>> : r \in R}
OfModel(S, m) == {x \in S : x[1] = m}

\* HTTPRoute events (attachmentRouteModels).  A request for a model that is gone
\* is dropped.
Woken == {a \in Outside : route'[a] # route[a]}
         \cup {o \in Own : spec[o].life # "gone" /\ OfModel(rules', o) # OfModel(rules, o)}
Continue(next) == pass' = [pass EXCEPT !.pc = next] /\ queue' = queue \cup Woken
\* A return without error, or with one: the request is repeated.
Return == pass' = Idle /\ queue' = queue \cup Woken
Retry == pass' = Idle /\ queue' = queue \cup Woken \cup {pass.model}

-----------------------------------------------------------------------------
(***************************************************************************)
(* Shared by every writer.                                                 *)
(***************************************************************************)
\* ownOverlayCandidates
Preserved ==
    {c \in Content.candidates :
        /\ c.model \in Own
        /\ Foreign(c.model, c.provider) =>
              c.model \in Live(spec) /\ c.provider \in DOMAIN spec[c.model].refs}

\* withdrawnAttachmentCandidates: rules of an accepted route the model's
\* routes no longer contain.
Stale(a, w) ==
    IF a \in Accepted \cap Live(spec)
    THEN route[a].rules \ {r.provider : r \in Mine(a, spec, w)} ELSE {}
Withdrawing(w) == {a \in Outside : Stale(a, w) # {}}

\* The overlay's candidate, else the recorded one, has the model's name.
Provable(a, p) ==
    LET published == {c \in Content.candidates : c.model = a /\ c.provider = p}
    IN  IF published = {} THEN <<p, spec[a].name>> \in route[a].evidence
        ELSE \A c \in published : c.name = spec[a].name
Blocked(w) == {a \in Outside : \E p \in Stale(a, w) : ~Provable(a, p)}

Proof(a, S) == {<<p, spec[a].name>> : p \in S}

\* writeTenantExternalModelRoutes, persistAttachmentWithdrawal: every attached
\* model in turn, until one cannot be proved.
Persisted(w) ==
    LET reached(a) == \A i, j \in DOMAIN Attached :
                        Attached[i] = a /\ Attached[j] \in Blocked(w) => i < j
    IN  [a \in Outside |->
            IF a \in Withdrawing(w) /\ reached(a)
            THEN [route[a] EXCEPT !.evidence = Proof(a, Stale(a, w))] ELSE route[a]]

\* Fault: the routes over capacity still count.
CollectedAll(out) == {p \in copies : \E a \in Accepted : p \in route[a].uses}

\* gcTenantState: copies an accepted route outside the set out names.
Collected(out) == {p \in copies : \E a \in Accepted \ out : p \in route[a].uses}

\* cleanupOverlay deletes the ConfigMap, the drain annotation with it.
Publish(content) == overlay' = content /\ UNCHANGED <<drain, copies>>
CleanupOverlay == overlay' = None /\ drain' = None /\ copies' = Collected({})

\* withdrawalDrainRemaining: the pods serve something else; the deadline
\* starts; it has not passed.
DrainGoesOn ==
    \/ running # overlay /\ drain' = None
    \/ running = overlay /\ drain # overlay /\ drain' = overlay
    \/ running = overlay /\ drain = overlay /\ UNCHANGED drain
Drained == overlay # None /\ running = overlay /\ drain = overlay

-----------------------------------------------------------------------------
(***************************************************************************)
(* The home path: reconcileHomeModel, and republishHomeWithout for a model *)
(* being deleted.                                                          *)
(***************************************************************************)
\* servesDeniedReference
Revoked(w) ==
    \E c \in Preserved : Foreign(c.model, c.provider) /\ ~Found(c.model, c.provider, w)

PolicyExcluded(w) ==
    SkippedOnly(OwnLive(spec), "TranslationDisabled", spec, w)
    \cup SkippedOnly(OwnLive(spec), "WeightDisabled", spec, w)

\* ErrNoRoutes: withdraw everything, only the excluded models, or keep the
\* last serving state.
WithoutRoutes(m, w) ==
    LET all(reason) == SkippedOnly(OwnLive(spec), reason, spec, w) = OwnLive(spec)
    IN  IF spec[m].life = "live"
        THEN IF Revoked(w) \/ all("WeightDisabled") THEN "clear"
             ELSE IF PolicyExcluded(w) # {} THEN "exclude" ELSE "retain"
        ELSE IF Revoked(w) \/ all("TranslationDisabled") THEN "clear" ELSE "retain"

Decision(m, w) ==
    LET R == Resolved(OwnLive(spec), spec, w)
        valid == Without(R, Rejected(R))
    IN  IF ResolutionFails(OwnLive(spec), spec, w) THEN "retain"
        ELSE IF R = {} THEN WithoutRoutes(m, w)
        ELSE IF m \in Rejected(R) /\ spec[m].life = "live" THEN "retain"
        ELSE IF valid = {} THEN "clear"
        ELSE IF CredentialMissing(valid, w) THEN "retain"
        ELSE "publish"

\* Reads up to the first write; a decision to retain is an error that is
\* retried and changes nothing.
HomeStart(m) ==
    LET kind == Decision(m, world)
        R == Resolved(OwnLive(spec), spec, world)
        want == IF kind = "publish" THEN Without(R, Rejected(R)) ELSE {}
        keep == OwnLive(spec) \ PolicyExcluded(world)
        kept == IF kind = "exclude"
                THEN {c \in Preserved : c.model \notin PolicyExcluded(world)} ELSE {}
        admission == Admission(Accepted, Cardinality(want) + Cardinality(kept), spec, world)
    IN
    /\ pass.pc = "idle" /\ m \in queue \cap Own /\ spec[m].life # "gone"
    /\ kind # "retain"
    /\ pass' = [Idle EXCEPT !.pc = "write", !.model = m, !.kind = kind,
                    !.translation = world.translation, !.want = want, !.kept = kept,
                    !.keep = keep, !.served = ServedRoutes(admission, copies, spec, world),
                    !.over = admission.over,
                    !.deleting = spec[m].life = "deleting"]
    /\ queue' = queue \ {m}
    /\ UNCHANGED <<outside, overlay, drain, rules, route, copies, over>>

\* applyTransport, or the cleanup of the routes that go at once.  Own rules are
\* kept while they are published (transportRoutesForPublication).
HomeWrite ==
    /\ pass.pc = "write"
    /\ route' = Persisted(View)
    /\ \/ /\ pass.kind = "publish"
          /\ rules' = rules \cup Pairs(pass.want)
                      \cup Pairs({c \in Content.candidates : c.model \in Own})
       \/ /\ pass.kind # "publish" /\ Blocked(View) # {}
          /\ UNCHANGED rules
       \/ /\ pass.kind = "clear" /\ Blocked(View) = {}
          /\ rules' = {}
       \/ /\ pass.kind = "exclude" /\ Blocked(View) = {}
          /\ rules' = {x \in rules : x[1] \in pass.keep}
    /\ IF Blocked(View) # {} THEN Retry
       ELSE /\ pass' = [pass EXCEPT !.pc = "publish", !.retain = Withdrawing(View) # {}]
            /\ queue' = queue \cup Woken
    /\ UNCHANGED <<outside, overlay, drain, copies, over>>

\* The finalizer of a terminating model goes last, and the model with it.
Gone(m) == spec' = [spec EXCEPT ![m].life = "gone"]
Leave == Gone(pass.model) /\ pass' = Idle /\ queue' = (queue \cup Woken) \ {pass.model}

\* publishTenantOverlay, keepTenantAttachments, cleanupExcludedHomeModels.
HomePublish ==
    LET R == pass.want \cup pass.served
        nothing == pass.kept = {} /\ R = {} /\ ~(pass.kind = "clear" /\ pass.retain)
    IN
    /\ pass.pc = "publish"
    /\ over' = over \cup pass.over
    /\ \/ nothing /\ CleanupOverlay
       \/ /\ ~nothing
          /\ overlay' = Render(pass.kept, R, pass.translation)
          /\ copies' = IF \/ pass.kind = "clear"
                          \/ pass.kind = "exclude" /\ pass.over # {}
                       THEN Collected(pass.over) ELSE copies
          /\ UNCHANGED drain
    /\ UNCHANGED <<rules, route>>
    /\ \/ pass.kind = "publish" /\ Continue("finish") /\ UNCHANGED spec
       \/ pass.kind # "publish" /\ pass.deleting /\ Leave
       \/ pass.kind # "publish" /\ ~pass.deleting /\ Retry /\ UNCHANGED spec
    /\ UNCHANGED <<world, running, changes>>

Finished ==
    /\ copies' = Collected(pass.over)
    /\ drain' = IF Withdrawing(View) = {} THEN None ELSE drain
    /\ IF pass.deleting THEN Leave ELSE Return /\ UNCHANGED spec

\* finishProviderWithdrawal, and the collection that waits for it.
HomeFinish ==
    /\ pass.pc = "finish"
    /\ \/ /\ rules \subseteq Pairs(pass.want) /\ Blocked(View) = {}
          /\ UNCHANGED <<rules, route>>
          /\ Finished
       \/ /\ rules \subseteq Pairs(pass.want) /\ Blocked(View) # {}
          /\ UNCHANGED <<spec, rules, route, copies, drain>> /\ Retry
       \/ /\ ~(rules \subseteq Pairs(pass.want))
          /\ UNCHANGED <<spec, rules, route, copies>>
          /\ DrainGoesOn /\ Retry
       \/ /\ ~(rules \subseteq Pairs(pass.want)) /\ Drained
          /\ rules' = Pairs(pass.want) /\ route' = Persisted(View)
          /\ IF Blocked(View) # {}
             THEN Retry /\ UNCHANGED <<spec, copies, drain>> ELSE Finished
    /\ UNCHANGED <<world, running, overlay, over, changes>>

-----------------------------------------------------------------------------
(***************************************************************************)
(* The attachment path: reconcileAttachment.                               *)
(***************************************************************************)
\* applyAttachmentRoute.  With rules to retain the annotations accumulate;
\* without, a withdrawal annotation only this applier wrote disappears, one a
\* merge patch wrote stays.
Apply(a, R, stale) ==
    \E evidence \in IF stale = {} THEN {{}, route[a].evidence}
                    ELSE {route[a].evidence \cup Proof(a, stale)} :
        route' = [route EXCEPT ![a] =
                    [exists |-> TRUE, verdict |-> @.verdict,
                     rules |-> {r.provider : r \in R} \cup stale, evidence |-> evidence,
                     uses |-> Copied(R) \cup IF stale = {} THEN {} ELSE @.uses]]

\* Fault: a removed provider's rule goes with the edit.
AttachAtOnce(a, kind, stale) ==
    /\ Apply(a, Mine(a, spec, world), {})
    /\ pass' = [Idle EXCEPT !.pc = IF kind = "serve" THEN "copy" ELSE "withdraw",
                    !.model = a, !.kind = kind,
                    !.translation = world.translation, !.want = Mine(a, spec, world)]

Attach(a, kind, stale) ==
    /\ Apply(a, Mine(a, spec, world), stale)
    /\ pass' = [Idle EXCEPT !.pc = IF kind = "serve" THEN "copy" ELSE "withdraw",
                    !.model = a, !.kind = kind,
                    !.translation = world.translation, !.want = Mine(a, spec, world),
                    !.stale = stale]

\* reconcileExcludedAttachment
Exclude(a, stale) ==
    /\ pass' = [Idle EXCEPT !.pc = IF stale = {} THEN "remove" ELSE "stage",
                    !.model = a, !.kind = "exclude", !.translation = world.translation,
                    !.stale = stale]
    /\ IF stale = {} THEN UNCHANGED route ELSE Apply(a, {}, stale)

\* reconcileExcludedAttachment and reconcileEligibleAttachment up to the
\* admission; a rule that cannot be proved is an error that changes nothing.
AttachStart(a) ==
    LET stale == Stale(a, world)
        admission == Admission(Accepted, Cardinality(Preserved), spec, world)
    IN
    /\ pass.pc = "idle" /\ a \in queue \cap Outside \cap Live(spec)
    /\ a \notin Blocked(world)
    /\ \/ Excluded(a, spec, world) /\ Exclude(a, stale)
       \/ /\ ~Excluded(a, spec, world)
          /\ Attach(a, IF a \in Accepted \ admission.over THEN "serve" ELSE "withdraw", stale)
    /\ over' = over \cup ({a} \cap admission.over)
    /\ UNCHANGED rules
    /\ queue' = (queue \ {a}) \cup Woken
    /\ UNCHANGED <<outside, overlay, drain, copies>>

\* applyCredentialCopies, after livePraxisBeforeWrite.
CopyCredentials ==
    /\ pass.pc = "copy"
    /\ UNCHANGED <<outside, overlay, drain, rules, route, over>>
    /\ IF \/ world.translation # pass.translation
          \/ \E p \in Copied(pass.want) : world.phase[p] = "uncredentialed"
       THEN Retry /\ UNCHANGED copies
       ELSE Continue("stage") /\ copies' = copies \cup Copied(pass.want)

\* What follows a publication.
AfterPublish ==
    CASE pass.pc = "stage" /\ pass.stale # {} -> "drain"
      [] pass.pc = "depublish" -> "idle"
      [] OTHER -> "collect"

Published(served, excess) ==
    /\ pass' = IF AfterPublish = "idle" THEN Idle
               ELSE [pass EXCEPT !.pc = AfterPublish, !.served = served, !.over = excess]
    /\ queue' = queue \cup Woken

\* publishAttachmentTenantWithRetainedRoutes.  A tenant that changed since the
\* pass began is left alone, without an error.
AttachPublish ==
    LET admission == Admission(Accepted, Cardinality(Preserved), spec, View)
        R == ServedRoutes(admission, copies, spec, View)
        retaining == Withdrawing(View) # {} \/ (pass.pc = "stage" /\ pass.stale # {})
    IN
    /\ pass.pc \in {"stage", "withdraw", "republish", "depublish"}
    /\ UNCHANGED rules
    /\ \/ /\ world.translation # pass.translation
          /\ UNCHANGED <<overlay, drain, route, copies, over>>
          /\ Published({}, {})
       \/ /\ world.translation = pass.translation /\ Blocked(View) # {}
          /\ route' = Persisted(View)
          /\ UNCHANGED <<overlay, drain, copies, over>>
          /\ Retry
       \/ /\ world.translation = pass.translation /\ Blocked(View) = {}
          /\ route' = Persisted(View)
          /\ over' = over \cup admission.over
          /\ IF Preserved = {} /\ R = {} /\ ~retaining THEN CleanupOverlay
             ELSE Publish(Render(Preserved, R, pass.translation))
          /\ Published(R, admission.over)
    /\ UNCHANGED outside

\* attachmentWithdrawalRemaining
AttachDrain ==
    /\ pass.pc = "drain"
    /\ UNCHANGED <<outside, overlay, rules, route, copies, over>>
    /\ \/ overlay = None /\ Retry /\ UNCHANGED drain
       \/ overlay # None /\ DrainGoesOn /\ Retry
       \/ /\ Drained /\ UNCHANGED drain
          /\ Continue(IF pass.kind = "exclude" THEN "remove" ELSE "prune")

AttachPrune ==
    /\ pass.pc = "prune"
    /\ Apply(pass.model, pass.want, {})
    /\ UNCHANGED <<outside, overlay, drain, rules, copies, over>>
    /\ Continue("republish")

\* gcAttachmentState; a model that is not yet served is looked at again, and so
\* is one whose route waits for the Gateway, but not one over the capacity.
AttachCollect ==
    LET a == pass.model
        served == pass.kind = "serve" /\ \E r \in pass.served : r.model = a
    IN
    /\ pass.pc = "collect"
    /\ copies' = Collected(pass.over)
    /\ over' = IF served THEN over \ {a} ELSE over
    /\ UNCHANGED <<outside, overlay, drain, rules, route>>
    /\ IF \/ pass.kind = "serve" /\ a \in Accepted /\ ~served /\ a \notin pass.over
          \/ route[a].verdict = "waiting"
       THEN Retry ELSE Return

\* removeAttachmentRoute
AttachRemove ==
    /\ pass.pc = "remove"
    /\ route' = [route EXCEPT ![pass.model] = NoRoute]
    /\ copies' = IF route[pass.model].exists THEN Collected({pass.model}) ELSE copies
    /\ UNCHANGED <<outside, overlay, drain, rules, over>>
    /\ Continue("depublish")

\* releaseAttachments of a model being deleted: its route, then what it used.
\* The overlay is left to the next publication.
AttachRelease(a) ==
    /\ pass.pc = "idle" /\ a \in queue \cap Outside /\ spec[a].life = "deleting"
    /\ route' = [route EXCEPT ![a] = NoRoute]
    /\ copies' = Collected({a})
    /\ Gone(a)
    /\ queue' = queue \ {a}
    /\ UNCHANGED <<world, overlay, running, drain, rules, pass, over, changes>>

-----------------------------------------------------------------------------
(***************************************************************************)
(* Everyone else.                                                          *)
(***************************************************************************)
\* A call of the pass fails: what it wrote stays, and the request is repeated.
Fail ==
    /\ "fail" \in Kinds /\ changes < MaxChanges /\ changes' = changes + 1
    /\ pass.pc # "idle"
    /\ UNCHANGED <<spec, world, running, overlay, drain, rules, route, copies, over>>
    /\ Retry

Change(kind, woken) ==
    /\ kind \in Kinds /\ changes < MaxChanges /\ changes' = changes + 1
    /\ queue' = queue \cup woken
    /\ pass' = [pass EXCEPT !.steady = pass.pc = "idle"]
    /\ UNCHANGED <<overlay, running, drain, rules, copies, over>>

\* Fault: a rename wakes only the models that have the new name.
SameNameOfNew(m, new) ==
    {a \in Outside : spec[a].life # "gone" /\ spec[a].name = new}

\* sameNameModels: of the old and of the new object.
SameName(m, new) ==
    {a \in Outside : spec[a].life # "gone" /\ spec[a].name \in {spec[m].name, new}}

EditModel(m) == \E v \in Version[m] :
    /\ spec[m].life = "live" /\ v # [name |-> spec[m].name, refs |-> spec[m].refs]
    /\ spec' = [spec EXCEPT ![m].name = v.name, ![m].refs = v.refs]
    /\ Change("edit", {m} \cup SameName(m, v.name))
    /\ UNCHANGED <<world, route>>

DeleteModel(m) ==
    /\ spec[m].life = "live"
    /\ spec' = [spec EXCEPT ![m].life = "deleting"]
    /\ Change("delete", {m} \cup SameName(m, spec[m].name))
    /\ UNCHANGED <<world, route>>

\* modelsReferencingProviders
Referencing(p) == {m \in Model : spec[m].life # "gone" /\ p \in DOMAIN spec[m].refs}

ChangeProvider(p) == \E phase \in ProviderPhase \ {world.phase[p]} :
    /\ world' = [world EXCEPT !.phase[p] = phase]
    /\ Change("provider", Referencing(p))
    /\ UNCHANGED <<spec, route>>

\* referenceGrantModels: models of other namespaces that reference any
\* provider of the grant's namespace.  Grants no model could use are left out.
ChangeGrant(n, p) ==
    /\ n # ProviderNamespace[p]
    /\ \E m \in Model : ModelNamespace[m] = n /\ \E v \in Version[m] : p \in DOMAIN v.refs
    /\ world' = [world EXCEPT !.granted =
                    IF <<n, p>> \in @ THEN @ \ {<<n, p>>} ELSE @ \cup {<<n, p>>}]
    /\ Change("grant", {m \in Model :
                /\ spec[m].life # "gone" /\ ModelNamespace[m] # ProviderNamespace[p]
                /\ \E q \in DOMAIN spec[m].refs : ProviderNamespace[q] = ProviderNamespace[p]})
    /\ UNCHANGED <<spec, route>>

\* maasTenantConfigModels
ChangeTranslation ==
    /\ world' = [world EXCEPT !.translation = ~@]
    /\ Change("translation", {m \in Model : spec[m].life # "gone"})
    /\ UNCHANGED <<spec, route>>

\* The Gateway's verdict on an attachment route.
Accept(a) ==
    /\ route[a].exists /\ route[a].verdict # "accepted"
    /\ route' = [route EXCEPT ![a].verdict = "accepted"]
    /\ queue' = queue \cup {a}
    /\ pass' = [pass EXCEPT !.steady = pass.pc = "idle"]
    /\ UNCHANGED <<outside, overlay, drain, rules, copies, over>>

Refuse(a) ==
    /\ a \in Accepted
    /\ route' = [route EXCEPT ![a].verdict = "refused"]
    /\ Change("refuse", {a})
    /\ UNCHANGED <<spec, world>>

\* Every ExtProc pod has loaded the published overlay.
Roll ==
    /\ running # Content
    /\ running' = Content
    /\ UNCHANGED <<spec, world, overlay, drain, rules, route, copies, queue, pass, over,
                   changes>>

\* A tenant nothing was done for yet, which counts as a change.
Empty ==
    /\ overlay = None /\ running = NoContent /\ rules = {} /\ copies = {}
    /\ route = [a \in Outside |-> NoRoute] /\ queue = Model /\ over = {} /\ changes = 1

\* A tenant served as its models, all valid, say.
Settled ==
    LET R == Resolved(Own, spec, world)
        in == {a \in Outside : ~Excluded(a, spec, world)}
        admission == Admission(in, Cardinality(R), spec, world)
        served == UNION {Mine(a, spec, world) : a \in admission.fits}
    IN
    /\ Rejected(R) = {}
    /\ overlay = Render({}, R \cup served, TRUE) /\ running = overlay
    /\ rules = Pairs(R) /\ copies = Copied(served)
    /\ route = [a \in Outside |->
                  LET M == Mine(a, spec, world)
                  IN  IF a \notin in THEN NoRoute
                      ELSE [exists |-> TRUE, verdict |-> "accepted",
                            rules |-> {r.provider : r \in M}, evidence |-> {},
                            uses |-> Copied(M)]]
    /\ queue = {} /\ over = admission.over /\ changes = 0

Init ==
    /\ spec = [m \in Model |-> [name |-> Initial[m].name, refs |-> Initial[m].refs,
                                life |-> "live"]]
    /\ world = [phase |-> [p \in Provider |-> "ready"], granted |-> Namespace \X Provider,
                translation |-> TRUE]
    /\ drain = None /\ pass = Idle
    /\ Empty \/ Settled

Home == (\E m \in Own : HomeStart(m)) \/ HomeWrite \/ HomePublish \/ HomeFinish
Attachment ==
    \/ \E a \in Outside : AttachStart(a) \/ AttachRelease(a)
    \/ CopyCredentials \/ AttachPublish \/ AttachDrain \/ AttachPrune
    \/ AttachCollect \/ AttachRemove
Environment ==
    \/ Fail \/ ChangeTranslation \/ Roll
    \/ \E m \in Model : EditModel(m) \/ DeleteModel(m)
    \/ \E p \in Provider : ChangeProvider(p) \/ \E n \in Namespace : ChangeGrant(n, p)
    \/ \E a \in Outside : Accept(a) \/ Refuse(a)

Next == Home \/ Attachment \/ Environment
Spec == Init /\ [][Next]_vars

\* The queue starts every model again and again, a pass comes to its end, the
\* Gateway looks at routes and the pods load what is published.
Fairness ==
    /\ \A o \in Own : SF_vars(HomeStart(o))
    /\ \A a \in Outside : SF_vars(AttachStart(a))
    /\ WF_vars(pass.pc # "idle" /\ (Home \/ Attachment))
    /\ WF_vars(Roll)
    /\ \A a \in Outside : SF_vars(Accept(a))
FairSpec == Spec /\ Fairness

-----------------------------------------------------------------------------
(***************************************************************************)
(* Properties.                                                             *)
(***************************************************************************)
\* Every variable has its type; TLC checks candidates one by one.
TypeOK ==
    /\ spec \in [Model -> ModelSpec]
    /\ world \in World
    /\ \A c \in {Content, running} :
          c.candidates \subseteq Candidate /\ c.policy \in Policy
    /\ rules \subseteq Own \X Provider
    /\ route \in [Outside -> RouteObject]
    /\ copies \subseteq Provider /\ queue \subseteq Model /\ over \subseteq Outside
    /\ pass.pc \in {"idle"} \cup HomePc \cup AttachPc
    /\ pass.want \cup pass.served \subseteq Route
    /\ pass.kept \subseteq Candidate /\ pass.stale \subseteq Provider

\* What the ExtProc accepts, in every overlay any writer publishes: in
\* weightedRandom mode every candidate has a group and a weight, in the others
\* none has a weight, a group needs a policy, one candidate for each model and
\* provider, and no more than the limit (Render, admitAttachments).
PraxisContract ==
    LET C == Content.candidates IN
    /\ Content.policy = "weightedRandom" => \A c \in C : c.group /\ c.weight > 0
    /\ Content.policy # "weightedRandom" => \A c \in C : c.weight = 0
    /\ (\E c \in C : c.group) => Content.policy # "none"
    /\ \A c, d \in C : c.model = d.model /\ c.provider = d.provider => c = d
    /\ Cardinality(C) <= Capacity

\* A rule leaves the accepted route of a live attached model only when neither
\* the published overlay nor the pods can still select its candidate, unless
\* something the pass depends on changed under it (reconcileEligibleAttachment,
\* reconcileExcludedAttachment).
RuleKept ==
    [][\A a \in Accepted \cap Live(spec) :
        pass.steady /\ route'[a].verdict # "refused" =>
            \A p \in route[a].rules \ route'[a].rules :
                \A c \in Content.candidates \cup running.candidates :
                    c.model = a => c.provider # p]_vars

Entries(m) == {<<c.provider, c.name>> : c \in {x \in Content.candidates : x.model = m}}
Named(R) == {<<r.provider, r.name>> : r \in R}

\* An attached model nobody has to look at again has the route the present
\* configuration asks for, none when its name is held by an older one, and is
\* published exactly so once the route is accepted; and the tenant's own models
\* likewise: no event, failed call or other writer's publication is lost (the
\* watches of SetupWithManager, publishTenantOverlay).  A model left out for
\* capacity is not woken when there is room again.
CaughtUp ==
    LET R == Resolved(OwnLive(spec), spec, world)
    IN  pass.pc = "idle" =>
        /\ \A a \in (Outside \cap Live(spec)) \ (queue \cup over) :
              /\ Entries(a) = IF Competes(a, Accepted, spec, world)
                              THEN Named(Mine(a, spec, world)) ELSE {}
              /\ route[a].rules = IF Excluded(a, spec, world) THEN {}
                                  ELSE {r.provider : r \in Mine(a, spec, world)}
        /\ queue \cap Own = {} =>
              \A o \in Own : Entries(o) =
                 Named({r \in Without(R, Rejected(R)) : r.model = o})

\* With nothing left to do the tenant's namespace holds the credential copies
\* the published candidates mount and no others, but for the ones an accepted
\* route names whose model a publication left out for capacity, which another
\* model's removal does not collect (applyCredentialCopies, gcTenantState).
CredentialsExact ==
    LET mounted == Copied({c \in Content.candidates : c.model \in Outside \cap Live(spec)})
    IN  pass.pc = "idle" /\ queue = {} =>
            /\ mounted \subseteq copies
            /\ copies \subseteq mounted \cup UNION {route[a].uses : a \in Accepted \cap over}

\* The ExtProc splits a name's traffic as the models' weights say, although
\* weights are rendered by whichever path published last (Render).
TrafficShares ==
    pass.pc = "idle" /\ queue = {} /\ Content.policy # "none" =>
        \A c, d \in {x \in Content.candidates : spec[x.model].life = "live"} :
            c.name = d.name /\ c.group =>
                LET share(x) == IF x.weight = 0 THEN 1 ELSE x.weight
                    wanted(x) == spec[x.model].refs[x.provider].weight
                IN  share(c) * wanted(d) = share(d) * wanted(c)

\* The tenant's own models come to be published as they resolve, again and
\* again, whatever happens to attached ones (writeTenantExternalModelRoutes;
\* attachmentCandidates: "Failures exclude only that model.").
OwnServed ==
    []<>(LET R == Resolved(OwnLive(spec), spec, world)
         IN  \A o \in Own : Entries(o) = Named({r \in Without(R, Rejected(R)) : r.model = o}))
=============================================================================
