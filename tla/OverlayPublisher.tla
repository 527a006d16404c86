--------------------------- MODULE OverlayPublisher ---------------------------
(***************************************************************************)
(* Publication of a tenant's routing overlay: Publish of pkg/publisher     *)
(* with the revision rules of pkg/envelope, cleanupOverlay, and the live   *)
(* check of the home path before them (readPublishedEnvelope), against the *)
(* ConfigMap, its informer cache, and people who edit it.                  *)
(*                                                                         *)
(* Publish reads the ConfigMap from the cache, renders the next document   *)
(* from what it finds and applies it with force: nothing ties the write to *)
(* the version that was read.  The ConfigMap is not watched by the model   *)
(* controller.  The digest of a content is the content itself.             *)
(***************************************************************************)
EXTENDS Naturals, Sequences

CONSTANTS
    Models,      \* models of the tenant; the reconciled one gives SourceUID
    Content,     \* contents the resolved route set can render to
    MaxGen,      \* math.MaxInt64
    MaxClock,    \* bound on the clock behind rendered_at
    MaxLag,      \* how many versions the informer cache may trail
    Kinds,       \* disturbances of the run
    MaxDisturb,  \* bound on their number
    None,        \* no ConfigMap, no route set, no model
    Spoiled, Blind   \* see OverlayDocument

ASSUME PublisherAssumption ==
    /\ MaxGen \in Nat \ {0} /\ MaxClock \in Nat /\ MaxLag \in Nat /\ MaxDisturb \in Nat
    /\ None \notin Content \cup Models
ASSUME MarkAssumption ==
    /\ Spoiled # None /\ Blind # None /\ Spoiled # Blind
    /\ \A x \in {None, Spoiled, Blind} :
          x \notin [gen: 1..MaxGen, content: Content, stamp: 0..MaxClock]

VARIABLES
    versions,   \* ConfigMap versions from the cached one to the live one
    wanted,     \* what the tenant's models resolve to now, or None
    clock,      \* the time, in seconds
    queue,      \* models waiting to be reconciled
    pc,         \* where the worker is
    model,      \* the model it reconciles
    target,     \* the content it resolved at its start, or None
    base,       \* the copy of the ConfigMap it rendered from
    next,       \* the document it is about to apply
    blind,      \* history: it acted on another version than the live one
    touched,    \* history: somebody else changed the ConfigMap
    disturb     \* disturbances so far

work == <<pc, model, target, base, next>>
vars == <<versions, wanted, clock, queue, work, blind, touched, disturb>>

\* ours: the managed-by label; key: the data key is there; intact: the bytes
\* parse and hash to the revision they declare.
ConfigMap == [ours: BOOLEAN, key: BOOLEAN, intact: BOOLEAN, content: Content,
              uid: Models, gen: 1..MaxGen, stamp: 0..MaxClock]

ASSUME MapAssumption == None \notin ConfigMap

cached == versions[1]
live == versions[Len(versions)]

-----------------------------------------------------------------------------
(***************************************************************************)
(* The revision rules of the envelope.  Generation 0 is no revision.       *)
(***************************************************************************)
Prev(cm) == IF cm = None THEN [gen |-> 0, digest |-> None]
            ELSE [gen |-> cm.gen, digest |-> cm.content]

\* Fault: the generation goes on past the last one.
ExhaustedNever(prev, digest) == FALSE

Exhausted(prev, digest) == prev.gen = MaxGen /\ prev.digest # digest

NextGeneration(prev, digest) ==
    IF prev.gen = 0 THEN 1 ELSE IF prev.digest = digest THEN prev.gen ELSE prev.gen + 1

CheckRevisionTransition(prev, to) ==
    /\ to.gen # 0
    /\ \/ prev.gen = 0
       \/ to.digest = prev.digest /\ to.gen = prev.gen
       \/ to.digest # prev.digest /\ to.gen > prev.gen

\* Fault: the time is stamped on every document.
RenderedAtNow(cm, digest) == clock

\* opts.RenderedAt is empty in every call: inherited with an unchanged digest.
RenderedAt(cm, digest) == IF cm # None /\ cm.content = digest THEN cm.stamp ELSE clock

Render(cm) ==
    [ours |-> TRUE, key |-> TRUE, intact |-> TRUE, content |-> target, uid |-> model,
     gen |-> NextGeneration(Prev(cm), target), stamp |-> RenderedAt(cm, target)]

-----------------------------------------------------------------------------
Push(cm) == LET s == Append(versions, cm)
            IN  IF Len(s) > MaxLag + 1 THEN Tail(s) ELSE s

Deliver ==
    /\ Len(versions) > 1 /\ versions' = Tail(versions)
    /\ UNCHANGED <<wanted, clock, queue, work, blind, touched, disturb>>

\* again: an error, retried with backoff.
End(again) ==
    /\ pc' = "idle" /\ model' = None /\ target' = None /\ base' = None /\ next' = None
    /\ queue' = IF again THEN queue \cup {model} ELSE queue

Reconcile ==
    /\ pc = "idle"
    /\ \E m \in queue :
          /\ queue' = queue \ {m} /\ model' = m /\ target' = wanted
          /\ pc' = IF wanted = None THEN "cleanup" ELSE "check"
    /\ UNCHANGED <<versions, wanted, clock, base, next, blind, touched, disturb>>

Owned(cm) == cm # None => cm.ours /\ cm.key /\ cm.intact

\* readPublishedEnvelope: a live read, before the transport is written.
Check ==
    /\ pc = "check"
    /\ \/ Owned(live) /\ pc' = "read" /\ UNCHANGED <<model, target, base, next, queue>>
       \/ ~Owned(live) /\ End(TRUE)
    /\ UNCHANGED <<versions, wanted, clock, blind, touched, disturb>>

\* Fault: what is there is not verified.
VerifiedAny(cm) == TRUE

\* Neither ErrNoEnvelope nor ErrEnvelopeTampered.
Verified(cm) == cm # None => cm.key /\ cm.intact

\* Publish up to its write.  Equal bytes end it without one.
Read ==
    /\ pc = "read"
    /\ LET doc == Render(cached)
           refused == \/ ~Verified(cached) \/ Exhausted(Prev(cached), target)
                      \/ ~CheckRevisionTransition(Prev(cached),
                             [gen |-> doc.gen, digest |-> doc.content])
           same == /\ cached # None
                   /\ doc.uid = cached.uid /\ doc.stamp = cached.stamp
                   /\ doc.content = cached.content /\ doc.gen = cached.gen
       IN  \/ refused /\ End(TRUE) /\ UNCHANGED blind
           \/ ~refused /\ same /\ End(FALSE) /\ blind' = (blind \/ cached # live)
           \/ /\ ~refused /\ ~same /\ pc' = "apply" /\ base' = cached /\ next' = doc
              /\ UNCHANGED <<model, target, queue, blind>>
    /\ UNCHANGED <<versions, wanted, clock, touched, disturb>>

Apply ==
    /\ pc = "apply"
    /\ versions' = Push(next) /\ blind' = (blind \/ live # base)
    /\ End(FALSE)
    /\ UNCHANGED <<wanted, clock, touched, disturb>>

\* Fault: the ConfigMap stays when the last route is gone.
CleanupOverlayKeep ==
    /\ pc = "cleanup" /\ End(FALSE)
    /\ UNCHANGED <<versions, wanted, clock, blind, touched, disturb>>

\* The label is read from the cache, the object is deleted by its name.
CleanupOverlay ==
    /\ pc = "cleanup"
    /\ IF cached = None \/ ~cached.ours
       THEN End(FALSE) /\ blind' = (blind \/ cached # live)
       ELSE pc' = "delete" /\ UNCHANGED <<model, target, base, next, queue, blind>>
    /\ UNCHANGED <<versions, wanted, clock, touched, disturb>>

Delete ==
    /\ pc = "delete" /\ versions' = (IF live = None THEN versions ELSE Push(None))
    /\ End(FALSE)
    /\ UNCHANGED <<wanted, clock, blind, touched, disturb>>

Worker == Reconcile \/ Check \/ Read \/ Apply \/ CleanupOverlay \/ Delete

-----------------------------------------------------------------------------
Tick ==
    /\ clock < MaxClock /\ clock' = clock + 1
    /\ UNCHANGED <<versions, wanted, queue, work, blind, touched, disturb>>

Disturb(kind) == kind \in Kinds /\ disturb < MaxDisturb /\ disturb' = disturb + 1

\* A model, a provider or an attachment changes; its events queue a model.
Edit ==
    /\ Disturb("edit")
    /\ wanted' \in Content \ {wanted}
    /\ \E m \in Models : queue' = queue \cup {m}
    /\ UNCHANGED <<versions, clock, work, blind, touched>>

\* The last model that resolves is deleted or becomes invalid.
Withdraw ==
    /\ Disturb("withdraw")
    /\ wanted # None /\ wanted' = None
    /\ \E m \in Models : queue' = queue \cup {m}
    /\ UNCHANGED <<versions, clock, work, blind, touched>>

\* Somebody edits the bytes, drops the key, strips the label, or deletes the
\* ConfigMap.  The model controller has no event for it.
Meddle ==
    /\ Disturb("meddle") /\ touched' = TRUE
    /\ \/ live # None /\ live.intact /\ versions' = Push([live EXCEPT !.intact = FALSE])
       \/ live # None /\ live.key /\ versions' = Push([live EXCEPT !.key = FALSE])
       \/ live # None /\ live.ours /\ versions' = Push([live EXCEPT !.ours = FALSE])
       \/ live # None /\ versions' = Push(None)
    /\ UNCHANGED <<wanted, clock, queue, work, blind>>

\* An API call fails; the model is retried.
Fail ==
    /\ Disturb("fail") /\ pc # "idle" /\ End(TRUE)
    /\ UNCHANGED <<versions, wanted, clock, blind, touched>>

\* A new process lists everything.
Restart ==
    /\ Disturb("restart")
    /\ versions' = <<live>> /\ queue' = Models
    /\ pc' = "idle" /\ model' = None /\ target' = None /\ base' = None /\ next' = None
    /\ UNCHANGED <<wanted, clock, blind, touched>>

Env == Edit \/ Withdraw \/ Meddle \/ Fail \/ Restart

-----------------------------------------------------------------------------
Init ==
    /\ versions = <<None>> /\ wanted \in Content /\ clock = 0
    /\ queue = Models
    /\ pc = "idle" /\ model = None /\ target = None /\ base = None /\ next = None
    /\ blind = FALSE /\ touched = FALSE /\ disturb = 0

Next == Worker \/ Deliver \/ Tick \/ Env

Spec == Init /\ [][Next]_vars

\* The worker runs while a model is queued, and the watch behind the cache
\* delivers.
Fairness == WF_vars(Worker) /\ WF_vars(Deliver)

FairSpec == Spec /\ Fairness

-----------------------------------------------------------------------------
\* Types; in particular generations stay within their range.
TypeOK ==
    /\ versions \in Seq(ConfigMap \cup {None}) /\ Len(versions) \in 1..(MaxLag + 1)
    /\ wanted \in Content \cup {None} /\ clock \in 0..MaxClock
    /\ queue \subseteq Models
    /\ pc \in {"idle", "check", "read", "apply", "cleanup", "delete"}
    /\ model \in Models \cup {None} /\ target \in Content \cup {None}
    /\ base \in ConfigMap \cup {None} /\ next \in ConfigMap \cup {None}
    /\ blind \in BOOLEAN /\ touched \in BOOLEAN /\ disturb \in 0..MaxDisturb

\* The document the ConfigMap distributes to its readers, who mount its data.
Published ==
    IF blind THEN Blind
    ELSE IF live = None THEN None
    ELSE IF live.key /\ live.intact
    THEN [gen |-> live.gen, content |-> live.content, stamp |-> live.stamp]
    ELSE Spoiled

Document == INSTANCE OverlayDocument WITH doc <- Published, Stamp <- 0..MaxClock

\* Publish implements the chain of revisions for as long as it writes over the
\* version it read: a generation names one content and one rendering time, the
\* next content gets the next generation, and an edit made out of band is
\* never continued ("publishing over a tampered baseline would silently
\* launder the edit into generation N+1").
Chained == Document!DocSpec

\* Once nobody changes anything the ConfigMap holds what the models resolve
\* to, or is gone if that is nothing: when no version was mistaken for the
\* live one and nobody else wrote it, and generations last.
Delivered == IF wanted = None THEN live = None
             ELSE live # None /\ (live.content = wanted \/ live.gen = MaxGen)
Distributed == <>[](~blind /\ ~touched => Delivered)

\* The same without the exemption for a cache that trails: Publish "reads the
\* currently distributed envelope, renders the next one, and applies it if the
\* bytes changed".
DistributedAlways == <>[](~touched => Delivered)
===============================================================================
