----------------------- MODULE OverlayPublisherProofs -----------------------
(***************************************************************************)
(* Proofs about OverlayPublisher for any number of models, contents and    *)
(* disturbances, any last generation and any lag of the cache: its types,  *)
(* and that it implements the chain of revisions of OverlayDocument for as *)
(* long as each write replaces the version it was rendered from.           *)
(***************************************************************************)
EXTENDS OverlayPublisher, TLAPS

Version == ConfigMap \cup {None}

\* What an append of a version leaves: a non-empty sequence of versions no
\* longer than the cache may trail, whose last element is the one written.
LEMMA PushFacts ==
    ASSUME TypeOK, NEW m \in Version
    PROVE  /\ Push(m) \in Seq(Version) /\ Len(Push(m)) \in 1..(MaxLag + 1)
           /\ Push(m)[Len(Push(m))] = m
  <1> DEFINE s == Append(versions, m)
  <1>1. /\ s \in Seq(Version) /\ Len(s) = Len(versions) + 1 /\ s[Len(s)] = m
        /\ Len(s) \in Nat /\ Len(s) > 1
    BY PublisherAssumption DEF TypeOK, Version
  <1>2. CASE Len(s) > MaxLag + 1
    <2>1. Push(m) = Tail(s) /\ Len(s) = MaxLag + 2
      BY <1>1, <1>2, PublisherAssumption DEF Push, TypeOK
    <2>2. Tail(s) \in Seq(Version) /\ Len(Tail(s)) = MaxLag + 1
      BY <1>1, <2>1, PublisherAssumption
    <2>3. Tail(s)[Len(Tail(s))] = m
      BY <1>1, <2>1, <2>2, PublisherAssumption
    <2> QED
      BY <2>1, <2>2, <2>3, PublisherAssumption
  <1>3. CASE ~(Len(s) > MaxLag + 1)
    BY <1>1, <1>3, PublisherAssumption DEF Push, TypeOK
  <1> QED
    BY <1>2, <1>3

\* Delivery of the oldest version keeps the live one.
LEMMA TailFacts ==
    ASSUME TypeOK, Len(versions) > 1
    PROVE  /\ Tail(versions) \in Seq(Version) /\ Len(Tail(versions)) \in 1..(MaxLag + 1)
           /\ Tail(versions)[Len(Tail(versions))] = live
  <1>1. versions \in Seq(Version) /\ Len(versions) \in 1..(MaxLag + 1) /\ MaxLag \in Nat
    BY PublisherAssumption DEF TypeOK, Version
  <1>2. Tail(versions) \in Seq(Version) /\ Len(Tail(versions)) = Len(versions) - 1
    BY <1>1
  <1>3. Tail(versions)[Len(versions) - 1] = versions[Len(versions)]
    BY <1>1
  <1> QED
    BY <1>1, <1>2, <1>3 DEF live

\* A sequence of one version.
LEMMA SingleFacts ==
    ASSUME NEW m \in Version
    PROVE  /\ <<m>> \in Seq(Version) /\ Len(<<m>>) \in 1..(MaxLag + 1)
           /\ <<m>>[Len(<<m>>)] = m
  BY PublisherAssumption

\* No ConfigMap is no record of one.
LEMMA NoneIsNoMap == None \notin ConfigMap
  BY MapAssumption

\* The cached and the live copy are versions.
LEMMA CopyTypes == TypeOK => cached \in Version /\ live \in Version
  BY PublisherAssumption DEF TypeOK, cached, live, Version

\* The worker's own variables: what it works on in each of its steps, and how
\* the document it is about to apply continues the copy it was rendered from.
Continues ==
    /\ next \in ConfigMap /\ next.key /\ next.intact /\ Verified(base)
    /\ base = None => next.gen = 1
    /\ base # None /\ next.content = base.content =>
         next.gen = base.gen /\ next.stamp = base.stamp
    /\ base # None /\ next.content # base.content =>
         next.gen = base.gen + 1 /\ base.gen < MaxGen
WorkOK ==
    /\ pc # "idle" => model \in Models
    /\ pc \in {"check", "read", "apply"} => target \in Content
    /\ pc = "apply" => Continues

IInv == TypeOK /\ WorkOK

\* Render continues any verified copy unless the generation is exhausted, in
\* which case Publish refuses.
LEMMA RenderFacts ==
    ASSUME TypeOK, model \in Models, target \in Content, NEW m \in Version,
           Verified(m), ~Exhausted(Prev(m), target)
    PROVE  LET d == Render(m)
           IN  /\ d \in ConfigMap /\ d.key /\ d.intact
               /\ m = None => d.gen = 1
               /\ m # None /\ d.content = m.content => d.gen = m.gen /\ d.stamp = m.stamp
               /\ m # None /\ d.content # m.content => d.gen = m.gen + 1 /\ m.gen < MaxGen
  <1>1. CASE m = None
    BY <1>1, PublisherAssumption
       DEF Render, Prev, NextGeneration, RenderedAt, ConfigMap, TypeOK
  <1>2. CASE m # None
    <2>1. m \in ConfigMap /\ m.gen \in 1..MaxGen /\ m.stamp \in 0..MaxClock
      BY <1>2 DEF Version, ConfigMap
    <2>2. Prev(m) = [gen |-> m.gen, digest |-> m.content]
      BY <1>2 DEF Prev
    <2>3. target # m.content => m.gen < MaxGen
      BY <2>1, <2>2, PublisherAssumption DEF Exhausted
    <2> QED
      BY <1>2, <2>1, <2>2, <2>3, PublisherAssumption
         DEF Render, NextGeneration, RenderedAt, ConfigMap, TypeOK
  <1> QED
    BY <1>1, <1>2

\* The initial states satisfy the invariant.
LEMMA InitInv == Init => IInv
  <1> SUFFICES ASSUME Init PROVE IInv
    OBVIOUS
  <1>1. versions \in Seq(ConfigMap \cup {None}) /\ Len(versions) \in 1..(MaxLag + 1)
    <2>1. None \in Version /\ versions = <<None>>
      BY DEF Init, Version
    <2> QED
      BY <2>1, SingleFacts DEF Version
  <1>2. WorkOK
    BY DEF Init, WorkOK
  <1>3. blind \in BOOLEAN /\ touched \in BOOLEAN
    BY Zenon DEF Init
  <1>4. clock \in 0..MaxClock /\ disturb \in 0..MaxDisturb
    BY PublisherAssumption DEF Init
  <1>5. wanted \in Content \cup {None} /\ queue \subseteq Models
    BY DEF Init
  <1> QED
    BY <1>1, <1>2, <1>3, <1>4, <1>5 DEF Init, IInv, TypeOK

\* The end of a reconcile leaves an idle worker.
LEMMA EndInv ==
    ASSUME TypeOK, model \in Models, NEW again \in BOOLEAN, End(again)
    PROVE  /\ pc' = "idle" /\ queue' \subseteq Models
           /\ model' = None /\ target' = None /\ base' = None /\ next' = None
  BY DEF End, TypeOK

\* Every step preserves the invariant.
LEMMA NextInv == IInv /\ [Next]_vars => IInv'
  <1> SUFFICES ASSUME IInv, [Next]_vars PROVE IInv'
    OBVIOUS
  <1> USE DEF Version
  <1>0. cached \in Version /\ live \in Version
    BY CopyTypes DEF IInv
  <1>1. CASE Reconcile
    BY <1>1, PublisherAssumption DEF Reconcile, IInv, TypeOK, WorkOK
  <1>2. CASE Check
    <2>1. CASE Owned(live) /\ pc' = "read" /\ UNCHANGED <<model, target, base, next, queue>>
      BY <1>2, <2>1 DEF Check, IInv, TypeOK, WorkOK
    <2>2. CASE ~Owned(live) /\ End(TRUE)
      <3>1. pc' = "idle" /\ queue' \subseteq Models
            /\ model' = None /\ target' = None /\ base' = None /\ next' = None
        BY <1>2, <2>2, EndInv DEF Check, IInv, WorkOK
      <3> QED
        BY <1>2, <3>1 DEF Check, IInv, TypeOK, WorkOK
    <2> QED
      BY <1>2, <2>1, <2>2 DEF Check
  <1>3. CASE Read
    <2>1. model \in Models /\ target \in Content
      BY <1>3 DEF Read, IInv, WorkOK
    <2>2. UNCHANGED <<versions, wanted, clock, touched, disturb>>
      BY <1>3 DEF Read
    <2>3. CASE (End(TRUE) \/ End(FALSE)) /\ blind' \in BOOLEAN
      <3>1. pc' = "idle" /\ queue' \subseteq Models
            /\ model' = None /\ target' = None /\ base' = None /\ next' = None
        BY <2>1, <2>3, EndInv DEF IInv
      <3> QED
        BY <2>2, <2>3, <3>1 DEF IInv, TypeOK, WorkOK
    <2>4. CASE /\ Verified(cached) /\ ~Exhausted(Prev(cached), target)
               /\ pc' = "apply" /\ base' = cached /\ next' = Render(cached)
               /\ UNCHANGED <<model, target, queue, blind>>
      <3>1. Continues'
        BY <1>0, <2>1, <2>4, RenderFacts DEF Continues, IInv, Verified
      <3>2. next' \in ConfigMap /\ base' \in ConfigMap \cup {None}
        BY <1>0, <2>4, <3>1 DEF Continues
      <3> QED
        BY <2>1, <2>2, <2>4, <3>1, <3>2 DEF IInv, TypeOK, WorkOK
    <2> QED
      BY <1>3, <2>3, <2>4 DEF Read, IInv, TypeOK
  <1>4. CASE Apply
    <2>1. next \in Version /\ model \in Models
      BY <1>4 DEF Apply, IInv, WorkOK, Continues
    <2>2. versions' \in Seq(Version) /\ Len(versions') \in 1..(MaxLag + 1)
      BY <1>4, <2>1, PushFacts DEF Apply, IInv
    <2>3. pc' = "idle" /\ queue' \subseteq Models
          /\ model' = None /\ target' = None /\ base' = None /\ next' = None
      BY <1>4, <2>1, EndInv DEF Apply, IInv
    <2> QED
      BY <1>4, <2>2, <2>3 DEF Apply, IInv, TypeOK, WorkOK
  <1>5. CASE CleanupOverlay
    <2>1. CASE End(FALSE) /\ blind' \in BOOLEAN
      <3>1. pc' = "idle" /\ queue' \subseteq Models
            /\ model' = None /\ target' = None /\ base' = None /\ next' = None
        BY <1>5, <2>1, EndInv DEF CleanupOverlay, IInv, WorkOK
      <3> QED
        BY <1>5, <2>1, <3>1 DEF CleanupOverlay, IInv, TypeOK, WorkOK
    <2>2. CASE pc' = "delete" /\ UNCHANGED <<model, target, base, next, queue, blind>>
      BY <1>5, <2>2 DEF CleanupOverlay, IInv, TypeOK, WorkOK
    <2> QED
      BY <1>5, <2>1, <2>2 DEF CleanupOverlay, IInv, TypeOK
  <1>6. CASE Delete
    <2>1. model \in Models
      BY <1>6 DEF Delete, IInv, WorkOK
    <2>2. versions' \in Seq(Version) /\ Len(versions') \in 1..(MaxLag + 1)
      BY <1>6, PushFacts DEF Delete, IInv, TypeOK
    <2>3. pc' = "idle" /\ queue' \subseteq Models
          /\ model' = None /\ target' = None /\ base' = None /\ next' = None
      BY <1>6, <2>1, EndInv DEF Delete, IInv
    <2> QED
      BY <1>6, <2>2, <2>3 DEF Delete, IInv, TypeOK, WorkOK
  <1>7. CASE Deliver
    <2>1. versions' \in Seq(Version) /\ Len(versions') \in 1..(MaxLag + 1)
      BY <1>7, TailFacts DEF Deliver, IInv
    <2> QED
      BY <1>7, <2>1 DEF Deliver, IInv, TypeOK, WorkOK, Continues, work
  <1>8. CASE Tick
    BY <1>8, PublisherAssumption DEF Tick, IInv, TypeOK, WorkOK, Continues, work
  <1>9. CASE Edit \/ Withdraw
    BY <1>9, PublisherAssumption DEF Edit, Withdraw, Disturb, IInv, TypeOK, WorkOK, Continues, work
  <1>10. CASE Meddle
    <2>1. PICK m \in Version : versions' = Push(m)
      <3>1. CASE live # None
        <4>1. live \in ConfigMap
          BY <1>0, <3>1
        <4>2. /\ [live EXCEPT !.intact = FALSE] \in Version
              /\ [live EXCEPT !.key = FALSE] \in Version
              /\ [live EXCEPT !.ours = FALSE] \in Version
              /\ None \in Version
          BY <4>1 DEF ConfigMap
        <4> QED
          BY <1>10, <4>2 DEF Meddle
      <3>2. CASE live = None
        BY <1>10, <3>2 DEF Meddle
      <3> QED
        BY <3>1, <3>2
    <2>2. versions' \in Seq(Version) /\ Len(versions') \in 1..(MaxLag + 1)
      BY <2>1, PushFacts DEF IInv
    <2> QED
      BY <1>10, <2>2, PublisherAssumption
         DEF Meddle, Disturb, IInv, TypeOK, WorkOK, Continues, work
  <1>11. CASE Fail
    <2>1. pc' = "idle" /\ queue' \subseteq Models
          /\ model' = None /\ target' = None /\ base' = None /\ next' = None
      BY <1>11, EndInv DEF Fail, IInv, WorkOK
    <2> QED
      BY <1>11, <2>1, PublisherAssumption DEF Fail, Disturb, IInv, TypeOK, WorkOK
  <1>12. CASE Restart
    <2>1. versions' \in Seq(Version) /\ Len(versions') \in 1..(MaxLag + 1)
      BY <1>0, <1>12, SingleFacts DEF Restart
    <2> QED
      BY <1>12, <2>1, PublisherAssumption DEF Restart, Disturb, IInv, TypeOK, WorkOK
  <1>13. CASE UNCHANGED vars
    BY <1>13 DEF vars, work, IInv, TypeOK, WorkOK, Continues
  <1> QED
    BY <1>1, <1>2, <1>3, <1>4, <1>5, <1>6, <1>7, <1>8, <1>9, <1>10, <1>11, <1>12, <1>13
       DEF Next, Worker, Env

\* The invariant: what the worker holds in each of its steps, and that the
\* document it is about to apply continues the copy it was rendered from.
THEOREM Invariance == Spec => []IInv
  BY InitInv, NextInv, PTL DEF Spec

\* Publish and cleanupOverlay keep every variable in its range; generations
\* never pass the last one.
THEOREM TypeCorrect == Spec => []TypeOK
  <1>1. IInv => TypeOK
    BY DEF IInv
  <1> QED
    BY <1>1, Invariance, PTL

-----------------------------------------------------------------------------
(***************************************************************************)
(* The refinement.  Steps that leave the ConfigMap and the history alone   *)
(* leave the document alone; the others are Apply, Delete, Meddle and the  *)
(* verdicts on a trailing copy.                                            *)
(***************************************************************************)
Chain == Document!DocNext \/ UNCHANGED Published

\* A step that keeps the live version and what was seen keeps the document.
LEMMA SameDocument ==
    ASSUME live' = live, blind' = blind
    PROVE  UNCHANGED Published
  BY DEF Published

\* Once a version was mistaken the document stays so.
LEMMA BlindChain ==
    ASSUME blind' = TRUE
    PROVE  Chain
  BY DEF Chain, Published, Document!DocNext, Document!LoseSight

\* A version nobody mistook is not the lost document.
LEMMA NotBlind ==
    ASSUME IInv, blind = FALSE
    PROVE  Published # Blind
  <1>1. live = None \/ live \in ConfigMap
    BY CopyTypes DEF IInv, Version
  <1>2. live \in ConfigMap =>
          [gen |-> live.gen, content |-> live.content, stamp |-> live.stamp] # Blind
    BY MarkAssumption DEF ConfigMap
  <1> QED
    BY <1>1, <1>2, MarkAssumption DEF Published

\* An applied document continues the one it replaces.
LEMMA ApplyChain ==
    ASSUME IInv, Apply, blind' # TRUE, blind' \in BOOLEAN
    PROVE  Chain
  <1>1. /\ pc = "apply" /\ versions' = Push(next) /\ Continues
        /\ blind = FALSE /\ blind' = FALSE /\ live = base
    BY DEF Apply, IInv, TypeOK, WorkOK
  <1>2. next \in ConfigMap /\ live' = next
    <2>1. next \in ConfigMap
      BY <1>1 DEF Continues
    <2> QED
      BY <1>1, <2>1, PushFacts DEF IInv, live, Version
  <1>3. Published' = [gen |-> next.gen, content |-> next.content, stamp |-> next.stamp]
    <2>1. next # None
      BY <1>2, NoneIsNoMap
    <2> QED
      BY <1>1, <1>2, <2>1 DEF Published, Continues
  <1>4. next.content \in Content /\ next.stamp \in 0..MaxClock /\ next.gen \in 1..MaxGen
    BY <1>2 DEF ConfigMap
  <1>5. CASE base = None
    <2>1. Published = None
      BY <1>1, <1>5 DEF Published
    <2>2. next.gen = 1
      BY <1>1, <1>5 DEF Continues
    <2> QED
      BY <1>3, <1>4, <2>1, <2>2 DEF Chain, Document!DocNext, Document!Distribute
  <1>6. CASE base # None
    <2>1. base \in ConfigMap /\ base.key /\ base.intact
      BY <1>1, <1>6 DEF IInv, TypeOK, Continues, Verified
    <2>2. Published = [gen |-> base.gen, content |-> base.content, stamp |-> base.stamp]
      BY <1>1, <1>6, <2>1 DEF Published
    <2>3. Published \in Document!Revision
      BY <2>1, <2>2 DEF Document!Revision, ConfigMap
    <2>4. CASE next.content = base.content
      BY <1>1, <1>3, <1>6, <2>2, <2>4 DEF Chain, Continues
    <2>5. CASE next.content # base.content
      <3>1. next.gen = base.gen + 1 /\ base.gen < MaxGen
        BY <1>1, <1>6, <2>5 DEF Continues
      <3> QED
        BY <1>3, <1>4, <2>2, <2>3, <2>5, <3>1 DEF Chain, Document!DocNext, Document!Revise
    <2> QED
      BY <2>4, <2>5
  <1> QED
    BY <1>5, <1>6

\* Every step is one of the chain, or leaves the document alone.
LEMMA NextChain == IInv /\ IInv' /\ [Next]_vars => Chain
  <1> SUFFICES ASSUME IInv, IInv', [Next]_vars PROVE Chain
    OBVIOUS
  <1>0. blind \in BOOLEAN /\ blind' \in BOOLEAN
    BY DEF IInv, TypeOK
  <1>1. CASE blind' = TRUE
    BY <1>1, BlindChain
  <1>2. CASE blind' = FALSE /\ blind = TRUE
    BY <1>2 DEF Next, Worker, Env, Reconcile, Check, Read, Apply, CleanupOverlay, Delete,
         Deliver, Tick, Edit, Withdraw, Meddle, Fail, Restart, vars
  <1>3. CASE blind' = FALSE /\ blind = FALSE
    <2>1. CASE versions' = versions
      BY <1>3, <2>1, SameDocument DEF live, Chain
    <2>2. CASE Apply
      BY <1>3, <2>2, ApplyChain
    <2>3. CASE Delete
      <3>1. CASE versions' = versions
        BY <2>1, <3>1
      <3>2. CASE versions' = Push(None)
        <4>1. live' = None
          BY <3>2, PushFacts DEF IInv, live, Version
        <4> QED
          BY <1>3, <4>1, NotBlind DEF Chain, Published, Document!DocNext, Document!Withdraw
      <3> QED
        BY <2>3, <3>1, <3>2 DEF Delete
    <2>4. CASE Deliver
      <3>1. live' = live
        BY <2>4, TailFacts DEF Deliver, IInv, live
      <3> QED
        BY <1>3, <3>1, SameDocument DEF Chain
    <2>5. CASE Restart
      <3>1. live' = live
        BY <2>5 DEF Restart, live
      <3> QED
        BY <1>3, <3>1, SameDocument DEF Chain
    <2>6. CASE Meddle
      <3>1. live \in Version
        BY CopyTypes DEF IInv
      <3>2. live # None /\ live \in ConfigMap
        BY <2>6, <3>1 DEF Meddle, Version
      <3>3. PICK m \in Version :
              /\ versions' = Push(m)
              /\ \/ m = None \/ m = [live EXCEPT !.intact = FALSE]
                 \/ m = [live EXCEPT !.key = FALSE] \/ m = [live EXCEPT !.ours = FALSE]
        BY <2>6, <3>2 DEF Meddle, Version, ConfigMap
      <3>4. live' = m
        BY <3>3, PushFacts DEF IInv, live
      <3>5. Published # Blind
        BY <1>3, NotBlind
      <3>6. CASE m = None
        BY <1>3, <3>4, <3>5, <3>6 DEF Chain, Published, Document!DocNext, Document!Withdraw
      <3>7. CASE m = [live EXCEPT !.intact = FALSE] \/ m = [live EXCEPT !.key = FALSE]
        <4>1. m # None /\ ~(m.key /\ m.intact)
          BY <3>2, <3>7, NoneIsNoMap DEF ConfigMap
        <4>2. Published' = Spoiled
          BY <1>3, <3>4, <4>1 DEF Published
        <4> QED
          BY <3>5, <4>2 DEF Chain, Document!DocNext, Document!Spoil
      <3>8. CASE m = [live EXCEPT !.ours = FALSE]
        <4>1. /\ m # None /\ m.key = live.key /\ m.intact = live.intact
              /\ m.gen = live.gen /\ m.content = live.content /\ m.stamp = live.stamp
          BY <3>2, <3>8, NoneIsNoMap DEF ConfigMap
        <4>2. Published' = Published
          BY <1>3, <3>2, <3>4, <4>1 DEF Published
        <4> QED
          BY <4>2 DEF Chain
      <3> QED
        BY <3>3, <3>6, <3>7, <3>8
    <2> QED
      BY <2>1, <2>2, <2>3, <2>4, <2>5, <2>6
         DEF Next, Worker, Env, Reconcile, Check, Read, CleanupOverlay, Tick, Edit, Withdraw, Fail, vars
  <1> QED
    BY <1>0, <1>1, <1>2, <1>3

\* Publish implements the chain of revisions: whatever the lag of the cache and
\* whatever others do to the ConfigMap, a document changes only as OverlayDocument
\* says until a write or a verdict is about another version than the live one.
THEOREM PublisherChains == Spec => Chained
  <1>1. Init => Document!DocInit
    BY DEF Init, Published, live, Document!DocInit
  <1>2. IInv /\ IInv' /\ [Next]_vars => [Document!DocNext]_Published
    BY NextChain DEF Chain
  <1> QED
    BY <1>1, <1>2, Invariance, PTL DEF Spec, Chained, Document!DocSpec
=============================================================================
