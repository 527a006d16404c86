--------------------------- MODULE OverlayDocument ---------------------------
(***************************************************************************)
(* What the routing overlay promises its readers, the ExtProc pods and the *)
(* auditors of its provenance: a chain of revisions.  The first one has    *)
(* generation 1, each later one the next generation and other content, and *)
(* nothing else about a revision changes while it is distributed.  A       *)
(* document somebody spoiled is never continued: it can only be withdrawn. *)
(***************************************************************************)
EXTENDS Naturals

CONSTANTS
    Content,   \* overlay contents, told apart by their digest
    MaxGen,    \* the last generation
    Stamp,     \* rendering times
    None,      \* no document
    Spoiled,   \* a document that does not verify
    Blind      \* a writer replaced a document it had not seen

VARIABLE doc   \* the distributed document

Revision == [gen: 1..MaxGen, content: Content, stamp: Stamp]

DocInit == doc = None

Distribute ==
    /\ doc = None
    /\ \E c \in Content, t \in Stamp : doc' = [gen |-> 1, content |-> c, stamp |-> t]

Revise ==
    /\ doc \in Revision
    /\ \E c \in Content \ {doc.content}, t \in Stamp :
          /\ doc.gen < MaxGen
          /\ doc' = [gen |-> doc.gen + 1, content |-> c, stamp |-> t]

Withdraw == doc # Blind /\ doc' = None

Spoil == doc # Blind /\ doc' = Spoiled

LoseSight == doc' = Blind

DocNext == Distribute \/ Revise \/ Withdraw \/ Spoil \/ LoseSight

DocSpec == DocInit /\ [][DocNext]_doc
==============================================================================
