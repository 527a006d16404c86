-------------------------- MODULE MC_TenantOverlay --------------------------
EXTENDS TenantOverlay, TLC
CONSTANTS o, older, younger, p, q, x, y, home, east, west

Order == <<older, younger>>
Homes == (o :> home) @@ (older :> east) @@ (younger :> west)
Neighbours == (o :> home) @@ (older :> east) @@ (younger :> east)
ProviderHomes == (p :> home) @@ (q :> east)
Types == (p :> "anthropic") @@ (q :> "openai")

Messages(n) == [weight |-> n, format |-> "messages", valid |-> TRUE]
Chat(n) == [weight |-> n, format |-> "chat", valid |-> TRUE]
Both(name, i, j) == [name |-> name, refs |-> (p :> Messages(i)) @@ (q :> Chat(j))]
OnlyP(name, i) == [name |-> name, refs |-> p :> Messages(i)]
OnlyQ(name, i) == [name |-> name, refs |-> q :> Chat(i)]

\* The tenant's model grows, takes another name or is disabled; the older
\* attached model starts with two providers and loses one or changes its name,
\* the younger one waits for that name.
Starts == (o :> OnlyP(x, 1)) @@ (older :> Both(y, 1, 2)) @@ (younger :> OnlyQ(y, 1))
Edits == (o :> {OnlyP(x, 1), Both(x, 1, 1), OnlyP(y, 1), OnlyP(x, 0)})
         @@ (older :> {Both(y, 1, 2), Both(y, 1, 1), OnlyQ(y, 1), OnlyP(x, 1)})
         @@ (younger :> {OnlyQ(y, 1), OnlyP(y, 2)})

\* Two models of one namespace share a name, each with a provider of its own,
\* until the younger one takes the older one's provider.
NeighbourStarts == (o :> OnlyP(x, 1)) @@ (older :> OnlyQ(y, 1)) @@ (younger :> OnlyP(y, 1))
NeighbourEdits == (o :> {OnlyP(x, 1)}) @@ (older :> {OnlyQ(y, 1)}) @@ (younger :> {OnlyQ(y, 1)})
=============================================================================
