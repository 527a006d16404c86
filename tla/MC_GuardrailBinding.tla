------------------------- MODULE MC_GuardrailBinding -------------------------
EXTENDS GuardrailBinding, TLC

CONSTANTS p1, p2, k1, k2, c1, c2

\* An Input check, two checks of another provider one of which is an Output
\* check, and a timeout below a millisecond.
Plain == [prov |-> p1, checks |-> (k1 :> c1), output |-> FALSE, fine |-> FALSE]
Wide == [prov |-> p2, checks |-> (k1 :> c2) @@ (k2 :> c1), output |-> TRUE, fine |-> FALSE]
TooFine == [prov |-> p1, checks |-> (k1 :> c1), output |-> FALSE, fine |-> TRUE]

AllSpecs == {Plain, Wide, TooFine}
OutputSpec == {Wide}
==============================================================================
