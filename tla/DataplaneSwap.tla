---------------------------- MODULE DataplaneSwap ----------------------------
(***************************************************************************)
(* What the backend swap promises a tenant: at most one of the two payload *)
(* processing dataplanes has objects at the shared names, and one takes    *)
(* over only after the other has left.                                     *)
(***************************************************************************)
VARIABLE serving     \* the backend that has objects deployed, or "none"

Backend == {"ipp", "praxis"}

Init == serving \in {"none", "ipp"}

Arrive(b) == serving = "none" /\ serving' = b
Leave == serving \in Backend /\ serving' = "none"

Next == Leave \/ \E b \in Backend : Arrive(b)

Spec == Init /\ [][Next]_serving
=============================================================================
