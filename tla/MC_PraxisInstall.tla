------------------------ MODULE MC_PraxisInstall ------------------------
EXTENDS PraxisInstall

MCScaling(replicas, auto, max, resources) ==
    [replicas |-> replicas, auto |-> auto, max |-> max, resources |-> resources]

MCUnset == MCScaling(None, FALSE, None, "none")

\* Fixed, rejected and inconsistent settings: nothing said, three replicas
\* with limits only, a rejected count, autoscaling with more replicas than its
\* maximum and autoscaling with limits only.
MCScalings ==
    {MCUnset,
     MCScaling(3, FALSE, None, "limits"),
     MCScaling(3, TRUE, 2, "full"),
     MCScaling(0, TRUE, None, "limits")}

\* One workload autoscaled beside an untouched or a fixed one.
MCConfigured ==
    {[processing |-> MCScaling(3, TRUE, 2, "full"), preProcessing |-> MCUnset],
     [processing |-> MCScaling(3, FALSE, None, "limits"),
      preProcessing |-> MCScaling(0, TRUE, None, "limits")]}

\* Absent, the ceiling and one above it.
MCBodies == {None, MaxExtProcMaxBodyBytes, MaxExtProcMaxBodyBytes + 1}
MCRequests == {None, MaxExtProcMaxRequests, MaxExtProcMaxRequests + 1}

\* Depth first through the kustomizations: Deployments before ConfigMaps.
MCRank ==
    [processing |-> 1, external |-> 2, preProcessing |-> 3, plugins |-> 4,
     externalPlugins |-> 5, filter |-> 6, monitor |-> 7, externalFilter |-> 8,
     processingHPA |-> 9, preProcessingHPA |-> 10]

=============================================================================
