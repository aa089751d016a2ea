----------------------------- MODULE MCPlanner -----------------------------
EXTENDS Planner

CONSTANTS prefill, decode, router, MaxPrefill, MaxDecode, PrefillGpus, MaxLoad

MCRoles == {prefill, decode, router}

\* Users list the roles in either order, and may drop the router.
MCLayouts == {<<prefill, decode, router>>, <<router, decode, prefill>>, <<decode, prefill>>}
MCOneLayout == {<<prefill, decode, router>>}
MCInitReplicas == [r \in MCRoles |-> 1]
MCGpusOf == [r \in MCRoles |-> IF r = router THEN 0 ELSE IF r = prefill THEN PrefillGpus ELSE 1]

\* As the operator computes it from the AutoScaler spec.
MCConfig ==
  OperatorConfig([prefillMinReplicas |-> 1, prefillMaxReplicas |-> MaxPrefill,
                  decodeMinReplicas |-> 1, decodeMaxReplicas |-> MaxDecode,
                  prefillGPUs |-> PrefillGpus, decodeGPUs |-> 1])

Load(n, ttft, itl) == [num_req |-> n, isl |-> 1, osl |-> 1, ttft |-> ttft, itl |-> itl]

\* Idle; one engine's worth; and a load whose queueing doubles the TTFT.
MCTraffic == {Load(0, 0, 0), Load(1, 1, 1), Load(MaxLoad, 2, 1)}
MCTwoLoads == {Load(1, 1, 1), Load(MaxLoad, 1, 1)}
MCForecasts == {[prefill |-> -1, decode |-> 5]}
=============================================================================
