------------------------ MODULE MCGenerationWorkers ------------------------
(* Small constants for the run of the workers. *)
EXTENDS GenerationWorkersProperties, GenerationQueueProperties, TLC

CONSTANTS image1, image2, text, c1, w1, w2, caller

MCCampaignOf == [j \in Jobs |-> c1]
MCTurnScopeOf == [j \in Jobs |-> "turn"]
MCPurpose == [j \in Jobs |-> IF j = text THEN "narration" ELSE "illustration"]
MCUnevenAttempts == [j \in Jobs |-> IF j = image1 THEN 2 ELSE 1]
\* The limit was raised before image1 was requested.
MCRaisedLimit == [j \in Jobs |-> IF j = image1 THEN 2 ELSE 1]
MCReserved == [j \in Jobs |-> [cost |-> 1, latency |-> 0, requests |-> 1, tokens |-> 0]]
MCTwoRequests ==
    [scope \in {"campaign", "turn"} |-> [d \in Dimensions |-> IF d \in {"requests", "cost"} THEN 2 ELSE 9]]
\* A report is of nothing or of more than the estimate.
MCReports == {[NoUsage EXCEPT !.cost = u] : u \in {0, 2}}
=============================================================================
