------------------------ MODULE GameMasterProperties ------------------------
(***************************************************************************)
(* What the game master service owes to its callers and its provider.      *)
(***************************************************************************)
EXTENDS GameMaster

\* The circuit is open only after as many failures as it takes, with no accepted proposal
\* among them, however late the answers to requests that passed it before arrive
\* (typed_gm.rs:885-917).
OpenedByFailures == circuit.left # NoTime => streak = Threshold

\* A permit is held by the request that asks, and comes back whether its answer, its deadline or
\* its client ends it (typed_gm.rs:624-655).
PermitsComeBack ==
    permits + Cardinality({r \in Requests : request[r].step = "asking"}) = MaxConcurrency

\* Every request comes to an end, though others hold all the permits and the provider never
\* answers (typed_gm.rs:615-655).
RequestsEnd == \A r \in Requests : request[r].step # "idle" ~> request[r].step = "idle"

\* An open circuit comes to be tried again: the requests that passed it before prolong it,
\* those it refuses do not (typed_gm.rs:608-614, 907-917).
CircuitIsTriedAgain == IsOpen ~> ~IsOpen

\* An absent player is given an action (typed_gm.rs:1121-1129).  Any proposal is accepted.
AbsentPlayersAct == [][\A r \in Requests :
    request[r].purpose = "choose" /\ answer'[r] # answer[r] =>
        answer'[r] \in {"command", "authored", "none"}]_vars
=============================================================================
