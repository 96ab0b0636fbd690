---------------------------- MODULE MCGameMaster ----------------------------
(* Proposals and token counts for a small instance of the game master service. *)
EXTENDS GameMasterProperties

CONSTANTS f1, f2

Wrong(type, field, values) == {[Fine(type) EXCEPT ![field] = v] : v \in values}
MCCandidates ==
    {Fine(type) : type \in {"none", "action", "scene"}}
        \cup Wrong("action", "base", {"malformed", "another proposal", "stale", "other pins"})
        \cup Wrong("action", "text", {"empty", "unsafe"})
        \cup Wrong("action", "ids", {"unknown"})
        \cup Wrong("check", "irreversible", BOOLEAN)
        \cup Wrong("narration", "claims", {<<f1, f2>>, <<f1>>, <<f1, f2, f1>>})
        \cup {[Fine("narration") EXCEPT !.claims = <<f2, f1>>, !.text = "private"]}
        \cup Wrong("clarification", "choices", {0, 2, 5})
        \cup {[Fine("clarification") EXCEPT !.choices = 2, !.ids = "unknown"]}

\* A provider counts either way, and not both.
MCUsages == {[NoUsage EXCEPT !.total = n] : n \in 1..2}
=============================================================================
