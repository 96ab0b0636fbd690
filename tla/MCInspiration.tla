---------------------------- MODULE MCInspiration ----------------------------
(***************************************************************************)
(* Private inspiration on a small instance: one source about everybody.    *)
(***************************************************************************)
EXTENDS InspirationProperties, TLC

MCSubjects == [s \in Sources |-> Participants]
MCCategoryOf == [s \in Sources |-> CHOOSE c \in Categories : TRUE]
MCRank == [p \in Policies |-> IF p = "delete_derived" THEN 3 ELSE 2]
MCSymmetry == {[x \in Participants \cup Requests |-> IF x \in Participants THEN f[x] ELSE g[x]] :
                  f \in Permutations(Participants), g \in Permutations(Requests)}
=============================================================================
