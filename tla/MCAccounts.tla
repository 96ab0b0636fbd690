------------------------------ MODULE MCAccounts ------------------------------
(***************************************************************************)
(* The sessions and the library of one account on small instances.  They   *)
(* share no state; each is explored with the other at rest.                *)
(***************************************************************************)
EXTENDS SessionsProperties, PlayerCharactersProperties, TLC

CONSTANTS c1, c2, d1, g1, k1, k2, n1, n2

Sent(kind, scope, key, expected, body) ==
    [kind |-> kind, scope |-> scope, key |-> key, expected |-> expected, body |-> body]

\* Two renames under one key and a third beside them.
MCRenames ==
    {Sent("create", c1, k1, 0, n1), Sent("rename", c1, k1, 0, n2), Sent("rename", c1, k1, 1, n1),
     Sent("browserRename", c1, k1, 0, n1), Sent("delete", c1, k1, 0, n1)}

\* One name for two characters, and one of them in the other's way.
MCNames ==
    {Sent("create", c1, k1, 0, n1), Sent("create", c2, k1, 0, n2), Sent("rename", c1, k1, 0, n2),
     Sent("rename", c2, k1, 0, n1), Sent("browserDelete", c2, k1, 0, n1)}

\* A draft that is saved twice and committed, under the keys of its saves.
MCDrafts ==
    {Sent("create", c1, k1, 0, n1), Sent("save", d1, k1, 0, n1), Sent("save", d1, k1, 0, n2),
     Sent("save", d1, k2, 1, n2), Sent("commit", d1, k2, 1, c1),
     Sent("commit", d1, k1, 0, c1)}

\* A character that plays while it is renamed and deleted.
MCAssignments ==
    {Sent("create", c1, k1, 0, n1), Sent("assign", c1, k1, 0, g1), Sent("delete", c1, k1, 0, n1),
     Sent("browserDelete", c1, k1, 0, n1), Sent("browserRename", c1, k1, 0, n2)}

MCMixes == {MCRenames, MCNames, MCDrafts, MCAssignments}

AccountsInit == SessionsInit /\ LibraryInit

\* Two bounds on the exploration of the sessions: one session for as long as the clock
\* goes, so that one refresh overtakes another; or both of them for a shorter time, so that
\* a login ends the session of an earlier one.
ShortTime == 2
OneForLong == Cardinality({d \in Sessions : sessions'[d].state # "none"}) <= 1
AllForShort == now' <= ShortTime

AccountsNext ==
    \/ LibraryInit /\ mix = MCNames /\ SessionsNext /\ OneForLong /\ UNCHANGED libraryVars
    \/ LibraryInit /\ mix = MCDrafts /\ SessionsNext /\ AllForShort /\ UNCHANGED libraryVars
    \/ SessionsInit /\ LibraryNext /\ UNCHANGED sessionVars

AccountsSpec == AccountsInit /\ [][AccountsNext]_<<sessionVars, libraryVars>>

MCSymmetry ==
    Permutations(Requests) \cup Permutations(Sessions) \cup Permutations(Callers)
=============================================================================
