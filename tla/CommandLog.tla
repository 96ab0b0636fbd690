----------------------------- MODULE CommandLog -----------------------------
(***************************************************************************)
(* What a client may rely on for the commands sent to a campaign or a      *)
(* hero.  Each takes effect at most once under its key, on the revision    *)
(* its client had seen, so that no two take effect on the same one.  A     *)
(* client is told of a command only that it took effect and the revision   *)
(* that it led to.                                                         *)
(***************************************************************************)
EXTENDS Sequences, Integers

VARIABLES log, told

logVars == <<log, told>>

LogInit == log = <<>> /\ told = {}

TakeEffect(c) ==
    /\ \A i \in DOMAIN log : log[i].key # c.key /\ log[i].expected < c.expected
    /\ log' = Append(log, c)
    /\ UNCHANGED told

Tell(c) ==
    /\ told' = told \cup {[command |-> c, result |-> c.expected + 1]}
    /\ UNCHANGED log

\* The command that takes effect is the one that the longer log ends with.
LogNext ==
    \/ log' # <<>> /\ TakeEffect(log'[Len(log')])
    \/ \E i \in DOMAIN log : Tell(log[i])

LogSpec == LogInit /\ [][LogNext]_logVars
=============================================================================
