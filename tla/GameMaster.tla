----------------------------- MODULE GameMaster -----------------------------
(***************************************************************************)
(* The service that asks the game master (typed_gm.rs) for what a typed    *)
(* intent means, for a narration, or for an action of an absent player.    *)
(*                                                                         *)
(* A request waits for one of a few permits and asks the text provider     *)
(* (generation.rs), a second time if the first proposal is refused, all of *)
(* it under one deadline.  Whatever fails, it is answered with an authored *)
(* proposal.  Failures in a row open a circuit that lets no request pass   *)
(* for a while.                                                            *)
(***************************************************************************)
EXTENDS Integers, Sequences, FiniteSets

CONSTANTS
    Requests,       \* requests under way at once
    Backends,       \* text backends the server may be configured with
    MaxConcurrency, \* permits
    MaxAttempts,    \* calls of one request, two in the code
    MaxTokens,      \* tokens one request may use
    Threshold,      \* failures in a row that open the circuit
    OpenFor,        \* ticks it stays open
    Deadline,       \* ticks a request may take
    Facts,          \* the committed facts of a turn
    Candidates,     \* proposals the provider may answer with
    Usages,         \* token counts it may report
    NoTime          \* no time at all

\* A provider reports a count of tokens or leaves it out.
Unknown == -1
Counts == Nat \cup {Unknown}

ASSUME GameMasterAssumption ==
    /\ IsFiniteSet(Requests)
    /\ MaxConcurrency \in Nat \ {0} /\ MaxAttempts \in Nat \ {0}
    /\ MaxTokens \in Nat /\ Threshold \in Nat \ {0}
    /\ OpenFor \in Nat \ {0} /\ Deadline \in Nat \ {0} /\ NoTime \notin Nat
    /\ Backends \subseteq {"fake", "disabled", "open_ai_compatible"}
    /\ Usages \subseteq [total : Counts, parts : Counts]

VARIABLES
    backend,        \* the configured backend
    circuit,        \* [failures, left]: failures in a row, time until it is tried again
    permits,        \* permits nobody holds
    request,        \* [Requests -> what generate holds between its awaits]
    answer,         \* [Requests -> what its last request was answered, "none" before that]
    streak          \* history: failures since the last proposal that was accepted

vars == <<backend, circuit, permits, request, answer, streak>>

Purposes == {"interpret", "narrate", "choose"}
\* Private facts may accompany a narration; they may share four words in a row with the
\* text that is authored in place of one.
Briefs == {"none", "private", "resembling"}
Dispositions == {"presentation", "clarification", "confirmation", "command"}
NoUsage == [total |-> Unknown, parts |-> Unknown]

NoRequest == [step |-> "idle", purpose |-> "narrate", brief |-> "none", legal |-> 1, attempts |-> 0,
              usage |-> NoUsage, left |-> 0]
Closed == [failures |-> 0, left |-> NoTime]

GameMasterTypeOK ==
    /\ backend \in Backends
    /\ circuit \in [failures : 0..Threshold, left : {NoTime} \cup 0..OpenFor]
    /\ permits \in 0..MaxConcurrency
    /\ request \in [Requests -> [step : {"idle", "waiting", "asking"}, purpose : Purposes,
                                 brief : Briefs, legal : 0..2, attempts : 0..MaxAttempts,
                                 usage : [total : Counts, parts : Counts], left : 0..Deadline]]
    /\ answer \in [Requests -> {"none", "authored", "error"} \cup Dispositions]
    /\ streak \in 0..Threshold

Init ==
    /\ backend \in Backends
    /\ circuit = Closed
    /\ permits = MaxConcurrency
    /\ request = [r \in Requests |-> NoRequest]
    /\ answer = [r \in Requests |-> "none"]
    /\ streak = 0

----------------------------------------------------------------------------
(* What is asked.  An intent is interpreted, and may go with a narration; an absent player has
   none, and actions to choose from; private facts go into narrations only.  The number of
   legal actions is what the answers of the fake provider depend on. *)

ValidInput(i) ==
    /\ i.brief # "none" => i.purpose = "narrate"
    /\ i.purpose = "interpret" => i.intent
    /\ i.purpose = "choose" => ~i.intent
    /\ i.purpose = "choose" => i.legal > 0
Inputs == {i \in [purpose : Purposes, brief : Briefs, intent : BOOLEAN, legal : 0..2] : ValidInput(i)}

----------------------------------------------------------------------------
(* What a proposal is held against. *)

\* serde, and then the identity of the proposal and its pins.
BaseObjection(c) ==
    IF c.type = "none" \/ c.base \in {"malformed", "another proposal"} THEN "malformed"
    ELSE IF c.base = "stale" THEN "contradiction"
    ELSE IF c.base = "other pins" THEN "unsafe" ELSE "none"

\* Sets of facts are compared, and none may be claimed twice.
FactsObjection(claims) ==
    IF {claims[n] : n \in DOMAIN claims} = Facts /\ Len(claims) = Cardinality(Facts)
    THEN "none" ELSE "contradiction"

\* Choices need not name an action, but there are one to four, all different.
ChoicesObjection(c) ==
    IF c.choices \notin 1..4 THEN "malformed"
    ELSE IF c.ids # "legal" THEN "unsafe" ELSE "none"

ContentObjection(c) ==
    IF c.text = "empty" THEN "malformed"
    ELSE IF c.type \in {"action", "check", "scene"} /\ c.ids # "legal" THEN "unsafe"
    ELSE IF c.type = "narration" THEN FactsObjection(c.claims)
    ELSE IF c.type = "clarification" THEN ChoicesObjection(c) ELSE "none"

\* Markers of an attack on the prompt, or four words of a private fact.
SafetyObjection(c, brief) ==
    IF c.text = "unsafe" \/ (c.text = "private" /\ brief # "none") THEN "unsafe" ELSE "none"

Validated(c, brief) ==
    IF BaseObjection(c) # "none" THEN BaseObjection(c)
    ELSE IF ContentObjection(c) # "none" THEN ContentObjection(c)
    ELSE SafetyObjection(c, brief)

\* Whatever was asked, the type of the proposal says what becomes of it.
Disposition(c) ==
    CASE c.type = "narration" -> "presentation"
      [] c.type = "clarification" -> "clarification"
      [] c.type = "check" /\ c.irreversible -> "confirmation"
      [] OTHER -> "command"

----------------------------------------------------------------------------
(* The providers *)

Proposed(c, u) == [error |-> "none", proposal |-> c, usage |-> u]
Failed(class) == [error |-> class, proposal |-> [type |-> "none"], usage |-> NoUsage]

Fine(type) == [type |-> type, base |-> "expected", text |-> "fine", ids |-> "legal",
               claims |-> <<>>, choices |-> 0, irreversible |-> FALSE]

\* The fake knows nothing of repairs.  Where the intent names none of the legal actions and
\* there is more than one, it offers the first four.  Its narration may share words with a
\* private fact as the authored one may.
FactsInOrder == CHOOSE s \in [1..Cardinality(Facts) -> Facts] : {s[n] : n \in DOMAIN s} = Facts
FakeNarrations(i) ==
    {[Fine("narration") EXCEPT !.claims = FactsInOrder, !.text = text] :
        text \in {"fine"} \cup (IF i.brief = "resembling" THEN {"private"} ELSE {})}
FakeChoices(i) ==
    (IF i.purpose = "choose" \/ i.legal > 0 THEN {Fine("action")} ELSE {})
        \cup (IF i.purpose = "interpret" /\ i.legal # 1
              THEN {[Fine("clarification") EXCEPT !.choices = i.legal]} ELSE {})
FakeReplies(i) ==
    IF i.attempts > 1 THEN {Fine("none")}
    ELSE IF i.purpose = "narrate" THEN FakeNarrations(i) ELSE FakeChoices(i)

\* Transport errors, the provider's own timeout, its refusals, bodies that cannot be read;
\* or a first choice with a text.
ProviderErrors == {"timeout", "unavailable", "rate limit", "malformed"}
ProviderReplies(i) ==
    CASE backend = "disabled" -> {Failed("unavailable")}
      [] backend = "fake" -> {Proposed(c, NoUsage) : c \in FakeReplies(i)}
      [] OTHER -> {Failed(class) : class \in ProviderErrors}
                  \cup {Proposed(c, u) : c \in Candidates, u \in Usages}

\* Counts are added up field by field.
Known(n) == IF n = Unknown THEN 0 ELSE n
AddOptional(a, b) == IF a = Unknown /\ b = Unknown THEN Unknown ELSE Known(a) + Known(b)
AddUsage(u, v) == [total |-> AddOptional(u.total, v.total), parts |-> AddOptional(u.parts, v.parts)]
UsageTotal(u) == IF u.total = Unknown THEN Known(u.parts) ELSE u.total

----------------------------------------------------------------------------
(* The circuit *)

\* A look at an open circuit whose time is up closes it.
IsOpen == circuit.left \notin {NoTime, 0}
Looked == IF circuit.left = 0 THEN Closed ELSE circuit

SucceededOpenOnly == [circuit EXCEPT !.left = NoTime]       \* mutant: failures are not forgotten
Succeeded == Closed
CountedFailures == IF circuit.failures < Threshold THEN circuit.failures + 1 ELSE Threshold
AfterFailure ==
    [failures |-> CountedFailures,
     left |-> IF CountedFailures = Threshold THEN OpenFor ELSE circuit.left]

CircuitSucceeds == circuit' = Succeeded /\ streak' = 0
CircuitFails ==
    /\ circuit' = AfterFailure
    /\ streak' = IF streak < Threshold THEN streak + 1 ELSE Threshold

----------------------------------------------------------------------------
(* The answers *)

Answers(r, what) ==
    /\ answer' = [answer EXCEPT ![r] = what]
    /\ request' = [request EXCEPT ![r] = NoRequest]

\* The authored proposal passes the same checks, or there is an error.
Authored(brief) == IF brief = "resembling" THEN "error" ELSE "authored"
FallsBack(r, brief) == Answers(r, Authored(brief))

ReturnsPermit(r) == permits' = IF request[r].step = "asking" THEN permits + 1 ELSE permits

----------------------------------------------------------------------------
(* generate *)

\* The request is prepared and the circuit looked at: no permit and no provider for it while
\* the circuit is open, and nothing is counted.
RefusedByCircuitAsFailure(r, i) ==                          \* mutant: the refusal is counted
    CircuitFails /\ FallsBack(r, i.brief)
RefusedByCircuit(r, i) ==
    FallsBack(r, i.brief) /\ UNCHANGED <<circuit, streak>>

Generate(r, i) ==
    /\ request[r].step = "idle"
    /\ \/ IsOpen /\ RefusedByCircuit(r, i)
       \/ /\ ~IsOpen
          /\ circuit' = Looked
          /\ request' = [request EXCEPT ![r] =
                 [step |-> "waiting", purpose |-> i.purpose, brief |-> i.brief,
                  legal |-> i.legal, attempts |-> 0, usage |-> NoUsage, left |-> Deadline]]
          /\ answer' = [answer EXCEPT ![r] = "none"]
          /\ UNCHANGED streak
    /\ UNCHANGED <<backend, permits>>

Acquire(r) ==
    /\ request[r].step = "waiting" /\ permits > 0
    /\ permits' = permits - 1
    /\ request' = [request EXCEPT ![r] = [@ EXCEPT !.step = "asking", !.attempts = 1]]
    /\ UNCHANGED <<backend, circuit, answer, streak>>

\* Private facts are sent once.  Tokens are counted over both calls.
AttemptsOf(brief) == IF brief = "none" THEN MaxAttempts ELSE 1
Exhausted(usage) == UsageTotal(usage) > MaxTokens

\* An answer of the provider ends the request, or has its proposal repaired.
Fails(r) == CircuitFails /\ FallsBack(r, request[r].brief) /\ ReturnsPermit(r)
Accepts(r, c) == CircuitSucceeds /\ Answers(r, Disposition(c)) /\ ReturnsPermit(r)
Repairs(r, usage) ==
    /\ request' = [request EXCEPT ![r] =
           [@ EXCEPT !.attempts = request[r].attempts + 1, !.usage = usage]]
    /\ UNCHANGED <<circuit, permits, answer, streak>>

\* A repair may be too large to send.
Reply(r, reply) ==
    LET q == request[r]
        usage == AddUsage(q.usage, reply.usage)
        refused == reply.error # "none" \/ Exhausted(usage)
        objection == Validated(reply.proposal, q.brief)
    IN  /\ q.step = "asking"
        /\ \/ refused /\ Fails(r)
           \/ ~refused /\ objection = "none" /\ Accepts(r, reply.proposal)
           \/ ~refused /\ objection # "none" /\ Fails(r)
           \/ ~refused /\ objection # "none" /\ q.attempts < AttemptsOf(q.brief)
                 /\ Repairs(r, usage)
        /\ UNCHANGED backend

\* The deadline strikes, while the request waits for a permit or for the provider.
TimesOutAsking(r) == request[r].step = "asking" /\ request[r].left = 0
TimesOut(r) == request[r].step # "idle" /\ request[r].left = 0
TimeOut(r) ==
    /\ TimesOut(r)
    /\ Fails(r)
    /\ UNCHANGED backend

\* The client goes away, or the process stops, and the request with it.
Drop(r) ==
    /\ request[r].step # "idle"
    /\ Answers(r, "none")
    /\ ReturnsPermit(r)
    /\ UNCHANGED <<backend, circuit, streak>>

----------------------------------------------------------------------------
Less(t) == IF t \in {NoTime, 0} THEN t ELSE t - 1
Tick ==
    /\ circuit' = [circuit EXCEPT !.left = Less(@)]
    /\ request' = [r \in Requests |-> [request[r] EXCEPT !.left = Less(@)]]
    /\ UNCHANGED <<backend, permits, answer, streak>>

Next ==
    \/ \E r \in Requests :
          \/ \E i \in Inputs : Generate(r, i)
          \/ Acquire(r) \/ TimeOut(r) \/ Drop(r)
          \/ \E reply \in ProviderReplies(request[r]) : Reply(r, reply)
    \/ Tick

\* Time passes, and the deadline is a timer of its own; nothing else is certain to happen.
Fairness == WF_vars(Tick) /\ \A r \in Requests : WF_vars(TimeOut(r))

GameMasterSpec == Init /\ [][Next]_vars /\ Fairness
=============================================================================
