------------------------------ MODULE ChatTurn ------------------------------
(***************************************************************************)
(* The turns of one session inside SpiralEngine.chat                       *)
(* (src/jarvis/brain/engine.py): the observe-only tools, recall from the   *)
(* Continuity Ledger, the challenge, the hosted model, the gates on the    *)
(* reply, what may be remembered, and the save.  Every await and every     *)
(* call that can raise is a step of its own.                               *)
(*                                                                         *)
(* SessionEngine models what this module leaves out: several requests at   *)
(* once, the session lock, storage and restarts.  Here a turn is alone and *)
(* its save is one step; what is detailed is how its decision is reached.  *)
(***************************************************************************)
EXTENDS Deliberation

CONSTANTS
    Requests,         \* what users send: a subset of RequestType
    ModelReplies,     \* replies the hosted model may give: sequences of Units
    FixedReplies,     \* the texts the engine itself may reply with
    RecallConfigured, \* whether a Continuity Ledger client is configured
    ModelConfigured,  \* whether an inference slot is configured
    GovernedWrites,   \* settings.governed_writes_allowed()
    ToolAttempts,     \* attempts of web search and ledger recall
    MaxImportance,    \* bound on the importance of a memory
    MaxMemories       \* settings.max_long_term_memory

ASSUME ChatAssumption ==
    /\ RecallConfigured \in BOOLEAN /\ ModelConfigured \in BOOLEAN /\ GovernedWrites \in BOOLEAN
    /\ ToolAttempts \in Nat \ {0} /\ MaxMemories \in Nat \ {0} /\ MaxImportance \in Nat
    /\ ModelReplies \subseteq Seq(Units) /\ FixedReplies \subseteq Seq(Units)

\* asks     what the message looks like to the tools and to the challenge
\* stress   calm up to 0.30, raised up to 0.80, high above
\* uncertain  1 - confidence >= 0.5
\* previous the user asked for the previous session to be recalled
\* context  the request carries a context of its own
\* importance  of the memory the message would leave, 0 if it is not worth one
RequestType ==
    [asks : SUBSET {"search", "world_fact", "calculator", "clock", "nx_search", "factual", "vague"},
     stress : {"calm", "raised", "high"}, uncertain : BOOLEAN, consent : BOOLEAN,
     previous : BOOLEAN, context : BOOLEAN, importance : 0..MaxImportance]

ASSUME RequestsAssumption == Requests \subseteq RequestType /\ Requests # {}

VARIABLES
    pc,         \* where the turn is; "idle" between turns
    request,    \* the request being answered, or answered last
    attempt,    \* attempt of the search or the recall; 0 before its quota is checked
    records,    \* tools that left a record in this turn
    found,      \* those whose record brings evidence
    audited,    \* what the audit chain holds of this turn
    evidence,   \* evidence of the deliberation
    action,     \* challenge_action of the runner
    decision,   \* decision of the turn
    reply,      \* the reply, before the gates
    origin,     \* where the reply came from
    gate,       \* outcome of Evaluate
    shown,      \* what was done to the text before it was shown
    wrote,      \* derived state the turn leaves
    outcome,    \* how the last turn ended, and why if it was aborted
    memories,   \* importance of the long-term memories, in their order
    spoken      \* the session has an earlier turn in its history

turnVars    == <<records, found, audited, evidence, action, decision, reply, origin, gate,
                 shown, wrote>>
sessionVars == <<memories, spoken>>
vars == <<pc, request, attempt, records, found, audited, evidence, action, decision, reply,
          origin, gate, shown, wrote, outcome, memories, spoken>>

LocalTools == {"calculator", "clock", "nx_search"}
Tools      == LocalTools \union {"web_search"}
Causes     == {"quota", "search", "audit", "recall", "storage"}

\* Where the turn records its tools: search, calculator, clock, file search.
Place == [web_search |-> 1, calculator |-> 2, clock |-> 3, nx_search |-> 4]

NoGate == GateOf("continue", "committed", "eligible")

Init ==
    /\ pc = "idle" /\ attempt = 0 /\ outcome = "none"
    /\ request \in Requests
    /\ records = {} /\ found = {} /\ audited = {} /\ evidence = {}
    /\ action = "continue" /\ decision = "answer" /\ reply = <<>> /\ origin = "none"
    /\ gate = NoGate /\ shown = AsItStands /\ wrote = {}
    /\ memories = <<>> /\ spoken = FALSE

\* An exception leaves the handler: the working copy of the session is dropped.
Abort(cause) ==
    /\ pc' = "idle" /\ outcome' = cause
    /\ UNCHANGED <<request, attempt, turnVars, sessionVars>>

-----------------------------------------------------------------------------
(* Listen, orient, reason *)

Uncertain(r) == r.uncertain \/ r.stress = "high"

AfterArrival(r) ==
    IF "search" \in r.asks THEN "search"
    ELSE IF "world_fact" \in r.asks THEN "auto_search" ELSE "tools"

Arrive(r) ==
    /\ pc = "idle"
    /\ pc' = AfterArrival(r) /\ request' = r /\ attempt' = 0 /\ outcome' = "none"
    /\ records' = {} /\ found' = {} /\ audited' = {} /\ evidence' = {}
    /\ action' = "continue" /\ reply' = <<>> /\ origin' = "none"
    /\ decision' = IF Uncertain(r) THEN "fail_closed" ELSE "answer"
    /\ gate' = NoGate /\ shown' = AsItStands /\ wrote' = {}
    /\ UNCHANGED sessionVars

(* Web search and ledger recall share their loop: a quota, then attempts   *)
(* under a timeout, of which only the retryable failures are repeated.     *)

Searching == pc \in {"search", "auto_search"}

Retrieving == Searching \/ pc = "recall"

RetrievedTool == IF Searching THEN "web_search" ELSE "ledger_recall"

AfterRetrieval == IF Searching THEN "tools" ELSE "record_recall"

\* The tool leaves a record, with evidence or, degraded, without.
Retrieved(hits) ==
    /\ records' = records \union {RetrievedTool}
    /\ found' = IF hits THEN found \union {RetrievedTool} ELSE found
    /\ pc' = AfterRetrieval /\ attempt' = 0
    /\ UNCHANGED <<request, audited, evidence, action, decision, reply, origin, gate, shown,
                   wrote, outcome, sessionVars>>

QuotaGranted ==
    /\ Retrieving /\ attempt = 0
    /\ attempt' = 1
    /\ UNCHANGED <<pc, request, turnVars, outcome, sessionVars>>

QuotaRefused == Retrieving /\ attempt = 0 /\ Retrieved(FALSE)

\* The quota is counted in the access database.  Its failure ends the turn,
\* except in the search the engine starts by itself, which is given up.
QuotaFails ==
    /\ Retrieving /\ attempt = 0
    /\ IF pc = "auto_search"
         THEN /\ pc' = "tools"
              /\ UNCHANGED <<request, attempt, turnVars, outcome, sessionVars>>
         ELSE Abort("quota")

\* An answer; none of its hits or memories may be usable.
Answers(hits) == Retrieving /\ attempt > 0 /\ Retrieved(hits)

\* Mutant of TryAgain: the whole call is made again.
CallAgain ==
    /\ Retrieving /\ attempt > 0
    /\ attempt' = 0
    /\ UNCHANGED <<pc, request, turnVars, outcome, sessionVars>>

TryAgain ==
    /\ Retrieving /\ attempt > 0 /\ attempt < ToolAttempts
    /\ attempt' = attempt + 1
    /\ UNCHANGED <<pc, request, turnVars, outcome, sessionVars>>

\* The addresses of the hits are read outside the error handling: a malformed
\* one raises, and ends the turn unless the engine searched by itself.
SearchRaises ==
    /\ Searching /\ attempt > 0
    /\ IF pc = "auto_search"
         THEN /\ pc' = "tools" /\ attempt' = 0
              /\ UNCHANGED <<request, turnVars, outcome, sessionVars>>
         ELSE Abort("search")

\* A failure that is not retryable, or the last attempt timed out.
GivesUp == Retrieving /\ attempt > 0 /\ Retrieved(FALSE)

\* The ledger client lets HTTP and decoding errors through and neither the
\* recall loop nor the engine catches them.
RecallRaises == pc = "recall" /\ attempt > 0 /\ Abort("recall")

\* The calculator, the clock and the file search run when the message asks
\* for them; each may fail and then brings nothing.
UseLocalTools(successes) ==
    /\ pc = "tools"
    /\ successes \subseteq request.asks \intersect LocalTools
    /\ records' = records \union (request.asks \intersect LocalTools)
    /\ found' = found \union successes
    /\ pc' = "record"
    /\ UNCHANGED <<request, attempt, audited, evidence, action, decision, reply, origin, gate,
                   shown, wrote, outcome, sessionVars>>

Unrecorded == records \ audited

\* A record becomes evidence only once the audit chain has it.
RecordTool(t) ==
    /\ pc = "record" /\ t \in Unrecorded
    /\ \A u \in Unrecorded : Place[t] <= Place[u]
    /\ audited' = audited \union {t}
    /\ evidence' = IF t \in found THEN evidence \union {t} ELSE evidence
    /\ UNCHANGED <<pc, request, attempt, records, found, action, decision, reply, origin, gate,
                   shown, wrote, outcome, sessionVars>>

\* Mutant of ToolsRecorded: the records are left for later.
RecordsLater ==
    /\ pc = "record"
    /\ pc' = IF RecallConfigured THEN "recall" ELSE "challenge"
    /\ UNCHANGED <<request, attempt, turnVars, outcome, sessionVars>>

ToolsRecorded ==
    /\ pc = "record" /\ Unrecorded = {}
    /\ pc' = IF RecallConfigured THEN "recall" ELSE "challenge"
    /\ UNCHANGED <<request, attempt, turnVars, outcome, sessionVars>>

RecordRecall ==
    /\ pc = "record_recall"
    /\ audited' = audited \union {"ledger_recall"}
    /\ evidence' = IF "ledger_recall" \in found THEN evidence \union {"ledger"} ELSE evidence
    /\ pc' = "challenge"
    /\ UNCHANGED <<request, attempt, records, found, action, decision, reply, origin, gate,
                   shown, wrote, outcome, sessionVars>>

\* What Observe adds to the evidence of the tools.
Observed ==
    {"utterance"} \union (IF memories # <<>> THEN {"memory"} ELSE {})
                  \union (IF spoken THEN {"history"} ELSE {})
                  \union (IF request.context THEN {"context"} ELSE {})

\* is_stress_fail_closed: the threshold of the challenge is 0.30.
Stressed(r) == r.stress # "calm"

\* Observe, Interpret, Infer, Simulate and Challenge.
Challenge ==
    /\ pc = "challenge"
    /\ evidence' = evidence \union Observed
    /\ action' = ChooseChallenge(request.asks, Stressed(request), request.uncertain, evidence')
    /\ decision' = MapDecision(action', decision)
    /\ pc' = IF request.previous THEN "previous" ELSE "ask"
    /\ UNCHANGED <<request, attempt, records, found, audited, reply, origin, gate, shown, wrote,
                   outcome, sessionVars>>

-----------------------------------------------------------------------------
(* Respond *)

RecordPrevious ==
    /\ pc = "previous"
    /\ audited' = audited \union {"previous_session_recall"}
    /\ pc' = "ask"
    /\ UNCHANGED <<request, attempt, records, found, evidence, action, decision, reply, origin,
                   gate, shown, wrote, outcome, sessionVars>>

AsksModel ==
    ModelConfigured /\ request.stress # "high" /\ decision # "abstain"
                    /\ action \notin {"clarify", "abstain"}

\* An append to the audit chain fails: of a tool record, of the previous
\* session's recall, or of an inference attempt.
AuditFails ==
    /\ \/ pc = "record" /\ Unrecorded # {}
       \/ pc \in {"record_recall", "previous"}
       \/ pc = "ask" /\ AsksModel
    /\ Abort("audit")

Replies(text, from, new) ==
    /\ reply' = text /\ origin' = from /\ decision' = new
    /\ pc' = "evaluate"
    /\ UNCHANGED <<request, attempt, records, found, audited, evidence, action, gate, shown,
                   wrote, outcome, sessionVars>>

ModelAnswers(text) == pc = "ask" /\ AsksModel /\ Replies(text, "model", decision)

\* Mutant of SafeMode: an outage of the providers fails the turn closed.
OutageFailsClosed(text) ==
    pc = "ask" /\ AsksModel /\ Replies(text, "safe_mode", "fail_closed")

\* No slot answered or one refused: a fixed text, and the turn is degraded
\* unless it is failed closed already.
SafeMode(text) ==
    /\ pc = "ask" /\ AsksModel
    /\ Replies(text, "safe_mode", IF decision = "fail_closed" THEN decision ELSE "degraded")

\* The engine's own text: of the responder, of the challenge, or of the
\* fail-closed lane.
RepliesItself(text) == pc = "ask" /\ ~AsksModel /\ Replies(text, "local", decision)

-----------------------------------------------------------------------------
(* Reflect, evolve *)

\* Memory citations prepared for the prompt become evidence before Evaluate.
MayCite == IF memories # <<>> \/ request.previous THEN {"cited"} ELSE {}

\* A safe-mode text is evaluated, but its gates are not applied to the turn.
Evaluate(cited) ==
    /\ pc = "evaluate"
    /\ cited \subseteq MayCite
    /\ evidence' = evidence \union cited
    /\ gate' = Evaluated(reply, evidence', action)
    /\ action' = gate'.action
    /\ IF origin = "safe_mode"
         THEN shown' = AsItStands /\ UNCHANGED decision
         ELSE /\ shown' = Treatment(gate'.action, reply, evidence')
              /\ decision' = DecisionAfter(gate', decision)
    /\ pc' = "reflect"
    /\ UNCHANGED <<request, attempt, records, found, audited, reply, origin, wrote, outcome,
                   sessionVars>>

\* Texts of the tool records; the calculator's result is not one.
Snippets == found \intersect {"web_search", "clock", "nx_search"}

\* Mutant of Admitted: the decision is left to the gate.
AdmittedByGate == request.consent /\ gate.memory = "eligible" /\ Snippets = {}

Admitted ==
    request.consent /\ decision = "answer" /\ gate.memory = "eligible" /\ Snippets = {}

\* extract_memory and update_preferences, of the user's own words.
Reflect(learns) ==
    /\ pc = "reflect"
    /\ wrote' = IF ~Admitted THEN wrote
                ELSE wrote \union (IF request.importance > 0 THEN {"memory"} ELSE {})
                           \union (IF learns THEN {"preferences"} ELSE {})
    /\ pc' = "evolve"
    /\ UNCHANGED <<request, attempt, records, found, audited, evidence, action, decision, reply,
                   origin, gate, shown, outcome, sessionVars>>

\* Project Infinity is told of the turn when governed writes allow.
Evolve ==
    /\ pc = "evolve"
    /\ wrote' = IF Admitted /\ GovernedWrites THEN wrote \union {"evolution"} ELSE wrote
    /\ pc' = "save"
    /\ UNCHANGED <<request, attempt, records, found, audited, evidence, action, decision, reply,
                   origin, gate, shown, outcome, sessionVars>>

\* add_long_term_memory: beyond the bound the list is sorted by importance,
\* the older first among equals, and its last entry is dropped.
Ahead(list, i, j) == list[i] > list[j] \/ (list[i] = list[j] /\ i < j)

PlaceOf(list, i) == 1 + Cardinality({j \in DOMAIN list : Ahead(list, j, i)})

ByImportance(list) ==
    [place \in DOMAIN list |-> list[CHOOSE i \in DOMAIN list : PlaceOf(list, i) = place]]

\* Mutants of Remember: without the bound, and keeping the newest.
RememberAll(list, importance) == Append(list, importance)

RememberNewest(list, importance) ==
    LET longer == Append(list, importance)
    IN  IF Len(longer) > MaxMemories THEN Tail(longer) ELSE longer

Remember(list, importance) ==
    LET longer == Append(list, importance)
    IN  IF Len(longer) > MaxMemories
          THEN SubSeq(ByImportance(longer), 1, MaxMemories) ELSE longer

Save ==
    /\ pc = "save"
    /\ memories' = IF "memory" \in wrote THEN Remember(memories, request.importance) ELSE memories
    /\ spoken' = TRUE
    /\ pc' = "idle" /\ outcome' = "saved"
    /\ UNCHANGED <<request, attempt, turnVars>>

SaveFails == pc = "save" /\ Abort("storage")

-----------------------------------------------------------------------------
Think ==
    \/ QuotaGranted \/ QuotaRefused \/ QuotaFails
    \/ \E hits \in BOOLEAN : Answers(hits)
    \/ TryAgain \/ GivesUp \/ SearchRaises \/ RecallRaises
    \/ \E successes \in SUBSET LocalTools : UseLocalTools(successes)
    \/ \E t \in Tools : RecordTool(t)
    \/ ToolsRecorded \/ RecordRecall \/ Challenge

Respond ==
    \/ RecordPrevious \/ AuditFails
    \/ \E text \in ModelReplies : ModelAnswers(text)
    \/ \E text \in FixedReplies : SafeMode(text) \/ RepliesItself(text)

Conclude ==
    \/ \E cited \in SUBSET MayCite : Evaluate(cited)
    \/ \E learns \in BOOLEAN : Reflect(learns)
    \/ Evolve \/ Save \/ SaveFails

Step == Think \/ Respond \/ Conclude

Next == Step \/ \E r \in Requests : Arrive(r)

\* A turn that has begun goes on: every await is under a timeout.
Spec == Init /\ [][Next]_vars /\ WF_vars(Step)

-----------------------------------------------------------------------------
(* Properties *)

Places == {"idle", "search", "auto_search", "tools", "record", "recall", "record_recall",
           "challenge", "previous", "ask", "evaluate", "reflect", "evolve", "save"}

\* Every variable stays in its range.
TypeOK ==
    /\ pc \in Places /\ request \in Requests /\ attempt \in 0..ToolAttempts
    /\ records \subseteq Tools \union {"ledger_recall"}
    /\ found \subseteq records
    /\ audited \subseteq Tools \union {"ledger_recall", "previous_session_recall"}
    /\ evidence \subseteq Sources
    /\ action \in Actions /\ decision \in {"answer", "degraded", "abstain", "fail_closed"}
    /\ reply \in ModelReplies \union FixedReplies \union {<<>>}
    /\ origin \in {"none", "model", "safe_mode", "local"}
    /\ gate \in Gates /\ shown \in Texts
    /\ wrote \subseteq {"memory", "preferences", "evolution"}
    /\ outcome \in {"none", "saved"} \union Causes
    /\ memories \in Seq(1..MaxImportance) /\ Len(memories) <= MaxMemories
    /\ spoken \in BOOLEAN

Saved == outcome = "saved"

\* The text of a model or of the engine went through the gates.
Gated == Saved /\ origin # "safe_mode"

TaggedUnits    == {reply[i] : i \in Tagged(reply, evidence)}
UncoveredUnits == {reply[i] : i \in Uncovered(reply, evidence)}

\* A safety-critical sentence is never part of a committed answer: one that
\* was tagged is not even shown, one that only the coverage gate saw turns
\* the answer into a refusal (resolve_claim_gate, apply_coverage_gate,
\* apply_reply_resolution), whatever the challenge had said before.
CheckedSafetyTextBlocks ==
    Gated =>
      /\ \A u \in TaggedUnits :
            ClassOf(u) = "safety_critical" => decision = "fail_closed" /\ shown = Replaced
      /\ \A u \in UncoveredUnits :
            ClassOf(u) = "safety_critical" => decision = "fail_closed" /\ ~Committed(gate)

\* A model's answer that holds a tagged fact without any support, or a tagged
\* causal sentence without full support, ends with the note that it is not
\* established, and the causal sentence itself is marked where its text can be
\* found: no verdict of the challenge, of another claim or of the coverage masks
\* what the claim demands (challenge_action, resolve_claim_gate,
\* apply_coverage_gate, apply_reply_resolution).
UnsupportedNeverPlain ==
    Gated /\ origin = "model" /\ decision = "answer" =>
      \A i \in Tagged(reply, evidence) :
        LET c == ClaimOf(reply[i], evidence)
        IN  /\ c.class = "factual" /\ c.support = "missing" => "noted" \in shown.marks
            /\ c.class = "causal" /\ Unsupported(c) =>
                 "noted" \in shown.marks /\ (reply[i].literal => i \in shown.hedged)

\* A turn fails closed because of its signals or of a sentence that may not
\* be said: no failure of a tool, of recall or of every model does it.
FailClosedHasCause ==
    Saved /\ decision = "fail_closed" =>
      \/ Stressed(request) \/ request.uncertain
      \/ \E c \in ReplyClaims(reply, evidence) : c.action = "block"
      \/ \E u \in UncoveredUnits : ClassOf(u) = "safety_critical"

\* When a tool brought anything the turn leaves no memory, no preference and
\* no evolution, whichever of the two checks of the engine (its snippets, the
\* write-path lock of the deliberation) sees that tool.
NoToolTextRemembered == wrote # {} => found \intersect Tools = {}

\* Inference is not called before the audit chain holds every tool call of
\* the turn and, when the user asked for it, the recall of the previous
\* session.
AuditedBeforeInference ==
    origin \in {"model", "safe_mode"} =>
      records \subseteq audited /\ (request.previous => "previous_session_recall" \in audited)

\* A full long-term memory gives up its least important entry, the new one
\* included: the number of memories of a given importance or more never falls.
AtLeast(list, level) == Cardinality({i \in DOMAIN list : list[i] >= level})

NoImportantMemoryLost ==
    [][\A level \in 1..MaxImportance : AtLeast(memories', level) >= AtLeast(memories, level)]_vars

\* A turn keeps the promise of TurnPromise: its decision only tightens and
\* only a consented answer leaves derived state.
Promise == INSTANCE TurnPromise WITH
    Writes  <- {"memory", "preferences", "evolution"},
    phase   <- IF pc = "idle" THEN "closed" ELSE "open",
    consent <- request.consent

KeepsTurnPromise == Promise!Spec

\* Every turn that begins is answered or fails.
TurnEnds == pc # "idle" ~> pc = "idle"

-----------------------------------------------------------------------------
(* What the documents say and the code does not do *)

\* "so a long tail cannot skip Challenge" (deliberation.py:1065): no sentence
\* of a committed answer is safety-critical, wherever it stands.
LongTailIsChecked ==
    Gated /\ decision = "answer" => \A i \in DOMAIN reply : ClassOf(reply[i]) # "safety_critical"

\* "degrades on ledger unavailability" (ledger_recall.py:5-6): an outage of
\* the Continuity Ledger never costs the user the turn.
RecallOutageDegrades == outcome # "recall"
=============================================================================
