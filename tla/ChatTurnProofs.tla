--------------------------- MODULE ChatTurnProofs ---------------------------
(***************************************************************************)
(* Theorems about ChatTurn: for every set of requests and replies, every   *)
(* outcome of the tools and of inference, and every number of turns.       *)
(***************************************************************************)
EXTENDS ChatTurn, DeliberationProofs

-----------------------------------------------------------------------------
(* The strengthening, by what the stage of the turn guarantees.            *)

\* TypeOK without the long-term memories, which no theorem here needs.
TurnTyped ==
    /\ pc \in Places /\ request \in Requests
    /\ records \subseteq Tools \union {"ledger_recall"}
    /\ found \subseteq records
    /\ audited \subseteq Tools \union {"ledger_recall", "previous_session_recall"}
    /\ evidence \subseteq Sources
    /\ action \in Actions /\ decision \in {"answer", "degraded", "abstain", "fail_closed"}
    /\ reply \in ModelReplies \union FixedReplies \union {<<>>}
    /\ gate \in Gates
    /\ wrote \subseteq {"memory", "preferences", "evolution"}
    /\ outcome \in {"none", "saved"} \union Causes

Deciding == {"search", "auto_search", "tools", "record", "recall", "record_recall",
             "challenge", "previous", "ask"}

Recording == {"recall", "challenge", "previous", "ask"}

Judging == {"reflect", "evolve", "save"}

\* Its signals alone make a turn fail closed.
Signals == Stressed(request) \/ request.uncertain

\* Until the reply is judged: nothing is remembered, and only the signals have
\* tightened the decision.  The engine never abstains.
Undecided ==
    /\ action # "abstain"
    /\ pc # "idle" => outcome = "none"
    /\ pc \in Deciding => origin = "none"
    /\ pc \in Deciding \union {"evaluate", "reflect"} => wrote = {}
    /\ pc \in Deciding \union {"evaluate"} =>
         /\ origin # "safe_mode" => decision \in {"answer", "fail_closed"}
         /\ decision = "fail_closed" \/ action \in {"block", "fail_closed"} => Signals

\* What the audit chain holds at each stage, and what is evidence by then.
Journal ==
    /\ found \intersect audited \intersect Tools \subseteq evidence
    /\ pc \in {"search", "auto_search", "tools"} => audited = {}
    /\ pc \in Recording \/ origin # "none" => records \subseteq audited
    /\ pc = "record_recall" => records \subseteq audited \union {"ledger_recall"}
    /\ pc = "ask" \/ origin # "none" =>
         (request.previous => "previous_session_recall" \in audited)
    /\ pc \in Judging \union {"evaluate"} => origin # "none"

\* The reply has been judged: what follows from its sentences.
SafetyBlocked ==
    origin # "safe_mode" =>
      /\ SafetyIn(reply, Tagged(reply, evidence)) =>
           decision = "fail_closed" /\ shown = Replaced
      /\ SafetyIn(reply, Uncovered(reply, evidence)) =>
           decision = "fail_closed" /\ gate.response = "refused"

Caused ==
    decision = "fail_closed" =>
      \/ Signals
      \/ \E c \in ReplyClaims(reply, evidence) : c.action = "block"
      \/ SafetyIn(reply, Uncovered(reply, evidence))

Judged ==
    /\ pc \in Judging \/ Saved => SafetyBlocked /\ Caused
    /\ pc \in Judging =>
         (gate.memory = "eligible" => evidence \intersect LockedTools = {})

TInv == TurnTyped /\ Undecided /\ Journal /\ Judged /\ NoToolTextRemembered

-----------------------------------------------------------------------------
LEMMA RepliesAreSequences ==
    ASSUME TurnTyped
    PROVE  reply \in Seq(Units)
<1>1. <<>> \in Seq(Units)
    OBVIOUS
<1>2. ModelReplies \union FixedReplies \subseteq Seq(Units)
    BY ChatAssumption
<1> QED
    BY <1>1, <1>2 DEF TurnTyped

LEMMA SourcesOfTurn ==
    /\ Tools \subseteq Sources /\ "ledger" \in Sources /\ MayCite \subseteq Sources
    /\ Observed \subseteq Sources
BY DEF Tools, LocalTools, Sources, ToolSources, OwnSources, MayCite, Observed

LEMMA InitHolds == Init => TInv
<1> SUFFICES ASSUME Init PROVE TInv
    OBVIOUS
<1> USE DEF Init
<1>1. NoGate \in Gates
    BY DEF NoGate, GateOf, Gates, Actions, Responses, Admissions
<1>2. TurnTyped
    BY <1>1 DEF TurnTyped, Places, Actions
<1>3. Undecided /\ Journal /\ Judged /\ NoToolTextRemembered
    BY DEF Undecided, Deciding, Journal, Recording, Judging, Judged, Saved, NoToolTextRemembered
<1> QED
    BY <1>2, <1>3 DEF TInv

\* An abandoned turn leaves everything as it is but its place.
LEMMA AbortStep ==
    ASSUME TInv, NEW cause \in Causes, Abort(cause)
    PROVE  TInv'
<1> USE DEF Abort, turnVars
<1>1. TurnTyped'
    BY DEF TInv, TurnTyped, Places
<1>2. Undecided'
    BY DEF TInv, Undecided, Deciding
<1>3. Journal'
    BY DEF TInv, Journal, Recording, Judging
<1>4. Judged' /\ NoToolTextRemembered'
    BY DEF TInv, Judged, Judging, Saved, Causes, NoToolTextRemembered
<1> QED
    BY <1>1, <1>2, <1>3, <1>4 DEF TInv

LEMMA ArriveStep ==
    ASSUME TInv, NEW r \in Requests, Arrive(r)
    PROVE  TInv'
<1> USE DEF Arrive
<1>1. pc' \in {"search", "auto_search", "tools"}
    BY DEF AfterArrival
<1>2. NoGate \in Gates
    BY DEF NoGate, GateOf, Gates, Actions, Responses, Admissions
<1>3. TurnTyped'
    BY <1>1, <1>2 DEF TInv, TurnTyped, Places, Actions, Uncertain
<1>4. Uncertain(r) => Stressed(r) \/ r.uncertain
    BY DEF Uncertain, Stressed
<1>5. Undecided'
    BY <1>1, <1>4 DEF Undecided, Deciding, Signals, Uncertain, Stressed
<1>6. Journal' /\ Judged' /\ NoToolTextRemembered'
    BY <1>1 DEF Journal, Recording, Judged, Judging, Saved, NoToolTextRemembered
<1> QED
    BY <1>3, <1>5, <1>6 DEF TInv

\* The steps of the shared loop of search and recall.
LEMMA RetrievalSteps ==
    ASSUME TInv,
           \/ QuotaGranted \/ QuotaRefused \/ QuotaFails
           \/ \E hits \in BOOLEAN : Answers(hits)
           \/ TryAgain \/ GivesUp \/ SearchRaises \/ RecallRaises
    PROVE  TInv'
<1>1. CASE QuotaGranted \/ TryAgain
    <2>1. UNCHANGED <<pc, request, turnVars, outcome>>
        BY <1>1 DEF QuotaGranted, TryAgain
    <2>2. TurnTyped'
        BY <2>1 DEF TInv, turnVars, TurnTyped
    <2>3. Undecided' /\ Journal' /\ Judged' /\ NoToolTextRemembered'
        BY <2>1 DEF TInv, turnVars, Undecided, Journal, Judged, SafetyBlocked, Caused, Saved, Signals,
                    NoToolTextRemembered
    <2> QED
        BY <2>2, <2>3 DEF TInv
<1>2. ASSUME NEW hits \in BOOLEAN, Retrieving, Retrieved(hits)
      PROVE  TInv'
    <2> USE <1>2 DEF Retrieving, Searching, Retrieved, RetrievedTool, AfterRetrieval
    <2>1. TurnTyped'
        BY DEF TInv, TurnTyped, Places, Tools
    <2>2. Undecided'
        BY DEF TInv, Undecided, Deciding, Signals
    <2>3. Journal'
        BY DEF TInv, Undecided, Deciding, Journal, Recording, Judging, Tools, LocalTools
    <2>4. Judged' /\ NoToolTextRemembered'
        BY DEF TInv, Undecided, Deciding, Judged, Judging, Saved, NoToolTextRemembered
    <2> QED
        BY <2>1, <2>2, <2>3, <2>4 DEF TInv
<1>3. CASE (QuotaFails \/ SearchRaises) /\ pc = "auto_search"
    BY <1>3 DEF QuotaFails, SearchRaises, TInv, turnVars, sessionVars, TurnTyped, Undecided, Deciding,
                Journal, Recording, Judging, Judged, Saved, Signals, NoToolTextRemembered, Places
<1>4. CASE (QuotaFails \/ SearchRaises) /\ pc # "auto_search"
    BY <1>4, AbortStep DEF QuotaFails, SearchRaises, Causes
<1>5. CASE RecallRaises
    BY <1>5, AbortStep DEF RecallRaises, Causes
<1>6. CASE QuotaRefused \/ GivesUp \/ \E hits \in BOOLEAN : Answers(hits)
    BY <1>6, <1>2 DEF QuotaRefused, GivesUp, Answers
<1> QED
    BY <1>1, <1>3, <1>4, <1>5, <1>6

LEMMA LocalToolsStep ==
    ASSUME TInv, NEW successes \in SUBSET LocalTools, UseLocalTools(successes)
    PROVE  TInv'
<1> USE DEF UseLocalTools
<1>1. TurnTyped'
    BY DEF TInv, TurnTyped, Places, Tools
<1>2. Undecided' /\ Journal' /\ Judged' /\ NoToolTextRemembered'
    BY DEF TInv, Undecided, Deciding, Signals, Journal, Recording, Judged, Judging, Saved,
           NoToolTextRemembered
<1> QED
    BY <1>1, <1>2 DEF TInv

LEMMA RecordSteps ==
    ASSUME TInv, (\E t \in Tools : RecordTool(t)) \/ ToolsRecorded \/ RecordRecall
    PROVE  TInv'
<1>1. ASSUME NEW t \in Tools, RecordTool(t)
      PROVE  TInv'
    <2> USE <1>1 DEF RecordTool
    <2>1. TurnTyped'
        BY SourcesOfTurn DEF TInv, TurnTyped
    <2>2. Undecided' /\ Journal' /\ Judged' /\ NoToolTextRemembered'
        BY DEF TInv, Undecided, Deciding, Signals, Journal, Recording, Judged, Judging, Saved,
               NoToolTextRemembered
    <2> QED
        BY <2>1, <2>2 DEF TInv
<1>2. ASSUME ToolsRecorded
      PROVE  TInv'
    <2> USE <1>2 DEF ToolsRecorded, turnVars, sessionVars
    <2>1. TurnTyped'
        BY DEF TInv, TurnTyped, Places
    <2>2. Undecided' /\ Journal' /\ Judged' /\ NoToolTextRemembered'
        BY DEF TInv, Undecided, Deciding, Signals, Journal, Recording, Judged, Judging, Saved,
               NoToolTextRemembered, Unrecorded
    <2> QED
        BY <2>1, <2>2 DEF TInv
<1>3. ASSUME RecordRecall
      PROVE  TInv'
    <2> USE <1>3 DEF RecordRecall
    <2>1. TurnTyped'
        BY SourcesOfTurn DEF TInv, TurnTyped, Places
    <2>2. Undecided' /\ Journal' /\ Judged' /\ NoToolTextRemembered'
        BY DEF TInv, Undecided, Deciding, Signals, Journal, Recording, Judged, Judging, Saved,
               NoToolTextRemembered, Tools, LocalTools
    <2> QED
        BY <2>1, <2>2 DEF TInv
<1> QED
    BY <1>1, <1>2, <1>3

LEMMA ChallengeStep ==
    ASSUME TInv, Challenge
    PROVE  TInv'
<1> USE DEF Challenge
<1>1. request \in RequestType /\ request.uncertain \in BOOLEAN /\ Stressed(request) \in BOOLEAN
    BY RequestsAssumption DEF TInv, TurnTyped, RequestType, Stressed
<1>2. /\ action' \in {"fail_closed", "require_evidence", "clarify", "continue"}
      /\ action' = "fail_closed" => Signals
    BY <1>1, ChallengeCases DEF Signals
<1>3. /\ decision' \in {decision, "fail_closed"}
      /\ decision' = "fail_closed" => decision = "fail_closed" \/ action' = "fail_closed"
    BY <1>2, MapDecisionCases DEF TInv, TurnTyped, Actions
<1>4. TurnTyped'
    BY <1>2, <1>3, SourcesOfTurn DEF TInv, TurnTyped, Places, Actions
<1>5. Undecided'
    BY <1>2, <1>3 DEF TInv, Undecided, Deciding, Signals
<1>6. Journal' /\ Judged' /\ NoToolTextRemembered'
    BY DEF TInv, Undecided, Deciding, Journal, Recording, Judged, Judging, Saved,
           NoToolTextRemembered
<1> QED
    BY <1>4, <1>5, <1>6 DEF TInv

\* The steps between the challenge and the evaluation.
LEMMA RespondSteps ==
    ASSUME TInv, Respond
    PROVE  TInv'
<1>1. ASSUME RecordPrevious
      PROVE  TInv'
    <2> USE <1>1 DEF RecordPrevious
    <2>1. TurnTyped'
        BY DEF TInv, TurnTyped, Places
    <2>2. Undecided' /\ Journal' /\ Judged' /\ NoToolTextRemembered'
        BY DEF TInv, Undecided, Deciding, Signals, Journal, Recording, Judged, Judging, Saved,
               NoToolTextRemembered, Tools, LocalTools
    <2> QED
        BY <2>1, <2>2 DEF TInv
<1>2. CASE AuditFails
    BY <1>2, AbortStep DEF AuditFails, Causes
<1>3. ASSUME NEW text \in ModelReplies \union FixedReplies, NEW from \in {"model", "safe_mode", "local"},
             NEW new, pc = "ask", Replies(text, from, new),
             new \in {decision, "degraded"}, new = decision \/ from = "safe_mode"
      PROVE  TInv'
    <2> USE <1>3 DEF Replies
    <2>1. TurnTyped'
        BY DEF TInv, TurnTyped, Places
    <2>2. Undecided'
        BY DEF TInv, Undecided, Deciding, Signals
    <2>3. Journal' /\ Judged' /\ NoToolTextRemembered'
        BY DEF TInv, Undecided, Deciding, Journal, Recording, Judged, Judging, Saved, NoToolTextRemembered
    <2> QED
        BY <2>1, <2>2, <2>3 DEF TInv
<1>4. ASSUME NEW text \in ModelReplies, ModelAnswers(text)
      PROVE  TInv'
    BY <1>3, <1>4 DEF ModelAnswers
<1>5. ASSUME NEW text \in FixedReplies, SafeMode(text) \/ RepliesItself(text)
      PROVE  TInv'
    BY <1>3, <1>5 DEF SafeMode, RepliesItself
<1> QED
    BY <1>1, <1>2, <1>4, <1>5 DEF Respond

LEMMA EvaluateStep ==
    ASSUME TInv, NEW cited \in SUBSET MayCite, Evaluate(cited)
    PROVE  TInv'
<1> USE DEF Evaluate
<1>1. reply \in Seq(Units) /\ evidence' \in SUBSET Sources /\ action \in Actions /\ action # "abstain"
    BY RepliesAreSequences, SourcesOfTurn DEF TInv, TurnTyped, Undecided
<1>2. OutcomeOf(gate', reply, evidence', action)
    <2>1. gate' = Evaluated(reply, evidence', action)
        OBVIOUS
    <2> HIDE DEF Evaluate
    <2> QED
        BY <1>1, <2>1, EvaluatedCause
<1> USE DEF OutcomeOf
<1>3. /\ decision = "fail_closed" \/ action \in {"block", "fail_closed"} => Signals
      /\ origin # "safe_mode" => decision \in {"answer", "fail_closed"}
      /\ wrote = {} /\ outcome = "none"
    BY DEF TInv, Undecided
<1>4. action' \in Actions
    BY <1>2 DEF Gates
<1>5. origin # "safe_mode" =>
        /\ decision' \in {decision, "fail_closed"}
        /\ gate'.action \in {"block", "fail_closed"} \/ gate'.response = "refused" =>
             decision' = "fail_closed"
        /\ decision' = "fail_closed" =>
             \/ decision = "fail_closed" \/ gate'.action \in {"block", "fail_closed"}
             \/ gate'.response = "refused"
    BY <1>2, <1>3, DecisionAfterCases
<1>6. TurnTyped'
    BY <1>1, <1>2, <1>4, <1>5 DEF TInv, TurnTyped, Places
<1>7. Undecided'
    BY <1>2, <1>3 DEF Undecided, Deciding
<1>8. Journal' /\ NoToolTextRemembered'
    BY <1>3 DEF TInv, Undecided, Journal, Recording, Judging, NoToolTextRemembered
<1>9. SafetyBlocked'
    <2>1. origin # "safe_mode" /\ gate'.action = "block" => shown' = Replaced
        BY DEF Treatment
    <2> QED
        BY <1>2, <1>5, <2>1 DEF SafetyBlocked
<1>10. Caused'
    BY <1>2, <1>3, <1>5 DEF Caused, Signals
<1> QED
    BY <1>2, <1>6, <1>7, <1>8, <1>9, <1>10 DEF TInv, Judged, Judging

\* A turn may leave derived state only when no tool brought anything: the
\* engine sees search, clock and file search, the write-path lock the calculator.
LEMMA AdmittedMeans ==
    ASSUME TInv, pc \in Judging, Admitted
    PROVE  found \intersect Tools = {} /\ decision = "answer" /\ request.consent
<1>1. "calculator" \notin evidence /\ "web_search" \notin evidence /\ "clock" \notin evidence
    BY DEF TInv, Judged, Judging, Admitted, LockedTools
<1>2. found \intersect Tools \subseteq evidence
    BY DEF TInv, Journal, TurnTyped, Judging
<1> QED
    BY <1>1, <1>2 DEF Admitted, Snippets, Tools, LocalTools

LEMMA WriteSteps ==
    ASSUME TInv, (\E learns \in BOOLEAN : Reflect(learns)) \/ Evolve
    PROVE  TInv'
<1>1. /\ pc \in {"reflect", "evolve"} /\ pc' \in {"evolve", "save"}
      /\ ~Admitted => wrote' = wrote
      /\ wrote' \subseteq wrote \union {"memory", "preferences", "evolution"}
      /\ UNCHANGED <<request, attempt, records, found, audited, evidence, action, decision,
                     reply, origin, gate, shown, outcome, sessionVars>>
    BY DEF Reflect, Evolve
<1> USE <1>1
<1>2. TurnTyped'
    BY DEF TInv, TurnTyped, Places
<1>3. Undecided' /\ Journal' /\ Judged'
    BY DEF TInv, Undecided, Deciding, Journal, Recording, Judged, Judging, Saved, Signals,
           SafetyBlocked, Caused
<1>4. NoToolTextRemembered'
    BY AdmittedMeans DEF TInv, NoToolTextRemembered, Judging
<1> QED
    BY <1>2, <1>3, <1>4 DEF TInv

LEMMA SaveSteps ==
    ASSUME TInv, Save \/ SaveFails
    PROVE  TInv'
<1>1. CASE SaveFails
    BY <1>1, AbortStep DEF SaveFails, Causes
<1>2. ASSUME Save
      PROVE  TInv'
    <2> USE <1>2 DEF Save, turnVars
    <2>1. TurnTyped'
        BY DEF TInv, TurnTyped, Places
    <2>2. Undecided' /\ Journal' /\ NoToolTextRemembered'
        BY DEF TInv, Undecided, Deciding, Journal, Recording, Judging, NoToolTextRemembered
    <2>3. Judged'
        BY DEF TInv, Judged, Judging, Saved, Signals, SafetyBlocked, Caused
    <2> QED
        BY <2>1, <2>2, <2>3 DEF TInv
<1> QED
    BY <1>1, <1>2

LEMMA NextHolds ==
    ASSUME TInv, [Next]_vars
    PROVE  TInv'
<1>1. CASE Think
    BY <1>1, RetrievalSteps, LocalToolsStep, RecordSteps, ChallengeStep DEF Think
<1>2. CASE Respond
    BY <1>2, RespondSteps
<1>3. CASE Conclude
    BY <1>3, EvaluateStep, WriteSteps, SaveSteps DEF Conclude
<1>4. CASE \E r \in Requests : Arrive(r)
    BY <1>4, ArriveStep
<1>5. CASE UNCHANGED vars
    BY <1>5 DEF vars, TInv, TurnTyped, Undecided, Journal, Judged, SafetyBlocked, Caused, Saved,
                Signals, NoToolTextRemembered
<1> QED
    BY <1>1, <1>2, <1>3, <1>4, <1>5 DEF Next, Step

\* Every reachable state is typed and at every stage of a turn the journal,
\* the decision and the judgement stand as the engine's later steps need them.
THEOREM TurnHolds == Spec => []TInv
BY InitHolds, NextHolds, PTL DEF Spec

-----------------------------------------------------------------------------
(* The properties that the runs check.                                     *)

\* No tool's text becomes a memory, a preference or an evolution request.
THEOREM ToolTextIsNotRemembered == Spec => []NoToolTextRemembered
BY TurnHolds, PTL DEF TInv

\* The model is not called, and nothing is answered in its stead, before the
\* audit chain holds what the turn has done so far.
THEOREM AuditPrecedesInference == Spec => []AuditedBeforeInference
<1>1. TInv => AuditedBeforeInference
    BY DEF TInv, Journal, AuditedBeforeInference
<1> QED
    BY <1>1, TurnHolds, PTL

\* A turn fails closed for its signals or for a sentence, never for an outage.
THEOREM FailClosedIsCaused == Spec => []FailClosedHasCause
<1>1. TInv => FailClosedHasCause
    BY DEF TInv, Judged, Caused, Signals, SafetyIn, UncoveredUnits, FailClosedHasCause
<1> QED
    BY <1>1, TurnHolds, PTL

\* Safety-critical text that a gate saw is not part of a committed answer.
THEOREM SafetyTextBlocks == Spec => []CheckedSafetyTextBlocks
<1>1. TInv => CheckedSafetyTextBlocks
    <2> SUFFICES ASSUME TInv, Gated PROVE CheckedSafetyTextBlocks
        BY DEF CheckedSafetyTextBlocks
    <2>1. SafetyBlocked
        BY DEF TInv, Judged, Gated
    <2>2. \A u \in TaggedUnits :
            ClassOf(u) = "safety_critical" => decision = "fail_closed" /\ shown = Replaced
        BY <2>1 DEF SafetyBlocked, SafetyIn, TaggedUnits, Gated
    <2>3. \A u \in UncoveredUnits :
            ClassOf(u) = "safety_critical" => decision = "fail_closed" /\ gate.response = "refused"
        BY <2>1 DEF SafetyBlocked, SafetyIn, UncoveredUnits, Gated
    <2>4. gate.response = "refused" => ~Committed(gate)
        BY DEF Committed, CommitStatus
    <2> QED
        BY <2>2, <2>3, <2>4 DEF CheckedSafetyTextBlocks
<1> QED
    BY <1>1, TurnHolds, PTL

-----------------------------------------------------------------------------
(* The turn implements TurnPromise, step by step.                          *)

LEMMA ConsentTyped ==
    ASSUME NEW r \in Requests
    PROVE  r.consent \in BOOLEAN
BY RequestsAssumption DEF RequestType

\* Steps inside a turn that decide nothing and write nothing.
LEMMA QuietSteps ==
    ASSUME pc # "idle", pc' # "idle", UNCHANGED <<request, decision, wrote>>
    PROVE  UNCHANGED Promise!vars
BY DEF Promise!vars

LEMMA ClosingSteps ==
    ASSUME pc # "idle", pc' = "idle", UNCHANGED <<request, decision, wrote>>
    PROVE  Promise!Close
BY DEF Promise!Close

\* Steps before the reply is judged, where nothing has been written.
LEMMA DecidingSteps ==
    ASSUME TInv, pc \in Deciding \union {"evaluate"}, pc' # "idle",
           UNCHANGED <<request, wrote>>,
           decision' \in {"answer", "degraded", "abstain", "fail_closed"},
           Promise!Tightens(decision, decision')
    PROVE  Promise!Decide
<1>1. wrote = {} /\ pc # "idle"
    BY DEF TInv, Undecided, Deciding
<1> QED
    BY <1>1 DEF Promise!Decide, Promise!Decisions

LEMMA ThinkKeepsPromise ==
    ASSUME TInv, Think
    PROVE  [Promise!Next]_(Promise!vars)
<1>1. CASE Challenge
    <2>1. request.uncertain \in BOOLEAN /\ Stressed(request) \in BOOLEAN
        BY RequestsAssumption DEF TInv, TurnTyped, RequestType, Stressed
    <2>2. action' \in {"fail_closed", "require_evidence", "clarify", "continue"}
        BY <1>1, <2>1, ChallengeCases DEF Challenge
    <2>3. decision' \in {decision, "fail_closed"}
        BY <1>1, <2>2, MapDecisionCases DEF Challenge, TInv, TurnTyped, Actions
    <2> QED
        BY <1>1, <2>3, DecidingSteps
           DEF Challenge, Deciding, TInv, TurnTyped, Promise!Tightens, Promise!Next
<1>2. CASE RecallRaises \/ ((QuotaFails \/ SearchRaises) /\ pc # "auto_search")
    BY <1>2, ClosingSteps
       DEF RecallRaises, QuotaFails, SearchRaises, Retrieving, Searching, Abort, turnVars, Promise!Next
<1>3. CASE \/ QuotaGranted \/ QuotaRefused \/ ((QuotaFails \/ SearchRaises) /\ pc = "auto_search")
           \/ TryAgain \/ GivesUp \/ \E hits \in BOOLEAN : Answers(hits)
    <2>1. /\ pc # "idle" /\ pc' # "idle"
          /\ UNCHANGED <<request, decision, wrote>>
        BY <1>3 DEF QuotaGranted, QuotaRefused, QuotaFails, SearchRaises, TryAgain, GivesUp, Answers,
                    Retrieved, AfterRetrieval, Retrieving, Searching, turnVars
    <2> QED
        BY <2>1, QuietSteps
<1>4. CASE \/ \E successes \in SUBSET LocalTools : UseLocalTools(successes)
           \/ (\E t \in Tools : RecordTool(t)) \/ ToolsRecorded \/ RecordRecall
    <2>1. /\ pc # "idle" /\ pc' # "idle"
          /\ UNCHANGED <<request, decision, wrote>>
        BY <1>4 DEF UseLocalTools, RecordTool, ToolsRecorded, RecordRecall, turnVars
    <2> QED
        BY <2>1, QuietSteps
<1> QED
    BY <1>1, <1>2, <1>3, <1>4 DEF Think

LEMMA RespondKeepsPromise ==
    ASSUME TInv, Respond
    PROVE  [Promise!Next]_(Promise!vars)
<1>1. CASE RecordPrevious
    BY <1>1, QuietSteps DEF RecordPrevious
<1>2. CASE AuditFails
    BY <1>2, ClosingSteps DEF AuditFails, Abort, turnVars, Promise!Next
<1>3. ASSUME NEW text, NEW from, NEW new, pc = "ask", Replies(text, from, new),
             new = decision \/ (from = "safe_mode" /\ decision # "fail_closed" /\ new = "degraded")
      PROVE  Promise!Next
    BY <1>3, DecidingSteps DEF Replies, Deciding, TInv, TurnTyped, Promise!Tightens, Promise!Next
<1>4. CASE \E text \in ModelReplies : ModelAnswers(text)
    BY <1>3, <1>4 DEF ModelAnswers
<1>5. CASE \E text \in FixedReplies : SafeMode(text) \/ RepliesItself(text)
    BY <1>3, <1>5 DEF SafeMode, RepliesItself
<1> QED
    BY <1>1, <1>2, <1>4, <1>5 DEF Respond

LEMMA ConcludeKeepsPromise ==
    ASSUME TInv, Conclude
    PROVE  [Promise!Next]_(Promise!vars)
<1>1. ASSUME NEW cited \in SUBSET MayCite, Evaluate(cited)
      PROVE  Promise!Next
    <2>1. reply \in Seq(Units) /\ evidence' \in SUBSET Sources /\ action \in Actions
          /\ action # "abstain"
        BY <1>1, RepliesAreSequences, SourcesOfTurn DEF Evaluate, TInv, TurnTyped, Undecided
    <2>2. gate' = Evaluated(reply, evidence', action)
        BY <1>1 DEF Evaluate
    <2>3. OutcomeOf(gate', reply, evidence', action)
        BY <2>1, <2>2, EvaluatedCause
    <2>4. CASE origin = "safe_mode"
        BY <1>1, <2>4, DecidingSteps
           DEF Evaluate, TInv, TurnTyped, Promise!Tightens, Promise!Next
    <2>5. CASE origin # "safe_mode"
        <3>1. decision \in {"answer", "fail_closed"}
            BY <1>1, <2>5 DEF Evaluate, TInv, Undecided
        <3>2. decision' \in {decision, "fail_closed"}
            BY <1>1, <2>3, <2>5, <3>1, DecisionAfterCases DEF Evaluate, OutcomeOf
        <3> QED
            BY <1>1, <3>1, <3>2, DecidingSteps DEF Evaluate, Promise!Tightens, Promise!Next
    <2> QED
        BY <2>4, <2>5
<1>2. CASE (\E learns \in BOOLEAN : Reflect(learns)) \/ Evolve
    <2>1. /\ pc \in {"reflect", "evolve"} /\ pc' \in {"evolve", "save"}
          /\ UNCHANGED <<request, decision>>
        BY <1>2 DEF Reflect, Evolve
    <2>2. CASE ~Admitted
        BY <1>2, <2>1, <2>2, QuietSteps DEF Reflect, Evolve
    <2>3. CASE Admitted
        <3>1. decision = "answer" /\ request.consent
            BY <2>3 DEF Admitted
        <3>2. wrote \subseteq wrote' /\ wrote' \subseteq wrote \union {"memory", "preferences", "evolution"}
            BY <1>2 DEF Reflect, Evolve
        <3>3. wrote \subseteq {"memory", "preferences", "evolution"}
            BY DEF TInv, TurnTyped
        <3> QED
            BY <2>1, <3>1, <3>2, <3>3 DEF Promise!Write, Promise!Next
    <2> QED
        BY <2>2, <2>3
<1>3. CASE Save \/ SaveFails
    BY <1>3, ClosingSteps DEF Save, SaveFails, Abort, turnVars, Promise!Next
<1> QED
    BY <1>1, <1>2, <1>3 DEF Conclude

LEMMA TurnPromiseStep ==
    ASSUME TInv, [Next]_vars
    PROVE  [Promise!Next]_(Promise!vars)
<1>1. ASSUME NEW r \in Requests, Arrive(r)
      PROVE  Promise!Open
    <2>1. pc = "idle" /\ pc' # "idle"
        BY <1>1 DEF Arrive, AfterArrival
    <2>2. request'.consent \in BOOLEAN
        BY <1>1, ConsentTyped DEF Arrive
    <2> QED
        BY <1>1, <2>1, <2>2 DEF Arrive, Promise!Open
<1>2. CASE UNCHANGED vars
    BY <1>2 DEF vars, Promise!vars
<1> QED
    BY <1>1, <1>2, ThinkKeepsPromise, RespondKeepsPromise, ConcludeKeepsPromise
       DEF Next, Step, Promise!Next

\* A turn keeps the promise of TurnPromise: its decision only tightens, and
\* derived state is written for a consented turn whose decision stays answer.
THEOREM TurnKeepsPromise == Spec => KeepsTurnPromise
<1>1. Init => Promise!Init
    BY ConsentTyped DEF Init, Promise!Init
<1>2. TInv /\ [Next]_vars => [Promise!Next]_(Promise!vars)
    BY TurnPromiseStep
<1> QED
    BY <1>1, <1>2, TurnHolds, PTL DEF Spec, KeepsTurnPromise, Promise!Spec
=============================================================================
