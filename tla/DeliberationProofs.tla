------------------------- MODULE DeliberationProofs -------------------------
(***************************************************************************)
(* Theorems about the operators of Deliberation, for every reply, every    *)
(* evidence and every limit.                                               *)
(***************************************************************************)
EXTENDS Deliberation, SequenceTheorems, TLAPS

-----------------------------------------------------------------------------
(* What the operators return.                                              *)

LEMMA RankValues ==
    /\ Rank["continue"] = 0 /\ Rank["downgrade"] = 1 /\ Rank["require_evidence"] = 2
    /\ Rank["qualify"] = 3 /\ Rank["revise"] = 4 /\ Rank["clarify"] = 5
    /\ Rank["abstain"] = 6 /\ Rank["block"] = 7 /\ Rank["fail_closed"] = 8
BY DEF Rank

\* Any set of actions has a strongest one.
LEMMA StrongestExists ==
    ASSUME NEW S \in SUBSET Actions, S # {}
    PROVE  \E a \in S : \A b \in S : Rank[b] <= Rank[a]
<1> USE RankValues DEF Actions
<1>1. CASE "fail_closed" \in S
    <2>1. \A b \in S : Rank[b] <= Rank["fail_closed"]  OBVIOUS
    <2> QED BY <1>1, <2>1
<1>2. CASE "fail_closed" \notin S /\ "block" \in S
    <2>1. \A b \in S : Rank[b] <= Rank["block"]  BY <1>2
    <2> QED BY <1>2, <2>1
<1>3. CASE S \intersect {"fail_closed", "block"} = {} /\ "abstain" \in S
    <2>1. \A b \in S : Rank[b] <= Rank["abstain"]  BY <1>3
    <2> QED BY <1>3, <2>1
<1>4. CASE S \intersect {"fail_closed", "block", "abstain"} = {} /\ "clarify" \in S
    <2>1. \A b \in S : Rank[b] <= Rank["clarify"]  BY <1>4
    <2> QED BY <1>4, <2>1
<1>5. CASE S \intersect {"fail_closed", "block", "abstain", "clarify"} = {} /\ "revise" \in S
    <2>1. \A b \in S : Rank[b] <= Rank["revise"]  BY <1>5
    <2> QED BY <1>5, <2>1
<1>6. CASE S \subseteq {"continue", "downgrade", "require_evidence", "qualify"} /\ "qualify" \in S
    <2>1. \A b \in S : Rank[b] <= Rank["qualify"]  BY <1>6
    <2> QED BY <1>6, <2>1
<1>7. CASE S \subseteq {"continue", "downgrade", "require_evidence"} /\ "require_evidence" \in S
    <2>1. \A b \in S : Rank[b] <= Rank["require_evidence"]  BY <1>7
    <2> QED BY <1>7, <2>1
<1>8. CASE S \subseteq {"continue", "downgrade"} /\ "downgrade" \in S
    <2>1. \A b \in S : Rank[b] <= Rank["downgrade"]  BY <1>8
    <2> QED BY <1>8, <2>1
<1>9. CASE S = {"continue"}
    BY <1>9
<1> QED
    BY <1>1, <1>2, <1>3, <1>4, <1>5, <1>6, <1>7, <1>8, <1>9

\* What a claim may ask for.
ClaimActions == {"continue", "downgrade", "qualify", "revise", "block"}

LEMMA ClaimTyped ==
    ASSUME NEW u \in Units, NEW evidence \in SUBSET Sources
    PROVE  /\ ClaimOf(u, evidence) \in Claims
           /\ ClaimOf(u, evidence).action \in ClaimActions
<1>1. ClassOf(u) \in Classes
    BY DEF ClassOf, Classes
<1>2. SupportFor(u, evidence) \in Supports
    BY DEF SupportFor, Supports
<1>3. \A c \in Classes, s \in Supports : ActionForClass(c, s) \in ClaimActions
    BY DEF ActionForClass, ClaimActions, Classes, Supports
<1>4. Linked(u, evidence) \in SUBSET Sources /\ u.assertive \in BOOLEAN
    BY DEF Linked, Units
<1>5. ActionForClass(ClassOf(u), SupportFor(u, evidence)) \in ClaimActions
    BY <1>1, <1>2, <1>3
<1> QED
    BY <1>1, <1>2, <1>4, <1>5 DEF ClaimOf, Claims, ClaimActions, Actions

LEMMA ReplyClaimsTyped ==
    ASSUME NEW reply \in Seq(Units), NEW evidence \in SUBSET Sources
    PROVE  \A c \in ReplyClaims(reply, evidence) : c \in Claims /\ c.action \in ClaimActions
<1>1. \A i \in Tagged(reply, evidence) : reply[i] \in Units
    BY DEF Tagged
<1> QED
    BY <1>1, ClaimTyped DEF ReplyClaims

-----------------------------------------------------------------------------
(* Nothing verifies a safety-critical sentence.                            *)

LEMMA SafetyClaimBlocks ==
    ASSUME NEW u \in Units, NEW evidence \in SUBSET Sources, ClassOf(u) = "safety_critical"
    PROVE  /\ ClaimOf(u, evidence).action = "block"
           /\ Substantive(ClaimOf(u, evidence))
<1>1. Justifying(u, evidence) = {}
    BY DEF Justifying, Justifies, Linked, UtteranceMayJustify
<1>2. SupportFor(u, evidence) = "missing"
    BY <1>1 DEF SupportFor
<1>3. ActionForClass("safety_critical", "missing") = "block"
    BY DEF ActionForClass
<1> QED
    BY <1>2, <1>3 DEF ClaimOf, Substantive

\* External text is evidence, never authority (tools/claim_envelope.py): the
\* envelope of a sentence is admitted only if something other than a tool, and
\* other than the request's context, justifies it.
THEOREM OwnEvidenceAdmits ==
    ASSUME NEW u \in Units, NEW evidence \in SUBSET Sources,
           ArisOf(ClaimOf(u, evidence)) = "admitted"
    PROVE  Justifying(u, evidence) \intersect OwnSources # {}
<1>1. ClaimOf(u, evidence).support = "present"
    BY DEF ArisOf, TrustOf
<1>2. SupportFor(u, evidence) = "present"
    BY <1>1 DEF ClaimOf
<1>3. ~(Justifying(u, evidence) \subseteq ToolSources)
    BY <1>2 DEF SupportFor
<1>4. Justifying(u, evidence) \subseteq (OwnSources \union ToolSources)
    BY DEF Justifying, Linked, Sources
<1> QED
    BY <1>3, <1>4

-----------------------------------------------------------------------------
(* The gates.                                                              *)

\* A set of claims as a reply has them.
ClaimSet(claims) == \A c \in claims : c \in Claims /\ c.action \in ClaimActions

LEMMA StrongestCases ==
    ASSUME NEW claims, ClaimSet(claims), NEW prior \in Actions
    PROVE  \/ StrongestAction(claims, prior) = prior
           \/ \E c \in claims : Substantive(c) /\ StrongestAction(claims, prior) = c.action
<1> DEFINE S == {prior} \union
                (IF prior = "abstain" THEN {} ELSE {c.action : c \in {d \in claims : Substantive(d)}})
<1>1. S \in SUBSET Actions /\ S # {}
    BY DEF ClaimSet, ClaimActions, Actions
<1>2. \E a \in S : \A b \in S : Rank[b] <= Rank[a]
    BY <1>1, StrongestExists
<1>3. StrongestAction(claims, prior) \in S
    BY <1>2 DEF StrongestAction
<1> QED
    BY <1>3

\* Where the outcome of the gates comes from: an abstention only from the
\* challenge, a refusal only from a challenge that failed closed or blocked,
\* from a claim that blocks, or from safety-critical text no claim covers.
GateCause(gate, claims, prior) ==
    /\ prior # "abstain" => gate.action # "abstain" /\ gate.response # "abstained"
    /\ gate.action \in {"block", "fail_closed"} \/ gate.response = "refused" =>
         prior \in {"block", "fail_closed"} \/ \E c \in claims : c.action = "block"

LEMMA ClaimGateCause ==
    ASSUME NEW claims, ClaimSet(claims), NEW prior \in Actions
    PROVE  /\ ClaimGate(claims, prior) \in Gates
           /\ GateCause(ClaimGate(claims, prior), claims, prior)
<1> DEFINE action == ResolvedAction(claims, prior)
<1>1. \/ action = prior \/ action = "downgrade"
      \/ \E c \in claims : Substantive(c) /\ action = c.action
    BY StrongestCases DEF ResolvedAction
<1>2. action \in Actions
    BY <1>1 DEF ClaimSet, ClaimActions, Actions
<1>3. prior # "abstain" => action # "abstain"
    BY <1>1 DEF ClaimSet, ClaimActions
<1>4. action \in {"block", "fail_closed"} =>
        prior \in {"block", "fail_closed"} \/ \E c \in claims : c.action = "block"
    BY <1>1 DEF ClaimSet, ClaimActions
<1>5. BlockingClaim(claims, prior) => \E c \in claims : c.action = "block"
    BY DEF BlockingClaim
<1> DEFINE gate == ClaimGate(claims, prior)
           Result(a, r, m) == gate = [action |-> a, response |-> r, memory |-> m]
<1>6. CASE BlockingClaim(claims, prior)
    <2>1. Result("block", "refused", "blocked")
        BY <1>6 DEF ClaimGate, GateOf
    <2> QED BY <2>1, <1>5, <1>6 DEF Gates, GateCause, Actions, Responses, Admissions
<1>7. CASE ~BlockingClaim(claims, prior) /\ action = "fail_closed"
    <2>1. Result(action, "refused", "blocked")
        BY <1>7 DEF ClaimGate, GateOf
    <2> QED BY <2>1, <1>2, <1>4, <1>7 DEF Gates, GateCause, Responses, Admissions
<1>8. CASE ~BlockingClaim(claims, prior) /\ action = "abstain"
    <2>1. Result(action, "abstained", "held")
        BY <1>8 DEF ClaimGate, GateOf
    <2> QED BY <2>1, <1>2, <1>3, <1>8 DEF Gates, GateCause, Responses, Admissions
<1>9. CASE ~BlockingClaim(claims, prior) /\ action \notin {"fail_closed", "abstain"}
    <2>1. \E r \in {"committed", "revised", "qualified"}, m \in {"held", "eligible"} : Result(action, r, m)
        BY <1>9 DEF ClaimGate, GateOf
    <2> QED BY <2>1, <1>2, <1>4, <1>9 DEF Gates, GateCause, Responses, Admissions
<1> QED
    BY <1>6, <1>7, <1>8, <1>9

\* The prior action of the challenge or what the gate found: no gate weakens
\* what an earlier one refused.
LEMMA CoverageGateCause ==
    ASSUME NEW reply \in Seq(Units), NEW evidence \in SUBSET Sources,
           NEW gate \in Gates, NEW prior \in Actions,
           GateCause(gate, ReplyClaims(reply, evidence), prior)
    PROVE  LET after == CoverageGate(gate, reply, evidence)
           IN  /\ after \in Gates
               /\ prior # "abstain" => after.action # "abstain" /\ after.response # "abstained"
               /\ gate.response = "refused" => after = gate
               /\ after.action \in {"block", "fail_closed"} \/ after.response = "refused" =>
                    \/ prior \in {"block", "fail_closed"}
                    \/ \E c \in ReplyClaims(reply, evidence) : c.action = "block"
                    \/ \E i \in Uncovered(reply, evidence) : ClassOf(reply[i]) = "safety_critical"
<1> DEFINE after == CoverageGate(gate, reply, evidence)
           safety == \E i \in Uncovered(reply, evidence) : ClassOf(reply[i]) = "safety_critical"
<1>1. CASE after = gate
    <2>1. gate.response = "refused" => after = gate
        BY <1>1
    <2> QED
        BY <1>1 DEF GateCause
<1>2. CASE safety /\ after = GateOf("block", "refused", "blocked") /\ gate.response # "refused"
    BY <1>2 DEF GateOf, Gates, Actions, Responses, Admissions
<1>3. CASE /\ after = GateOf(Stronger(gate.action, "qualify"), "qualified", gate.memory)
           /\ gate.response = "committed"
    <2>1. gate.action \in Actions /\ gate.memory \in Admissions
        BY DEF Gates
    <2>2. Stronger(gate.action, "qualify") \in {gate.action, "qualify"}
        BY DEF Stronger
    <2> QED
        BY <1>3, <2>1, <2>2 DEF GateOf, Gates, Actions, Responses, Admissions, GateCause
<1> QED
    BY <1>1, <1>2, <1>3 DEF CoverageGate

LEMMA WriteLockKeeps ==
    ASSUME NEW claims, NEW reply, NEW evidence, NEW gate \in Gates
    PROVE  LET after == WriteLock(gate, claims, reply, evidence)
           IN  /\ after \in Gates
               /\ after.action = gate.action /\ after.response = gate.response
               /\ after.memory = "eligible" => evidence \intersect LockedTools = {}
<1> DEFINE after == WriteLock(gate, claims, reply, evidence)
<1>1. CASE gate.memory = "eligible" /\ WriteLocked(claims, reply, evidence)
    <2>1. after = [gate EXCEPT !.memory = "blocked"]
        BY <1>1 DEF WriteLock
    <2> QED
        BY <2>1 DEF Gates, Admissions
<1>2. CASE ~(gate.memory = "eligible" /\ WriteLocked(claims, reply, evidence))
    <2>1. after = gate
        BY <1>2 DEF WriteLock
    <2> QED
        BY <2>1, <1>2 DEF WriteLocked
<1> QED
    BY <1>1, <1>2

SafetyIn(reply, part) == \E i \in part : ClassOf(reply[i]) = "safety_critical"

\* What Evaluate leaves and why: an unlocked memory without tool evidence; for
\* safety-critical text a refusal, and a block if a claim was made of it; and a
\* block or a refusal for no other reason than these, a claim that blocks, or a
\* challenge that had failed closed before.
OutcomeOf(gate, reply, evidence, prior) ==
    /\ gate \in Gates
    /\ gate.action # "abstain" /\ gate.response # "abstained"
    /\ gate.memory = "eligible" => evidence \intersect LockedTools = {}
    /\ SafetyIn(reply, Tagged(reply, evidence)) =>
         gate.action = "block" /\ gate.response = "refused"
    /\ SafetyIn(reply, Uncovered(reply, evidence)) => gate.response = "refused"
    /\ gate.action \in {"block", "fail_closed"} \/ gate.response = "refused" =>
         \/ prior \in {"block", "fail_closed"}
         \/ \E c \in ReplyClaims(reply, evidence) : c.action = "block"
         \/ SafetyIn(reply, Uncovered(reply, evidence))

LEMMA EvaluatedCause ==
    ASSUME NEW reply \in Seq(Units), NEW evidence \in SUBSET Sources,
           NEW prior \in Actions, prior # "abstain"
    PROVE  OutcomeOf(Evaluated(reply, evidence, prior), reply, evidence, prior)
<1> DEFINE claims == ReplyClaims(reply, evidence)
           first  == ClaimGate(claims, prior)
           second == CoverageGate(first, reply, evidence)
           third  == Evaluated(reply, evidence, prior)
<1>1. ClaimSet(claims)
    BY ReplyClaimsTyped DEF ClaimSet
<1>2. first \in Gates /\ GateCause(first, claims, prior)
    BY <1>1, ClaimGateCause
<1>3. /\ second \in Gates
      /\ second.action # "abstain" /\ second.response # "abstained"
      /\ first.response = "refused" => second = first
      /\ second.action \in {"block", "fail_closed"} \/ second.response = "refused" =>
           \/ prior \in {"block", "fail_closed"}
           \/ \E c \in claims : c.action = "block"
           \/ SafetyIn(reply, Uncovered(reply, evidence))
    BY <1>2, CoverageGateCause DEF SafetyIn
<1>4. third = WriteLock(second, claims, reply, evidence)
    BY DEF Evaluated
<1>5. /\ third \in Gates
      /\ third.action = second.action /\ third.response = second.response
      /\ third.memory = "eligible" => evidence \intersect LockedTools = {}
    BY <1>3, <1>4, WriteLockKeeps
<1>6. ASSUME SafetyIn(reply, Tagged(reply, evidence))
      PROVE  first.action = "block" /\ first.response = "refused"
    <2>1. PICK i \in Tagged(reply, evidence) : ClassOf(reply[i]) = "safety_critical"
        BY <1>6 DEF SafetyIn
    <2>2. reply[i] \in Units
        BY DEF Tagged
    <2>3. ClaimOf(reply[i], evidence) \in claims
        BY DEF ReplyClaims
    <2>4. BlockingClaim(claims, prior)
        BY <2>1, <2>2, <2>3, SafetyClaimBlocks DEF BlockingClaim
    <2> QED
        BY <2>4 DEF ClaimGate, GateOf
<1>7. ASSUME SafetyIn(reply, Uncovered(reply, evidence))
      PROVE  second.response = "refused"
    <2>1. ~Covered(reply, evidence)
        <3>1. PICK i \in Uncovered(reply, evidence) : TRUE
            BY <1>7 DEF SafetyIn
        <3>2. i \in DOMAIN reply /\ i \notin Tagged(reply, evidence)
            BY LimitsAssumption DEF Uncovered, Tagged, FixedClaims
        <3> QED
            BY <3>2 DEF Covered
    <2>2. first.response # "abstained"
        BY <1>2 DEF GateCause
    <2> QED
        BY <1>7, <2>1, <2>2 DEF CoverageGate, SafetyIn, GateOf
<1> QED
    BY <1>3, <1>5, <1>6, <1>7 DEF OutcomeOf

-----------------------------------------------------------------------------
(* What marks an unsupported claim.                                        *)

\* After a challenge that lets the turn go on, the demand of a claim for a note
\* or a revision is met by the claim gate unless a claim blocks.
LEMMA DemandIsMet ==
    ASSUME NEW claims, ClaimSet(claims), NEW prior \in {"continue", "require_evidence"},
           NEW c \in claims, Substantive(c), c.action \in {"qualify", "revise"},
           ~BlockingClaim(claims, prior)
    PROVE  \E a \in {"qualify", "revise"}, r \in {"committed", "qualified", "revised"}, m \in Admissions :
              /\ ClaimGate(claims, prior) = GateOf(a, r, m)
              /\ c.action = "revise" => a = "revise"
<1> DEFINE S == {prior} \union {d.action : d \in {e \in claims : Substantive(e)}}
<1>1. S \in SUBSET Actions /\ S # {}
    BY DEF ClaimSet, ClaimActions, Actions
<1>2. PICK a \in S : \A b \in S : Rank[b] <= Rank[a]
    BY <1>1, StrongestExists
<1>3. c.action \in S /\ S \subseteq {"continue", "downgrade", "require_evidence", "qualify", "revise"}
    BY DEF Substantive, ClaimSet, ClaimActions, BlockingClaim
<1>4. ASSUME NEW b \in S, \A d \in S : Rank[d] <= Rank[b]
      PROVE  b \in {"qualify", "revise"} /\ (c.action = "revise" => b = "revise")
    <2>1. Rank[c.action] <= Rank[b]
        BY <1>3, <1>4
    <2> QED
        BY <1>3, <2>1, RankValues
<1>5. StrongestAction(claims, prior) = CHOOSE b \in S : \A d \in S : Rank[d] <= Rank[b]
    BY DEF StrongestAction
<1> DEFINE strongest == StrongestAction(claims, prior)
<1>6. strongest \in {"qualify", "revise"} /\ (c.action = "revise" => strongest = "revise")
    BY <1>2, <1>4, <1>5
<1>7. ResolvedAction(claims, prior) = strongest
    BY <1>6, RankValues DEF ResolvedAction
<1> HIDE DEF strongest
<1>8. \E r \in {"committed", "qualified", "revised"}, m \in Admissions :
         ClaimGate(claims, prior) = GateOf(strongest, r, m)
    BY <1>6, <1>7 DEF ClaimGate, Admissions
<1> QED
    BY <1>6, <1>8

\* A fact without any support, or a causal claim without full support, blocks the
\* reply or has it noted; the causal claim is marked where it can be found.
LEMMA GapIsMarked ==
    ASSUME NEW reply \in Seq(Units), NEW evidence \in SUBSET Sources,
           NEW prior \in {"continue", "require_evidence"},
           NEW i \in Tagged(reply, evidence), NEW c, c = ClaimOf(reply[i], evidence),
           \/ c.class = "factual" /\ c.support = "missing"
           \/ c.class = "causal" /\ Unsupported(c),
           NEW gate, gate = Evaluated(reply, evidence, prior), gate.action # "block"
    PROVE  LET text == Treatment(gate.action, reply, evidence)
           IN  /\ "noted" \in text.marks
               /\ c.class = "causal" /\ reply[i].literal => i \in text.hedged
<1> DEFINE claims == ReplyClaims(reply, evidence)
           first  == ClaimGate(claims, prior)
           second == CoverageGate(first, reply, evidence)
           text   == Treatment(gate.action, reply, evidence)
<1>1. ClaimSet(claims) /\ c \in claims
    BY ReplyClaimsTyped DEF ClaimSet, ReplyClaims
<1>2. first \in Gates /\ GateCause(first, claims, prior)
    BY <1>1, ClaimGateCause DEF Actions
<1>3. second \in Gates
    BY <1>2, CoverageGateCause DEF Actions
<1>4. gate.action = second.action
    BY <1>3, WriteLockKeeps DEF Evaluated
<1>5. /\ Substantive(c) /\ Unsupported(c)
      /\ c.action \in {"qualify", "revise", "block"}
      /\ c.class = "causal" => c.action \in {"revise", "block"}
    <2>1. c.action = ActionForClass(c.class, c.support)
        BY DEF ClaimOf
    <2>2. c.support \in {"present", "weak", "missing"}
        BY <1>1 DEF ClaimSet, Claims, Supports
    <2> QED
        BY <2>1, <2>2 DEF ActionForClass, Substantive, Unsupported
<1>6. CASE BlockingClaim(claims, prior)
    <2>1. first = GateOf("block", "refused", "blocked")
        BY <1>6 DEF ClaimGate
    <2>2. second.action = "block"
        BY <2>1 DEF CoverageGate, GateOf
    <2> QED
        BY <1>4, <2>2
<1>7. CASE ~BlockingClaim(claims, prior)
    <2>1. c.action \in {"qualify", "revise"}
        BY <1>1, <1>5, <1>7 DEF BlockingClaim
    <2>2. PICK a \in {"qualify", "revise"}, r \in {"committed", "qualified", "revised"}, m \in Admissions :
             first = GateOf(a, r, m) /\ (c.action = "revise" => a = "revise")
        BY <1>1, <1>5, <1>7, <2>1, DemandIsMet
    <2>3. Stronger(a, "qualify") = a
        BY RankValues DEF Stronger
    <2>4. second.action \in {a, "block"}
        BY <2>2, <2>3 DEF CoverageGate, GateOf
    <2>5. gate.action = a
        BY <1>4, <2>4
    <2>6. Lacking({"factual", "causal"}, reply, evidence)
        BY <1>1, <1>5 DEF Lacking
    <2>7. "noted" \in text.marks
        BY <2>5, <2>6 DEF Treatment
    <2>8. ASSUME c.class = "causal", reply[i].literal PROVE i \in text.hedged
        <3>1. a = "revise" /\ c.action = "revise"
            BY <1>5, <2>1, <2>2, <2>8
        <3>2. i \in Hedged(reply, evidence)
            BY <1>5, <2>8, <3>1 DEF Hedged
        <3> QED
            BY <2>5, <3>1, <3>2 DEF Treatment
    <2> QED
        BY <2>7, <2>8
<1> QED
    BY <1>6, <1>7

\* What a treatment leaves is a text.
LEMMA TreatmentTyped ==
    ASSUME NEW action, NEW reply \in Seq(Units), NEW evidence
    PROVE  Treatment(action, reply, evidence) \in Texts
<1>1. Hedged(reply, evidence) \subseteq Nat
    BY LenProperties DEF Hedged, Tagged
<1> QED
    BY <1>1 DEF Treatment, Texts, Marks, Replaced

-----------------------------------------------------------------------------
(* The decision of the turn.                                               *)

LEMMA MapDecisionCases ==
    ASSUME NEW action \in Actions, action # "abstain",
           NEW decision \in {"answer", "degraded", "abstain", "fail_closed"}
    PROVE  /\ MapDecision(action, decision) \in {decision, "fail_closed"}
           /\ action \in {"block", "fail_closed"} => MapDecision(action, decision) = "fail_closed"
           /\ MapDecision(action, decision) = "fail_closed" =>
                decision = "fail_closed" \/ action \in {"block", "fail_closed"}
BY DEF MapDecision

LEMMA DecisionAfterCases ==
    ASSUME NEW gate \in Gates, gate.action # "abstain", gate.response # "abstained",
           NEW decision \in {"answer", "fail_closed"}
    PROVE  /\ DecisionAfter(gate, decision) \in {decision, "fail_closed"}
           /\ gate.action \in {"block", "fail_closed"} \/ gate.response = "refused" =>
                DecisionAfter(gate, decision) = "fail_closed"
           /\ DecisionAfter(gate, decision) = "fail_closed" =>
                \/ decision = "fail_closed" \/ gate.action \in {"block", "fail_closed"}
                \/ gate.response = "refused"
BY MapDecisionCases DEF DecisionAfter, Gates

LEMMA ChallengeCases ==
    ASSUME NEW asks, NEW stressed \in BOOLEAN, NEW uncertain \in BOOLEAN, NEW evidence
    PROVE  LET action == ChooseChallenge(asks, stressed, uncertain, evidence)
           IN  /\ action \in {"fail_closed", "require_evidence", "clarify", "continue"}
               /\ action = "fail_closed" => stressed \/ uncertain
BY DEF ChooseChallenge
=============================================================================
