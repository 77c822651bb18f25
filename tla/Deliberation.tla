---------------------------- MODULE Deliberation ----------------------------
(***************************************************************************)
(* The DOS-lite deliberation rules of src/jarvis/brain/deliberation.py:    *)
(* how the sentences of a reply are tagged, linked to evidence, classified *)
(* and turned into one action for the whole turn, and what the claim gate, *)
(* the coverage gate, the write-path lock and Commit make of it.           *)
(*                                                                         *)
(* The module has no state.  Text is abstracted to what the rules ask of   *)
(* it: a reply is a sequence of units (sentences, or 240 character windows *)
(* of one), a unit is a record                                             *)
(*   cues      the keyword families it contains (a subset of Cues)         *)
(*   cites     the evidence it shares enough content words with, at the    *)
(*             same polarity (the matcher's answer)                        *)
(*   topical   the evidence whose summary has a content word of the unit   *)
(*   restates  most of its content words are the current user request's    *)
(*   assertive it reads like an inferred summary (" is the ", ...)         *)
(*   loose     it holds what is taken out of an unverified answer: a       *)
(*             figure in millions, a year tag, an opener ("in fact")       *)
(*   literal   its text, with spaces normalised, occurs as such in the     *)
(*             reply and does not say already that it is hypothesized      *)
(* and the evidence of the turn is the set of the sources it came from.    *)
(***************************************************************************)
EXTENDS Naturals, Sequences, FiniteSets

CONSTANTS
    ClaimLimit,      \* _CLAIM_LIMIT: claims of one turn, the fixed ones included
    UncoveredLimit   \* untagged reply units that are kept for the coverage gate

ASSUME LimitsAssumption == ClaimLimit \in Nat /\ ClaimLimit >= 5 /\ UncoveredLimit \in Nat

Cues == {"safety", "causal", "fact", "conversational", "interpretive", "short"}

OwnSources  == {"utterance", "history", "memory", "ledger", "cited"}
ToolSources == {"web_search", "calculator", "clock", "nx_search", "context"}

\* "none" is the explicit gap marker, which supports nothing.
Sources == OwnSources \union ToolSources \union {"none"}

\* Sources of kind MEMORY: the session's memories, recalled governed memories
\* and the memory citations prepared for the prompt.
MemoryKind  == {"memory", "ledger", "cited"}

Units == [cues : SUBSET Cues, cites : SUBSET Sources, topical : SUBSET Sources,
          restates : BOOLEAN, assertive : BOOLEAN, loose : BOOLEAN, literal : BOOLEAN]

Classes == {"conversational", "interpretive", "factual", "causal", "safety_critical"}

Supports == {"present", "weak", "missing"}

Rank ==
    [continue |-> 0, downgrade |-> 1, require_evidence |-> 2, qualify |-> 3, revise |-> 4,
     clarify |-> 5, abstain |-> 6, block |-> 7, fail_closed |-> 8]

Actions == {"continue", "downgrade", "require_evidence", "qualify", "revise",
            "clarify", "abstain", "block", "fail_closed"}

Stronger(left, right) == IF Rank[right] > Rank[left] THEN right ELSE left

-----------------------------------------------------------------------------
(* Classes, links and support of one unit *)

\* The first family of keywords that matches decides; factual cues beat the length.
ClassOf(u) ==
    IF "safety" \in u.cues THEN "safety_critical"
    ELSE IF "causal" \in u.cues THEN "causal"
    ELSE IF "fact" \in u.cues THEN "factual"
    ELSE IF "conversational" \in u.cues THEN "conversational"
    ELSE IF "interpretive" \in u.cues THEN "interpretive"
    ELSE IF "short" \in u.cues THEN "conversational"
    ELSE "interpretive"

\* Whether the user's own request may even be cited for the unit.
UtteranceMayJustify(u) ==
    \/ ClassOf(u) \in {"conversational", "interpretive"}
    \/ ClassOf(u) = "factual" /\ u.restates

\* _match_evidence: what the unit ends up citing.
Linked(u, evidence) ==
    {s \in evidence \ {"none"} : s \in u.cites /\ (s = "utterance" => UtteranceMayJustify(u))}

\* Citing is not justifying: the request justifies no assertion about the
\* world, another source must be on topic, and none verifies a safety claim.
Justifies(u, s) ==
    IF s = "utterance"
      THEN ClassOf(u) \in {"conversational", "interpretive"}
      ELSE /\ ClassOf(u) # "safety_critical"
           /\ ClassOf(u) \in {"factual", "causal"} => s \in u.topical

Justifying(u, evidence) == {s \in Linked(u, evidence) : Justifies(u, s)}

SupportFor(u, evidence) ==
    IF Justifying(u, evidence) = {} THEN "missing"
    ELSE IF Justifying(u, evidence) \subseteq ToolSources THEN "weak"
    ELSE "present"

ActionForClass(class, support) ==
    CASE class = "conversational" -> "continue"
      [] class = "interpretive"   -> IF support = "present" THEN "continue" ELSE "downgrade"
      [] class = "factual" -> IF support = "present" THEN "continue"
                              ELSE IF support = "weak" THEN "downgrade" ELSE "qualify"
      [] class = "causal"  -> IF support = "present" THEN "continue"
                              ELSE IF support = "weak" THEN "revise" ELSE "block"
      [] OTHER             -> IF support = "present" THEN "continue" ELSE "block"

\* ClaimRecord of a unit, as tag_claims and annotate_claims leave it.
ClaimOf(u, evidence) ==
    [class     |-> ClassOf(u),
     support   |-> SupportFor(u, evidence),
     action    |-> ActionForClass(ClassOf(u), SupportFor(u, evidence)),
     links     |-> Linked(u, evidence),
     assertive |-> u.assertive]

Claims == [class : Classes, support : Supports, action : Actions,
           links : SUBSET Sources, assertive : BOOLEAN]

\* A claim that cites nothing is tagged HYPOTHESIZED, the others OBSERVED.
Hypothesized(c) == c.links = {}

Substantive(c) == c.class \notin {"conversational", "interpretive"}

Unsupported(c) == c.support # "present"

-----------------------------------------------------------------------------
(* Tagging a reply: the first units fill the claim list, the rest is       *)
(* uncovered, and only the first of those are kept.                        *)

\* Claims about the turn itself: utterance, request, emotion, intent and,
\* when there is memory evidence, its availability.
FixedClaims(evidence) == IF evidence \intersect MemoryKind = {} THEN 4 ELSE 5

Tagged(reply, evidence) == {i \in DOMAIN reply : FixedClaims(evidence) + i <= ClaimLimit}

Uncovered(reply, evidence) ==
    {i \in DOMAIN reply : /\ FixedClaims(evidence) + i > ClaimLimit
                          /\ FixedClaims(evidence) + i <= ClaimLimit + UncoveredLimit}

Covered(reply, evidence) == Tagged(reply, evidence) = DOMAIN reply

ReplyClaims(reply, evidence) == {ClaimOf(reply[i], evidence) : i \in Tagged(reply, evidence)}

-----------------------------------------------------------------------------
(* Challenge *)

\* choose_challenge_action.  stressed and uncertain are the fail-closed
\* thresholds, asks what the request looks like: "factual" (it has a factual
\* keyword), "vague" (a clarify keyword, or confidence below 0.45).
ChooseChallenge(asks, stressed, uncertain, evidence) ==
    LET supported == evidence \ {"none", "utterance"} # {}
    IN  IF stressed \/ uncertain THEN "fail_closed"
        ELSE IF ~supported /\ "factual" \in asks THEN "require_evidence"
        ELSE IF "vague" \in asks THEN "clarify"
        ELSE IF supported THEN "continue"
        ELSE "require_evidence"

\* map_challenge_decision: an action can only tighten the engine's decision.
MapDecision(action, decision) ==
    IF decision = "fail_closed" THEN decision
    ELSE IF action = "abstain" THEN "abstain"
    ELSE IF action \in {"block", "fail_closed"} THEN "fail_closed"
    ELSE decision

-----------------------------------------------------------------------------
(* Evaluate: the gates, in the order the code applies them *)

Admissions == {"eligible", "held", "blocked"}
Responses  == {"committed", "qualified", "revised", "refused", "abstained"}

Gates == [action : Actions, response : Responses, memory : Admissions]

GateOf(action, response, memory) == [action |-> action, response |-> response, memory |-> memory]

\* The strongest of the prior action and of the substantive claims' actions.
StrongestAction(claims, prior) ==
    LET actions == {prior} \union
                   (IF prior = "abstain" THEN {} ELSE {c.action : c \in {d \in claims : Substantive(d)}})
    IN  CHOOSE a \in actions : \A b \in actions : Rank[b] <= Rank[a]

\* A missing-evidence challenge that no claim turned into something stronger.
ResolvedAction(claims, prior) ==
    LET strongest == StrongestAction(claims, prior)
    IN  IF prior = "require_evidence" /\ Rank[strongest] <= Rank["require_evidence"]
          THEN "downgrade" ELSE strongest

BlockingClaim(claims, prior) ==
    prior # "abstain" /\ \E c \in claims : Substantive(c) /\ c.action = "block"

\* resolve_claim_gate
ClaimGate(claims, prior) ==
    LET action == ResolvedAction(claims, prior)
        causalGap == \E c \in claims : c.class = "causal" /\ c.action # "continue"
    IN  IF BlockingClaim(claims, prior) THEN GateOf("block", "refused", "blocked")
        ELSE IF action = "fail_closed" THEN GateOf(action, "refused", "blocked")
        ELSE IF action = "abstain" THEN GateOf(action, "abstained", "held")
        ELSE IF causalGap
          THEN GateOf(action, IF action = "revise" THEN "revised" ELSE "committed", "held")
        ELSE IF action = "qualify" THEN GateOf(action, "qualified", "eligible")
        ELSE IF action = "revise" THEN GateOf(action, "revised", "held")
        ELSE GateOf(action, "committed", "eligible")

\* Mutant of CoverageGate: unchecked text only qualifies the answer.
CoverageQualifies(gate, reply, evidence) ==
    IF Covered(reply, evidence) \/ gate.response # "committed" THEN gate
    ELSE GateOf(Stronger(gate.action, "qualify"), "qualified", gate.memory)

\* apply_coverage_gate
CoverageGate(gate, reply, evidence) ==
    IF Covered(reply, evidence) \/ gate.response \in {"refused", "abstained"} THEN gate
    ELSE IF \E i \in Uncovered(reply, evidence) : ClassOf(reply[i]) = "safety_critical"
      THEN GateOf("block", "refused", "blocked")
    ELSE IF gate.response = "committed"
      THEN GateOf(Stronger(gate.action, "qualify"), "qualified", gate.memory)
    ELSE gate

\* Mutant of LockedTools: the calculator is forgotten.
RemoteTools == {"web_search", "clock"}

\* Tools whose output may not reach memory; nx_search and the request context
\* are not among them.
LockedTools == {"web_search", "calculator", "clock"}

\* apply_write_path_lock
WriteLocked(claims, reply, evidence) ==
    \/ evidence \intersect LockedTools # {}
    \/ /\ \E i \in DOMAIN reply : reply[i].assertive
       /\ evidence \intersect ToolSources # {} \/ \E c \in claims : Hypothesized(c)
    \/ \E c \in claims : c.links \intersect ToolSources # {}
    \/ \E c \in claims : Hypothesized(c) /\ c.assertive

WriteLock(gate, claims, reply, evidence) ==
    IF gate.memory = "eligible" /\ WriteLocked(claims, reply, evidence)
      THEN [gate EXCEPT !.memory = "blocked"] ELSE gate

\* The gates of DeliberationRunner.evaluate.
Evaluated(reply, evidence, prior) ==
    LET claims == ReplyClaims(reply, evidence)
    IN  WriteLock(CoverageGate(ClaimGate(claims, prior), reply, evidence),
                  claims, reply, evidence)

-----------------------------------------------------------------------------
(* What is done to the text, and Commit *)

\* What the gates made of a text: "replaced" by a fixed one, "stripped" of a
\* figure or of year tags, "noted" at its end as not established, and which of
\* its units are marked as hypothesized.
Marks == {"replaced", "stripped", "noted"}

Texts == [marks : SUBSET Marks, hedged : SUBSET Nat]

AsItStands == [marks |-> {}, hedged |-> {}]
Replaced   == [marks |-> {"replaced"}, hedged |-> {}]

\* A tagged unit of one of the classes lacks full support.
Lacking(classes, reply, evidence) ==
    \E c \in ReplyClaims(reply, evidence) : c.class \in classes /\ Unsupported(c)

\* _sanitize_unverified_factual_reply takes out one figure of the whole reply,
\* and its year tags; without any it changes nothing.
Stripped(reply, evidence) ==
    Lacking({"factual"}, reply, evidence) /\ \E i \in DOMAIN reply : reply[i].loose

\* _hedge_substantive finds only the units whose text occurs literally.
Hedged(reply, evidence) ==
    {i \in Tagged(reply, evidence) :
        LET c == ClaimOf(reply[i], evidence)
        IN  Substantive(c) /\ c.action \in {"revise", "block", "qualify"} /\ reply[i].literal}

\* Mutant of Treatment: a revised answer carries no note.
RevisesSilently(action, reply, evidence) ==
    IF action \in {"block", "abstain"} THEN Replaced
    ELSE [marks  |-> (IF Stripped(reply, evidence) THEN {"stripped"} ELSE {})
                     \union (IF action = "qualify" /\ Lacking({"factual", "causal"}, reply, evidence)
                               THEN {"noted"} ELSE {}),
          hedged |-> IF action = "revise" THEN Hedged(reply, evidence) ELSE {}]

\* apply_reply_resolution: what is done to the reply before it is shown.
Treatment(action, reply, evidence) ==
    IF action \in {"block", "abstain"} THEN Replaced
    ELSE [marks  |-> (IF Stripped(reply, evidence) THEN {"stripped"} ELSE {})
                     \union (IF action \in {"qualify", "revise"} /\ Lacking({"factual", "causal"}, reply, evidence)
                               THEN {"noted"} ELSE {}),
          hedged |-> IF action = "revise" THEN Hedged(reply, evidence) ELSE {}]

\* The status Commit gives an evaluated turn.
CommitStatus(gate) ==
    IF gate.response = "abstained" \/ gate.action = "abstain" THEN "abstained"
    ELSE IF gate.response = "refused" \/ gate.action \in {"block", "fail_closed"} THEN "refused"
    ELSE gate.response

Committed(gate) == CommitStatus(gate) \in {"committed", "qualified", "revised"}

\* The decision of the turn once the reply is evaluated.
DecisionAfter(gate, decision) ==
    LET mapped == MapDecision(gate.action, decision)
    IN  IF gate.response = "abstained" \/ gate.action = "abstain" THEN "abstain"
        ELSE IF gate.response = "refused" /\ mapped = "answer" THEN "fail_closed"
        ELSE mapped

-----------------------------------------------------------------------------
(* The evidence envelope of a claim (tools/claim_envelope.py): how far it  *)
(* is trusted, and whether ARIS admits it or treats it as inspiration.     *)

TrustOf(c) ==
    IF c.class \in {"factual", "causal"} /\ c.links = {} THEN "rejected"
    ELSE IF c.support = "present" /\ c.links # {} THEN "proven"
    ELSE "asserted"

ArisOf(c) == IF TrustOf(c) = "proven" THEN "admitted" ELSE "inspiration"
=============================================================================
