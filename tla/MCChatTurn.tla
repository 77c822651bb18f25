----------------------------- MODULE MCChatTurn -----------------------------
(* Instances of ChatTurn for TLC. *)
EXTENDS ChatTurn

\* Sentences that differ in what the gates make of them.
Unit(cues, cites, topical, assertive) ==
    [cues |-> cues, cites |-> cites, topical |-> topical, restates |-> FALSE,
     assertive |-> assertive, loose |-> FALSE, literal |-> TRUE]

Small       == Unit({"conversational"}, {"utterance"}, {}, FALSE)
Guess       == [Unit({"fact"}, {}, {}, TRUE) EXCEPT !.loose = TRUE]
Recalled    == Unit({"fact"}, {"ledger", "history"}, {"ledger"}, FALSE)
FromTool    == Unit({"fact", "short"}, {"web_search", "calculator", "nx_search"},
                    {"web_search", "calculator", "nx_search"}, TRUE)
WeakCausal  == Unit({"causal", "fact"}, {"web_search", "clock"}, {"web_search", "clock"}, FALSE)
SplitCausal == [WeakCausal EXCEPT !.literal = FALSE]
BareCausal  == Unit({"causal"}, {"memory"}, {}, FALSE)
Safety      == Unit({"safety"}, {"ledger", "memory"}, {"ledger"}, FALSE)
Restatement == [Guess EXCEPT !.cites = {"utterance"}, !.restates = TRUE, !.assertive = FALSE, !.loose = FALSE]

AllUnits  == {Small, Guess, Recalled, FromTool, WeakCausal, BareCausal, Safety, Restatement}
TailUnits == {Small, Guess, WeakCausal, Safety}

MCModelReplies ==
    {<<u>> : u \in AllUnits} \union {<<Small, u>> : u \in AllUnits}
    \union {<<u, v>> : u, v \in {Guess, FromTool, WeakCausal, Safety}}
    \union {<<Small, u, v>> : u, v \in TailUnits} \union {<<Guess, Small, v>> : v \in TailUnits} \union {<<SplitCausal>>, <<Guess, SplitCausal>>}

\* The engine's own texts hold no causal and no safety sentence (responder.py,
\* llm.py:291-298, challenge_reply, engine.py:462-471).
MCFixedReplies == {<<Small>>, <<Small, Guess>>}

Plain == [asks |-> {}, stress |-> "calm", uncertain |-> FALSE, consent |-> TRUE,
          previous |-> FALSE, context |-> FALSE, importance |-> 2]

Asking(asks) == [Plain EXCEPT !.asks = asks]

MCRequests ==
    {Asking(asks) : asks \in {{}, {"search", "clock"}, {"world_fact", "calculator"},
                              {"calculator"}, {"nx_search", "factual"}, {"vague"}}}
    \union {[Plain EXCEPT !.stress = s] : s \in {"raised", "high"}}
    \union {[Plain EXCEPT !.uncertain = TRUE]}
    \union {[Plain EXCEPT !.consent = FALSE], [Plain EXCEPT !.previous = TRUE],
            [Plain EXCEPT !.importance = 1], [Plain EXCEPT !.importance = 0],
            [Asking({"factual"}) EXCEPT !.context = TRUE]}
=============================================================================
