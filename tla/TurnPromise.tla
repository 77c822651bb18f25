----------------------------- MODULE TurnPromise -----------------------------
(***************************************************************************)
(* What a turn promises about its decision and about what it makes durable *)
(* beside the turn itself, whatever the tools, the model and the gates do: *)
(* the decision only tightens, and memories, preferences and evolution are *)
(* written only for a consented turn whose decision is, and stays, answer. *)
(***************************************************************************)
CONSTANT Writes   \* kinds of derived state: memory, preferences, evolution

VARIABLES phase, consent, decision, wrote

vars == <<phase, consent, decision, wrote>>

Decisions == {"answer", "degraded", "abstain", "fail_closed"}

\* No way back to answer, and none out of fail_closed.
Tightens(old, new) == (old # "answer" => new # "answer") /\ (old = "fail_closed" => new = old)

Init == phase = "closed" /\ consent \in BOOLEAN /\ decision = "answer" /\ wrote = {}

Open ==
    /\ phase = "closed"
    /\ phase' = "open"
    /\ consent' \in BOOLEAN
    /\ decision' \in {"answer", "fail_closed"}
    /\ wrote' = {}

Decide ==
    /\ phase = "open" /\ wrote = {}
    /\ decision' \in Decisions /\ Tightens(decision, decision')
    /\ UNCHANGED <<phase, consent, wrote>>

Write ==
    /\ phase = "open" /\ decision = "answer" /\ consent
    /\ wrote' \in SUBSET Writes /\ wrote \subseteq wrote'
    /\ UNCHANGED <<phase, consent, decision>>

Close ==
    /\ phase = "open"
    /\ phase' = "closed"
    /\ UNCHANGED <<consent, decision, wrote>>

Next == Open \/ Decide \/ Write \/ Close

Spec == Init /\ [][Next]_vars
=============================================================================
