------------------------- MODULE MCContinuityLedger -------------------------
(* Small instances of ContinuityLedger for TLC. *)
EXTENDS ContinuityLedger, TLC

\* Row ids are fresh, and the requests of one route and the turns are alike.
Alike == Permutations(LedgerIds) \cup Permutations(Proposes) \cup Permutations(Supersedes) \cup Permutations(Turns)

=============================================================================
