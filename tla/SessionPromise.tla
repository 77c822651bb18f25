---------------------------- MODULE SessionPromise ----------------------------
(***************************************************************************)
(* What a chat session promises to its client across failures and process  *)
(* restarts, without locks, copies, ledgers or checkpoints: a session is   *)
(* written only by the process that created it.  A later process may show  *)
(* it, frozen, and never opens it for writing once a turn is stored.  A    *)
(* turn is answered only after it is stored, and at most once.             *)
(***************************************************************************)
CONSTANT Turns

VARIABLES
    mode,      \* "closed" (no process has it), "open" (writable) or "frozen"
    stored,    \* turns in the durable log
    answered   \* turns whose reply was returned

vars == <<mode, stored, answered>>

Init == mode = "closed" /\ stored = {} /\ answered = {}

Open ==
    /\ mode = "closed"
    /\ stored = {}
    /\ mode' = "open"
    /\ UNCHANGED <<stored, answered>>

Freeze ==
    /\ mode = "closed"
    /\ mode' = "frozen"
    /\ UNCHANGED <<stored, answered>>

Store(t) ==
    /\ mode = "open"
    /\ t \notin stored
    /\ stored' = stored \cup {t}
    /\ UNCHANGED <<mode, answered>>

Answer(t) ==
    /\ mode = "open"
    /\ t \in stored \ answered
    /\ answered' = answered \cup {t}
    /\ UNCHANGED <<mode, stored>>

Crash ==
    /\ mode' = "closed"
    /\ UNCHANGED <<stored, answered>>

Next ==
    \/ Open \/ Freeze \/ Crash
    \/ \E t \in Turns : Store(t) \/ Answer(t)

Spec == Init /\ [][Next]_vars

=============================================================================
