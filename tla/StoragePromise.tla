---------------------------- MODULE StoragePromise ----------------------------
(***************************************************************************)
(* What storing memories in a remote ledger promises, without requests,    *)
(* keys, messages, locks or audit.  A row, once held, does not change.     *)
(* There are several copies of the session's state.  Within a copy a       *)
(* memory is bound only to a row that is held under the memory's own hash, *)
(* and stays bound to it.  A copy begins as the live one; the live and the *)
(* saved state are only ever replaced by a whole copy, never by a mixture  *)
(* of two; a restart goes back to the saved one.                           *)
(***************************************************************************)
CONSTANTS
    Memories,
    LedgerIds,
    Texts,
    None,
    Own,        \* the hash of each memory
    Copies,
    First       \* the copy that is live at the start and after a restart

VARIABLES
    held,   \* hash of each row of the ledger, None when there is no row
    bound,  \* row each memory is bound to, in each copy
    live,   \* the copy in use
    saved,  \* the bindings a restart goes back to
    blank   \* copies not taken yet

vars == <<held, bound, live, saved, blank>>

Unbound == [m \in Memories |-> None]

Init ==
    /\ held = [i \in LedgerIds |-> None]
    /\ bound = [c \in Copies |-> Unbound]
    /\ live = First
    /\ saved = Unbound
    /\ blank = Copies \ {First}

Hold(i) ==
    /\ held[i] = None
    /\ \E text \in Texts : held' = [held EXCEPT ![i] = text]
    /\ UNCHANGED <<bound, live, saved, blank>>

\* A copy that is bound need not be live, and need not become live.
Bind(c, m, i) ==
    /\ c \notin blank
    /\ bound[c][m] = None
    /\ held[i] = Own[m]
    /\ bound' = [bound EXCEPT ![c][m] = i]
    /\ live' \in {live, c}
    /\ UNCHANGED <<held, saved, blank>>

Take(c) ==
    /\ c \in blank
    /\ blank' = blank \ {c}
    /\ bound' = [bound EXCEPT ![c] = bound[live]]
    /\ UNCHANGED <<held, live, saved>>

\* A copy becomes live, and may be saved as it is.
Publish(c) ==
    /\ c \notin blank
    /\ live' = c
    /\ saved' \in {saved, bound[c]}
    /\ UNCHANGED <<held, bound, blank>>

Forget ==
    /\ bound' = [c \in Copies |-> saved]
    /\ live' = First
    /\ blank' \in SUBSET blank
    /\ UNCHANGED <<held, saved>>

Next ==
    \/ \E i \in LedgerIds : Hold(i)
    \/ \E c \in Copies, m \in Memories, i \in LedgerIds : Bind(c, m, i)
    \/ \E c \in Copies : Take(c) \/ Publish(c)
    \/ Forget

Spec == Init /\ [][Next]_vars

=============================================================================
