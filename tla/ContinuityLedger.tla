--------------------------- MODULE ContinuityLedger ---------------------------
(***************************************************************************)
(* Storing the memories of one session in the external Continuity Ledger:  *)
(* the routes that propose, promote and supersede (jarvis/routes/chat.py), *)
(* the promotion tail (jarvis/brain/tools/memory_promotion.py) and the     *)
(* HTTP client with its retries (jarvis/continuity.py).                    *)
(*                                                                         *)
(* Each attempt of the client is a message of its own.  The ledger may     *)
(* apply one and lose the answer, or apply it after the client has given   *)
(* up; so the same write can reach it several times and out of order.  An  *)
(* action is the code from one await to the next.                          *)
(*                                                                         *)
(* A request works on the state object that was live when it arrived, and  *)
(* makes it live again when it has bound a memory in it; a turn of the     *)
(* session works on a deep copy of the live state and makes that copy live *)
(* when it ends.  So a binding can be undone by a turn that overlaps it.   *)
(*                                                                         *)
(* A row of the ledger is known by the content_sha256 that the ledger      *)
(* claims for it: no code here hashes what it retrieves.  Storage faults,  *)
(* the order of queued turns and the steps within apply_supersession are   *)
(* the subject of SessionEngine.                                           *)
(***************************************************************************)
EXTENDS Naturals, FiniteSets

CONSTANTS
    Memories,     \* local drafts of the session, all of them promotable
    Ragged,       \* those whose text ends in white space
    Corrections,  \* texts a supersession may ask for
    Proposes,     \* POST /memory/propose requests
    Promotes,     \* POST /memory/promote requests
    Supersedes,   \* POST /memory/supersede requests
    LedgerIds,    \* ids the ledger gives to its rows
    Turns,        \* POST /chat requests of the session, each used for one turn
    Opened,       \* the state object at the start and after a recovery
    None,
    Attempts,     \* POSTs the client makes before it gives up: 3 in continuity.py
    Lapses,       \* TRUE when the ledger may alter or misreport rows and hashes
    MaxRestarts   \* bound: kills of the process that are explored

Requests == Proposes \cup Promotes \cup Supersedes

VARIABLES
    pc,        \* where each request is, at the end its outcome
    job,       \* what each request writes: memory, key, text, and the object it uses
    attempt,   \* POSTs sent for each request
    answer,    \* answer to its latest POST that has come back
    net,       \* POSTs on their way to the ledger
    rows,      \* rows of the ledger (external)
    live,      \* engine._sessions[session]: the current state object
    bound,     \* metadata["continuity_ledger_id"] of each memory, in each object
    saved,     \* the same in the newest checkpoint
    turn,      \* where each turn is
    lock,      \* engine._read_only_reasons[session]
    audit,     \* SQLite audit_events that concern memories
    restarts   \* observer: kills so far

client  == <<pc, job, attempt, answer>>
copies  == <<live, bound, saved, turn>>
session == <<copies, lock, audit>>
vars    == <<client, net, rows, session, restarts>>

Objects == Turns \cup {Opened}

\* A text is known by where it comes from and by what was done to it.
Texts    == (Memories \cup Corrections) \X {"whole", "stripped", "altered"}
Whole(x) == <<x, "whole">>

Routes == {"propose", "promote", "supersede"}
Key    == [route : Routes, of : Memories \cup LedgerIds, text : Texts \cup {None}]
Job    == [mem : Memories, obj : Objects, key : Key, text : Texts]
Row    == [key : Key, hash : Texts]

AnswerKinds == {"accepted", "unproven", "refused", "conflict", "rejected"}
Answer      == [kind : AnswerKinds, id : LedgerIds \cup {None}, hash : Texts \cup {None}]

\* The requests are distinct, and None is a value of its own.
ASSUME LedgerAssumption ==
    /\ Ragged \subseteq Memories
    /\ Proposes \cap Promotes = {}
    /\ Proposes \cap Supersedes = {}
    /\ Promotes \cap Supersedes = {}
    /\ None \notin LedgerIds
    /\ None \notin Row \cup Answer
    /\ Opened \notin Turns
    /\ Attempts \in Nat \ {0}
    /\ Lapses \in BOOLEAN
    /\ MaxRestarts \in Nat

\* "mismatch" is a verified row that cannot be bound, "error" an exception
\* nobody catches (HTTP 500).
Outcomes == {"durably_stored", "superseded", "conflict", "refused", "unavailable",
             "unconfirmed", "unverified", "mismatch", "error", "killed"}
PCs      == Outcomes \cup {"idle", "waiting", "verifying"}

EventTypes == {"memory_reconciled", "conflict_membrane", "memory_supersession",
               "memory_promotion_applied", "memory_promotion_refused"}
Event == [type : EventTypes, of : Memories \cup Promotes, id : LedgerIds \cup {None}]

LockReasons == {"none", "recovery", "conflict"}
TurnPCs     == {"idle", "queued", "running", "done", "failed"}

Unbound == [m \in Memories |-> None]

Init ==
    /\ pc = [r \in Requests |-> "idle"]
    /\ job = [r \in Requests |-> None]
    /\ attempt = [r \in Requests |-> 0]
    /\ answer = [r \in Requests |-> None]
    /\ net = {}
    /\ rows = [i \in LedgerIds |-> None]
    /\ live = Opened
    /\ bound = [o \in Objects |-> Unbound]
    /\ saved = Unbound
    /\ turn = [t \in Turns |-> "idle"]
    /\ lock = "none"
    /\ audit = {}
    /\ restarts = 0

-----------------------------------------------------------------------------
(* Local helpers.                                                          *)

\* audit.append: event ids name the type and the memory or the promotion, and
\* are a primary key.
Recorded(type, of) == \E e \in audit : e.type = type /\ e.of = of

LockedFor(reason) == IF lock = "none" THEN reason ELSE lock
Authorized        == IF lock = "conflict" THEN "none" ELSE lock

\* A promotion leaves its own event whichever way it ends, the other routes
\* only answer.
Refusal(r) ==
    IF r \in Promotes
    THEN {[type |-> "memory_promotion_refused", of |-> r, id |-> None]}
    ELSE {}

Ends(r, outcome) ==
    /\ pc' = [pc EXCEPT ![r] = outcome]
    /\ audit' = audit \cup Refusal(r)

-----------------------------------------------------------------------------
(* The routes up to the first await: they look at the live state and keep  *)
(* it.                                                                     *)

Submit(r, j) ==
    /\ pc' = [pc EXCEPT ![r] = "waiting"]
    /\ job' = [job EXCEPT ![r] = j]
    /\ attempt' = [attempt EXCEPT ![r] = 1]
    /\ net' = net \cup {<<r, 1>>}
    /\ UNCHANGED <<answer, rows, session, restarts>>

\* Mutant: a key made up for each request.
ProposeFreshKey(r) ==
    /\ pc[r] = "idle"
    /\ \E m \in Memories :
          Submit(r, [mem |-> m, obj |-> live, key |-> [route |-> "propose", of |-> r, text |-> None], text |-> Whole(m)])

\* The idempotency keys of the three routes.
ProposeKey(m)      == [route |-> "propose", of |-> m, text |-> None]
PromoteKey(m, t)   == [route |-> "promote", of |-> m, text |-> t]
SupersedeKey(i, t) == [route |-> "supersede", of |-> i, text |-> t]

\* routes/chat.py propose_memory: the key names the memory.  The read-only lock
\* and an earlier binding are not looked at.
Propose(r) ==
    /\ pc[r] = "idle"
    /\ \E m \in Memories :
          Submit(r, [mem |-> m, obj |-> live, key |-> ProposeKey(m), text |-> Whole(m)])

\* build_proposal strips the text; its hash is part of the key.
PromotedText(m) == IF m \in Ragged THEN <<m, "stripped">> ELSE Whole(m)

\* check_gate.
GateAllows(m) == lock = "none" /\ bound[live][m] = None

Promote(r) ==
    /\ pc[r] = "idle"
    /\ \E m \in Memories :
          /\ GateAllows(m)
          /\ Submit(r, [mem |-> m, obj |-> live, key |-> PromoteKey(m, PromotedText(m)),
                        text |-> PromotedText(m)])

\* A promotion may name a row it replaces: that needs a bound memory, which the
\* gate does not let through.
PromoteDenied(r) ==
    /\ pc[r] = "idle"
    /\ \E m \in Memories, replaces \in BOOLEAN : ~GateAllows(m) \/ replaces
    /\ Ends(r, "refused")
    /\ UNCHANGED <<job, attempt, answer, net, rows, copies, lock, restarts>>

\* routes/chat.py supersede_memory: only a bound memory.
Supersede(r) ==
    /\ pc[r] = "idle"
    /\ \E m \in Memories, c \in Corrections :
          /\ bound[live][m] # None
          /\ Submit(r, [mem |-> m, obj |-> live, key |-> SupersedeKey(bound[live][m], Whole(c)),
                        text |-> Whole(c)])

-----------------------------------------------------------------------------
(* The ledger (external), as the client assumes it: it applies a key once. *)

Stored(key) == {i \in LedgerIds : rows[i] # None /\ rows[i].key = key}

\* The hashes a row can claim for the text it was sent.
Claimed(text) == IF Lapses THEN {text, <<text[1], "altered">>} ELSE {text}

\* Row i is the write j with this hash, from now on or already.
Stores(j, i, hash) ==
    \/ /\ Stored(j.key) = {}
       /\ rows[i] = None
       /\ rows' = [rows EXCEPT ![i] = [key |-> j.key, hash |-> hash]]
    \/ /\ rows[i] = [key |-> j.key, hash |-> hash]
       /\ UNCHANGED rows

\* An answer reaches the client while it waits for this very attempt.
Respond(r, n, kind, id, hash) ==
    /\ net' = net \ {<<r, n>>}
    /\ answer' = IF pc[r] = "waiting" /\ attempt[r] = n
                 THEN [answer EXCEPT ![r] = [kind |-> kind, id |-> id, hash |-> hash]]
                 ELSE answer
    /\ UNCHANGED <<pc, job, attempt, session, restarts>>

LedgerAccepts(r, n) ==
    /\ <<r, n>> \in net
    /\ \E i \in LedgerIds, hash \in Claimed(job[r].text) :
          /\ Stores(job[r], i, hash)
          /\ \E id \in IF Lapses THEN LedgerIds ELSE {i},
                said \in IF Lapses THEN {hash, job[r].text} ELSE {hash} :
                Respond(r, n, "accepted", id, said)

LedgerRefuses(r, n) ==
    /\ <<r, n>> \in net
    /\ Stored(job[r].key) = {}
    /\ UNCHANGED rows
    /\ \E kind \in {"refused", "conflict"} : Respond(r, n, kind, None, None)

\* Another status or no JSON ("rejected"), an answer that does not say accepted
\* or has no row ("unproven").  The write may have been applied.
LedgerFails(r, n) ==
    /\ <<r, n>> \in net
    /\ \/ UNCHANGED rows
       \/ \E i \in LedgerIds, hash \in Claimed(job[r].text) : Stores(job[r], i, hash)
    /\ \E kind \in {"rejected", "unproven"} : Respond(r, n, kind, None, None)

\* 429, 5xx or a lost answer, before or after the write is applied.
LedgerDrops(r, n) ==
    /\ <<r, n>> \in net
    /\ \/ UNCHANGED rows
       \/ \E i \in LedgerIds, hash \in Claimed(job[r].text) : Stores(job[r], i, hash)
    /\ net' = net \ {<<r, n>>}
    /\ UNCHANGED <<client, session, restarts>>

-----------------------------------------------------------------------------
(* The client's retries: continuity.py _post_with_retries.                 *)

Waits(r)       == pc[r] = "waiting"
Says(r, kinds) == Waits(r) /\ answer[r] # None /\ answer[r].kind \in kinds

\* No answer in time, or one that the ledger was not able to give (429, 5xx).
AttemptFailed(r) == Waits(r) /\ answer[r] = None

\* Mutant: the attempts are not counted.
RetryForever(r) ==
    /\ AttemptFailed(r)
    /\ net' = net \cup {<<r, attempt[r]>>}
    /\ UNCHANGED <<client, rows, session, restarts>>

\* Mutant: the bound is off by one.
RetryOnceMore(r) ==
    /\ AttemptFailed(r)
    /\ attempt[r] <= Attempts
    /\ attempt' = [attempt EXCEPT ![r] = attempt[r] + 1]
    /\ net' = net \cup {<<r, attempt[r] + 1>>}
    /\ UNCHANGED <<pc, job, answer, rows, session, restarts>>

Retry(r) ==
    /\ AttemptFailed(r)
    /\ attempt[r] < Attempts
    /\ attempt' = [attempt EXCEPT ![r] = attempt[r] + 1]
    /\ net' = net \cup {<<r, attempt[r] + 1>>}
    /\ UNCHANGED <<pc, job, answer, rows, session, restarts>>

\* The third attempt fails, or one fails with a status that is not retried.
GiveUp(r) ==
    /\ \/ AttemptFailed(r) /\ attempt[r] = Attempts
       \/ Says(r, {"rejected"})
    /\ Ends(r, "unavailable")
    /\ UNCHANGED <<job, attempt, answer, net, rows, copies, lock, restarts>>

-----------------------------------------------------------------------------
(* The answer of the ledger in the three routes.                           *)

Unproven(r) ==
    /\ Says(r, {"unproven"})
    /\ Ends(r, "unconfirmed")
    /\ UNCHANGED <<job, attempt, answer, net, rows, copies, lock, restarts>>

\* A proposal that is refused, for whatever reason, locks the session.  The
\* second one on the same memory raises when it is audited.
ProposeRefused(r) ==
    LET m == job[r].mem
    IN  /\ r \in Proposes
        /\ Says(r, {"refused", "conflict"})
        /\ lock' = LockedFor("conflict")
        /\ \/ /\ ~Recorded("conflict_membrane", m)
              /\ audit' = audit \cup {[type |-> "conflict_membrane", of |-> m, id |-> None]}
              /\ pc' = [pc EXCEPT ![r] = "conflict"]
           \/ /\ Recorded("conflict_membrane", m)
              /\ pc' = [pc EXCEPT ![r] = "error"]
              /\ UNCHANGED audit
        /\ UNCHANGED <<job, attempt, answer, net, rows, copies, restarts>>

Refused(r) ==
    /\ r \notin Proposes
    /\ Says(r, {"refused"})
    /\ Ends(r, "refused")
    /\ UNCHANGED <<job, attempt, answer, net, rows, copies, lock, restarts>>

\* Mutant: the conflict is reported and the session stays open.
ConflictUnlocked(r) ==
    /\ r \notin Proposes
    /\ Says(r, {"conflict"})
    /\ Ends(r, "conflict")
    /\ UNCHANGED <<job, attempt, answer, net, rows, copies, lock, restarts>>

Conflict(r) ==
    /\ r \notin Proposes
    /\ Says(r, {"conflict"})
    /\ lock' = LockedFor("conflict")
    /\ Ends(r, "conflict")
    /\ UNCHANGED <<job, attempt, answer, net, rows, copies, restarts>>

Accepted(r) ==
    /\ r \notin Supersedes
    /\ Says(r, {"accepted"})
    /\ pc' = [pc EXCEPT ![r] = "verifying"]
    /\ UNCHANGED <<job, attempt, answer, net, rows, session, restarts>>

-----------------------------------------------------------------------------
(* Retrieve-verify and reconcile.                                          *)

\* The retrieval fails, or its row has another id or hash.
VerifyFails(r) ==
    /\ pc[r] = "verifying"
    /\ Ends(r, "unverified")
    /\ UNCHANGED <<job, attempt, answer, net, rows, copies, lock, restarts>>

\* Mutant: the acknowledgement is taken for the row.
VerifiedUnread(r) == pc[r] = "verifying"

\* The row that the ledger returns for the acknowledged id claims the
\* acknowledged hash.
Verified(r) ==
    /\ pc[r] = "verifying"
    /\ rows[answer[r].id] # None
    /\ rows[answer[r].id].hash = answer[r].hash

\* The binding of the memory in the object the request uses.
Binding(r) == bound[job[r].obj][job[r].mem]

\* Mutant: an earlier binding is replaced.
BindableAgain(r) == answer[r].hash = Whole(job[r].mem)

\* engine.reconcile_proposed_memory: the checks before the binding.
Bindable(r) ==
    /\ answer[r].hash = Whole(job[r].mem)
    /\ Binding(r) \in {None, answer[r].id}

ReconcileRefused(r) ==
    /\ Verified(r)
    /\ ~Bindable(r)
    /\ Ends(r, "mismatch")
    /\ UNCHANGED <<job, attempt, answer, net, rows, copies, lock, restarts>>

Reconciled(r) == [type |-> "memory_reconciled", of |-> job[r].mem, id |-> answer[r].id]

Applied(r) ==
    IF r \in Promotes
    THEN {[type |-> "memory_promotion_applied", of |-> r, id |-> answer[r].id]}
    ELSE {}

\* The metadata is changed in place.
Bind(r) == bound' = [bound EXCEPT ![job[r].obj][job[r].mem] = answer[r].id]

\* The metadata is bound, then the event is appended, then the object becomes
\* the live one, also when a turn has published another in the meantime.
Reconcile(r) ==
    /\ Verified(r)
    /\ Bindable(r)
    /\ ~Recorded("memory_reconciled", job[r].mem)
    /\ Bind(r)
    /\ audit' = audit \cup {Reconciled(r)} \cup Applied(r)
    /\ live' = job[r].obj
    /\ pc' = [pc EXCEPT ![r] = "durably_stored"]
    /\ UNCHANGED <<job, attempt, answer, net, rows, saved, turn, lock, restarts>>

\* Mutant: a repeated event is ignored, as by INSERT OR IGNORE.
RepeatIgnored(r) ==
    /\ Verified(r)
    /\ Bindable(r)
    /\ Recorded("memory_reconciled", job[r].mem)
    /\ Bind(r)
    /\ live' = job[r].obj
    /\ pc' = [pc EXCEPT ![r] = "durably_stored"]
    /\ UNCHANGED <<job, attempt, answer, net, rows, saved, turn, lock, audit, restarts>>

\* The event id is taken: the append raises, the metadata stays bound.
ReconcileRepeated(r) ==
    /\ Verified(r)
    /\ Bindable(r)
    /\ Recorded("memory_reconciled", job[r].mem)
    /\ Bind(r)
    /\ pc' = [pc EXCEPT ![r] = "error"]
    /\ UNCHANGED <<job, attempt, answer, net, rows, live, saved, turn, lock, audit, restarts>>

-----------------------------------------------------------------------------
(* engine.apply_supersession.  The replacement is not retrieved.           *)

\* The acknowledged row is the one superseded, or comes with the lineage of
\* another, which only the ledger knows.
LineageInvalid(r) ==
    /\ r \in Supersedes
    /\ Says(r, {"accepted"})
    /\ Ends(r, "mismatch")
    /\ UNCHANGED <<job, attempt, answer, net, rows, copies, lock, restarts>>

Superseded(r) == [type |-> "memory_supersession", of |-> job[r].mem, id |-> answer[r].id]

\* Mutant: the session is unlocked before the event is appended.
UnlockFirst(r) ==
    /\ r \in Supersedes
    /\ Says(r, {"accepted"})
    /\ answer[r].id # Binding(r)
    /\ lock' = Authorized
    /\ \/ /\ ~Recorded("memory_supersession", job[r].mem)
          /\ audit' = audit \cup {Superseded(r)}
          /\ live' = job[r].obj
          /\ pc' = [pc EXCEPT ![r] = "superseded"]
       \/ /\ Recorded("memory_supersession", job[r].mem)
          /\ pc' = [pc EXCEPT ![r] = "error"]
          /\ UNCHANGED <<audit, live>>
    /\ UNCHANGED <<job, attempt, answer, net, rows, bound, saved, turn, restarts>>

\* A memory superseded before raises when the event is appended.
ApplySupersession(r) ==
    /\ r \in Supersedes
    /\ Says(r, {"accepted"})
    /\ answer[r].id # Binding(r)
    /\ \/ /\ ~Recorded("memory_supersession", job[r].mem)
          /\ audit' = audit \cup {Superseded(r)}
          /\ lock' = Authorized
          /\ live' = job[r].obj
          /\ pc' = [pc EXCEPT ![r] = "superseded"]
       \/ /\ Recorded("memory_supersession", job[r].mem)
          /\ pc' = [pc EXCEPT ![r] = "error"]
          /\ UNCHANGED <<audit, lock, live>>
    /\ UNCHANGED <<job, attempt, answer, net, rows, bound, saved, turn, restarts>>

-----------------------------------------------------------------------------
(* Turns of the session: engine.chat under the session lock.               *)

Nobody(where) == \A t \in Turns : turn[t] \notin where

\* The turn takes its deep copy of the state that is live now.
Starts(t) ==
    /\ turn' = [turn EXCEPT ![t] = "running"]
    /\ bound' = [bound EXCEPT ![t] = bound[live]]
    /\ UNCHANGED <<client, net, rows, live, saved, lock, audit, restarts>>

\* The read-only lock is looked at on arrival only.
TurnArrives(t) ==
    /\ turn[t] = "idle"
    /\ lock = "none"
    /\ Nobody({"queued", "running"})
    /\ Starts(t)

TurnQueues(t) ==
    /\ turn[t] = "idle"
    /\ lock = "none"
    /\ ~Nobody({"queued", "running"})
    /\ turn' = [turn EXCEPT ![t] = "queued"]
    /\ UNCHANGED <<client, net, rows, live, bound, saved, lock, audit, restarts>>

\* A turn that waited takes the session lock.
TurnWakes(t) ==
    /\ turn[t] = "queued"
    /\ Nobody({"running"})
    /\ Starts(t)

\* The copy is checkpointed and becomes the live state.
TurnEnds(t) ==
    /\ turn[t] = "running"
    /\ turn' = [turn EXCEPT ![t] = "done"]
    /\ saved' = bound[t]
    /\ live' = t
    /\ UNCHANGED <<client, net, rows, bound, lock, audit, restarts>>

TurnFails(t) ==
    /\ turn[t] = "running"
    /\ turn' = [turn EXCEPT ![t] = "failed"]
    /\ UNCHANGED <<client, net, rows, live, bound, saved, lock, audit, restarts>>

TurnStep(t) == TurnArrives(t) \/ TurnQueues(t) \/ TurnWakes(t) \/ TurnEnds(t) \/ TurnFails(t)

-----------------------------------------------------------------------------

\* The process is killed and the session recovered from its newest checkpoint.
\* POSTs that were sent are still on their way.
Restart ==
    /\ restarts < MaxRestarts
    /\ restarts' = restarts + 1
    /\ pc' = [r \in Requests |-> IF pc[r] \in {"waiting", "verifying"} THEN "killed" ELSE pc[r]]
    /\ turn' = [t \in Turns |-> IF turn[t] \in {"queued", "running"} THEN "failed" ELSE turn[t]]
    /\ live' = Opened
    /\ bound' = [o \in Objects |-> saved]
    /\ lock' = "recovery"
    /\ UNCHANGED <<job, attempt, answer, net, rows, saved, audit>>

Ask(r) ==
    \/ r \in Proposes /\ Propose(r)
    \/ r \in Promotes /\ (Promote(r) \/ PromoteDenied(r))
    \/ r \in Supersedes /\ Supersede(r)

\* What the event loop does for a request that is under way.
Progress(r) ==
    \/ Retry(r) \/ GiveUp(r) \/ Unproven(r)
    \/ ProposeRefused(r) \/ Refused(r) \/ Conflict(r)
    \/ Accepted(r) \/ VerifyFails(r)
    \/ ReconcileRefused(r) \/ Reconcile(r) \/ ReconcileRepeated(r)
    \/ LineageInvalid(r) \/ ApplySupersession(r)

LedgerStep(r, n) == LedgerAccepts(r, n) \/ LedgerRefuses(r, n) \/ LedgerFails(r, n) \/ LedgerDrops(r, n)

Next ==
    \/ \E r \in Requests : Ask(r) \/ Progress(r)
    \/ \E r \in Requests, n \in 1..Attempts : LedgerStep(r, n)
    \/ \E t \in Turns : TurnStep(t)
    \/ Restart

Spec == Init /\ [][Next]_vars

\* httpx times out every request, asyncio resumes every coroutine.  The ledger
\* need not do anything.
FairSpec == Spec /\ \A r \in Requests : WF_vars(Progress(r))

-----------------------------------------------------------------------------
(* Properties.                                                             *)

\* The type invariant.
TypeOK ==
    /\ pc \in [Requests -> PCs]
    /\ job \in [Requests -> Job \cup {None}]
    /\ attempt \in [Requests -> 0..Attempts]
    /\ answer \in [Requests -> Answer \cup {None}]
    /\ net \in SUBSET (Requests \X (1..Attempts))
    /\ rows \in [LedgerIds -> Row \cup {None}]
    /\ live \in Objects
    /\ bound \in [Objects -> [Memories -> LedgerIds \cup {None}]]
    /\ saved \in [Memories -> LedgerIds \cup {None}]
    /\ turn \in [Turns -> TurnPCs]
    /\ lock \in LockReasons
    /\ audit \in SUBSET Event
    /\ restarts \in Nat

\* Row i of the ledger claims the hash of memory m.
Claims(i, m) == rows[i] # None /\ rows[i].hash = Whole(m)

\* POST /memory/propose and /memory/promote report durably_stored only when the
\* ledger has a row with the memory's hash and the local audit names that row,
\* whatever was lost, repeated or misreported on the way
\* (docs/MEMORY_PROVENANCE.md:71).
StoredIsDurable ==
    \A r \in Requests : pc[r] = "durably_stored" =>
        \E i \in LedgerIds :
            /\ Claims(i, job[r].mem)
            /\ [type |-> "memory_reconciled", of |-> job[r].mem, id |-> i] \in audit

\* The sets of bindings there are: of the live state, of the copies that turns
\* and requests hold, of the checkpoint.
Bindings == {bound[o] : o \in Objects} \cup {saved}

\* A binding and the audit never part silently.  Turns that undo a binding,
\* kills and requests that race can leave a memory bound, live or saved, to
\* another row than its memory_reconciled event names; whenever they do, the
\* request that bound it was answered with an error.
BindingAccounted ==
    \A b \in Bindings, m \in Memories : b[m] # None =>
        \/ [type |-> "memory_reconciled", of |-> m, id |-> b[m]] \in audit
        \/ \E r \in Proposes \cup Promotes :
              pc[r] = "error" /\ job[r].mem = m /\ answer[r].id = b[m]

\* A write that is asked for again, because its answer was lost or the process
\* was killed, is not stored again: one row for all requests of a route with
\* the same memory and the same text, however late an attempt is applied.
StoredOnce ==
    \A r, s \in Proposes \cup Promotes :
        /\ job[r] # None
        /\ job[s] # None
        /\ job[r].key.route = job[s].key.route
        /\ job[r].mem = job[s].mem
        /\ job[r].text = job[s].text
        => Cardinality(Stored(job[r].key) \cup Stored(job[s].key)) <= 1

\* Once a request was answered with a conflict the session is read-only, until
\* a supersession of its memories has been audited (docs/SECURITY_REVIEW.md:58).
ConflictStaysLocked ==
    (\E r \in Requests : pc[r] = "conflict") =>
        lock # "none" \/ \E m \in Memories : Recorded("memory_supersession", m)

\* The conflict lock is lifted only in the step that audits a supersession: its
\* row is in the ledger, and replaces the row that the memory is bound to in the
\* state that this step makes live.
UnlockIsBacked ==
    [][lock = "conflict" /\ lock' = "none" =>
        \E m \in Memories, i \in LedgerIds :
            /\ [type |-> "memory_supersession", of |-> m, id |-> i] \in audit' \ audit
            /\ rows[i] # None
            /\ rows[i].key.of = bound[live'][m]]_vars

\* Every request ends, also when the ledger never answers.
RequestsSettle == \A r \in Requests : pc[r] # "idle" ~> pc[r] \in Outcomes

\* The rows and the bindings keep the promise of StoragePromise.
Held  == [i \in LedgerIds |-> IF rows[i] = None THEN None ELSE rows[i].hash]
Own   == [m \in Memories |-> Whole(m)]
Blank == {t \in Turns : turn[t] \in {"idle", "queued"}}

Promise == INSTANCE StoragePromise WITH
    Copies <- Objects, First <- Opened, held <- Held, blank <- Blank

KeepsPromise == Promise!Spec

=============================================================================
