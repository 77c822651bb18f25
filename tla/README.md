# TLA+ models of Jarvis

Jarvis is a chat server: a FastAPI application around `JarvisEngine`, SQLite
ledgers for what it must remember, an OAuth login, a chain of hosted models with
a local safe mode, a deliberation pipeline that gates what may be claimed, an
external Continuity Ledger for memories the user asks to store, and a browser
client. This directory holds TLA+ models of the parts whose correctness depends
on order, failure and concurrency, TLC configurations that check them, and
TLAPS proofs. Paths below are relative to the repository.

## Inventory

| Component | State it keeps | Operations | What is hard |
|---|---|---|---|
| Session engine, `jarvis/brain/engine.py` | `_sessions`, `_read_only_reasons`, `_session_locks` (memory of one process) | `get_or_create_session`, `chat`, `clear_memory`, `reconcile_proposed_memory`, `apply_supersession`, `set_read_only`, `authorize_session` | turns queue on one lock per session; memory routes and clearing do not take it; a turn works on a copy and replaces the live state at its end; a turn is several commits |
| SQLite ledgers, `jarvis/persistence/*` | turns, memories, hash-chained audit events, checkpoints, recall seals and revocations | `save_turn_bundle`, `append`, `verify`, `save`, `recover`, `attest`, `revoke`, `previous` | kill between commits; unique event ids; the checkpoint is tied to the audit event of its turn; "newest" is by clock |
| Routes, `jarvis/routes/chat.py` | none | `/chat`, `/memory/propose`, `/memory/supersede`, `/memory/promote`, `DELETE /memory`, `/sessions/resume` | they hold a state object across awaits |
| Memory promotion, `jarvis/brain/tools/memory_promotion.py` | none | `build_proposal`, `check_gate`, `apply_promotion` | several fallible steps after the ledger accepted; fixed audit ids |
| Continuity client, `jarvis/continuity.py` | none | `propose_memory`, `recall`, `retrieve`, `supersede` | retries of writes that may have been applied; normalisation of answers |
| Deliberation, `jarvis/brain/deliberation.py` | one `DeliberationRunner` per turn | observe, hypothesize, challenge, evaluate, commit | four gates override one another's action |
| Inference, `jarvis/brain/llm.py` | process-wide model cooldowns | `generate_llm_reply` | order of slots, refusal against failure, cooldowns shared by requests |
| Tools, `jarvis/brain/tools/*` | search quota | `run_web_search`, `run_ledger_recall`, calculator, clock | a failure must degrade the turn, not end it |
| Login, `jarvis/auth.py`, `jarvis/routes/auth.py` | flows, sessions, owned conversations, quotas in SQLite | `start_flow`, `consume_flow`, `login`, `authenticate`, `revoke`, `consume_quota` | single-use flows, session cap, last unit of a quota |
| HTTP boundary, `jarvis/main.py` | rate windows | `service_boundary` | sliding window at its limit |
| Browser, `jarvis/ui/*.js` | conversation id, locks, recorder, audio | send, new chat, speak, record | replies that arrive after the conversation changed |
| Governance, `jarvis/governance/*`, `brain/mining.py`, `brain/evolution.py` | outcome rows, reports | lanes, policies, outcomes, cycle | best effort, read by reports only |
| Local memory, `jarvis/brain/memory.py` | within `JarvisState` | extract, history, eviction | bounded lists |

How they interact: a route fetches or opens a session in the engine; `chat` runs
the deliberation, the tools and the inference between its awaits and writes the
ledgers at its end; the memory routes await the Continuity client and then
change the state object they fetched before; a restart loses everything the
engine keeps in memory and opens sessions again from the ledgers. The server is
one asyncio event loop: code without an await runs undisturbed by other
coroutines, but not by a kill of the process or a failing commit.

For each component what makes it correct: no answered turn is lost and no
unrecorded one is answered; a session that was recovered, or whose records
could not be confirmed, is not written again; what the audit says happened is
what the state has; a retried ledger write is applied once; an unsupported claim
is never committed as an answer; each login flow, session slot and quota unit is
used once; a reply shows up in the conversation it belongs to.

## Plan

1. `SessionEngine`, `SessionPromise` - the session, its ledgers and its promise
   to the client; proofs in `SessionEngineProofs`. Done.
2. `ContinuityLedger`, `StoragePromise` - the client's retries, proposal,
   promotion and supersession against a ledger that may lose answers, answer
   late and misreport; proofs in `ContinuityLedgerProofs`. Done.
3. `Deliberation`, `ChatTurn`, `TurnPromise` - the rules of the gates as
   operators, the turn that applies them between its tools, its model and its
   save, and the promise it implements; proofs in `DeliberationProofs`,
   `ChatTurnProofs` (a turn) and `ChatSessionProofs` (the session it leaves, and
   that it ends). Done.
4. `Inference` - concurrent requests over shared cooldowns; proofs in
   `InferenceProofs`. Done.
5. `Auth` - flows, session cap, revocation, ownership, quotas, and the ledger
   client that requests share; proofs in `AuthProofs` and `AuthQuotaProofs`. Done.
6. Every invariant, action property and refinement that a run checks is a theorem.
   Left to TLC are the four liveness properties `TurnsSettle`, `RequestsSettle`,
   `TurnEnds` and `InferenceEnds`, which need ENABLED. Of each the safety half is a
   theorem too: every step takes a request or a turn further along an order without
   endless ascent (`TurnsMoveOn`, `RequestsMoveOn`, `TurnMovesOn`).
7. Not planned any more: the search of `recall.py` for another session to
   recall, which only reads, and the browser's rendering.

How the modules compose: `SessionEngine` has a turn as a few commits among other
requests, a clear and a restart; `ChatTurn` is what happens between the first of
its commits and the last, for one turn at a time; `Deliberation` is the part of
`ChatTurn` without state (`ChatTurn` extends it); `Inference` is the single step
`ModelAnswers`/`SafeMode`/`AuditFails` of `ChatTurn`, for several requests at
once; `Auth` decides which requests get as far as a turn; `ContinuityLedger` is
the other side of the memory routes, whose answers `SessionEngine` takes as
given.

## SessionEngine

One session of one tenant. State and code:

| Variable | Code |
|---|---|
| `live`, `heap` | `engine._sessions[id]`, and the contents of every `JarvisState` object. A turn's deep copy is the object named after the turn, the object made by opening the session is `Boot`. A route that captured an object keeps its name, so aliasing is explicit. |
| `lock` | `engine._read_only_reasons[id]` |
| `mutex`, `waiting` | the session's `asyncio.Lock` and its waiters in order |
| `pc`, `writer` | where each `/chat` request and each memory write is |
| `audit`, `checkpoints`, `signed`, `revoked`, `rows` | tables `audit_events`, `reviver_checkpoints`, `recall_checkpoints`, `recall_revoked`, `memories` |
| `replaces` | the evidence of a replacement's row, which names the memory it supersedes (`engine.py:931`) |
| `cleared`, `restarts` | observers: what the user cleared, kills so far |

A session state is reduced to five sets: turns counted, turns quoted in the
history, memories, memories with a `continuity_ledger_id`, memories marked
superseded. The memory a turn extracts is named after the turn, a replacement
after its supersession.

An action is the code from one await or one SQLite commit to the next.
`LoopIdle` says that no coroutine is between two commits without an await;
actions that begin at an await have it as a guard. `Restart` has no such guard.
A turn is `ArriveAndStart` (or `ArriveAndWait` and `Acquire`), any `Note` (audit
entries of tools, recall and inference), then `StoreTurn` (the bundle),
`SaveCheckpoint`, `Attest` under a recall owner, `Answer`; `AbortTurn`,
`CheckpointFails` and `AttestFails` are its error paths. `Resume` and the
`ArriveAnd...` actions contain `get_or_create_session`. A proposal is `Propose`,
`ProposalAccepted`, `Reconcile` or one of its refusals; a supersession is
`Supersede`, `Archive`, `SaveReplacement`, `FinishSupersession` or a refusal.
The answers of the Continuity Ledger are free choices here.

`SessionPromise` is the abstract specification: a session is closed, open or
frozen; only the process that created it writes; a turn is stored once, then
answered once. `KeepsPromise` is the refinement (`Mode`, `StoredTurns`,
`Answered`).

Definitions marked "Mutant" are wrong variants of the definition that follows
them; no specification uses them. With one of them in place of its original a
property must fail, which shows that the property can.

### Runs

Every configuration uses `MCSessionEngine`. Deadlock is not checked: each
request is used once, so the system stops when the requests are used up.

| Run | Instance | Shows |
|---|---|---|
| `MCTurns` | 3 turns, recall owner, failing commits, 1 restart, governed writes off, fairness | types; answers are durable; none is lost; every turn that arrived ends |
| `MCGoverned` | 2 turns, 1 proposal, 1 supersession, failing commits, 1 restart | checkpoints stay recoverable; which locks a supersession may lift; recovered sessions stay frozen; the refinement of `SessionPromise` |
| `MCSupersession` | 2 turns, 1 proposal, 2 supersessions, failing commits, 1 restart | an audited supersession has its own replacement row, and such a row is never beside a draft of the old claim; no memory but an unsaved replacement lacks its row |

Three turns are the fewest with one at work, one next in the queue and one
arriving behind it; a second restart only repeats the first, since a recovered
session is frozen. Two supersessions are needed for the reused audit id. The
requests are not declared symmetric: they are few and liveness is checked.

Fairness (`FairSpec`): weak fairness of the steps of a turn that has started.
Every await in a turn has a timeout (tools, recall, inference, evolution), so
it goes on or raises; code without awaits runs to its end; asyncio wakes the
first waiter. Nothing is assumed of clients or of the Continuity Ledger.

### Where the code does less than it says

`MCLiveBehindReconcile` must find `LiveNeverBehind` violated: `engine.py:713`
says "Lock rather than continue with live state behind durable state", but a
reconcile puts back the state object fetched before the ledger calls and drops
the turn answered meanwhile.

Behaviours of the model that have no run of their own; no property covers the
first three, since the code does not keep what it says there:

* `engine.py:76-79` "Session is read-only ...": a queued turn passed the check
  (`engine.py:219`) before the session was locked, and runs on the locked session;
* `docs/SECURITY_REVIEW.md:59` "Recovery/verification locks are not cleared by
  supersession": the first reason wins (`engine.py:815`), so a failed seal on a
  conflict-locked session leaves a lock that a supersession lifts;
* `routes/chat.py:462` "Clear all memory for a session.": a turn under way brings
  the cleared history back (`engine.py:1004`);
* a failing `reviver.save` leaves a stored turn behind an unlocked session;
* a turn under way saves its copy over a binding or a supersession made meanwhile,
  the mirror image of `MCLiveBehindReconcile`: the superseded memory is a draft
  again in the state, though not in its row;
* a binding is not checkpointed and is gone after a restart;
* `apply_supersession` (`engine.py:905-957`) changes the state object ahead of its
  commits. If `set_memory_status` fails the old memory is superseded in the state
  and a draft in its row; if `save_memory` fails
  the replacement stays in the state, and in later checkpoints, without a row; if
  the append fails, or the process is killed before it, the old row is superseded
  and replaced without an event; two supersessions of one memory may both save
  their replacement, as drafts, and the second fails at its event id.

### Proofs

`SessionEngineProofs` proves, for any sets of turns, proposals and
supersessions, any number of restarts and every setting of the constants (only
`SessionAssumption` is assumed):

* `TypeCorrect`: `Spec => []TypeOK`.
* `ControlHolds`: `Spec => []CInv`. `TypeOK` is not inductive alone: that the
  woken turn copies a state object, and that a reconcile puts an object back,
  needs `WriterTyped` and `QuietUnlessOpen`, and these need `LockDiscipline` (the
  mutex is held by exactly the turn at work, the queue has each queued turn
  once). `OneStretch` says that a turn and a memory write are never both between
  two commits.
* `StagesHold`: what a turn has done at each stage (`StoredStage`,
  `CheckedStage`): the newest audit event is that of the turn just stored, the
  newest checkpoint that of the turn being sealed.
* `AnsweredTurnsAreDurable`, `CheckpointsStayAnchored`: `AnsweredIsDurable` and
  `CheckpointsAnchored`, from the stages and from the ledgers only growing (`AuditSteps`,
  `CheckpointSteps`).
* `NoAnsweredTurnLost`: `AnsweredNeverLost`, assuming `~GovernedWrites`. The
  strengthening is `NeverBehind`: every copy a turn works on has every answered
  turn. With governed writes on the statement is false (`MCLiveBehindReconcile`
  shows how), and in production they are off (`core/config.py:181-184`).
* `RecoveredSessionsFrozen`: the action property `RecoveredStaysFrozen`.
* `EngineKeepsPromise`: `Spec => KeepsPromise`, the refinement.
* `OnlySupersessionsUnlock`: the action property `OnlySupersessionUnlocks`. A lock
  that is set is set again as it was (`set_read_only` keeps the first reason), and
  `FinishSupersession` appends its event before it unlocks.
* `LiveMemoriesAreStored`: `LiveMemoriesHaveRows`, with failing commits and kills. The
  property speaks of the live state and of the checkpoints between two steps of the
  loop; the strengthening `RowsHeld` speaks of every state object, since a turn's copy
  is published and a checkpoint recovered later, and lets a replacement without a
  row exist while its supersession is about to write it. The exception in the
  property is the replacement whose `save_memory` failed.
* `SupersessionsComplete`: `SupersessionComplete`, whichever of the three commits fails
  and wherever the process is killed. `InOrder` says where the rows are while a
  supersession is between its commits, `SavedOnce` and `OneAtATime` that a
  replacement row belongs to one supersession, of which one at a time is under way,
  `NotYetMade` that nobody knows the id of a replacement before it is made. That
  the old memory had a row to retire, `set_memory_status` being an UPDATE, comes
  from `RowsHeld` and `WrittenWithTurn`.

* `QueuedTurnsAreKept`, `QueueKeepsOrder`, `TurnsMoveOn`: a turn that waits for the
  session lock stays in its queue, none moves away from the head, and each step of
  a started turn takes it to a later stage. With `LockDiscipline` (a held lock is
  that of a turn at work) this is what `TurnsSettle` rests on besides fairness.

Only model-checked: the liveness property `TurnsSettle` itself, which the prover
cannot handle (liveness and ENABLED).

### Not modelled here

What a turn computes (that is `ChatTurn`) and governance outcome rows, which are
best effort; tenants, a filter on every query; eviction from the
bounded lists; a clock that steps back (checkpoints are ordered by insertion);
edits of the database from outside.

## ContinuityLedger

The memories of one session and the rows of the external Continuity Ledger.
Where `SessionEngine` takes the ledger's answers as given and looks at the
session's ledgers, this module has the client, its retries and the ledger, and
takes the SQLite commits as reliable.

| Variable | Code |
|---|---|
| `pc` | each `/memory/propose`, `/memory/promote` and `/memory/supersede` request; at the end its outcome (the status of the answer, the reason of a refusal or the kind of HTTP error) |
| `job` | the memory, idempotency key and text of the request's payload |
| `attempt`, `answer`, `net` | the loop counter of `_post_with_retries`, the answer to its latest POST, and the POSTs that have not reached the ledger |
| `rows` | the ledger's rows (external), with the `content_sha256` that it claims for each |
| `live` | `engine._sessions[id]`: which state object is the current one |
| `bound`, `saved` | `metadata["continuity_ledger_id"]` of each memory in each state object, and in the newest checkpoint |
| `turn` | each `/chat` request of the session |
| `lock`, `audit` | `engine._read_only_reasons[id]`, the `audit_events` on memories and promotions |
| `restarts` | observer |

A request is `Propose`, `Promote` (or `PromoteDenied`) or `Supersede`; then
`Retry`, `GiveUp`, `Unproven`, a refusal or conflict, or `Accepted`; then
`VerifyFails`, `ReconcileRefused`, `Reconcile` or `ReconcileRepeated`, or for a
supersession `LineageInvalid` or `ApplySupersession`. Each is the code between
two awaits. A request keeps the state object it found live when it arrived, binds in
it and makes it live again. A turn takes a copy of the live object when it gets
the session lock (`TurnArrives`, or `TurnQueues` and `TurnWakes`), and checkpoints and
publishes that copy at its end (`TurnEnds`): a binding made in another object
meanwhile is undone, live and saved, and a turn answered meanwhile is dropped by a
reconcile.

A text is a source with what was done to it: as it is, stripped by
`build_proposal`, or altered. A row is known by the hash the ledger claims for it:
the code compares such claims with each other and with the hash of the memory
(`chat.py:238-240`, `memory_promotion.py:447`) and never hashes what it retrieves. So
"stored" means here that the ledger claims to hold the memory's text; what it
really holds is beyond the code.

The ledger is external and modelled as the client uses it: it applies one
`Idempotency-Key` once and answers a repetition with the row it has. Everything
else is free: it may apply a POST and lose the answer (`LedgerDrops`), apply it
after the client has timed out, also after the process was killed, answer
without proof (`LedgerFails`), refuse or report a conflict. With `Lapses` it may
also claim for a row another hash than that of the text it was sent, acknowledge a
wrong id or a hash that the row does not claim, and return a lineage that is not
the request's.

`StoragePromise` is the abstract specification: a row never changes; there are
copies of the state; in a copy a memory is bound once and only to a row that is
held under its hash; the live and the saved state are replaced by whole copies
only; a restart goes back to the saved one. Requests, attempts, answers, the lock
and the audit are hidden.

### Runs

All use `MCContinuityLedger`. Deadlock is not checked, as above.

| Run | Instance | Shows |
|---|---|---|
| `MCStorage` | 1 memory, proposal and promotion, 1 turn, 2 attempts, `Lapses`, fairness | types; stored means in the ledger under the memory's hash; a binding that the audit does not name was answered with an error; the refinement of `StoragePromise`; every request ends |
| `MCConflict` | 2 proposals, 2 supersessions, 2 turns, 1 attempt, 1 restart | conflict lock and its release; one row per route and text, also across a restart |

One turn is enough to undo a binding: it takes its copy before the proposal is
reconciled and ends after, and the promotion then binds a second row. Two attempts are the fewest with one late and one current POST; a third only
adds another late one, and the proofs hold for any number. `MCConflict` is about
the order of answers, so one attempt is enough; of its two turns one may be queued
behind the other. One memory suffices: keys, audit ids and metadata are per memory
and only the lock and the live object are shared. No run has a memory whose text
ends in white space (`Ragged`); the proofs hold with any. Requests of one route,
turns and row ids are symmetric where no liveness is checked. The two runs take
about 90 and 50 seconds.

Fairness: weak fairness of `Progress` for each request. Every `httpx` call has a
timeout, so a POST without an answer counts as failed, and asyncio resumes the
coroutine. The ledger need not do anything.

### Where the code does less than it says

Behaviours of the model that have no run of their own:

* `memory_promotion.py:298-301` "Audit events emitted: ...": of two promotions
  that pass the gate together the second raises at its reconcile
  (`memory_promotion.py:461`) and leaves no event;
* `engine.py:842` "Bind ... and audit it": a turn that overlaps a reconcile, or a
  restart, forgets a binding; the next request of the memory binds it to another row
  than the audit names, and its event cannot be added, for its id is taken
  (`engine.py:855`). The request is answered with an error, the binding stays, live
  and in later checkpoints (`BindingAccounted`);
* `docs/MEMORY_PROVENANCE.md:71-72`, on what is verified before `durably_stored`: the row
  that is retrieved is compared by the hash the ledger returns with it, not by a hash
  of its content.

Seen while modelling, and part of the model: a proposal repeated after a success
is verified, let through as bound to the same row, and then fails with an
uncaught `IntegrityError`, its event id `reconcile-<memory>` being taken
(`ReconcileRepeated`), as does the second conflict on a memory; a promotion
strips the text, so a memory that ends in white space is stored in the ledger
and can never be reconciled; `/memory/propose` locks the session on any refusal,
the other two routes on a conflict only, and it looks neither at the read-only
lock nor at an earlier binding; the keys of propose and promote differ, so one memory can have
two rows; a supersession's replacement is not retrieved and verified; the
supersede path of a promotion cannot get past its first check.

### Proofs

`ContinuityLedgerProofs` assumes `LedgerAssumption` only (distinct requests,
`None` a value of its own, at least one attempt).

* `TypeCorrect`: `Spec => []TypeOK`. Not inductive alone: that an answer names
  a row and a text of the right kind needs to be known of the request it belongs
  to, which the strengthening states.
* `StoredIsInLedger`, `LedgerKeepsPromise`: rows are only added and never
  changed, so what a retrieval has verified stays true; a request binds in an object
  that is taken already, and a turn only replaces the live and the saved state.
* `BindingsAreAccounted`: `BindingAccounted`, for any number of overlapping turns,
  requests and kills. It is inductive with the types: an audit event and an error
  both stay, and a copy has the bindings of what it was copied from.
* `BindingsAreHeld`: in every object and in the checkpoint, a memory that is bound
  has its own hash in that row and a reconciliation in the audit, if perhaps one
  that names another row.
* `ConflictsLock`: only `ApplySupersession` lifts the lock, in the step that
  adds the event.
* `RetriesStoreOnce`: rows with one key are one row, and the requests of
  `StoredOnce` have one key.

* `UnlocksAreBacked`: `UnlockIsBacked`, assuming `~Lapses`. While a supersession
  waits its memory stays bound, in the object it uses, to the row its key names
  (`BoundMeanwhile`): within an object a binding is only ever replaced by itself, a
  turn copies into an object of its own (`CopiesTaken`), and a restart ends the wait.
  That object is the one made live by the unlocking step. The row that a
  supersession is answered with holds that key. With a ledger that answers with another row than it
  wrote the statement is false, since `apply_supersession` does not retrieve the
  replacement.
* `RequestsMoveOn`: every step of a request takes it to a later one of its at most
  `Attempts` POSTs, to the retrieval or to its outcome.

Only model-checked: the liveness property `RequestsSettle`.

### Not modelled here

Payload fields other than memory, key and text; the provenance and trust checks
on the text of a proposal; previews and dry runs; `recall`; the memory leaving
the session while a request is under way (`SessionEngine` has it).

## Deliberation and the chat turn

`Deliberation` holds the rules of `brain/deliberation.py`: which evidence exists
(`evidence_from_citation`, `admit_external_suggestion`), how a sentence is linked
to it (`Linked`, `Justifies`), classified (`ClassOf`), given support
(`SupportFor`) and an action (`ActionForClass`); which claims a reply has
(`Tagged`, `Uncovered`, `ReplyClaims`); and what the gates make of them in their
order: `ClaimGate`, `CoverageGate`, `WriteLock`, `Treatment`, `Committed`. The
module has no state. Text is abstracted to what the rules ask of it: a reply is a
sequence of units, and a unit says which families of keywords it has, which
sources it shares enough words with (`cites`), which it merely mentions
(`topical`), whether it restates the request or is assertive, whether it holds
something that is taken out of an unverified answer (`loose`) and whether its text
occurs as such in the reply (`literal`).

`Treatment` says what `apply_reply_resolution` really changes. A block or an
abstention replaces the text. Otherwise a reply with a fact that lacks full support
is `Stripped` of one figure, of year tags and of an opener, and is left as it is
when it has none (`deliberation.py:952-991`); under `qualify` and `revise` the note is
added when a tagged fact or causal sentence lacks support; under `revise` a sentence
is marked as hypothesized, but only when its text, clipped and with its spaces
normalised, occurs literally (`_hedge_substantive`).

`ChatTurn` is `engine.chat` from the lock to the save, one step per await and per
call that can raise:

| Variable | Code |
|---|---|
| `pc`, `request`, `attempt` | where `chat` is, the request, the loop counter of search and recall |
| `records`, `found`, `audited` | tool records of the turn, those that brought something, and what the audit chain has |
| `evidence`, `action` | the `DeliberationRunner` |
| `decision`, `reply`, `origin`, `gate`, `shown` | the turn's decision, its text and where it came from, the outcome of `evaluate`, what `apply_reply_resolution` did to the text |
| `wrote`, `memories`, `spoken`, `outcome` | derived state, long-term memory, history, how the turn ended |

Steps: `Arrive`; the shared loop of search and recall (`QuotaGranted`,
`QuotaRefused`, `QuotaFails`, `Answers`, `TryAgain`, `GivesUp`, `SearchRaises`,
`RecallRaises`);
`UseLocalTools`; `RecordTool`, `ToolsRecorded`, `RecordRecall`; `Challenge`;
`RecordPrevious`; `ModelAnswers`, `SafeMode`, `RepliesItself` or `AuditFails`;
`Evaluate`; `Reflect`; `Evolve`; `Save` or `SaveFails`.

`TurnPromise` is the abstract specification: a turn's decision only tightens, and
memories, preferences and evolution are written only for a consented turn whose
decision is, and stays, answer. Tools, gates and texts are hidden.

### Runs

All use `MCChatTurn`.

| Run | Shows |
|---|---|
| `MCChatTurn` | types; safety-critical text that a gate sees is refused; a model's answer with a fact without any support or an unsupported causal sentence carries the note; a turn fails closed for a cause of its own; tool text is never remembered; audit precedes inference; a full memory loses its least important entry; the refinement of `TurnPromise`; every turn ends |
| `MCLongTail` | violated: `deliberation.py:1065` "so a long tail cannot skip Challenge" |
| `MCRecallOutage` | violated: `ledger_recall.py:5-6` "degrades on ledger unavailability" |

Bounds: fourteen requests that use each tool and each signal; replies of up to three
sentences out of nine kinds, of which each behaves differently at a gate or in the
treatment of the text (a causal sentence with and without literal text);
`ClaimLimit` is 6 (16 in the code) and `UncoveredLimit` 1 (8 in the code), so that
three sentences reach behind both limits; two attempts of search and recall; two
long-term memories of importance 1 or 2, so that the list overflows with a more, a
less and an equally important entry. Turns follow one another without end; the
session keeps its memories. The fixed texts of the run hold no causal and no
safety-critical sentence: the texts in `responder.py`, `llm.py`, `engine.py` and
`deliberation.py` have none of the hints that make one. No theorem assumes it.

Fairness: weak fairness of `Step`. Each await is under a timeout and asyncio
resumes the coroutine; users need not send anything.

### Where the code does less than it says

* `MCLongTail`: the claims and the uncovered sentences are each cut at a limit;
  safety-critical text behind both is part of an answer that is merely qualified.
* `MCRecallOutage`: the recall loop catches timeouts and `LedgerRecallUnavailable`
  only; an HTTP or decoding error of its client ends the turn.
* `governance/fail_closed.py:21` sets the threshold of the challenge to 0.30, while
  `fail_closed.py:6`, `docs/DELIBERATION.md:95` and `docs/CHAT_VOICE.md:125` say
  0.80; the model has both (`raised` is between them).
* A causal claim without any support is blocked (`deliberation.py:744-749`);
  `docs/DELIBERATION.md:39` speaks of a revision, which only weak support gets.
* A challenge that fails closed for stress still shows the model's text.
* The ranks of `clarify` and `fail_closed` are above `revise`, so such a challenge
  hides a claim's demand for a revision; in an answer of the model this cannot happen
  (`UnsupportedNeverPlain`). It does for the engine's own question when the user is
  to be clearer, which gets no note.
* A tagged fact that only a tool supports (`weak`) demands no more than `downgrade`.
  In an answer that nothing else qualifies it is shown as it stands, unless it holds a
  figure in millions, billions or thousands, a year tag or an opener; and of several
  figures one is taken out. `UnsupportedNeverPlain` says nothing of it.
* A causal sentence whose text was clipped, or split at other spaces, does not
  occur literally in the reply and is not marked; the note is added all the same.
* A search hit with a malformed URL raises in `url_permitted` (`search.py:171,188,244`),
  outside the error handling, and ends the turn of a user who asked for a search;
  `SearchRaises` has it. Of a search the engine started by itself it is swallowed
  (`engine.py:293-296`).
* A qualified reply leaves the turn eligible for memory. The engine never reaches
  `abstain`.
* A search runs without being asked for when the message needs a fact of the
  world (`engine.py:280-296`); `README.md:74` of the repository says only when the
  user asks to search.
* The write-path lock does not know the file search (`_TOOL_MEMORY_SOURCES`); its
  snippets keep its text out of memory all the same (`NoToolTextRemembered` needs
  both checks).
* A full memory of equal importance drops the newest entry, the one just added.
* A failing quota of a search the user asked for ends the turn; of a search the
  engine started it does not.

### Proofs

`DeliberationProofs`: `OwnEvidenceAdmits` - for every sentence and every set of
evidence, a claim is admitted only when a source of the session itself justifies
it, not a tool and not the request's context. Lemmas give the type of every
operator, the rank of what each gate leaves, and that after a challenge that lets
the turn go on the gates do what a claim demands that asks for a note or a
revision (`DemandIsMet`), so that a fact without any support, or a causal sentence
without full support, blocks the reply or has it noted, the causal sentence marked
where it is found (`GapIsMarked`).

`ChatTurnProofs`, for every set of requests and replies and every limit
(`LimitsAssumption`, `ChatAssumption`, `RequestsAssumption`):

* `TurnHolds`: `Spec => []TInv`. The invariants are not inductive: that tool text
  is not remembered depends on the evidence at `Evaluate`, which depends on what
  was audited before (`Journal`); that a refusal has a cause depends on the
  decision and the action not having been tightened by anything but the signals
  until then (`Undecided`); and what was concluded from the sentences must last
  until the save (`Judged`).
* `SafetyTextBlocks`, `FailClosedIsCaused`, `ToolTextIsNotRemembered`,
  `AuditPrecedesInference`: the invariants of `MCChatTurn`.
* `TurnKeepsPromise`: the refinement of `TurnPromise`.

`ChatSessionProofs`, for a session of any number of turns, with the same
assumptions:

* `SessionHolds`: `Spec => []SInv`. `LetThrough` says what the challenge cannot have
  asked for when a model is called; `AnswersMarked` that the claims of a judged
  answer of the model have their marks.
* `UnsupportedIsMarked`: `UnsupportedNeverPlain`. The ranks of `clarify` and
  `fail_closed` are above `revise` and could hide a claim's demand for a note or a
  revision; the first keeps the model from being asked, the second is no answer.
* `ImportantMemoriesStay`: the action property `NoImportantMemoryLost`, and with it
  `ChatTyped` (`TypeOK` with the list of memories). The sort is defined by the place
  of each entry: `AheadOrders` shows a total order, `PlacesAreBijective` that the
  places are a permutation (an injection of a finite set into itself),
  `SortedByImportance` that importance falls along them; `CutKeeps` then compares
  the entries of some importance or more before and after the cut.
* `TurnMovesOn`: every step of a turn takes it to a later stage, a later of at most
  `ToolAttempts` attempts, or leaves one record less to audit.

Only model-checked: the liveness property `TurnEnds`.

### Not modelled here

The words themselves and the matcher's thresholds; the cut of the evidence linked
to a claim at four; the runner's own stage protocol, which its one caller cannot
break; what `Simulate` records, which nothing reads; argument validation of tools,
which only configuration can fail; emotion and spiral scores.

## Inference

`generate_llm_reply` (`brain/llm.py`) for several requests at once.

| Variable | Code |
|---|---|
| `now`, `cooldown` | the monotonic clock; `_model_cooldowns`, shared by the process |
| `pc`, `began`, `slot`, `attempt`, `deadline` | where each call is, when its budget began, the loops over slots and attempts, the timeout around the provider |
| `failed`, `blocked`, `status` | `slot_failed`, `blocked_keys`, the status of the latest failure |
| `journal`, `result` | audited attempts, what the caller got |

A request gives up the event loop only while it waits for a provider. `LoopIdle`
says that no request is between two waits; `Arrive`, `Accepted`, `Failed`,
`TimedOut` and `Tick` need it, the steps between (`SkipSlot`, `EnterSlot`,
`BudgetExhausted`, `Call`, `LeaveSlot`, `SafeMode`) do not. `AuditFails` may end a
request wherever an entry is appended. A timeout that is due fires before the clock
goes on.

`MCInference` has two requests, two slots that share a credential, the first tried
twice, a budget, timeout and cooldown of two ticks and three ticks in all: long
enough that a cooldown, a timeout and the budget each end while another request
is under way. It shows that a request ends within its budget, that every slot and
every call is accounted for, that a refusal is final, that rejected credentials and
cooling models are left alone, and that every request ends. Timeouts and cooldowns
are the same for all slots, and slots of one model share its cooldown, as in the
code. Deadlock is not checked: each request is made once.

Fairness (`FairSpec`): the clock goes on and the event loop runs what is due
(`Unattended`). No provider need answer.

`InferenceProofs` assumes `InferenceAssumption` only. `RequestsAreFine` is
`Spec => []IInv`: one request runs between two waits (`OneRuns`), it is at a slot
that exists (`Placed`), its deadline is within its budget (`Timed`), what it has
written lies behind it and has one outcome (`Journaled`), each passed slot has its
entry (`Accounted`), after a refusal it only ends (`Refused`), and the slot in use
is usable (`Usable`). From it follow `InferenceTyped`, `BudgetIsKept`,
`SlotsAreAccounted`, `RefusalsAreFinal`, `CallsAreJournaled` and
`UsableSlotsAreCalled`: all of the run's properties but the liveness property
`InferenceEnds`. Of that the safety half is proved: `AttemptsAreLimited` (no slot is
tried more often than it may be) and `RequestsMoveOn` (every step of a request
takes it to a later slot, a later attempt, from an attempt to its call, or to its
end).

Seen while modelling: a further attempt at a slot does not look at the cooldown
again, so it may call a model that another request has sent to cool down; the
cooldown is of the model, not of the credential, so a rejected key of one slot makes
another slot with the same model and a good key be skipped; the file search runs a
subprocess on the event loop and stops every request meanwhile.

Not modelled: request bodies, streaming and the parsing of answers, whose outcomes
are `Faults`; the construction of the slots from the settings.

## Auth

Login flows, sessions, ownership, quotas (`auth.py`), the callback
(`routes/auth.py`), the boundary that authenticates a request (`main.py`), the entry
of the chat route, and `for_principal` of the engine.

| Variable | Code |
|---|---|
| `issued`, `flows` | flows ever started, and the rows of `auth_flows` |
| `callback`, `cookie` | each `GET /auth/callback`, the session cookie of each browser |
| `sessions`, `disabled` | `auth_sessions`, disabled users |
| `request` | each request to a protected route |
| `owner`, `parties` | `auth_conversations`, and who was let into each conversation (observer) |
| `quota`, `granted` | `auth_quota`, and the units granted (observer) |
| `client` | the Continuity client of each tenant's child engine |

Every method of `AccessStore` is one SQLite transaction and one step. A callback
waits for the identity provider between `Consume` and `Login`; a request waits for
its body between `Enter` and its route, and for its tools after it was admitted.
Everything else may happen in between, `RevokeUser` of the command line's own
process included.

| Run | Instance | Shows |
|---|---|---|
| `MCAuth` | 3 callbacks, 2 flows, 2 browsers, 2 users, 1 session of an earlier process, a cap of 2 flows and 2 sessions (1000 and 10 in the code) | a flow signs in once; a disabled account has no session; the cap holds; a login evicts only what expires first |
| `MCRequests` | 2 requests, 2 conversations, 3 stored sessions of 2 users, limits of 1, a window of 1 for search and 2 for the rest | a conversation has one party; recall goes out in the caller's name; a window grants no more than its limit |

Three callbacks over a cap of two are the fewest that evict, with a stored session
that expires before the others; two flows let one of them expire. Two requests are
the fewest that race for a unit, a client or a conversation; the stored sessions are
two of one account, one of them without a ledger token, and one of another. Flows,
callbacks, requests, conversations and browsers are symmetric; no liveness is
checked. Deadlock is not checked: callbacks and requests are used once.

There is no fairness and no liveness property: nothing in this part has to happen
unless a user or the provider acts.

`AuthProofs` assumes `AuthAssumption` and `StoredAssumption` (rows of an earlier
process are within the cap and are keyed by their tokens). `AuthHolds` is
`Spec => []AInv`: a consumed flow belongs to one callback and is out of the table
(`FlowsConsumed`), each session and each ledger token that a request or a client
holds was made for its user by a login or before this process (`SessionsMade`,
`OwnTokens`), and the three invariants that are inductive with these. The cap
rests on `NewestLeavesRoom`: what a login keeps leaves room for the row it adds.
From it: `FlowsLogInOnce`, `DisabledAreOut`, `SessionsStayCapped`,
`ConversationsHaveOneParty`, `LedgerIsAskedAsCaller`. `LoginsEvictOldest` is
`LoginEvictsOldest`, assuming that rows of an earlier process expire within
`SessionLife`, as rows made before and with the same setting do; then no row
expires after the one that a login adds, which is never the one evicted.

`AuthQuotaProofs` proves `QuotasHold`: `Spec => []QuotaHeld`. Its strengthening
`QInv` ties the rows to the grants: a scope has one row for a bucket and a window
(`OneRow`), `used` is the number of units granted for it and the row of the current
window is there as long as it has grants (`Counted`), and no unit is of a window to
come or granted twice to a request (`UnitsSpent`). The crucial step is `RecentKeeps`:
the clean-up of a charge, which looks at the bucket only, spares the current rows of
every scope with the shortest window of those that share the bucket. Users and
conversations are distinct names (`AuthAssumption`): a user is "oidc-..."
(`auth.py:166`), the bucket of a tool names tenant, owner and session
(`search.py:512`, `ledger_recall.py:364`). `AuthTyped` is `TypeOK`.

Only model-checked: nothing; there is no liveness property here.

Seen while modelling:

* The clean-up of quota rows deletes by bucket, whatever the scope (`auth.py:270`).
  Search and recall share the conversation as bucket (`search.py:512`,
  `ledger_recall.py:364`), and their windows are set separately
  (`core/config.py:149,160`): with different windows a charge of the one deletes
  current counters of the other, which then grants more than its limit.
  `QuotaHeld` is stated for the scopes with the shortest window of those they share
  a bucket with; with the defaults, which are equal, these are all.
* The requests of one account share the child engine and overwrite its client
  (`engine.py:116-127`). It is always a client of that account
  (`LedgerAskedAsCaller`), but a request of a session whose ledger token has expired
  sets it to none while another is between two of its ledger calls.
* The quota of a chat is charged before the claimed user and the conversation are
  looked at; a refused request costs a unit.
* A request that was authenticated goes on after its session was revoked.
* Two callbacks that race in one browser leave a session whose cookie nobody has;
  it goes by its expiry or by the cap.

Not modelled: the identity provider and the checks of its tokens, which fail before
any state changes (`CallbackFails`); the CSRF token and headers; the rate window per
address; a clock that steps back; refused reads, which change nothing.

## Not modelled

* The browser (`ui/*.js`): it keeps no state the server relies on.
* The search for the newest other session to recall (`recall.py:132`): it only
  reads; the seals and revocations it reads are in `SessionEngine`.
* Governance outcome rows, reports and lanes: best effort, read by reports only;
  the fail-closed signals are in `ChatTurn`.
* Speech apart from its quota, emotion, spiral state, context building and
  inspection: stateless functions on text and scores.
* The clients of the Spiral backend and of Project Infinity: their failures are
  swallowed and their answers change no ledger.
* Configuration and health checks: settings are constants of the models.
