----------------------------- MODULE SessionEngine -----------------------------
(***************************************************************************)
(* One chat session of the Jarvis engine (jarvis/brain/engine.py): the     *)
(* turns that run on it, the SQLite ledgers behind it, its read-only lock, *)
(* recovery after a restart, memory clearing, and the two governed memory  *)
(* writes (propose and supersede) that share its state.                    *)
(*                                                                         *)
(* The server is one asyncio event loop.  Code between two awaits is not   *)
(* interleaved with other coroutines, but it makes several separate SQLite *)
(* commits, each of which can fail, and the process can be killed between  *)
(* any two of them.  An action below is the code from one await, or one    *)
(* commit, to the next; the guard LoopIdle keeps other coroutines out of a *)
(* stretch that has no await in it.                                        *)
(*                                                                         *)
(* JarvisState objects are passed by reference: a turn works on a deep     *)
(* copy, while the memory routes mutate the very object they fetched       *)
(* before their awaits.  The heap makes that aliasing explicit.            *)
(***************************************************************************)
EXTENDS Naturals, Sequences, FiniteSets

CONSTANTS
    Turns,          \* POST /chat requests, each used for one turn
    Proposals,      \* POST /memory/propose requests
    Supersessions,  \* POST /memory/supersede requests
    Boot,           \* the state object made by opening the session
    None,           \* no session, no lock holder
    RecallOwner,    \* TRUE when turns are sealed for cross-session recall
    GovernedWrites, \* settings.governed_writes_allowed(); FALSE in production
    StorageFaults,  \* TRUE when a SQLite commit may raise
    MaxRestarts     \* bound: kills of the process that are explored

ASSUME SessionAssumption ==
    /\ Boot \notin Turns
    /\ None \notin Turns \cup Supersessions \cup {Boot}
    /\ Turns \cap Supersessions = {}
    /\ Proposals \cap Supersessions = {}
    /\ RecallOwner \in BOOLEAN
    /\ GovernedWrites \in BOOLEAN
    /\ StorageFaults \in BOOLEAN
    /\ MaxRestarts \in Nat

VARIABLES
    live,         \* engine._sessions[session]: the current state object
    heap,         \* contents of every JarvisState object
    lock,         \* engine._read_only_reasons[session]
    mutex,        \* holder of the per-session asyncio.Lock
    waiting,      \* FIFO of turns suspended on that lock
    pc,           \* where each turn is
    writer,       \* where each memory write is, its captured state and memory
    audit,        \* SQLite audit_events of the session, in rowid order
    checkpoints,  \* SQLite reviver_checkpoints of the session, oldest first
    signed,       \* SQLite recall_checkpoints: turns whose checkpoint is sealed
    revoked,      \* SQLite recall_revoked holds the session
    rows,         \* SQLite memories: status of every memory row
    replaces,     \* evidence of a replacement's row: the memory it supersedes
    cleared,      \* observer: turns whose text the user cleared since boot
    restarts      \* observer: kills so far

volatile == <<live, heap, lock, mutex, waiting, pc, writer, cleared>>
table    == <<rows, replaces>>
durable  == <<audit, checkpoints, signed, revoked, table>>
vars     == <<volatile, durable, restarts>>

Objects   == Turns \cup {Boot}
Writers   == Proposals \cup Supersessions
\* A memory extracted by turn t is named t, a replacement made by supersession
\* s is named s: the uuids are fresh in both cases.
Memories  == Turns \cup Supersessions

SessionState ==
    [counted : SUBSET Turns,     \* turns behind turn_count
     history : SUBSET Turns,     \* turns quoted in conversation_history
     mems    : SUBSET Memories,  \* long_term_memory
     bound   : SUBSET Memories,  \* memories with a continuity_ledger_id
     retired : SUBSET Memories]  \* memories whose metadata says superseded

EmptyState ==
    [counted |-> {}, history |-> {}, mems |-> {}, bound |-> {}, retired |-> {}]

LockReasons == {"none", "recovery", "conflict", "verification"}

\* "unsigned" is a turn whose recall seal failed; "failed" covers every other
\* request that ended without an answer.
InTurn    == {"running", "stored", "checkpointed", "signed"}
TurnPCs   == InTurn \cup {"idle", "queued", "done", "failed", "unsigned"}
WriterPCs == {"idle", "proposing", "verifying", "superseding", "archived", "replaced", "over"}

EventTypes == {"note", "spiral_turn", "memory_reconciled", "conflict_membrane", "memory_supersession"}
Event      == [type : EventTypes, of : Turns \cup Memories]
Checkpoint == [turn : Turns, anchor : Nat, state : SessionState]

Init ==
    /\ live = None
    /\ heap = [o \in Objects |-> EmptyState]
    /\ lock = "none"
    /\ mutex = None
    /\ waiting = <<>>
    /\ pc = [t \in Turns |-> "idle"]
    /\ writer = [w \in Writers |-> [pc |-> "idle", obj |-> None, mem |-> None]]
    /\ audit = <<>>
    /\ checkpoints = <<>>
    /\ signed = {}
    /\ revoked = FALSE
    /\ rows = [m \in Memories |-> "absent"]
    /\ replaces = [w \in Supersessions |-> None]
    /\ cleared = {}
    /\ restarts = 0

-----------------------------------------------------------------------------
(* The audit ledger and the checkpoint ledger.                             *)

Recorded(type, of) ==
    \E i \in DOMAIN audit : audit[i] = [type |-> type, of |-> of]

\* audit.append: event ids are a primary key, so a repeated id raises and the
\* chain is left as it was.
AppendEvent(type, of) ==
    /\ ~Recorded(type, of)
    /\ audit' = Append(audit, [type |-> type, of |-> of])

\* reviver.latest_verified: the newest row by created_at.
Newest == checkpoints[Len(checkpoints)]

\* The hash a checkpoint stores is that of the last spiral_turn event of its
\* turn.
Anchored(c) ==
    /\ c.anchor \in DOMAIN audit
    /\ audit[c.anchor] = [type |-> "spiral_turn", of |-> c.turn]
    /\ \A i \in DOMAIN audit : i > c.anchor => audit[i] # [type |-> "spiral_turn", of |-> c.turn]

\* reviver.recover: audit.verify refuses an empty chain.  Nothing in the model
\* edits a stored event, so a chain that is not empty verifies.
Recoverable == audit # <<>> /\ checkpoints # <<>> /\ Anchored(Newest)

\* Mutant: the whole row instead of its state column.
RecoveredStateIsRow == Newest

RecoveredState == Newest.state

NothingStored == audit = <<>> /\ checkpoints = <<>>

-----------------------------------------------------------------------------
(* The read-only lock and the session lock.                                *)

\* Mutant: the last reason wins.
LastReasonWins(reason) == reason

\* engine.set_read_only: the first reason wins.
LockedFor(reason) == IF lock = "none" THEN reason ELSE lock

\* Mutant: every lock is lifted.
AuthorizesAll == "none"

\* engine.authorize_session: only a conflict lock is lifted.
Authorized == IF lock = "conflict" THEN "none" ELSE lock

\* Mutant: an await between save_turn_bundle and the checkpoint.
LoopIdleAfterStore ==
    /\ \A t \in Turns : pc[t] \notin {"checkpointed", "signed"}
    /\ \A w \in Writers : writer[w].pc \notin {"archived", "replaced"}

\* No coroutine is in the middle of a stretch without awaits.
LoopIdle ==
    /\ \A t \in Turns : pc[t] \notin {"stored", "checkpointed", "signed"}
    /\ \A w \in Writers : writer[w].pc \notin {"archived", "replaced"}

\* Mutant: only the queue is looked at, not the holder.
NobodyWaits == waiting = <<>>

LockFree == mutex = None /\ waiting = <<>>

\* The turn leaves `async with session_lock` with outcome o; the first waiter
\* is woken, and takes the lock in a later iteration of the loop.
EndTurn(t, o) ==
    /\ pc' = [pc EXCEPT ![t] = o]
    /\ mutex' = None

-----------------------------------------------------------------------------
(* Opening the session: engine.get_or_create_session.                      *)

\* Mutant: a session that cannot be recovered is made anew.
CreateAnyway == live = None /\ ~Recoverable

CreateFresh   == live = None /\ NothingStored
CreateByRecovery == live = None /\ Recoverable
CannotOpen    == live = None /\ ~NothingStored /\ ~Recoverable

Recover ==
    /\ live' = Boot
    /\ heap' = [heap EXCEPT ![Boot] = RecoveredState]
    /\ lock' = LockedFor("recovery")

\* POST /sessions/resume on a session that is not loaded.  A refusal (409) and
\* a session already loaded change nothing.
Resume ==
    /\ LoopIdle
    /\ \/ /\ CreateFresh
          /\ live' = Boot
          /\ heap' = [heap EXCEPT ![Boot] = EmptyState]
          /\ UNCHANGED lock
       \/ CreateByRecovery /\ Recover
    /\ UNCHANGED <<mutex, waiting, pc, writer, cleared, durable, restarts>>

-----------------------------------------------------------------------------
(* A turn: engine.chat.                                                    *)

\* The request opens the session and finds it read-only after recovery, or
\* unrecoverable: it is refused.
ArriveAndRecover(t) ==
    /\ LoopIdle
    /\ pc[t] = "idle"
    /\ \/ CreateByRecovery /\ Recover
       \/ CannotOpen /\ UNCHANGED <<live, heap, lock>>
    /\ pc' = [pc EXCEPT ![t] = "failed"]
    /\ UNCHANGED <<mutex, waiting, writer, cleared, durable, restarts>>

\* The first request of a new session: nothing can hold its lock.
ArriveAndCreate(t) ==
    /\ LoopIdle
    /\ pc[t] = "idle"
    /\ CreateFresh
    /\ live' = Boot
    /\ heap' = [heap EXCEPT ![Boot] = EmptyState, ![t] = EmptyState]
    /\ mutex' = t
    /\ pc' = [pc EXCEPT ![t] = "running"]
    /\ UNCHANGED <<lock, waiting, writer, cleared, durable, restarts>>

\* The read-only check of a loaded session.  It is made before the session
\* lock is taken and not repeated afterwards.
ArriveReadOnly(t) ==
    /\ LoopIdle
    /\ pc[t] = "idle"
    /\ live # None
    /\ lock # "none"
    /\ pc' = [pc EXCEPT ![t] = "failed"]
    /\ UNCHANGED <<live, heap, lock, mutex, waiting, writer, cleared, durable, restarts>>

\* With the lock free the turn goes on without suspending: it copies the live
\* state and runs to its first await.
ArriveAndStart(t) ==
    /\ LoopIdle
    /\ pc[t] = "idle"
    /\ live # None
    /\ lock = "none"
    /\ LockFree
    /\ mutex' = t
    /\ heap' = [heap EXCEPT ![t] = heap[live]]
    /\ pc' = [pc EXCEPT ![t] = "running"]
    /\ UNCHANGED <<live, lock, waiting, writer, cleared, durable, restarts>>

ArriveAndWait(t) ==
    /\ LoopIdle
    /\ pc[t] = "idle"
    /\ live # None
    /\ lock = "none"
    /\ ~LockFree
    /\ waiting' = Append(waiting, t)
    /\ pc' = [pc EXCEPT ![t] = "queued"]
    /\ UNCHANGED <<live, heap, lock, mutex, writer, cleared, durable, restarts>>

\* The woken waiter takes the lock and copies the state that is live now.
Acquire(t) ==
    /\ LoopIdle
    /\ mutex = None
    /\ waiting # <<>>
    /\ Head(waiting) = t
    /\ mutex' = t
    /\ waiting' = Tail(waiting)
    /\ heap' = [heap EXCEPT ![t] = heap[live]]
    /\ pc' = [pc EXCEPT ![t] = "running"]
    /\ UNCHANGED <<live, lock, writer, cleared, durable, restarts>>

\* Audit entries written between the awaits of a turn: tool calls, recall,
\* inference attempts.  One entry per turn stands for all of them.
Note(t) ==
    /\ LoopIdle
    /\ pc[t] = "running"
    /\ AppendEvent("note", t)
    /\ UNCHANGED <<volatile, checkpoints, signed, revoked, table, restarts>>

\* The turn raises before anything of it is stored: the provider or an audit
\* append fails, or save_turn_bundle rolls back.
AbortTurn(t) ==
    /\ LoopIdle
    /\ pc[t] = "running"
    /\ EndTurn(t, "failed")
    /\ UNCHANGED <<live, heap, lock, waiting, writer, cleared, durable, restarts>>

WithTurn(state, t, extracted) ==
    [state EXCEPT !.counted = @ \cup {t}, !.history = @ \cup {t}, !.mems = @ \cup extracted]

\* Mutant: the memory row is left out of the bundle.
StoreWithoutMemory(t) ==
    /\ LoopIdle
    /\ pc[t] = "running"
    /\ \E extracted \in {{}, {t}} : heap' = [heap EXCEPT ![t] = WithTurn(heap[t], t, extracted)]
    /\ AppendEvent("spiral_turn", t)
    /\ pc' = [pc EXCEPT ![t] = "stored"]
    /\ UNCHANGED <<live, lock, mutex, waiting, writer, cleared, checkpoints, signed, revoked, table, restarts>>

\* The turn updates its copy, then store.save_turn_bundle commits the turn row,
\* its audit event and the extracted memory (when there is one) together.
StoreTurn(t) ==
    /\ LoopIdle
    /\ pc[t] = "running"
    /\ \E extracted \in {{}, {t}} :
          /\ heap' = [heap EXCEPT ![t] = WithTurn(heap[t], t, extracted)]
          /\ rows' = [m \in Memories |-> IF m \in extracted THEN "draft" ELSE rows[m]]
    /\ AppendEvent("spiral_turn", t)
    /\ pc' = [pc EXCEPT ![t] = "stored"]
    /\ UNCHANGED <<live, lock, mutex, waiting, writer, cleared, checkpoints, signed, revoked, replaces, restarts>>

\* reviver.save: the checkpoint carries the hash of the last audit event.
SaveCheckpoint(t) ==
    /\ pc[t] = "stored"
    /\ checkpoints' = Append(checkpoints, [turn |-> t, anchor |-> Len(audit), state |-> heap[t]])
    /\ pc' = [pc EXCEPT ![t] = "checkpointed"]
    /\ UNCHANGED <<live, heap, lock, mutex, waiting, writer, cleared, audit, signed, revoked, table, restarts>>

\* reviver.save (or the read of the audit chain before it) raises: the turn
\* is stored without a checkpoint, the session is not locked.
CheckpointFails(t) ==
    /\ StorageFaults
    /\ pc[t] = "stored"
    /\ EndTurn(t, "failed")
    /\ UNCHANGED <<live, heap, lock, waiting, writer, cleared, durable, restarts>>

\* recall.attest: recovers the newest checkpoint and insists that it is the
\* state being saved.
Attest(t) ==
    /\ RecallOwner
    /\ pc[t] = "checkpointed"
    /\ Recoverable
    /\ Newest.state = heap[t]
    /\ signed' = signed \cup {Newest.turn}
    /\ pc' = [pc EXCEPT ![t] = "signed"]
    /\ UNCHANGED <<live, heap, lock, mutex, waiting, writer, cleared, audit, checkpoints, revoked, table, restarts>>

\* Mutant: the error leaves the session lock held.
AttestFailsHolding(t) ==
    /\ RecallOwner
    /\ pc[t] = "checkpointed"
    /\ StorageFaults \/ ~Recoverable \/ Newest.state # heap[t]
    /\ lock' = LockedFor("verification")
    /\ pc' = [pc EXCEPT ![t] = "unsigned"]
    /\ UNCHANGED <<live, heap, mutex, waiting, writer, cleared, durable, restarts>>

\* The seal cannot be confirmed: the session is locked and the turn raises.
AttestFails(t) ==
    /\ RecallOwner
    /\ pc[t] = "checkpointed"
    /\ StorageFaults \/ ~Recoverable \/ Newest.state # heap[t]
    /\ lock' = LockedFor("verification")
    /\ EndTurn(t, "unsigned")
    /\ UNCHANGED <<live, heap, waiting, writer, cleared, durable, restarts>>

\* Mutant: the reply does not wait for the seal.
AnswerUnsealed(t) ==
    /\ pc[t] \in {"checkpointed", "signed"}
    /\ live' = t
    /\ EndTurn(t, "done")
    /\ UNCHANGED <<heap, lock, waiting, writer, cleared, durable, restarts>>

\* _save_session: the copy becomes the live state and the reply is returned.
Answer(t) ==
    /\ pc[t] = IF RecallOwner THEN "signed" ELSE "checkpointed"
    /\ live' = t
    /\ EndTurn(t, "done")
    /\ UNCHANGED <<heap, lock, waiting, writer, cleared, durable, restarts>>

-----------------------------------------------------------------------------
(* DELETE /memory: engine.clear_memory, which does not take the lock.      *)

Forgotten(state) ==
    [state EXCEPT !.history = {}, !.mems = {}, !.bound = {}, !.retired = {}]

ClearMemory ==
    /\ LoopIdle
    /\ live # None
    /\ revoked' = TRUE
    /\ cleared' = cleared \cup heap[live].history
    /\ heap' = [heap EXCEPT ![live] = Forgotten(heap[live])]
    /\ UNCHANGED <<live, lock, mutex, waiting, pc, writer, audit, checkpoints, signed, table, restarts>>

-----------------------------------------------------------------------------
(* POST /memory/propose: routes/chat.py propose_memory.                    *)

Busy(w, p) == writer' = [writer EXCEPT ![w].pc = p]
Over(w)    == writer' = [writer EXCEPT ![w] = [pc |-> "over", obj |-> None, mem |-> None]]

\* The route fetches the live state and the memory, then awaits the ledger.
\* It takes no lock and does not look at the read-only reason.
Propose(w) ==
    /\ LoopIdle
    /\ GovernedWrites
    /\ writer[w].pc = "idle"
    /\ live # None
    /\ \E m \in heap[live].mems : writer' = [writer EXCEPT ![w] = [pc |-> "proposing", obj |-> live, mem |-> m]]
    /\ UNCHANGED <<live, heap, lock, mutex, waiting, pc, cleared, durable, restarts>>

\* Unavailable, simulated or unconfirmed by the ledger, or not retrievable.
ProposalRejected(w) ==
    /\ LoopIdle
    /\ writer[w].pc \in {"proposing", "verifying"}
    /\ Over(w)
    /\ UNCHANGED <<live, heap, lock, mutex, waiting, pc, cleared, durable, restarts>>

\* Conflict or refusal: the session is locked first, then the event is
\* appended; a second conflict on the same memory raises at the append.
ProposalConflict(w) ==
    /\ LoopIdle
    /\ writer[w].pc = "proposing"
    /\ lock' = LockedFor("conflict")
    /\ \/ AppendEvent("conflict_membrane", writer[w].mem)
       \/ /\ StorageFaults \/ Recorded("conflict_membrane", writer[w].mem)
          /\ UNCHANGED audit
    /\ Over(w)
    /\ UNCHANGED <<live, heap, mutex, waiting, pc, cleared, checkpoints, signed, revoked, table, restarts>>

ProposalAccepted(w) ==
    /\ LoopIdle
    /\ writer[w].pc = "proposing"
    /\ Busy(w, "verifying")
    /\ UNCHANGED <<live, heap, lock, mutex, waiting, pc, cleared, durable, restarts>>

WithBinding(state, m) == [state EXCEPT !.bound = @ \cup {m}]

\* engine.reconcile_proposed_memory on the state captured before the awaits:
\* the metadata is changed in place, then the event is appended, then the
\* captured object becomes the live one.  A memory that is gone is refused; a
\* failed append leaves the metadata changed and the live reference alone.
Reconcile(w) ==
    LET s == writer[w].obj
        m == writer[w].mem
    IN  /\ LoopIdle
        /\ writer[w].pc = "verifying"
        /\ m \in heap[s].mems
        /\ heap' = [heap EXCEPT ![s] = WithBinding(heap[s], m)]
        /\ \/ AppendEvent("memory_reconciled", m) /\ live' = s
           \/ /\ StorageFaults \/ Recorded("memory_reconciled", m)
              /\ UNCHANGED <<audit, live>>
        /\ Over(w)
        /\ UNCHANGED <<lock, mutex, waiting, pc, cleared, checkpoints, signed, revoked, table, restarts>>

-----------------------------------------------------------------------------
(* POST /memory/supersede: routes/chat.py and engine.apply_supersession.   *)

Supersede(w) ==
    /\ LoopIdle
    /\ GovernedWrites
    /\ writer[w].pc = "idle"
    /\ live # None
    /\ \E m \in heap[live].mems \cap heap[live].bound :
          writer' = [writer EXCEPT ![w] = [pc |-> "superseding", obj |-> live, mem |-> m]]
    /\ UNCHANGED <<live, heap, lock, mutex, waiting, pc, cleared, durable, restarts>>

\* Unavailable, unconfirmed or refused; a conflict also locks the session.
SupersessionRejected(w) ==
    /\ LoopIdle
    /\ writer[w].pc = "superseding"
    /\ lock' \in {lock, LockedFor("conflict")}
    /\ Over(w)
    /\ UNCHANGED <<live, heap, mutex, waiting, pc, cleared, durable, restarts>>

WithRetired(state, m) == [state EXCEPT !.retired = @ \cup {m}]

WithReplacement(state, m, new) ==
    [state EXCEPT !.retired = @ \cup {m}, !.mems = @ \cup {new}, !.bound = @ \cup {new}]

\* The old claim is retired in memory and in its row, if it has one (first
\* commit), and the replacement is added to the captured state.
Archive(w) ==
    LET s == writer[w].obj
        m == writer[w].mem
    IN  /\ LoopIdle
        /\ writer[w].pc = "superseding"
        /\ m \in heap[s].mems \cap heap[s].bound
        /\ \/ /\ heap' = [heap EXCEPT ![s] = WithReplacement(heap[s], m, w)]
              /\ rows' = [rows EXCEPT ![m] = IF @ = "absent" THEN @ ELSE "superseded"]
              /\ Busy(w, "archived")
           \/ /\ StorageFaults
              /\ heap' = [heap EXCEPT ![s] = WithRetired(heap[s], m)]
              /\ UNCHANGED rows
              /\ Over(w)
        /\ UNCHANGED <<live, lock, mutex, waiting, pc, cleared, audit, checkpoints, signed, revoked, replaces, restarts>>

\* Mutant: the replacement row is not written.
ReplacementUnsaved(w) ==
    /\ writer[w].pc = "archived"
    /\ Busy(w, "replaced")
    /\ UNCHANGED <<live, heap, lock, mutex, waiting, pc, cleared, audit, checkpoints, signed, revoked, table, restarts>>

\* store.save_memory: the replacement row, which names the memory it supersedes
\* (second commit).
SaveReplacement(w) ==
    /\ writer[w].pc = "archived"
    /\ \/ /\ rows' = [rows EXCEPT ![w] = "draft"]
          /\ replaces' = [replaces EXCEPT ![w] = writer[w].mem]
          /\ Busy(w, "replaced")
       \/ /\ StorageFaults
          /\ UNCHANGED table
          /\ Over(w)
    /\ UNCHANGED <<live, heap, lock, mutex, waiting, pc, cleared, audit, checkpoints, signed, revoked, restarts>>

\* The audit event (third commit), the live reference, and the conflict lock.
\* A memory superseded before raises at the append.
FinishSupersession(w) ==
    /\ writer[w].pc = "replaced"
    /\ \/ /\ AppendEvent("memory_supersession", writer[w].mem)
          /\ live' = writer[w].obj
          /\ lock' = Authorized
       \/ /\ StorageFaults \/ Recorded("memory_supersession", writer[w].mem)
          /\ UNCHANGED <<audit, live, lock>>
    /\ Over(w)
    /\ UNCHANGED <<heap, mutex, waiting, pc, cleared, checkpoints, signed, revoked, table, restarts>>

\* The captured state no longer has the memory (or its ledger id): ValueError.
MemoryGone(w) ==
    LET s == heap[writer[w].obj]
        m == writer[w].mem
    IN  /\ LoopIdle
        /\ \/ writer[w].pc = "verifying" /\ m \notin s.mems
           \/ writer[w].pc = "superseding" /\ m \notin s.mems \cap s.bound
        /\ Over(w)
        /\ UNCHANGED <<live, heap, lock, mutex, waiting, pc, cleared, durable, restarts>>

-----------------------------------------------------------------------------
(* The process is killed and started again: SQLite survives, nothing else. *)

Restart ==
    /\ restarts < MaxRestarts
    /\ restarts' = restarts + 1
    /\ live' = None
    /\ heap' = [o \in Objects |-> EmptyState]
    /\ lock' = "none"
    /\ mutex' = None
    /\ waiting' = <<>>
    /\ pc' = [t \in Turns |-> IF pc[t] \in {"idle", "done"} THEN pc[t] ELSE "failed"]
    /\ writer' = [w \in Writers |->
                    [pc |-> IF writer[w].pc = "idle" THEN "idle" ELSE "over", obj |-> None, mem |-> None]]
    /\ cleared' = {}
    /\ UNCHANGED durable

Arrive(t) ==
    \/ ArriveAndRecover(t) \/ ArriveAndCreate(t) \/ ArriveReadOnly(t)
    \/ ArriveAndStart(t) \/ ArriveAndWait(t)

\* What the event loop does for a turn that is under way.
Progress(t) ==
    \/ Acquire(t)
    \/ AbortTurn(t) \/ StoreTurn(t)
    \/ SaveCheckpoint(t) \/ CheckpointFails(t)
    \/ Attest(t) \/ AttestFails(t) \/ Answer(t)

TurnStep(t) == Arrive(t) \/ Note(t) \/ Progress(t)

ProposalStep(w) ==
    \/ Propose(w) \/ ProposalRejected(w) \/ ProposalConflict(w)
    \/ ProposalAccepted(w) \/ Reconcile(w) \/ MemoryGone(w)

SupersessionStep(w) ==
    \/ Supersede(w) \/ SupersessionRejected(w) \/ Archive(w)
    \/ SaveReplacement(w) \/ FinishSupersession(w) \/ MemoryGone(w)

Next ==
    \/ \E t \in Turns : TurnStep(t)
    \/ \E w \in Proposals : ProposalStep(w)
    \/ \E w \in Supersessions : SupersessionStep(w)
    \/ Resume
    \/ ClearMemory
    \/ Restart

Spec == Init /\ [][Next]_vars

\* Every await of a turn is bounded by a timeout (tools, recall, inference,
\* evolution), so a turn that holds the lock goes on or raises; the stretches
\* without awaits run to their end; asyncio wakes the first waiter.  Requests
\* and replies of the ledger are not assumed to come.
FairSpec ==
    /\ Spec
    /\ \A t \in Turns : WF_vars(Progress(t))
    /\ \A w \in Supersessions : WF_vars(SaveReplacement(w) \/ FinishSupersession(w))

-----------------------------------------------------------------------------
(* Properties.                                                             *)

StoredTurns == {t \in Turns : Recorded("spiral_turn", t)}

\* Turns whose reply was returned to the client.
Answered == {t \in Turns : pc[t] = "done"}

Settled == {"done", "failed", "unsigned"}

\* The type invariant.
TypeOK ==
    /\ live \in Objects \cup {None}
    /\ heap \in [Objects -> SessionState]
    /\ lock \in LockReasons
    /\ mutex \in Turns \cup {None}
    /\ waiting \in Seq(Turns)
    /\ pc \in [Turns -> TurnPCs]
    /\ writer \in [Writers -> [pc : WriterPCs, obj : Objects \cup {None}, mem : Memories \cup {None}]]
    /\ audit \in Seq(Event)
    /\ checkpoints \in Seq(Checkpoint)
    /\ signed \in SUBSET Turns
    /\ revoked \in BOOLEAN
    /\ rows \in [Memories -> {"absent", "draft", "superseded"}]
    /\ replaces \in [Supersessions -> Memories \cup {None}]
    /\ cleared \in SUBSET Turns
    /\ restarts \in Nat

\* A reply the client received is on disk: its turn is in the audit chain, a
\* checkpoint taken for it contains it, and under a recall owner that
\* checkpoint is sealed.  Whatever fails or is killed between the commits of
\* chat(), the reply is not returned before the last of them.
AnsweredIsDurable ==
    \A t \in Answered :
        /\ t \in StoredTurns
        /\ \E i \in DOMAIN checkpoints :
              checkpoints[i].turn = t /\ t \in checkpoints[i].state.counted
        /\ RecallOwner => t \in signed

\* No answered turn is lost: the live state and the checkpoint that the next
\* restart would load both contain every turn the client saw answered, through
\* failed turns, queued turns, clears and restarts.  It holds while governed
\* writes are off (always, in production).
AnsweredNeverLost ==
    /\ live # None => Answered \subseteq heap[live].counted
    /\ checkpoints # <<>> => Answered \subseteq Newest.state.counted

\* Every checkpoint points at the audit event of its own turn, so a session
\* that has a checkpoint can always be recovered: no coroutine gets an event
\* in between the turn's event and the read of the last hash.
CheckpointsAnchored ==
    \A i \in DOMAIN checkpoints : Anchored(checkpoints[i])

\* After recovery the session stays as recovered until the next restart: the
\* lock is not lifted, no turn starts, no turn is stored.
RecoveredStaysFrozen ==
    [][lock = "recovery" /\ restarts' = restarts =>
        /\ lock' = "recovery"
        /\ StoredTurns' = StoredTurns
        /\ mutex' = None]_vars

\* A session's lock reason, once set, changes in one way only: a conflict lock
\* is lifted in the step that audits a supersession.
OnlySupersessionUnlocks ==
    [][lock # "none" /\ restarts' = restarts /\ lock' # lock =>
        /\ lock = "conflict"
        /\ lock' = "none"
        /\ \E w \in Supersessions :
              /\ writer[w].pc = "replaced"
              /\ audit' = Append(audit, [type |-> "memory_supersession", of |-> writer[w].mem])]_vars

\* "Lock rather than continue with live state behind durable state"
\* (engine.py:713): an unlocked session at rest holds every stored turn.
LiveNeverBehind ==
    live # None /\ lock = "none" /\ LockFree => StoredTurns \subseteq heap[live].counted

\* Each of the three commits of a supersession finds the ones before it on
\* disk, whichever of them fails, and wherever the process is killed: an audited
\* supersession has a replacement row that names the superseded memory, and a
\* memory that such a row names is no draft any more.
SupersessionComplete ==
    \A m \in Memories :
        /\ Recorded("memory_supersession", m) => \E w \in Supersessions : replaces[w] = m
        /\ \A w \in Supersessions : replaces[w] = m => rows[w] # "absent" /\ rows[m] # "draft"

\* The states that requests see or the next restart may load.
Seen == {heap[o] : o \in Objects \cap {live}} \cup {checkpoints[i].state : i \in DOMAIN checkpoints}

\* Every memory that a session shows, now or after recovery, has a row in
\* SQLite, through failing commits and kills; but a replacement whose row could
\* not be saved stays in the state.
LiveMemoriesHaveRows ==
    LoopIdle => \A state \in Seen : \A m \in state.mems :
        rows[m] = "absent" => StorageFaults /\ m \in Supersessions

\* Every turn that arrived is answered or ends with an error: no interleaving
\* of failures and queued turns leaves the session lock held for ever.
TurnsSettle ==
    \A t \in Turns : pc[t] # "idle" ~> pc[t] \in Settled

\* The session keeps the promise of SessionPromise: it is open while the
\* process that created it has it, frozen once a restart has recovered it.
Mode == IF live = None THEN "closed" ELSE IF lock = "recovery" THEN "frozen" ELSE "open"

Promise == INSTANCE SessionPromise WITH
    mode <- Mode, stored <- StoredTurns, answered <- Answered

KeepsPromise == Promise!Spec

=============================================================================
