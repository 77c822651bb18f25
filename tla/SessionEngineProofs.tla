-------------------------- MODULE SessionEngineProofs --------------------------
(***************************************************************************)
(* Theorems about SessionEngine, for every number of turns, memory writes  *)
(* and restarts.                                                           *)
(***************************************************************************)
EXTENDS SessionEngine, SequenceTheorems, TLAPS

-----------------------------------------------------------------------------
(* Type correctness.                                                       *)

ActivePCs == {"proposing", "verifying", "superseding", "archived", "replaced"}

\* The captured object of a write that is under way is an object, its memory a
\* memory: None stands for neither.
WriterTyped ==
    \A w \in Writers : writer[w].pc \in ActivePCs =>
        writer[w].obj \in Objects /\ writer[w].mem \in Memories

\* The session lock is held by the turn that is at work, and the turns in its
\* queue are the queued ones, once each.
LockDiscipline ==
    /\ \A t \in Turns : pc[t] \in InTurn <=> mutex = t
    /\ \A i \in DOMAIN waiting : pc[waiting[i]] = "queued"
    /\ \A i, j \in DOMAIN waiting : waiting[i] = waiting[j] => i = j

\* Nobody holds or waits for the lock of a session that is closed or frozen, and
\* a closed one has no reason to be read-only and no write under way.
QuietUnlessOpen ==
    /\ live = None \/ lock = "recovery" => mutex = None /\ waiting = <<>>
    /\ live = None => lock = "none" /\ \A w \in Writers : writer[w].pc \notin ActivePCs

\* A turn and a memory write are never both between two commits.
OneStretch ==
    \A t \in Turns, w \in Writers :
        ~(pc[t] \in {"stored", "checkpointed", "signed"} /\ writer[w].pc \in {"archived", "replaced"})

Typed == TypeOK /\ WriterTyped

Control == LockDiscipline /\ QuietUnlessOpen /\ OneStretch

CInv == Typed /\ Control

LEMMA EmptyTyped == EmptyState \in SessionState
BY DEF EmptyState, SessionState

LEMMA InitTyped == Init => Typed
<1> SUFFICES ASSUME Init PROVE Typed
    OBVIOUS
<1>1. heap \in [Objects -> SessionState]
    BY EmptyTyped DEF Init
<1>2. pc \in [Turns -> TurnPCs]
    BY DEF Init, TurnPCs
<1>3. writer \in [Writers -> [pc : WriterPCs, obj : Objects \cup {None}, mem : Memories \cup {None}]]
    BY DEF Init, WriterPCs
<1>4. waiting \in Seq(Turns) /\ audit \in Seq(Event) /\ checkpoints \in Seq(Checkpoint)
    BY EmptySeq DEF Init
<1>5. rows \in [Memories -> {"absent", "draft", "superseded"}]
    BY DEF Init
<1>a. replaces \in [Supersessions -> Memories \cup {None}]
    BY DEF Init
<1>6. TypeOK
    <2> USE DEF Init
    <2>1. live \in Objects \cup {None} /\ mutex \in Turns \cup {None}
        OBVIOUS
    <2>2. lock \in LockReasons /\ revoked \in BOOLEAN
        BY DEF LockReasons
    <2>3. signed \in SUBSET Turns /\ cleared \in SUBSET Turns
        OBVIOUS
    <2>4. restarts \in Nat
        OBVIOUS
    <2> QED
        BY <1>1, <1>2, <1>3, <1>4, <1>5, <1>a, <2>1, <2>2, <2>3, <2>4 DEF TypeOK
<1>7. WriterTyped
    BY DEF Init, WriterTyped, ActivePCs
<1> QED
    BY <1>6, <1>7 DEF Typed

LEMMA NewestTyped ==
    ASSUME TypeOK, checkpoints # <<>>
    PROVE  Len(checkpoints) \in DOMAIN checkpoints /\ Newest \in Checkpoint
<1>1. checkpoints \in Seq(Checkpoint)
    BY DEF TypeOK
<1> QED
    BY <1>1, EmptySeq, LenProperties DEF Newest

LEMMA ArriveTyped ==
    ASSUME CInv, NEW t \in Turns, Arrive(t)
    PROVE  Typed'
<1> USE DEF CInv, Typed, TypeOK, WriterTyped, volatile, durable, table
<1>1. CASE ArriveAndRecover(t)
    <2>1. pc' \in [Turns -> TurnPCs]
        BY <1>1 DEF ArriveAndRecover, TurnPCs
    <2>2. live' \in Objects \cup {None} /\ lock' \in LockReasons
        BY <1>1 DEF ArriveAndRecover, Recover, LockedFor, LockReasons, Objects
    <2>3. heap' \in [Objects -> SessionState]
        <3>1. CASE checkpoints # <<>>
            BY <1>1, <3>1, NewestTyped DEF ArriveAndRecover, Recover, RecoveredState, Checkpoint
        <3>2. CASE checkpoints = <<>>
            BY <1>1, <3>2 DEF ArriveAndRecover, CreateByRecovery, Recoverable
        <3> QED
            BY <3>1, <3>2
    <2> QED
        BY <1>1, <2>1, <2>2, <2>3 DEF ArriveAndRecover
<1>2. CASE ArriveAndCreate(t)
    BY <1>2, EmptyTyped DEF ArriveAndCreate, TurnPCs, InTurn, Objects
<1>3. CASE ArriveReadOnly(t)
    BY <1>3 DEF ArriveReadOnly, TurnPCs
<1>4. CASE ArriveAndStart(t)
    BY <1>4 DEF ArriveAndStart, TurnPCs, InTurn, Objects
<1>5. CASE ArriveAndWait(t)
    BY <1>5, AppendProperties DEF ArriveAndWait, TurnPCs
<1> QED
    BY <1>1, <1>2, <1>3, <1>4, <1>5 DEF Arrive

LEMMA EventTyped ==
    ASSUME TypeOK, NEW type \in EventTypes, NEW of \in Turns \cup Memories, AppendEvent(type, of)
    PROVE  audit' \in Seq(Event)
BY AppendProperties DEF TypeOK, AppendEvent, Event

\* The updates of a session state are session states.
LEMMA WithTurnTyped ==
    ASSUME NEW state \in SessionState, NEW t \in Turns, NEW extracted \in SUBSET Memories
    PROVE  WithTurn(state, t, extracted) \in SessionState
BY DEF WithTurn, SessionState

LEMMA ForgottenTyped ==
    ASSUME NEW state \in SessionState PROVE Forgotten(state) \in SessionState
BY DEF Forgotten, SessionState

LEMMA WriteTyped ==
    ASSUME NEW state \in SessionState, NEW m \in Memories, NEW new \in Memories
    PROVE  /\ WithBinding(state, m) \in SessionState
           /\ WithRetired(state, m) \in SessionState
           /\ WithReplacement(state, m, new) \in SessionState
BY DEF WithBinding, WithRetired, WithReplacement, SessionState

LEMMA TurnTyped ==
    ASSUME CInv, NEW t \in Turns, Progress(t) \/ Note(t)
    PROVE  Typed'
<1> USE DEF CInv, Typed, TypeOK, WriterTyped, volatile, durable, table
<1>1. CASE Acquire(t)
    <2>1. waiting' \in Seq(Turns)
        BY <1>1, HeadTailProperties DEF Acquire
    <2>2. live \in Objects
        BY <1>1 DEF Acquire, Control, QuietUnlessOpen
    <2>3. heap' \in [Objects -> SessionState]
        BY <1>1, <2>2 DEF Acquire, Objects
    <2> QED
        BY <1>1, <2>1, <2>3 DEF Acquire, TurnPCs, InTurn
<1>2. CASE Note(t)
    BY <1>2, EventTyped DEF Note, EventTypes
<1>3. CASE AbortTurn(t)
    BY <1>3 DEF AbortTurn, EndTurn, TurnPCs
<1>4. CASE StoreTurn(t)
    <2>1. PICK extracted \in {{}, {t}} :
             /\ heap' = [heap EXCEPT ![t] = WithTurn(heap[t], t, extracted)]
             /\ rows' = [m \in Memories |-> IF m \in extracted THEN "draft" ELSE rows[m]]
        BY <1>4 DEF StoreTurn
    <2>2. t \in Objects /\ extracted \in SUBSET Memories
        BY DEF Objects, Memories
    <2>3. heap' \in [Objects -> SessionState]
        BY <2>1, <2>2, WithTurnTyped
    <2>4. audit' \in Seq(Event)
        BY <1>4, EventTyped DEF StoreTurn, EventTypes
    <2>5. rows' \in [Memories -> {"absent", "draft", "superseded"}]
        BY <2>1
    <2> QED
        BY <1>4, <2>3, <2>4, <2>5 DEF StoreTurn, TurnPCs, InTurn
<1>5. CASE SaveCheckpoint(t)
    <2>1. [turn |-> t, anchor |-> Len(audit), state |-> heap[t]] \in Checkpoint
        BY LenProperties DEF Checkpoint, Objects
    <2>2. checkpoints' \in Seq(Checkpoint)
        BY <1>5, <2>1, AppendProperties DEF SaveCheckpoint
    <2> QED
        BY <1>5, <2>2 DEF SaveCheckpoint, TurnPCs, InTurn
<1>6. CASE CheckpointFails(t)
    BY <1>6 DEF CheckpointFails, EndTurn, TurnPCs
<1>7. CASE Attest(t)
    <2>1. Newest \in Checkpoint
        BY <1>7, NewestTyped DEF Attest, Recoverable
    <2> QED
        BY <1>7, <2>1 DEF Attest, TurnPCs, InTurn, Checkpoint
<1>8. CASE AttestFails(t)
    BY <1>8 DEF AttestFails, EndTurn, TurnPCs, LockedFor, LockReasons
<1>9. CASE Answer(t)
    BY <1>9 DEF Answer, EndTurn, TurnPCs, Objects
<1> QED
    BY <1>1, <1>2, <1>3, <1>4, <1>5, <1>6, <1>7, <1>8, <1>9 DEF Progress

LEMMA WriterPCsListed == ActivePCs \cup {"idle", "over"} = WriterPCs
BY DEF ActivePCs, WriterPCs

WriterRecords == [pc : WriterPCs, obj : Objects \cup {None}, mem : Memories \cup {None}]

\* A write that goes on keeps what it captured, one that ends drops it.
LEMMA WriterMoves ==
    ASSUME Typed, NEW w \in Writers, writer[w].pc \in ActivePCs,
           Over(w) \/ \E p \in ActivePCs : Busy(w, p)
    PROVE  writer' \in [Writers -> WriterRecords] /\ WriterTyped'
<1> USE DEF Typed, TypeOK, WriterTyped, WriterRecords
<1>1. CASE Over(w)
    BY <1>1, WriterPCsListed DEF Over, ActivePCs
<1>2. ASSUME NEW p \in ActivePCs, Busy(w, p)
      PROVE  writer' \in [Writers -> WriterRecords] /\ WriterTyped'
    <2>1. p \in WriterPCs
        BY WriterPCsListed
    <2>2. writer' \in [Writers -> WriterRecords]
        <3>1. writer \in [Writers -> WriterRecords] /\ writer[w] \in WriterRecords
            OBVIOUS
        <3>2. [writer[w] EXCEPT !.pc = p] \in WriterRecords
            BY <2>1, <3>1
        <3> HIDE DEF Typed, TypeOK, WriterTyped, WriterRecords
        <3> QED
            BY <1>2, <3>1, <3>2 DEF Busy
    <2>3. \A v \in Writers : writer'[v].obj = writer[v].obj /\ writer'[v].mem = writer[v].mem
        BY <1>2 DEF Busy
    <2>4. \A v \in Writers : v # w => writer'[v].pc = writer[v].pc
        BY <1>2 DEF Busy
    <2> QED
        BY <2>2, <2>3, <2>4
<1> QED
    BY <1>1, <1>2

LEMMA ProposalTyped ==
    ASSUME CInv, NEW w \in Proposals, ProposalStep(w)
    PROVE  Typed'
<1> USE DEF CInv, Typed, TypeOK, WriterTyped, volatile, durable, table, Busy, Over
<1>0. w \in Writers
    BY DEF Writers
<1>1. CASE Propose(w)
    <2>1. PICK m \in heap[live].mems :
             writer' = [writer EXCEPT ![w] = [pc |-> "proposing", obj |-> live, mem |-> m]]
        BY <1>1 DEF Propose
    <2>2. live \in Objects /\ m \in Memories
        BY <1>1 DEF Propose, SessionState
    <2> QED
        BY <1>0, <1>1, <2>1, <2>2, WriterPCsListed DEF Propose, ActivePCs
<1>2. CASE ProposalRejected(w)
    BY <1>0, <1>2, WriterPCsListed DEF ProposalRejected, ActivePCs
<1>3. CASE ProposalConflict(w)
    <2>1. audit' \in Seq(Event)
        BY <1>0, <1>3, EventTyped DEF ProposalConflict, EventTypes, ActivePCs
    <2> QED
        BY <1>0, <1>3, <2>1, WriterPCsListed DEF ProposalConflict, LockedFor, LockReasons, ActivePCs
<1>4. CASE ProposalAccepted(w)
    <2>1. writer' \in [Writers -> WriterRecords] /\ WriterTyped'
        BY <1>0, <1>4, WriterMoves DEF ProposalAccepted, ActivePCs
    <2> QED
        BY <1>4, <2>1 DEF ProposalAccepted, WriterRecords
<1>5. CASE Reconcile(w)
    <2> DEFINE s == writer[w].obj
               m == writer[w].mem
    <2>1. s \in Objects /\ m \in Memories
        BY <1>0, <1>5 DEF Reconcile, ActivePCs
    <2>2. heap' \in [Objects -> SessionState]
        BY <1>5, <2>1, WriteTyped DEF Reconcile
    <2>3. audit' \in Seq(Event)
        BY <1>5, <2>1, EventTyped DEF Reconcile, EventTypes
    <2>4. live' \in Objects \cup {None}
        BY <1>5, <2>1 DEF Reconcile
    <2> QED
        BY <1>0, <1>5, <2>2, <2>3, <2>4, WriterPCsListed DEF Reconcile, ActivePCs
<1>6. CASE MemoryGone(w)
    BY <1>0, <1>6, WriterPCsListed DEF MemoryGone, ActivePCs
<1> QED
    BY <1>1, <1>2, <1>3, <1>4, <1>5, <1>6 DEF ProposalStep

LEMMA SupersessionTyped ==
    ASSUME CInv, NEW w \in Supersessions, SupersessionStep(w)
    PROVE  Typed'
<1> USE DEF CInv, Typed, TypeOK, WriterTyped, volatile, durable, table, Busy, Over
<1>0. w \in Writers /\ w \in Memories
    BY DEF Writers, Memories
<1>1. CASE Supersede(w)
    <2>1. PICK m \in heap[live].mems \cap heap[live].bound :
             writer' = [writer EXCEPT ![w] = [pc |-> "superseding", obj |-> live, mem |-> m]]
        BY <1>1 DEF Supersede
    <2>2. live \in Objects /\ m \in Memories
        BY <1>1 DEF Supersede, SessionState
    <2> QED
        BY <1>0, <1>1, <2>1, <2>2, WriterPCsListed DEF Supersede, ActivePCs
<1>2. CASE SupersessionRejected(w)
    BY <1>0, <1>2, WriterPCsListed DEF SupersessionRejected, LockedFor, LockReasons, ActivePCs
<1>3. CASE Archive(w)
    <2> DEFINE s == writer[w].obj
               m == writer[w].mem
    <2>1. s \in Objects /\ m \in Memories
        BY <1>0, <1>3 DEF Archive, ActivePCs
    <2>2. heap' \in [Objects -> SessionState]
        <3>1. heap[s] \in SessionState
            BY <2>1
        <3>2. WithReplacement(heap[s], m, w) \in SessionState /\ WithRetired(heap[s], m) \in SessionState
            BY <1>0, <2>1, <3>1, WriteTyped
        <3> QED
            BY <1>3, <3>2 DEF Archive
    <2>3. rows' \in [Memories -> {"absent", "draft", "superseded"}]
        BY <1>3 DEF Archive
    <2>4. writer' \in [Writers -> WriterRecords] /\ WriterTyped'
        BY <1>0, <1>3, WriterMoves DEF Archive, ActivePCs
    <2> QED
        BY <1>3, <2>2, <2>3, <2>4 DEF Archive, WriterRecords
<1>4. CASE SaveReplacement(w)
    <2>1. rows' \in [Memories -> {"absent", "draft", "superseded"}]
        BY <1>4 DEF SaveReplacement
    <2>2. writer[w].mem \in Memories
        BY <1>0, <1>4 DEF SaveReplacement, ActivePCs
    <2>3. replaces' \in [Supersessions -> Memories \cup {None}]
        BY <1>4, <2>2 DEF SaveReplacement
    <2>4. writer' \in [Writers -> WriterRecords] /\ WriterTyped'
        BY <1>0, <1>4, WriterMoves DEF SaveReplacement, ActivePCs
    <2> QED
        BY <1>4, <2>1, <2>3, <2>4 DEF SaveReplacement, WriterRecords
<1>5. CASE FinishSupersession(w)
    <2>1. writer[w].obj \in Objects /\ writer[w].mem \in Memories
        BY <1>0, <1>5 DEF FinishSupersession, ActivePCs
    <2>2. audit' \in Seq(Event)
        BY <1>5, <2>1, EventTyped DEF FinishSupersession, EventTypes
    <2>3. live' \in Objects \cup {None} /\ lock' \in LockReasons
        BY <1>5, <2>1 DEF FinishSupersession, Authorized, LockReasons
    <2> QED
        BY <1>0, <1>5, <2>2, <2>3, WriterPCsListed DEF FinishSupersession, ActivePCs
<1>6. CASE MemoryGone(w)
    BY <1>0, <1>6, WriterPCsListed DEF MemoryGone, ActivePCs
<1> QED
    BY <1>1, <1>2, <1>3, <1>4, <1>5, <1>6 DEF SupersessionStep

LEMMA SessionTyped ==
    ASSUME CInv, Resume \/ ClearMemory \/ Restart
    PROVE  Typed'
<1> USE DEF CInv, Typed, TypeOK, WriterTyped, volatile, durable, table
<1>1. CASE Resume
    <2>1. checkpoints # <<>> => Newest.state \in SessionState
        BY NewestTyped DEF Checkpoint
    <2>2. heap' \in [Objects -> SessionState]
        BY <1>1, <2>1, EmptyTyped DEF Resume, CreateByRecovery, Recoverable, Recover, RecoveredState
    <2>3. live' \in Objects \cup {None} /\ lock' \in LockReasons
        BY <1>1 DEF Resume, Recover, LockedFor, LockReasons, Objects
    <2> QED
        BY <1>1, <2>2, <2>3 DEF Resume
<1>2. CASE ClearMemory
    <2>1. live \in Objects
        BY <1>2 DEF ClearMemory
    <2>2. heap' \in [Objects -> SessionState]
        BY <1>2, <2>1, ForgottenTyped DEF ClearMemory
    <2>3. cleared' \in SUBSET Turns
        BY <1>2, <2>1 DEF ClearMemory, SessionState
    <2> QED
        BY <1>2, <2>2, <2>3 DEF ClearMemory
<1>3. CASE Restart
    <2>1. heap' \in [Objects -> SessionState]
        BY <1>3, EmptyTyped DEF Restart
    <2>2. pc' \in [Turns -> TurnPCs]
        BY <1>3 DEF Restart, TurnPCs
    <2>3. writer' \in [Writers -> [pc : WriterPCs, obj : Objects \cup {None}, mem : Memories \cup {None}]]
        BY <1>3 DEF Restart, WriterPCs
    <2>4. \A w \in Writers : writer'[w].pc \notin ActivePCs
        BY <1>3 DEF Restart, ActivePCs
    <2>5. waiting' \in Seq(Turns) /\ restarts' \in Nat
        BY <1>3, EmptySeq DEF Restart
    <2> QED
        BY <1>3, <2>1, <2>2, <2>3, <2>4, <2>5 DEF Restart, LockReasons
<1> QED
    BY <1>1, <1>2, <1>3

LEMMA StutterTyped ==
    ASSUME CInv, UNCHANGED vars
    PROVE  CInv'
BY DEF CInv, Typed, TypeOK, WriterTyped, Control, LockDiscipline, QuietUnlessOpen,
   OneStretch, vars, volatile, durable, table

-----------------------------------------------------------------------------
(* The session lock.                                                       *)

LEMMA InitControl == Init => Control
BY SessionAssumption DEF Init, Control, LockDiscipline, QuietUnlessOpen, OneStretch, ActivePCs, InTurn

LEMMA ArriveControl ==
    ASSUME CInv, NEW t \in Turns, Arrive(t)
    PROVE  Control'
<1> USE SessionAssumption DEF CInv, Typed, TypeOK, Control, LockDiscipline, QuietUnlessOpen, OneStretch, ActivePCs, InTurn, volatile, durable, table
<1>1. CASE ArriveAndRecover(t)
    BY <1>1 DEF ArriveAndRecover, CreateByRecovery, CannotOpen, Recover, LockedFor
<1>2. CASE ArriveAndCreate(t)
    BY <1>2 DEF ArriveAndCreate, CreateFresh, LoopIdle
<1>3. CASE ArriveReadOnly(t)
    BY <1>3 DEF ArriveReadOnly
<1>4. CASE ArriveAndStart(t)
    BY <1>4 DEF ArriveAndStart, LockFree
<1>5. CASE ArriveAndWait(t)
    <2>1. /\ DOMAIN waiting' = DOMAIN waiting \cup {Len(waiting) + 1}
          /\ \A i \in DOMAIN waiting : waiting'[i] = waiting[i]
          /\ waiting'[Len(waiting) + 1] = t
        BY <1>5, AppendProperties DEF ArriveAndWait
    <2>2. LockDiscipline'
        BY <1>5, <2>1 DEF ArriveAndWait
    <2>3. QuietUnlessOpen' /\ OneStretch'
        BY <1>5 DEF ArriveAndWait
    <2> QED
        BY <2>2, <2>3
<1> QED
    BY <1>1, <1>2, <1>3, <1>4, <1>5 DEF Arrive

LEMMA TurnControl ==
    ASSUME CInv, NEW t \in Turns, Progress(t) \/ Note(t)
    PROVE  Control'
<1> USE SessionAssumption DEF CInv, Typed, TypeOK, Control, LockDiscipline, QuietUnlessOpen, OneStretch, ActivePCs, InTurn, volatile, durable, table
<1>1. CASE Acquire(t)
    <2>1. /\ waiting' \in Seq(Turns)
          /\ Len(waiting') = Len(waiting) - 1
          /\ \A i \in DOMAIN waiting' : waiting'[i] = waiting[i + 1]
        BY <1>1, HeadTailProperties, LenProperties DEF Acquire
    <2>2. \A i \in DOMAIN waiting' : i + 1 \in DOMAIN waiting /\ i + 1 # 1
        BY <2>1, LenProperties
    <2>3. 1 \in DOMAIN waiting /\ waiting[1] = t
        BY <1>1 DEF Acquire
    <2>4. ASSUME NEW i \in DOMAIN waiting', waiting'[i] = t
          PROVE  FALSE
        <3>1. waiting[i + 1] = waiting[1]
            BY <2>1, <2>3, <2>4
        <3>2. i + 1 = 1
            BY <2>2, <2>3, <3>1
        <3> QED
            BY <2>2, <3>2
    <2>5. pc[t] = "queued"
        BY <2>3
    <2>6. LockDiscipline'
        BY <1>1, <2>1, <2>2, <2>4, <2>5 DEF Acquire
    <2>7. QuietUnlessOpen' /\ OneStretch'
        BY <1>1, <2>5 DEF Acquire, LoopIdle
    <2> QED
        BY <2>6, <2>7
<1>2. CASE Note(t)
    BY <1>2 DEF Note
<1>3. CASE AbortTurn(t)
    BY <1>3 DEF AbortTurn, EndTurn
<1>4. CASE StoreTurn(t)
    BY <1>4 DEF StoreTurn, LoopIdle
<1>5. CASE SaveCheckpoint(t)
    BY <1>5 DEF SaveCheckpoint
<1>6. CASE CheckpointFails(t)
    BY <1>6 DEF CheckpointFails, EndTurn
<1>7. CASE Attest(t)
    BY <1>7 DEF Attest
<1>8. CASE AttestFails(t)
    BY <1>8 DEF AttestFails, EndTurn, LockedFor
<1>9. CASE Answer(t)
    BY <1>9 DEF Answer, EndTurn
<1> QED
    BY <1>1, <1>2, <1>3, <1>4, <1>5, <1>6, <1>7, <1>8, <1>9 DEF Progress

LEMMA ProposalControl ==
    ASSUME CInv, NEW w \in Proposals, ProposalStep(w)
    PROVE  Control'
<1> USE SessionAssumption DEF CInv, Typed, TypeOK, WriterTyped, Control, LockDiscipline, QuietUnlessOpen, OneStretch, ActivePCs, volatile, durable, table, Busy, Over
<1>0. w \in Writers
    BY DEF Writers
<1>1. CASE Propose(w)
    BY <1>0, <1>1 DEF Propose
<1>2. CASE ProposalRejected(w)
    BY <1>0, <1>2 DEF ProposalRejected
<1>3. CASE ProposalConflict(w)
    BY <1>0, <1>3 DEF ProposalConflict, LockedFor
<1>4. CASE ProposalAccepted(w)
    BY <1>0, <1>4 DEF ProposalAccepted
<1>5. CASE Reconcile(w)
    <2>1. live # None /\ live' # None
        BY <1>0, <1>5 DEF Reconcile, Objects
    <2> QED
        BY <1>0, <1>5, <2>1 DEF Reconcile
<1>6. CASE MemoryGone(w)
    BY <1>0, <1>6 DEF MemoryGone
<1> QED
    BY <1>1, <1>2, <1>3, <1>4, <1>5, <1>6 DEF ProposalStep

LEMMA SupersessionControl ==
    ASSUME CInv, NEW w \in Supersessions, SupersessionStep(w)
    PROVE  Control'
<1> USE SessionAssumption DEF CInv, Typed, TypeOK, WriterTyped, Control, LockDiscipline, QuietUnlessOpen, OneStretch, ActivePCs, volatile, durable, table, Busy, Over
<1>0. w \in Writers
    BY DEF Writers
<1>1. CASE Supersede(w)
    BY <1>0, <1>1 DEF Supersede
<1>2. CASE SupersessionRejected(w)
    BY <1>0, <1>2 DEF SupersessionRejected, LockedFor
<1>3. CASE Archive(w)
    BY <1>0, <1>3 DEF Archive, LoopIdle
<1>4. CASE SaveReplacement(w)
    BY <1>0, <1>4 DEF SaveReplacement
<1>5. CASE FinishSupersession(w)
    <2>1. live # None /\ live' # None
        BY <1>0, <1>5 DEF FinishSupersession, Objects
    <2> QED
        BY <1>0, <1>5, <2>1 DEF FinishSupersession, Authorized
<1>6. CASE MemoryGone(w)
    BY <1>0, <1>6 DEF MemoryGone
<1> QED
    BY <1>1, <1>2, <1>3, <1>4, <1>5, <1>6 DEF SupersessionStep

LEMMA SessionControl ==
    ASSUME CInv, Resume \/ ClearMemory \/ Restart
    PROVE  Control'
<1> USE SessionAssumption DEF CInv, Typed, TypeOK, Control, LockDiscipline, QuietUnlessOpen, OneStretch, ActivePCs, InTurn, volatile, durable, table
<1>1. CASE Resume
    BY <1>1 DEF Resume, CreateFresh, CreateByRecovery, Recover, LockedFor
<1>2. CASE ClearMemory
    BY <1>2 DEF ClearMemory
<1>3. CASE Restart
    BY <1>3 DEF Restart
<1> QED
    BY <1>1, <1>2, <1>3

LEMMA StepControl ==
    ASSUME CInv, [Next]_vars
    PROVE  CInv'
<1>1. ASSUME NEW t \in Turns, TurnStep(t) PROVE CInv'
    BY <1>1, ArriveTyped, TurnTyped, ArriveControl, TurnControl DEF TurnStep, CInv
<1>2. ASSUME NEW w \in Proposals, ProposalStep(w) PROVE CInv'
    BY <1>2, ProposalTyped, ProposalControl DEF CInv
<1>3. ASSUME NEW w \in Supersessions, SupersessionStep(w) PROVE CInv'
    BY <1>3, SupersessionTyped, SupersessionControl DEF CInv
<1>4. CASE Resume \/ ClearMemory \/ Restart
    BY <1>4, SessionTyped, SessionControl DEF CInv
<1>5. CASE UNCHANGED vars
    BY <1>5, StutterTyped
<1> QED
    BY <1>1, <1>2, <1>3, <1>4, <1>5 DEF Next

\* The control invariant: the lock of a session is held by the one turn at
\* work, and by nobody while the session is closed or frozen (engine.chat,
\* get_or_create_session).
THEOREM ControlHolds == Spec => []CInv
<1>1. Init => CInv
    BY InitTyped, InitControl DEF CInv
<1>2. CInv /\ [Next]_vars => CInv'
    BY StepControl
<1> QED
    BY <1>1, <1>2, PTL DEF Spec

\* Every variable keeps its type.
THEOREM TypeCorrect == Spec => []TypeOK
<1>1. CInv => TypeOK
    BY DEF CInv, Typed
<1> QED
    BY <1>1, ControlHolds, PTL

-----------------------------------------------------------------------------
(* The ledgers only grow.                                                  *)

LEMMA RecordedAfter ==
    ASSUME TypeOK, NEW type \in EventTypes, NEW of \in Turns \cup Memories, AppendEvent(type, of)
    PROVE  /\ DOMAIN audit' = DOMAIN audit \cup {Len(audit) + 1}
           /\ Len(audit') = Len(audit) + 1
           /\ \A i \in DOMAIN audit : audit'[i] = audit[i]
           /\ audit'[Len(audit) + 1] = [type |-> type, of |-> of]
<1>1. audit \in Seq(Event) /\ [type |-> type, of |-> of] \in Event
    BY DEF TypeOK, Event
<1> QED
    BY <1>1, AppendProperties, LenProperties DEF AppendEvent

\* The only steps that append to the audit ledger, and what they append.
LEMMA AuditSteps ==
    ASSUME CInv, [Next]_vars
    PROVE  \/ UNCHANGED audit
           \/ \E t \in Turns : StoreTurn(t) /\ AppendEvent("spiral_turn", t)
           \/ /\ \E type \in EventTypes \ {"spiral_turn"}, of \in Turns \cup Memories : AppendEvent(type, of)
              /\ \A t \in Turns : pc[t] \notin {"stored", "checkpointed", "signed"}
              /\ UNCHANGED <<pc, checkpoints, signed>>
<1> USE DEF CInv, Typed, WriterTyped, ActivePCs, EventTypes, durable, table, volatile
<1>1. ASSUME NEW t \in Turns, TurnStep(t), audit' # audit
      PROVE  \/ StoreTurn(t) /\ AppendEvent("spiral_turn", t)
             \/ Note(t) /\ AppendEvent("note", t)
    BY <1>1 DEF TurnStep, Arrive, ArriveAndRecover, ArriveAndCreate, ArriveReadOnly, ArriveAndStart,
       ArriveAndWait, Note, Progress, Acquire, AbortTurn, StoreTurn, SaveCheckpoint, CheckpointFails,
       Attest, AttestFails, Answer
<1>2. ASSUME NEW w \in Proposals, ProposalStep(w), audit' # audit
      PROVE  \/ ProposalConflict(w) /\ AppendEvent("conflict_membrane", writer[w].mem)
             \/ Reconcile(w) /\ AppendEvent("memory_reconciled", writer[w].mem)
    BY <1>2 DEF ProposalStep, Propose, ProposalRejected, ProposalConflict, ProposalAccepted, Reconcile, MemoryGone
<1>3. ASSUME NEW w \in Supersessions, SupersessionStep(w), audit' # audit
      PROVE  FinishSupersession(w) /\ AppendEvent("memory_supersession", writer[w].mem)
    BY <1>3 DEF SupersessionStep, Supersede, SupersessionRejected, Archive, SaveReplacement,
       FinishSupersession, MemoryGone
<1>4. Resume \/ ClearMemory \/ Restart \/ UNCHANGED vars => UNCHANGED audit
    BY DEF Resume, ClearMemory, Restart, vars
<1>5. ASSUME NEW t \in Turns, Note(t)
      PROVE  LoopIdle /\ UNCHANGED <<pc, checkpoints, signed>>
    BY <1>5 DEF Note
<1>6. ASSUME NEW w \in Proposals, ProposalConflict(w) \/ Reconcile(w)
      PROVE  LoopIdle /\ UNCHANGED <<pc, checkpoints, signed>> /\ writer[w].mem \in Memories
    BY <1>6 DEF ProposalConflict, Reconcile, Writers
<1>7. ASSUME NEW w \in Supersessions, FinishSupersession(w)
      PROVE  /\ \A t \in Turns : pc[t] \notin {"stored", "checkpointed", "signed"}
             /\ UNCHANGED <<pc, checkpoints, signed>>
             /\ writer[w].mem \in Memories
    BY <1>7 DEF FinishSupersession, Writers, Control, OneStretch
<1> QED
    BY <1>1, <1>2, <1>3, <1>4, <1>5, <1>6, <1>7 DEF Next, LoopIdle

LEMMA CheckpointSteps ==
    ASSUME CInv, [Next]_vars
    PROVE  /\ \/ UNCHANGED checkpoints
              \/ \E t \in Turns : SaveCheckpoint(t)
           /\ signed \subseteq signed'
<1> USE DEF durable, table, volatile
<1>1. ASSUME NEW t \in Turns, TurnStep(t)
      PROVE  (UNCHANGED checkpoints \/ SaveCheckpoint(t)) /\ signed \subseteq signed'
    BY <1>1 DEF TurnStep, Arrive, ArriveAndRecover, ArriveAndCreate, ArriveReadOnly, ArriveAndStart,
       ArriveAndWait, Note, Progress, Acquire, AbortTurn, StoreTurn, SaveCheckpoint, CheckpointFails,
       Attest, AttestFails, Answer
<1>2. ASSUME NEW w \in Writers, ProposalStep(w) \/ SupersessionStep(w)
      PROVE  UNCHANGED <<checkpoints, signed>>
    BY <1>2 DEF ProposalStep, Propose, ProposalRejected, ProposalConflict, ProposalAccepted, Reconcile, MemoryGone,
       SupersessionStep, Supersede, SupersessionRejected, Archive, SaveReplacement, FinishSupersession
<1>3. Resume \/ ClearMemory \/ Restart \/ UNCHANGED vars => UNCHANGED <<checkpoints, signed>>
    BY DEF Resume, ClearMemory, Restart, vars
<1> QED
    BY <1>1, <1>2, <1>3 DEF Next, Writers

\* A writer's step moves no turn; a turn's step moves that turn only.
LEMMA TurnMoves ==
    ASSUME CInv, [Next]_vars
    PROVE  \/ UNCHANGED pc
           \/ Restart
           \/ \E t \in Turns : Arrive(t) \/ Progress(t)
<1> USE DEF volatile
<1>1. ASSUME NEW t \in Turns, Note(t) PROVE UNCHANGED pc
    BY <1>1 DEF Note
<1>2. ASSUME NEW w \in Writers, ProposalStep(w) \/ SupersessionStep(w) PROVE UNCHANGED pc
    BY <1>2 DEF ProposalStep, Propose, ProposalRejected, ProposalConflict, ProposalAccepted, Reconcile, MemoryGone,
       SupersessionStep, Supersede, SupersessionRejected, Archive, SaveReplacement, FinishSupersession
<1>3. Resume \/ ClearMemory \/ UNCHANGED vars => UNCHANGED pc
    BY DEF Resume, ClearMemory, vars
<1> QED
    BY <1>1, <1>2, <1>3 DEF Next, TurnStep, Writers

LEMMA ArriveMoves ==
    ASSUME CInv, NEW t \in Turns, Arrive(t)
    PROVE  /\ pc[t] = "idle"
           /\ pc' = [pc EXCEPT ![t] = pc'[t]]
           /\ pc'[t] \in {"failed", "running", "queued"}
BY DEF CInv, Typed, TypeOK, Arrive, ArriveAndRecover, ArriveAndCreate, ArriveReadOnly, ArriveAndStart, ArriveAndWait

LEMMA ProgressMoves ==
    ASSUME CInv, NEW t \in Turns, Progress(t)
    PROVE  /\ pc[t] \in InTurn \cup {"queued"}
           /\ pc' = [pc EXCEPT ![t] = pc'[t]]
           /\ pc'[t] = "stored" => StoreTurn(t)
           /\ pc'[t] = "checkpointed" => SaveCheckpoint(t)
           /\ pc'[t] = "signed" => Attest(t)
           /\ pc'[t] = "done" => Answer(t)
<1> USE DEF CInv, Typed, TypeOK, InTurn, EndTurn
<1>1. CASE Acquire(t)
    <2>1. 1 \in DOMAIN waiting /\ waiting[1] = t
        BY <1>1 DEF Acquire
    <2> QED
        BY <1>1, <2>1 DEF Acquire, Control, LockDiscipline
<1>2. CASE AbortTurn(t) \/ StoreTurn(t) \/ SaveCheckpoint(t) \/ CheckpointFails(t)
    BY <1>2 DEF AbortTurn, StoreTurn, SaveCheckpoint, CheckpointFails
<1>3. CASE Attest(t) \/ AttestFails(t) \/ Answer(t)
    BY <1>3 DEF Attest, AttestFails, Answer
<1> QED
    BY <1>1, <1>2, <1>3 DEF Progress

\* A turn is answered by Answer only, and stays answered.
LEMMA AnsweredSteps ==
    ASSUME CInv, [Next]_vars
    PROVE  \/ Answered' = Answered
           \/ \E t \in Turns : Answer(t) /\ Answered' = Answered \cup {t}
<1> USE DEF CInv, Typed, TypeOK, Answered
<1>1. CASE UNCHANGED pc
    BY <1>1
<1>2. CASE Restart
    BY <1>2 DEF Restart
<1>3. ASSUME NEW t \in Turns, Arrive(t)
      PROVE  Answered' = Answered
    BY <1>3, ArriveMoves
<1>4. ASSUME NEW t \in Turns, Progress(t)
      PROVE  Answered' = Answered \/ (Answer(t) /\ Answered' = Answered \cup {t})
    BY <1>4, ProgressMoves DEF InTurn
<1> QED
    BY <1>1, <1>2, <1>3, <1>4, TurnMoves

\* The turns a state object counts never become fewer, except where the object
\* is made anew.
LEMMA CountedGrows ==
    ASSUME CInv, [Next]_vars, NEW o \in Objects
    PROVE  \/ heap[o].counted \subseteq heap'[o].counted
           \/ live = None /\ mutex = None
           \/ o \in Turns /\ pc[o] \in {"idle", "queued"}
           \/ Restart
<1> USE DEF CInv, Typed, TypeOK, volatile
<1>0. heap[o] \in SessionState
    OBVIOUS
<1>1. ASSUME NEW t \in Turns, Arrive(t)
      PROVE  heap[o].counted \subseteq heap'[o].counted \/ live = None \/ o = t
    BY <1>1 DEF Arrive, ArriveAndRecover, CreateByRecovery, ArriveAndCreate, CreateFresh, ArriveReadOnly,
       ArriveAndStart, ArriveAndWait
<1>2. ASSUME NEW t \in Turns, Progress(t) \/ Note(t)
      PROVE  heap[o].counted \subseteq heap'[o].counted \/ (o = t /\ Acquire(t))
    <2>1. CASE Acquire(t)
        BY <2>1 DEF Acquire
    <2>2. CASE StoreTurn(t)
        BY <2>2, <1>0 DEF StoreTurn, WithTurn, SessionState
    <2>3. CASE AbortTurn(t) \/ SaveCheckpoint(t) \/ CheckpointFails(t) \/ Note(t)
        BY <2>3 DEF AbortTurn, SaveCheckpoint, CheckpointFails, Note
    <2>4. CASE Attest(t) \/ AttestFails(t) \/ Answer(t)
        BY <2>4 DEF Attest, AttestFails, Answer
    <2> QED
        BY <1>2, <2>1, <2>2, <2>3, <2>4 DEF Progress
<1>3. ASSUME NEW w \in Proposals, ProposalStep(w)
      PROVE  heap[o].counted \subseteq heap'[o].counted
    <2>1. CASE Reconcile(w)
        <3>1. heap' = [heap EXCEPT ![writer[w].obj] = WithBinding(heap[writer[w].obj], writer[w].mem)]
            BY <2>1 DEF Reconcile
        <3>2. heap'[o] = heap[o] \/ heap'[o] = WithBinding(heap[o], writer[w].mem)
            BY <3>1
        <3>3. WithBinding(heap[o], writer[w].mem).counted = heap[o].counted
            BY <1>0 DEF WithBinding, SessionState
        <3> QED
            BY <3>2, <3>3
    <2>2. CASE ~Reconcile(w)
        BY <1>3, <2>2 DEF ProposalStep, Propose, ProposalRejected, ProposalConflict, ProposalAccepted, MemoryGone
    <2> QED
        BY <2>1, <2>2
<1>4. ASSUME NEW w \in Supersessions, SupersessionStep(w)
      PROVE  heap[o].counted \subseteq heap'[o].counted
    <2>1. CASE Archive(w)
        <3> DEFINE s == writer[w].obj
                   m == writer[w].mem
        <3>1. \/ heap' = [heap EXCEPT ![s] = WithReplacement(heap[s], m, w)]
              \/ heap' = [heap EXCEPT ![s] = WithRetired(heap[s], m)]
            BY <2>1 DEF Archive
        <3>2. heap'[o] \in {heap[o], WithReplacement(heap[o], m, w), WithRetired(heap[o], m)}
            BY <3>1
        <3>3. WithReplacement(heap[o], m, w).counted = heap[o].counted
            BY <1>0 DEF WithReplacement, SessionState
        <3>4. WithRetired(heap[o], m).counted = heap[o].counted
            BY <1>0 DEF WithRetired, SessionState
        <3> QED
            BY <3>2, <3>3, <3>4
    <2>2. CASE ~Archive(w)
        BY <1>4, <2>2 DEF SupersessionStep, Supersede, SupersessionRejected, SaveReplacement, FinishSupersession, MemoryGone
    <2> QED
        BY <2>1, <2>2
<1>5. Resume => live = None
    BY DEF Resume, CreateFresh, CreateByRecovery
<1>6. ClearMemory => heap[o].counted \subseteq heap'[o].counted
    BY <1>0 DEF ClearMemory, Forgotten, SessionState
<1>7. UNCHANGED vars => heap' = heap
    BY DEF vars
<1>8. live = None => mutex = None
    BY DEF Control, QuietUnlessOpen
<1>9. \A t \in Turns : Arrive(t) => pc[t] = "idle"
    BY ArriveMoves
<1>10. ASSUME NEW t \in Turns, Acquire(t) PROVE pc[t] = "queued"
    <2>1. 1 \in DOMAIN waiting /\ waiting[1] = t
        BY <1>10 DEF Acquire
    <2> QED
        BY <2>1 DEF Control, LockDiscipline
<1> QED
    BY <1>1, <1>2, <1>3, <1>4, <1>5, <1>6, <1>7, <1>8, <1>9, <1>10 DEF Next, TurnStep

LEMMA LastOfAppend ==
    ASSUME NEW S, NEW s \in Seq(S), NEW e \in S
    PROVE  /\ Append(s, e) # <<>>
           /\ Append(s, e)[Len(Append(s, e))] = e
BY AppendProperties

-----------------------------------------------------------------------------
(* What a turn has done at each of its stages.                             *)

Stored(t)  == pc[t] \in {"stored", "checkpointed", "signed"}
Checked(t) == pc[t] \in {"checkpointed", "signed"}

\* A stored turn is in the audit ledger and in its own copy of the state; until
\* it is checkpointed its event is the last one.
StoredStage ==
    \A t \in Turns :
        /\ Stored(t) => t \in heap[t].counted /\ t \in StoredTurns
        /\ pc[t] = "stored" =>
              /\ audit # <<>>
              /\ audit[Len(audit)] = [type |-> "spiral_turn", of |-> t]

\* The newest checkpoint is that of the turn at work, until it ends.
CheckedStage ==
    \A t \in Turns :
        /\ Checked(t) =>
              /\ checkpoints # <<>>
              /\ Newest.turn = t
              /\ t \in Newest.state.counted
        /\ pc[t] = "signed" => t \in signed

SInv == CInv /\ StoredStage /\ CheckedStage

LEMMA StoredTurnsGrow ==
    ASSUME CInv, [Next]_vars
    PROVE  \/ StoredTurns' = StoredTurns
           \/ \E t \in Turns : StoreTurn(t) /\ t \notin StoredTurns /\ StoredTurns' = StoredTurns \cup {t}
<1>1. CASE UNCHANGED audit
    BY <1>1 DEF StoredTurns, Recorded
<1>2. ASSUME NEW t \in Turns, StoreTurn(t), AppendEvent("spiral_turn", t)
      PROVE  t \notin StoredTurns /\ StoredTurns' = StoredTurns \cup {t}
    <2>1. t \notin StoredTurns
        BY <1>2 DEF AppendEvent, StoredTurns
    <2>2. /\ DOMAIN audit' = DOMAIN audit \cup {Len(audit) + 1}
          /\ \A i \in DOMAIN audit : audit'[i] = audit[i]
          /\ audit'[Len(audit) + 1] = [type |-> "spiral_turn", of |-> t]
        BY <1>2, RecordedAfter DEF CInv, Typed, EventTypes
    <2> QED
        BY <2>1, <2>2 DEF StoredTurns, Recorded
<1>3. ASSUME NEW type \in EventTypes \ {"spiral_turn"}, NEW of \in Turns \cup Memories, AppendEvent(type, of)
      PROVE  StoredTurns' = StoredTurns
    <2>1. /\ DOMAIN audit' = DOMAIN audit \cup {Len(audit) + 1}
          /\ \A i \in DOMAIN audit : audit'[i] = audit[i]
          /\ audit'[Len(audit) + 1] = [type |-> type, of |-> of]
        BY <1>3, RecordedAfter DEF CInv, Typed
    <2> QED
        BY <2>1 DEF StoredTurns, Recorded
<1> QED
    BY <1>1, <1>2, <1>3, AuditSteps

\* Where a turn that is at work after the step was before it.
LEMMA StageBefore ==
    ASSUME CInv, [Next]_vars, NEW t \in Turns, pc'[t] \in InTurn
    PROVE  \/ pc'[t] = "running"
           \/ pc'[t] = pc[t]
           \/ pc'[t] = "stored" /\ StoreTurn(t)
           \/ pc'[t] = "checkpointed" /\ SaveCheckpoint(t)
           \/ pc'[t] = "signed" /\ Attest(t)
<1> USE DEF CInv, Typed, TypeOK, InTurn
<1>1. ~Restart
    BY DEF Restart
<1>2. ASSUME NEW u \in Turns, Arrive(u) PROVE pc'[t] \in {pc[t], "running"}
    BY <1>2, ArriveMoves
<1>3. ASSUME NEW u \in Turns, Progress(u), u # t PROVE pc'[t] = pc[t]
    BY <1>3, ProgressMoves
<1> QED
    BY <1>1, <1>2, <1>3, TurnMoves, ProgressMoves

LEMMA StoredStageKept ==
    ASSUME SInv, [Next]_vars
    PROVE  StoredStage'
<1> SUFFICES ASSUME NEW t \in Turns, Stored(t)'
             PROVE  /\ (t \in heap[t].counted)' /\ (t \in StoredTurns)'
                    /\ pc'[t] = "stored" =>
                          /\ audit' # <<>>
                          /\ audit'[Len(audit')] = [type |-> "spiral_turn", of |-> t]
    BY DEF StoredStage, Stored
<1> USE DEF SInv
<1>1. CASE StoreTurn(t)
    <2>1. AppendEvent("spiral_turn", t) /\ pc'[t] = "stored"
        BY <1>1 DEF StoreTurn, CInv, Typed, TypeOK
    <2>2. /\ Len(audit') = Len(audit) + 1
          /\ DOMAIN audit' = DOMAIN audit \cup {Len(audit) + 1}
          /\ audit'[Len(audit) + 1] = [type |-> "spiral_turn", of |-> t]
        BY <2>1, RecordedAfter DEF CInv, Typed, EventTypes
    <2>3. audit' # <<>> /\ t \in StoredTurns'
        BY <2>2 DEF StoredTurns, Recorded
    <2>4. t \in heap'[t].counted
        <3>1. heap[t] \in SessionState /\ t \in Objects
            BY DEF CInv, Typed, TypeOK, Objects
        <3> QED
            BY <1>1, <3>1 DEF StoreTurn, WithTurn, SessionState, CInv, Typed, TypeOK
    <2> QED
        BY <2>2, <2>3, <2>4
<1>2. CASE ~StoreTurn(t)
    <2>1. Stored(t) /\ (pc'[t] = "stored" => pc[t] = "stored")
        BY <1>2, StageBefore DEF Stored, InTurn, SaveCheckpoint, Attest
    <2>2. t \in heap[t].counted /\ t \in StoredTurns
        BY <2>1 DEF StoredStage
    <2>3. mutex = t /\ live # None
        BY <2>1, SessionAssumption DEF Stored, InTurn, CInv, Control, LockDiscipline, QuietUnlessOpen
    <2>4. ~Restart
        BY DEF Stored, Restart
    <2>5. t \in heap'[t].counted
        BY <2>1, <2>2, <2>3, <2>4, CountedGrows DEF Objects, Stored
    <2>6. t \in StoredTurns'
        BY <2>2, StoredTurnsGrow DEF SInv
    <2>7. ASSUME pc'[t] = "stored"
          PROVE  audit' # <<>> /\ audit'[Len(audit')] = [type |-> "spiral_turn", of |-> t]
        <3>1. UNCHANGED audit
            BY <2>1, <2>7, AuditSteps DEF Stored, StoreTurn, LoopIdle
        <3> QED
            BY <2>1, <2>7, <3>1 DEF StoredStage
    <2> QED
        BY <2>5, <2>6, <2>7
<1> QED
    BY <1>1, <1>2

LEMMA CheckedStageKept ==
    ASSUME SInv, [Next]_vars
    PROVE  CheckedStage'
<1> SUFFICES ASSUME NEW t \in Turns, Checked(t)'
             PROVE  /\ checkpoints' # <<>>
                    /\ (Newest.turn = t)' /\ (t \in Newest.state.counted)'
                    /\ pc'[t] = "signed" => t \in signed'
    BY DEF CheckedStage, Checked
<1> USE DEF SInv
<1>1. CASE SaveCheckpoint(t)
    <2> DEFINE c == [turn |-> t, anchor |-> Len(audit), state |-> heap[t]]
    <2>1. checkpoints' = Append(checkpoints, c) /\ pc'[t] = "checkpointed"
        BY <1>1 DEF SaveCheckpoint, CInv, Typed, TypeOK
    <2>2. c \in Checkpoint
        BY LenProperties DEF Checkpoint, CInv, Typed, TypeOK, Objects
    <2>3. checkpoints \in Seq(Checkpoint)
        BY DEF CInv, Typed, TypeOK
    <2>4. checkpoints' # <<>> /\ Newest' = c
        BY ONLY <2>1, <2>2, <2>3, LastOfAppend DEF Newest
    <2>5. t \in heap[t].counted
        BY <1>1 DEF SaveCheckpoint, StoredStage, Stored
    <2> QED
        BY <2>1, <2>4, <2>5
<1>2. CASE ~SaveCheckpoint(t)
    <2>1. Checked(t)
        BY <1>2, StageBefore DEF Checked, InTurn, Attest
    <2>2. mutex = t
        BY <2>1 DEF Checked, InTurn, CInv, Control, LockDiscipline
    <2>3. \A u \in Turns : ~SaveCheckpoint(u)
        BY <1>2, <2>2 DEF SaveCheckpoint, InTurn, CInv, Control, LockDiscipline
    <2>4. UNCHANGED checkpoints /\ signed \subseteq signed'
        BY <2>3, CheckpointSteps
    <2>5. /\ checkpoints' # <<>>
          /\ Newest' = Newest
          /\ Newest.turn = t
          /\ t \in Newest.state.counted
        BY <2>1, <2>4 DEF CheckedStage, Newest
    <2>6. pc'[t] = "signed" => t \in signed'
        <3>1. CASE pc[t] = "signed"
            BY <2>4, <3>1 DEF CheckedStage
        <3>2. CASE Attest(t)
            BY <2>5, <3>2 DEF Attest
        <3> QED
            BY <3>1, <3>2, StageBefore DEF InTurn
    <2> QED
        BY <2>5, <2>6
<1> QED
    BY <1>1, <1>2

LEMMA StepStages == ASSUME SInv, [Next]_vars PROVE SInv'
BY StepControl, StoredStageKept, CheckedStageKept DEF SInv

LEMMA InitStages == Init => SInv
BY InitTyped, InitControl DEF Init, SInv, CInv, StoredStage, CheckedStage, Stored, Checked

THEOREM StagesHold == Spec => []SInv
BY InitStages, StepStages, PTL DEF Spec

-----------------------------------------------------------------------------
(* Durability of answered turns.                                           *)

LEMMA CheckpointsGrow ==
    ASSUME CInv, [Next]_vars
    PROVE  \A i \in DOMAIN checkpoints : i \in DOMAIN checkpoints' /\ checkpoints'[i] = checkpoints[i]
<1>1. CASE UNCHANGED checkpoints
    BY <1>1
<1>2. ASSUME NEW t \in Turns, SaveCheckpoint(t)
      PROVE  \A i \in DOMAIN checkpoints : i \in DOMAIN checkpoints' /\ checkpoints'[i] = checkpoints[i]
    <2> DEFINE c == [turn |-> t, anchor |-> Len(audit), state |-> heap[t]]
    <2>1. c \in Checkpoint /\ checkpoints \in Seq(Checkpoint)
        BY LenProperties DEF Checkpoint, CInv, Typed, TypeOK, Objects
    <2>2. checkpoints' = Append(checkpoints, c)
        BY <1>2 DEF SaveCheckpoint
    <2> QED
        BY <2>1, <2>2, AppendProperties, LenProperties
<1> QED
    BY <1>1, <1>2, CheckpointSteps

\* The reply of chat() is returned after the last of its commits: an answered
\* turn is in the audit ledger, in a checkpoint of its own and, under a recall
\* owner, sealed, whatever failed or was killed since.
THEOREM AnsweredTurnsAreDurable == Spec => []AnsweredIsDurable
<1>1. Init => AnsweredIsDurable
    BY DEF Init, AnsweredIsDurable, Answered
<1>2. ASSUME SInv, AnsweredIsDurable, [Next]_vars
      PROVE  AnsweredIsDurable'
    <2> SUFFICES ASSUME NEW t \in Answered'
                 PROVE  /\ t \in StoredTurns'
                        /\ \E i \in DOMAIN checkpoints' :
                              checkpoints'[i].turn = t /\ t \in checkpoints'[i].state.counted
                        /\ RecallOwner => t \in signed'
        BY DEF AnsweredIsDurable
    <2>1. t \in Turns
        BY DEF Answered
    <2>2. /\ t \in StoredTurns
          /\ \E i \in DOMAIN checkpoints :
                checkpoints[i].turn = t /\ t \in checkpoints[i].state.counted
          /\ RecallOwner => t \in signed
        <3>1. CASE t \in Answered
            BY <1>2, <3>1 DEF AnsweredIsDurable
        <3>2. CASE Answer(t)
            <4>1. Checked(t) /\ Stored(t) /\ (RecallOwner => pc[t] = "signed")
                BY <2>1, <3>2 DEF Answer, Checked, Stored
            <4>2. Len(checkpoints) \in DOMAIN checkpoints
                BY <1>2, <2>1, <4>1, NewestTyped DEF SInv, CInv, Typed, CheckedStage
            <4> QED
                BY <1>2, <2>1, <4>1, <4>2 DEF SInv, StoredStage, CheckedStage, Newest
        <3> QED
            BY <1>2, <3>1, <3>2, AnsweredSteps DEF SInv
    <2>3. StoredTurns \subseteq StoredTurns' /\ signed \subseteq signed'
        BY <1>2, StoredTurnsGrow, CheckpointSteps DEF SInv
    <2> QED
        BY <1>2, <2>2, <2>3, CheckpointsGrow DEF SInv
<1> QED
    BY <1>1, <1>2, StagesHold, PTL DEF Spec

\* A session that has a checkpoint can be recovered: every checkpoint stays
\* anchored in the one audit event of its turn (reviver.recover).
THEOREM CheckpointsStayAnchored == Spec => []CheckpointsAnchored
<1>1. Init => CheckpointsAnchored
    BY DEF Init, CheckpointsAnchored
<1>2. ASSUME SInv, CheckpointsAnchored, [Next]_vars
      PROVE  CheckpointsAnchored'
    <2>1. ASSUME NEW t \in Turns, SaveCheckpoint(t)
          PROVE  CheckpointsAnchored'
        <3> DEFINE c == [turn |-> t, anchor |-> Len(audit), state |-> heap[t]]
        <3>1. c \in Checkpoint /\ checkpoints \in Seq(Checkpoint) /\ audit \in Seq(Event)
            BY <1>2, LenProperties DEF Checkpoint, SInv, CInv, Typed, TypeOK, Objects
        <3>2. checkpoints' = Append(checkpoints, c) /\ UNCHANGED audit
            BY <2>1 DEF SaveCheckpoint
        <3>3. audit # <<>> /\ audit[Len(audit)] = [type |-> "spiral_turn", of |-> t]
            BY <1>2, <2>1 DEF SInv, StoredStage, SaveCheckpoint
        <3>4. Anchored(c)
            BY <3>1, <3>3, LenProperties, EmptySeq DEF Anchored
        <3>5. \A i \in DOMAIN checkpoints' :
                 (i \in DOMAIN checkpoints /\ checkpoints'[i] = checkpoints[i]) \/ checkpoints'[i] = c
            BY <3>1, <3>2, AppendProperties, LenProperties
        <3>6. \A i \in DOMAIN checkpoints' : Anchored(checkpoints'[i])
            BY <1>2, <3>4, <3>5 DEF CheckpointsAnchored
        <3> QED
            BY <3>2, <3>6 DEF CheckpointsAnchored, Anchored
    <2>2. ASSUME UNCHANGED checkpoints, NEW type \in EventTypes, NEW of \in Turns \cup Memories,
                 AppendEvent(type, of)
          PROVE  CheckpointsAnchored'
        <3> SUFFICES ASSUME NEW i \in DOMAIN checkpoints PROVE Anchored(checkpoints[i])'
            BY <2>2 DEF CheckpointsAnchored
        <3> DEFINE c == checkpoints[i]
        <3>1. Anchored(c)
            BY <1>2 DEF CheckpointsAnchored
        <3>2. /\ DOMAIN audit' = DOMAIN audit \cup {Len(audit) + 1}
              /\ \A k \in DOMAIN audit : audit'[k] = audit[k]
              /\ audit'[Len(audit) + 1] = [type |-> type, of |-> of]
            BY <1>2, <2>2, RecordedAfter DEF SInv, CInv, Typed
        <3>3. [type |-> type, of |-> of] # [type |-> "spiral_turn", of |-> c.turn]
            BY <2>2, <3>1 DEF AppendEvent, Recorded, Anchored
        <3> QED
            BY <2>2, <3>1, <3>2, <3>3 DEF Anchored
    <2>3. CASE UNCHANGED <<audit, checkpoints>>
        BY <1>2, <2>3 DEF CheckpointsAnchored, Anchored
    <2> QED
        BY <1>2, <2>1, <2>2, <2>3, AuditSteps, CheckpointSteps DEF SInv, EventTypes
<1> QED
    BY <1>1, <1>2, StagesHold, PTL DEF Spec

-----------------------------------------------------------------------------
(* No answered turn is lost while governed writes are off.                 *)

\* Without governed writes no memory write ever starts.
NoWrites == \A w \in Writers : writer[w].pc \in {"idle", "over"}

\* The live object is not the copy of a turn at work; the live state, every
\* such copy and the newest checkpoint count every answered turn.
NeverBehind ==
    /\ live \in Turns => pc[live] = "done"
    /\ live # None => Answered \subseteq heap[live].counted
    /\ \A t \in Turns : pc[t] \in InTurn => Answered \subseteq heap[t].counted
    /\ checkpoints # <<>> => Answered \subseteq Newest.state.counted

LEMMA NoWriteSteps ==
    ASSUME ~GovernedWrites, CInv, NoWrites, [Next]_vars
    PROVE  /\ NoWrites'
           /\ \A w \in Proposals : ~ProposalStep(w)
           /\ \A w \in Supersessions : ~SupersessionStep(w)
<1> USE DEF NoWrites, volatile
<1>1. ASSUME NEW w \in Proposals PROVE ~ProposalStep(w)
    BY DEF ProposalStep, Propose, ProposalRejected, ProposalConflict, ProposalAccepted, Reconcile, MemoryGone, Writers
<1>2. ASSUME NEW w \in Supersessions PROVE ~SupersessionStep(w)
    BY DEF SupersessionStep, Supersede, SupersessionRejected, Archive, SaveReplacement, FinishSupersession,
       MemoryGone, Writers
<1>3. ASSUME NEW t \in Turns, TurnStep(t) PROVE UNCHANGED writer
    BY <1>3 DEF TurnStep, Arrive, ArriveAndRecover, ArriveAndCreate, ArriveReadOnly, ArriveAndStart,
       ArriveAndWait, Note, Progress, Acquire, AbortTurn, StoreTurn, SaveCheckpoint, CheckpointFails,
       Attest, AttestFails, Answer
<1>4. Resume \/ ClearMemory \/ UNCHANGED vars => UNCHANGED writer
    BY DEF Resume, ClearMemory, vars
<1>5. Restart => NoWrites'
    BY DEF Restart
<1> QED
    BY <1>1, <1>2, <1>3, <1>4, <1>5 DEF Next

\* How the live reference moves without memory writes.
LEMMA LiveSteps ==
    ASSUME ~GovernedWrites, CInv, NoWrites, [Next]_vars
    PROVE  \/ UNCHANGED live
           \/ \E t \in Turns : Answer(t)
           \/ Restart
           \/ /\ live = None /\ live' = Boot
              /\ \/ NothingStored
                 \/ checkpoints # <<>> /\ heap'[Boot] = RecoveredState
<1> USE DEF volatile
<1>1. ASSUME NEW t \in Turns, TurnStep(t), ~Answer(t), live' # live
      PROVE  ArriveAndRecover(t) \/ ArriveAndCreate(t)
    BY <1>1 DEF TurnStep, Arrive, ArriveReadOnly, ArriveAndStart,
       ArriveAndWait, Note, Progress, Acquire, AbortTurn, StoreTurn, SaveCheckpoint, CheckpointFails,
       Attest, AttestFails
<1>2. ASSUME NEW t \in Turns, ArriveAndRecover(t) \/ ArriveAndCreate(t), live' # live
      PROVE  /\ live = None /\ live' = Boot
             /\ \/ NothingStored
                \/ checkpoints # <<>> /\ heap'[Boot] = RecoveredState
    BY <1>2 DEF ArriveAndRecover, ArriveAndCreate, CreateFresh, CreateByRecovery, Recoverable, Recover,
       CInv, Typed, TypeOK, Objects
<1>3. ASSUME Resume, live' # live
      PROVE  /\ live = None /\ live' = Boot
             /\ \/ NothingStored
                \/ checkpoints # <<>> /\ heap'[Boot] = RecoveredState
    BY <1>3 DEF Resume, CreateFresh, CreateByRecovery, Recoverable, Recover, CInv, Typed, TypeOK, Objects
<1>4. ClearMemory \/ UNCHANGED vars => UNCHANGED live
    BY DEF ClearMemory, vars
<1> QED
    BY <1>1, <1>2, <1>3, <1>4, NoWriteSteps DEF Next

\* A turn that starts to work has a copy of the live state.
LEMMA StartedFrom ==
    ASSUME CInv, [Next]_vars, NEW t \in Turns, pc'[t] \in InTurn, pc[t] \notin InTurn
    PROVE  \/ live # None /\ heap'[t] = heap[live]
           \/ NothingStored
<1> USE DEF CInv, Typed, TypeOK, InTurn, EndTurn
<1>1. ~Restart
    BY DEF Restart
<1>2. Arrive(t) \/ Progress(t)
    BY <1>1, TurnMoves, ArriveMoves, ProgressMoves
<1>3. CASE Arrive(t)
    BY <1>3 DEF Arrive, ArriveAndRecover, ArriveAndCreate, ArriveReadOnly, ArriveAndStart, ArriveAndWait,
       CreateFresh, Objects
<1>4. CASE Acquire(t)
    BY <1>4 DEF Acquire, Control, QuietUnlessOpen, Objects
<1>5. CASE Progress(t) /\ ~Acquire(t)
    BY <1>5 DEF Progress, AbortTurn, StoreTurn, SaveCheckpoint, CheckpointFails, Attest, AttestFails, Answer
<1> QED
    BY <1>2, <1>3, <1>4, <1>5

LEMMA NeverBehindKept ==
    ASSUME ~GovernedWrites, SInv, AnsweredIsDurable, NoWrites, NeverBehind, [Next]_vars
    PROVE  NeverBehind'
<1> USE DEF SInv
<1>1. NothingStored => Answered = {}
    BY DEF NothingStored, AnsweredIsDurable, StoredTurns, Recorded
<1>2. ASSUME NEW t \in Turns, Answer(t)
      PROVE  /\ Checked(t) /\ Stored(t) /\ pc[t] \in InTurn
             /\ live' = t /\ pc'[t] = "done" /\ UNCHANGED <<heap, checkpoints>>
             /\ \A u \in Turns : pc'[u] \notin InTurn
    BY <1>2 DEF Answer, EndTurn, Checked, Stored, InTurn, durable, table, CInv, Typed, TypeOK, Control, LockDiscipline
<1>3. live' \in Turns => pc'[live'] = "done"
    <2>1. CASE UNCHANGED live
        <3>1. live \in Turns => live \in Answered
            BY DEF NeverBehind, Answered
        <3> QED
            BY <2>1, <3>1, AnsweredSteps DEF Answered
    <2>2. live' \in {Boot, None} => live' \notin Turns
        BY SessionAssumption
    <2>3. Restart => live' = None
        BY DEF Restart
    <2> QED
        BY <1>2, <2>1, <2>2, <2>3, LiveSteps
<1>4. live' # None => Answered' \subseteq heap'[live'].counted
    <2>1. ASSUME NEW t \in Turns, Answer(t)
          PROVE  Answered' \subseteq heap'[live'].counted
        <3>1. Answered \subseteq heap[t].counted /\ t \in heap[t].counted
            BY <1>2, <2>1 DEF NeverBehind, StoredStage
        <3>2. Answered' \subseteq Answered \cup {t}
            <4>1. ASSUME NEW u \in Turns, Answer(u) PROVE u = t
                BY <1>2, <2>1, <4>1 DEF Answer
            <4> QED
                BY <4>1, AnsweredSteps
        <3> QED
            BY <1>2, <2>1, <3>1, <3>2
    <2>2. CASE \A t \in Turns : ~Answer(t)
        <3>1. Answered' = Answered
            BY <2>2, AnsweredSteps
        <3>2. ASSUME UNCHANGED live, live # None, ~Restart
              PROVE  Answered \subseteq heap'[live].counted
            <4>1. live \in Objects /\ ~(live \in Turns /\ pc[live] \in {"idle", "queued"})
                BY <3>2 DEF CInv, Typed, TypeOK, NeverBehind
            <4> QED
                BY <3>2, <4>1, CountedGrows DEF NeverBehind
        <3>3. ASSUME live' = Boot, NothingStored \/ (checkpoints # <<>> /\ heap'[Boot] = RecoveredState)
              PROVE  Answered \subseteq heap'[live'].counted
            BY <1>1, <3>3 DEF NeverBehind, RecoveredState
        <3>4. Restart => live' = None
            BY DEF Restart
        <3> QED
            BY <2>2, <3>1, <3>2, <3>3, <3>4, LiveSteps
    <2> QED
        BY <2>1, <2>2
<1>5. ASSUME NEW t \in Turns, pc'[t] \in InTurn
      PROVE  Answered' \subseteq heap'[t].counted
    <2>1. Answered' = Answered
        BY <1>2, <1>5, AnsweredSteps
    <2>2. CASE pc[t] \in InTurn
        <3>1. mutex = t /\ live # None
            BY <2>2, SessionAssumption DEF CInv, Control, LockDiscipline, QuietUnlessOpen
        <3>2. ~Restart
            BY <1>5 DEF Restart, InTurn
        <3>3. heap[t].counted \subseteq heap'[t].counted
            BY <2>2, <3>1, <3>2, CountedGrows DEF Objects, InTurn
        <3> QED
            BY <2>1, <2>2, <3>3 DEF NeverBehind
    <2>3. CASE pc[t] \notin InTurn
        BY <1>1, <1>5, <2>1, <2>3, StartedFrom DEF NeverBehind
    <2> QED
        BY <2>2, <2>3
<1>6. checkpoints' # <<>> => Answered' \subseteq Newest'.state.counted
    <2>1. ASSUME NEW t \in Turns, SaveCheckpoint(t)
          PROVE  Answered' \subseteq Newest'.state.counted
        <3> DEFINE c == [turn |-> t, anchor |-> Len(audit), state |-> heap[t]]
        <3>1. c \in Checkpoint /\ checkpoints \in Seq(Checkpoint)
            BY LenProperties DEF Checkpoint, CInv, Typed, TypeOK, Objects
        <3>2. Newest' = c
            BY <2>1, <3>1, LastOfAppend DEF SaveCheckpoint, Newest
        <3>3. pc[t] \in InTurn /\ Answered' = Answered
            BY <2>1 DEF SaveCheckpoint, InTurn, Answered, CInv, Typed, TypeOK
        <3> QED
            BY <3>2, <3>3 DEF NeverBehind
    <2>2. ASSUME UNCHANGED checkpoints, checkpoints # <<>>
          PROVE  Answered' \subseteq Newest'.state.counted
        <3>1. Newest' = Newest
            BY <2>2 DEF Newest
        <3>2. ASSUME NEW t \in Turns, Answer(t) PROVE t \in Newest.state.counted
            BY <1>2, <3>2 DEF CheckedStage
        <3> QED
            BY <2>2, <3>1, <3>2, AnsweredSteps DEF NeverBehind
    <2> QED
        BY <2>1, <2>2, CheckpointSteps
<1> QED
    BY <1>3, <1>4, <1>5, <1>6 DEF NeverBehind

\* No failure, queue, clear or restart loses a turn the client saw answered, as
\* long as governed writes are off (in production they always are).
THEOREM NoAnsweredTurnLost ==
    ASSUME ~GovernedWrites
    PROVE  Spec => []AnsweredNeverLost
<1> DEFINE Inv == NoWrites /\ NeverBehind
<1>1. Init => Inv
    BY SessionAssumption DEF Init, NoWrites, NeverBehind, Answered, InTurn
<1>2. SInv /\ AnsweredIsDurable /\ Inv /\ [Next]_vars => Inv'
    BY NeverBehindKept, NoWriteSteps DEF SInv
<1>3. Inv => AnsweredNeverLost
    BY DEF NeverBehind, AnsweredNeverLost
<1> QED
    BY <1>1, <1>2, <1>3, StagesHold, AnsweredTurnsAreDurable, PTL DEF Spec

-----------------------------------------------------------------------------
(* A recovered session is frozen.                                          *)

LEMMA FrozenStep ==
    ASSUME CInv, [Next]_vars, lock = "recovery", restarts' = restarts
    PROVE  lock' = "recovery" /\ StoredTurns' = StoredTurns /\ mutex' = None
<1> USE DEF CInv
<1>1. mutex = None /\ waiting = <<>> /\ live # None
    BY DEF Control, QuietUnlessOpen
<1>2. \A t \in Turns : pc[t] \notin InTurn
    BY <1>1, SessionAssumption DEF Control, LockDiscipline
<1>3. ~Restart
    BY DEF Restart, Typed, TypeOK
<1>4. ASSUME NEW t \in Turns, TurnStep(t)
      PROVE  ArriveReadOnly(t)
    BY <1>1, <1>2, <1>4 DEF TurnStep, Arrive, ArriveAndRecover, ArriveAndCreate, ArriveAndStart,
       ArriveAndWait, Note, Progress, Acquire, AbortTurn, StoreTurn, SaveCheckpoint, CheckpointFails,
       Attest, AttestFails, Answer, InTurn, CreateFresh, CreateByRecovery, CannotOpen
<1>5. lock' = "recovery" /\ mutex' = None
    <2>1. ASSUME NEW t \in Turns, TurnStep(t) PROVE UNCHANGED <<lock, mutex>>
        BY <1>4, <2>1 DEF ArriveReadOnly
    <2>2. ASSUME NEW w \in Proposals, ProposalStep(w) PROVE lock' = "recovery" /\ UNCHANGED mutex
        BY <2>2 DEF ProposalStep, Propose, ProposalRejected, ProposalConflict, ProposalAccepted, Reconcile,
           MemoryGone, LockedFor
    <2>3. ASSUME NEW w \in Supersessions, SupersessionStep(w) PROVE lock' = "recovery" /\ UNCHANGED mutex
        BY <2>3 DEF SupersessionStep, Supersede, SupersessionRejected, Archive, SaveReplacement,
           FinishSupersession, MemoryGone, LockedFor, Authorized
    <2>4. Resume \/ ClearMemory \/ UNCHANGED vars => UNCHANGED <<lock, mutex>>
        BY <1>1 DEF Resume, CreateFresh, CreateByRecovery, ClearMemory, vars, volatile
    <2> QED
        BY <1>1, <1>3, <2>1, <2>2, <2>3, <2>4 DEF Next
<1>6. \A t \in Turns : ~StoreTurn(t)
    BY <1>2 DEF StoreTurn, InTurn
<1> QED
    BY <1>5, <1>6, StoredTurnsGrow

\* After a restart a session that was recovered is read-only until the next
\* restart: no turn starts on it or is stored in it, and nothing lifts its lock
\* (set_read_only, authorize_session, the check at the head of chat).
THEOREM RecoveredSessionsFrozen == Spec => RecoveredStaysFrozen
<1>1. CInv /\ [Next]_vars => [lock = "recovery" /\ restarts' = restarts =>
        /\ lock' = "recovery"
        /\ StoredTurns' = StoredTurns
        /\ mutex' = None]_vars
    BY FrozenStep
<1> QED
    BY <1>1, ControlHolds, PTL DEF Spec, RecoveredStaysFrozen

-----------------------------------------------------------------------------
(* A lock reason, once set, is lifted by an audited supersession only.     *)

\* A set lock changes nowhere but at the end of a supersession or in a restart.
LEMMA UnlockStep ==
    ASSUME CInv, [Next]_vars, lock # "none", restarts' = restarts, lock' # lock
    PROVE  \E w \in Supersessions :
              /\ FinishSupersession(w)
              /\ lock' = Authorized
              /\ AppendEvent("memory_supersession", writer[w].mem)
<1> USE DEF CInv, volatile
<1>1. ~Restart
    BY DEF Restart, Typed, TypeOK
<1>2. live # None
    BY DEF Control, QuietUnlessOpen
<1>3. ASSUME NEW t \in Turns, TurnStep(t) PROVE UNCHANGED lock
    BY <1>2, <1>3 DEF TurnStep, Arrive, ArriveAndRecover, ArriveAndCreate, ArriveReadOnly, ArriveAndStart,
       ArriveAndWait, Note, Progress, Acquire, AbortTurn, StoreTurn, SaveCheckpoint, CheckpointFails,
       Attest, AttestFails, Answer, CreateByRecovery, CannotOpen, LockedFor
<1>4. ASSUME NEW w \in Proposals, ProposalStep(w) PROVE UNCHANGED lock
    BY <1>4 DEF ProposalStep, Propose, ProposalRejected, ProposalConflict, ProposalAccepted, Reconcile,
       MemoryGone, LockedFor
<1>5. ASSUME NEW w \in Supersessions, SupersessionStep(w)
      PROVE  FinishSupersession(w)
    BY <1>5 DEF SupersessionStep, Supersede, SupersessionRejected, Archive, SaveReplacement, MemoryGone, LockedFor
<1>6. Resume \/ ClearMemory \/ UNCHANGED vars => UNCHANGED lock
    BY <1>2 DEF Resume, CreateFresh, CreateByRecovery, ClearMemory, vars
<1>7. PICK w \in Supersessions : FinishSupersession(w)
    BY <1>1, <1>3, <1>4, <1>5, <1>6 DEF Next
<1>8. lock' = Authorized /\ AppendEvent("memory_supersession", writer[w].mem)
    BY <1>7 DEF FinishSupersession
<1> QED
    BY <1>7, <1>8

\* Whatever turns, memory writes, clears and faults of storage come together,
\* a read-only session is unlocked only in the step that audits a supersession,
\* and only when the reason was a conflict (set_read_only, authorize_session).
THEOREM OnlySupersessionsUnlock == Spec => OnlySupersessionUnlocks
<1> DEFINE Lifted ==
        lock # "none" /\ restarts' = restarts /\ lock' # lock =>
            /\ lock = "conflict"
            /\ lock' = "none"
            /\ \E w \in Supersessions :
                  /\ writer[w].pc = "replaced"
                  /\ audit' = Append(audit, [type |-> "memory_supersession", of |-> writer[w].mem])
<1>1. CInv /\ [Next]_vars => Lifted
    BY UnlockStep DEF FinishSupersession, Authorized, AppendEvent
<1> QED
    BY <1>1, ControlHolds, PTL DEF Spec, OnlySupersessionUnlocks

-----------------------------------------------------------------------------
(* Memory rows: what the state objects remember is on disk, and each commit *)
(* of a supersession finds the ones before it there.                       *)

\* The only steps that write memory rows; a row once written stays.
LEMMA RowSteps ==
    ASSUME CInv, [Next]_vars
    PROVE  /\ \/ UNCHANGED rows
              \/ \E t \in Turns : StoreTurn(t)
              \/ \E w \in Supersessions : Archive(w) \/ SaveReplacement(w)
           /\ \A m \in Memories : rows[m] # "absent" => rows'[m] # "absent"
           /\ \A m \in Memories : rows'[m] = "superseded" /\ rows[m] # "superseded" =>
                \E w \in Supersessions : Archive(w) /\ Busy(w, "archived") /\ writer[w].mem = m
<1> USE DEF CInv, Typed, TypeOK, durable, table, volatile
<1>1. ASSUME NEW t \in Turns, TurnStep(t)
      PROVE  UNCHANGED rows \/ StoreTurn(t)
    BY <1>1 DEF TurnStep, Arrive, ArriveAndRecover, ArriveAndCreate, ArriveReadOnly, ArriveAndStart,
       ArriveAndWait, Note, Progress, Acquire, AbortTurn, SaveCheckpoint, CheckpointFails,
       Attest, AttestFails, Answer
<1>2. ASSUME NEW w \in Proposals, ProposalStep(w) PROVE UNCHANGED rows
    BY <1>2 DEF ProposalStep, Propose, ProposalRejected, ProposalConflict, ProposalAccepted, Reconcile, MemoryGone
<1>3. ASSUME NEW w \in Supersessions, SupersessionStep(w)
      PROVE  UNCHANGED rows \/ Archive(w) \/ SaveReplacement(w)
    BY <1>3 DEF SupersessionStep, Supersede, SupersessionRejected, FinishSupersession, MemoryGone
<1>4. Resume \/ ClearMemory \/ Restart \/ UNCHANGED vars => UNCHANGED rows
    BY DEF Resume, ClearMemory, Restart, vars
<1>5. \/ UNCHANGED rows
      \/ \E t \in Turns : StoreTurn(t)
      \/ \E w \in Supersessions : Archive(w) \/ SaveReplacement(w)
    BY <1>1, <1>2, <1>3, <1>4 DEF Next
<1>6. ASSUME NEW t \in Turns, StoreTurn(t), NEW m \in Memories
      PROVE  rows'[m] \in {"draft", rows[m]}
    BY <1>6 DEF StoreTurn
<1>7. ASSUME NEW w \in Supersessions, Archive(w), NEW m \in Memories
      PROVE  rows'[m] = rows[m] \/ (rows'[m] = "superseded" /\ Busy(w, "archived") /\ writer[w].mem = m)
    BY <1>7 DEF Archive
<1>8. ASSUME NEW w \in Supersessions, SaveReplacement(w), NEW m \in Memories
      PROVE  rows'[m] \in {"draft", rows[m]}
    BY <1>8 DEF SaveReplacement
<1> QED
    BY <1>5, <1>6, <1>7, <1>8

\* A supersession between its commits is moved by its own next commit only.
LEMMA BetweenCommits ==
    ASSUME CInv, [Next]_vars, ~Restart, NEW w \in Supersessions, writer[w].pc \in {"archived", "replaced"}
    PROVE  \/ writer'[w] = writer[w]
           \/ SaveReplacement(w) /\ writer[w].pc = "archived"
           \/ FinishSupersession(w) /\ writer[w].pc = "replaced"
<1> USE DEF CInv, Typed, TypeOK, volatile, Busy, Over
<1>1. ASSUME NEW t \in Turns, TurnStep(t) PROVE UNCHANGED writer
    BY <1>1 DEF TurnStep, Arrive, ArriveAndRecover, ArriveAndCreate, ArriveReadOnly, ArriveAndStart,
       ArriveAndWait, Note, Progress, Acquire, AbortTurn, StoreTurn, SaveCheckpoint, CheckpointFails,
       Attest, AttestFails, Answer
<1>2. Resume \/ ClearMemory \/ UNCHANGED vars => UNCHANGED writer
    BY DEF Resume, ClearMemory, vars
<1>3. ASSUME NEW v \in Proposals, ProposalStep(v) PROVE writer'[w] = writer[w]
    <2>1. v # w /\ v \in Writers /\ w \in Writers
        BY SessionAssumption DEF Writers
    <2> QED
        BY <1>3, <2>1 DEF ProposalStep, Propose, ProposalRejected, ProposalConflict, ProposalAccepted, Reconcile,
           MemoryGone
<1>4. ASSUME NEW v \in Supersessions, SupersessionStep(v), v # w PROVE writer'[w] = writer[w]
    <2>1. v \in Writers /\ w \in Writers
        BY DEF Writers
    <2> QED
        BY <1>4, <2>1 DEF SupersessionStep, Supersede, SupersessionRejected, Archive, SaveReplacement,
           FinishSupersession, MemoryGone
<1>5. ASSUME SupersessionStep(w)
      PROVE  \/ SaveReplacement(w) /\ writer[w].pc = "archived"
             \/ FinishSupersession(w) /\ writer[w].pc = "replaced"
    BY <1>5 DEF SupersessionStep, Supersede, SupersessionRejected, Archive, SaveReplacement,
       FinishSupersession, MemoryGone
<1> QED
    BY <1>1, <1>2, <1>3, <1>4, <1>5 DEF Next

\* What a step may put into a state object: nothing, the memories of another
\* object or of a checkpoint, a memory stored in the same commit, or the
\* replacement of a supersession whose row comes next.
LEMMA MemorySteps ==
    ASSUME CInv, [Next]_vars, NEW o \in Objects, NEW m \in heap'[o].mems
    PROVE  \/ \E p \in Objects : m \in heap[p].mems
           \/ \E i \in DOMAIN checkpoints : m \in checkpoints[i].state.mems
           \/ m \in Turns /\ rows'[m] = "draft"
           \/ m \in Supersessions /\ Archive(m) /\ writer'[m].pc = "archived"
<1> USE DEF CInv, Typed, TypeOK, volatile
<1>0. heap[o] \in SessionState /\ EmptyState \in SessionState /\ EmptyState.mems = {}
    BY EmptyTyped DEF EmptyState
<1>1. ASSUME checkpoints # <<>>, m \in Newest.state.mems
      PROVE  \E i \in DOMAIN checkpoints : m \in checkpoints[i].state.mems
    BY <1>1, NewestTyped DEF Newest
<1>2. ASSUME NEW t \in Turns, ArriveAndRecover(t) PROVE m \in heap[o].mems \/ (checkpoints # <<>> /\ m \in Newest.state.mems)
    BY <1>2 DEF ArriveAndRecover, Recover, RecoveredState, CreateByRecovery, Recoverable
<1>3. ASSUME NEW t \in Turns, ArriveAndCreate(t) PROVE m \in heap[o].mems
    BY <1>0, <1>3 DEF ArriveAndCreate
<1>4. ASSUME NEW t \in Turns, ArriveAndStart(t) \/ Acquire(t)
      PROVE  m \in heap[o].mems \/ (live \in Objects /\ m \in heap[live].mems)
    BY <1>4 DEF ArriveAndStart, Acquire, Control, QuietUnlessOpen
<1>5. ASSUME NEW t \in Turns, StoreTurn(t)
      PROVE  m \in heap[o].mems \/ (m \in Turns /\ rows'[m] = "draft")
    <2>1. PICK extracted \in {{}, {t}} :
             /\ heap' = [heap EXCEPT ![t] = WithTurn(heap[t], t, extracted)]
             /\ rows' = [x \in Memories |-> IF x \in extracted THEN "draft" ELSE rows[x]]
        BY <1>5 DEF StoreTurn
    <2>2. WithTurn(heap[o], o, extracted).mems = heap[o].mems \cup extracted
        BY <1>0 DEF WithTurn, SessionState
    <2>3. heap'[o].mems \subseteq heap[o].mems \cup extracted
        BY <2>1, <2>2
    <2>4. extracted \subseteq Turns /\ Turns \subseteq Memories
        BY DEF Memories
    <2> QED
        BY <2>1, <2>3, <2>4
<1>6. ASSUME NEW t \in Turns,
             ArriveReadOnly(t) \/ ArriveAndWait(t) \/ Note(t) \/ AbortTurn(t) \/ SaveCheckpoint(t)
             \/ CheckpointFails(t) \/ Attest(t) \/ AttestFails(t) \/ Answer(t)
      PROVE  m \in heap[o].mems
    BY <1>6 DEF ArriveReadOnly, ArriveAndWait, Note, AbortTurn, SaveCheckpoint, CheckpointFails,
       Attest, AttestFails, Answer
<1>7. ASSUME NEW w \in Proposals, ProposalStep(w)
      PROVE  m \in heap[o].mems
    <2>1. CASE Reconcile(w)
        <3>1. heap' = [heap EXCEPT ![writer[w].obj] = WithBinding(heap[writer[w].obj], writer[w].mem)]
            BY <2>1 DEF Reconcile
        <3>2. WithBinding(heap[o], writer[w].mem).mems = heap[o].mems
            BY <1>0 DEF WithBinding, SessionState
        <3> QED
            BY <3>1, <3>2
    <2>2. CASE ~Reconcile(w)
        BY <1>7, <2>2 DEF ProposalStep, Propose, ProposalRejected, ProposalConflict, ProposalAccepted, MemoryGone
    <2> QED
        BY <2>1, <2>2
<1>8. ASSUME NEW w \in Supersessions, SupersessionStep(w)
      PROVE  m \in heap[o].mems \/ (m = w /\ Archive(m) /\ writer'[m].pc = "archived")
    <2>1. CASE Archive(w)
        <3> DEFINE s == writer[w].obj
                   old == writer[w].mem
        <3>1. WithReplacement(heap[o], old, w).mems = heap[o].mems \cup {w}
            BY <1>0 DEF WithReplacement, SessionState
        <3>2. WithRetired(heap[o], old).mems = heap[o].mems
            BY <1>0 DEF WithRetired, SessionState
        <3>3. CASE heap' = [heap EXCEPT ![s] = WithReplacement(heap[s], old, w)] /\ Busy(w, "archived")
            <4>1. heap'[o].mems \subseteq heap[o].mems \cup {w}
                BY <3>1, <3>3
            <4>2. writer'[w].pc = "archived"
                BY <3>3 DEF Busy, Writers
            <4> QED
                BY <2>1, <4>1, <4>2
        <3>4. CASE heap' = [heap EXCEPT ![s] = WithRetired(heap[s], old)]
            BY <3>2, <3>4
        <3> QED
            BY <2>1, <3>3, <3>4 DEF Archive
    <2>2. CASE ~Archive(w)
        BY <1>8, <2>2 DEF SupersessionStep, Supersede, SupersessionRejected, SaveReplacement,
           FinishSupersession, MemoryGone
    <2> QED
        BY <2>1, <2>2
<1>9. CASE Resume
    BY <1>0, <1>1, <1>9 DEF Resume, Recover, RecoveredState, CreateByRecovery, Recoverable
<1>10. CASE ClearMemory
    <2>1. Forgotten(heap[o]).mems = {}
        BY <1>0 DEF Forgotten, SessionState
    <2> QED
        BY <1>10, <2>1 DEF ClearMemory
<1>11. CASE Restart
    BY <1>0, <1>11 DEF Restart
<1>12. CASE UNCHANGED vars
    BY <1>12 DEF vars
<1> QED
    BY <1>1, <1>2, <1>3, <1>4, <1>5, <1>6, <1>7, <1>8, <1>9, <1>10, <1>11, <1>12
    DEF Next, TurnStep, Arrive, Progress

\* Only the row of a replacement can be missing, and only when a commit failed.
Kept(m) == m \in Memories /\ (rows[m] = "absent" => StorageFaults /\ m \in Supersessions)

\* Or it is the replacement of a supersession that wrote the old claim's row and
\* is about to write this one.
HasRow(m) ==
    \/ Kept(m)
    \/ m \in Supersessions /\ writer[m].pc = "archived"

\* Every memory a state object or a checkpoint holds has its row.
RowsHeld ==
    /\ \A o \in Objects : \A m \in heap[o].mems : HasRow(m)
    /\ \A i \in DOMAIN checkpoints : \A m \in checkpoints[i].state.mems : Kept(m)

LEMMA KeptStays ==
    ASSUME CInv, [Next]_vars, NEW m, Kept(m)
    PROVE  Kept(m)'
BY RowSteps DEF Kept

LEMMA HasRowKept ==
    ASSUME CInv, [Next]_vars, ~Restart, NEW m, HasRow(m)
    PROVE  HasRow(m)'
<1> USE DEF HasRow
<1>1. CASE Kept(m)
    BY <1>1, KeptStays
<1>2. CASE m \in Supersessions /\ writer[m].pc = "archived"
    <2>1. CASE writer'[m] = writer[m]
        BY <1>2, <2>1
    <2>2. CASE SaveReplacement(m)
        BY <1>2, <2>2 DEF SaveReplacement, Kept, table, CInv, Typed, TypeOK, Memories
    <2>3. QED
        BY <1>2, <2>1, <2>2, BetweenCommits
<1> QED
    BY <1>1, <1>2

LEMMA RowsHeldKept ==
    ASSUME CInv, RowsHeld, [Next]_vars
    PROVE  RowsHeld'
<1> USE DEF CInv, RowsHeld
<1>1. ASSUME NEW i \in DOMAIN checkpoints', NEW m \in checkpoints'[i].state.mems
      PROVE  Kept(m)'
    <2>1. CASE UNCHANGED checkpoints
        BY <1>1, <2>1, KeptStays
    <2>2. ASSUME NEW t \in Turns, SaveCheckpoint(t)
          PROVE  Kept(m)'
        <3> DEFINE c == [turn |-> t, anchor |-> Len(audit), state |-> heap[t]]
        <3>1. c \in Checkpoint /\ checkpoints \in Seq(Checkpoint)
            BY LenProperties DEF Checkpoint, Typed, TypeOK, Objects
        <3>2. checkpoints' = Append(checkpoints, c)
            BY <2>2 DEF SaveCheckpoint
        <3>3. (i \in DOMAIN checkpoints /\ checkpoints'[i] = checkpoints[i]) \/ checkpoints'[i] = c
            BY <1>1, <3>1, <3>2, AppendProperties, LenProperties
        <3>4. \A w \in Supersessions : writer[w].pc # "archived"
            BY <2>2 DEF SaveCheckpoint, Control, OneStretch, Writers
        <3>5. \A x \in heap[t].mems : Kept(x)
            BY <3>4 DEF HasRow, Objects
        <3> QED
            BY <1>1, <3>3, <3>5, KeptStays
    <2> QED
        BY <2>1, <2>2, CheckpointSteps
<1>2. ASSUME NEW o \in Objects, NEW m \in heap'[o].mems
      PROVE  HasRow(m)'
    <2>1. CASE Restart
        BY <1>2, <2>1 DEF Restart, EmptyState
    <2>2. CASE ~Restart
        <3>1. ASSUME NEW p \in Objects, m \in heap[p].mems PROVE HasRow(m)'
            BY <2>2, <3>1, HasRowKept
        <3>2. ASSUME NEW i \in DOMAIN checkpoints, m \in checkpoints[i].state.mems PROVE HasRow(m)'
            BY <3>2, KeptStays DEF HasRow
        <3>3. ASSUME m \in Turns, rows'[m] = "draft" PROVE HasRow(m)'
            BY <3>3 DEF HasRow, Kept, Memories
        <3>4. ASSUME m \in Supersessions, writer'[m].pc = "archived" PROVE HasRow(m)'
            BY <3>4 DEF HasRow
        <3> QED
            BY <1>2, <3>1, <3>2, <3>3, <3>4, MemorySteps
    <2> QED
        BY <2>1, <2>2
<1> QED
    BY <1>1, <1>2

LEMMA RowsHeldFirst == Init => RowsHeld
BY DEF Init, RowsHeld, EmptyState

\* Every memory of the live state and of every checkpoint has its row: the
\* turn's memory is committed with the turn (save_turn_bundle), a replacement
\* right after the old claim is retired (apply_supersession, save_memory), and a
\* session is recovered from checkpoints of such states.  Failing commits and
\* kills at any point are covered; a failed save_memory leaves a replacement,
\* and nothing else, in the state object without a row.
THEOREM LiveMemoriesAreStored == Spec => []LiveMemoriesHaveRows
<1>1. CInv /\ RowsHeld => LiveMemoriesHaveRows
    BY DEF CInv, Typed, TypeOK, RowsHeld, HasRow, Kept, LiveMemoriesHaveRows, Seen, LoopIdle, Writers
<1> QED
    BY <1>1, RowsHeldFirst, RowsHeldKept, ControlHolds, PTL DEF Spec

LEMMA RecordedStays ==
    ASSUME CInv, [Next]_vars, NEW type \in EventTypes, NEW of \in Turns \cup Memories, Recorded(type, of)
    PROVE  Recorded(type, of)'
<1>1. ASSUME NEW other \in EventTypes, NEW who \in Turns \cup Memories, AppendEvent(other, who)
      PROVE  Recorded(type, of)'
    BY <1>1, RecordedAfter DEF Recorded, CInv, Typed
<1>2. CASE UNCHANGED audit
    BY <1>2 DEF Recorded
<1> QED
    BY <1>1, <1>2, AuditSteps DEF EventTypes

\* Who writes the row of a memory.
LEMMA RowMoves ==
    ASSUME CInv, [Next]_vars, NEW m \in Memories
    PROVE  \/ rows'[m] = rows[m]
           \/ m \in Turns /\ StoreTurn(m)
           \/ m \in Supersessions /\ SaveReplacement(m)
           \/ rows'[m] = "superseded"
<1> USE DEF CInv, Typed, TypeOK
<1>1. ASSUME NEW t \in Turns, StoreTurn(t), t # m PROVE rows'[m] = rows[m]
    BY <1>1 DEF StoreTurn
<1>2. ASSUME NEW w \in Supersessions, SaveReplacement(w), w # m PROVE rows'[m] = rows[m]
    BY <1>2 DEF SaveReplacement, table
<1>3. ASSUME NEW w \in Supersessions, Archive(w) PROVE rows'[m] \in {rows[m], "superseded"}
    BY <1>3 DEF Archive
<1> QED
    BY <1>1, <1>2, <1>3, RowSteps

\* Only save_memory writes what a replacement replaces.
LEMMA ReplacesSteps ==
    ASSUME CInv, [Next]_vars
    PROVE  \/ UNCHANGED replaces
           \/ \E w \in Supersessions :
                 /\ SaveReplacement(w)
                 /\ rows' = [rows EXCEPT ![w] = "draft"]
                 /\ replaces' = [replaces EXCEPT ![w] = writer[w].mem]
                 /\ Busy(w, "replaced")
<1> USE DEF durable, table, volatile
<1>1. ASSUME NEW t \in Turns, TurnStep(t) PROVE UNCHANGED replaces
    BY <1>1 DEF TurnStep, Arrive, ArriveAndRecover, ArriveAndCreate, ArriveReadOnly, ArriveAndStart,
       ArriveAndWait, Note, Progress, Acquire, AbortTurn, StoreTurn, SaveCheckpoint, CheckpointFails,
       Attest, AttestFails, Answer
<1>2. ASSUME NEW w \in Proposals, ProposalStep(w) PROVE UNCHANGED replaces
    BY <1>2 DEF ProposalStep, Propose, ProposalRejected, ProposalConflict, ProposalAccepted, Reconcile, MemoryGone
<1>3. ASSUME NEW w \in Supersessions, SupersessionStep(w), ~SaveReplacement(w) PROVE UNCHANGED replaces
    BY <1>3 DEF SupersessionStep, Supersede, SupersessionRejected, Archive, FinishSupersession, MemoryGone
<1>4. Resume \/ ClearMemory \/ Restart \/ UNCHANGED vars => UNCHANGED replaces
    BY DEF Resume, ClearMemory, Restart, vars
<1>5. ASSUME NEW w \in Supersessions, SaveReplacement(w), replaces' # replaces
      PROVE  /\ rows' = [rows EXCEPT ![w] = "draft"]
             /\ replaces' = [replaces EXCEPT ![w] = writer[w].mem]
             /\ Busy(w, "replaced")
    BY <1>5 DEF SaveReplacement
<1> QED
    BY <1>1, <1>2, <1>3, <1>4, <1>5 DEF Next

\* What a step can do to a memory write: nothing, choose a memory of the live
\* state, go on with its memory, or end.
LEMMA WriterSteps ==
    ASSUME CInv, [Next]_vars, NEW w \in Writers
    PROVE  \/ writer'[w] = writer[w]
           \/ /\ writer[w].pc = "idle" /\ writer'[w].pc \in {"proposing", "superseding"}
              /\ live \in Objects /\ writer'[w].mem \in heap[live].mems
           \/ writer[w].pc = "proposing" /\ writer'[w].pc = "verifying" /\ writer'[w].mem = writer[w].mem
           \/ /\ w \in Supersessions /\ Archive(w)
              /\ writer'[w].pc = "archived" /\ writer'[w].mem = writer[w].mem
           \/ /\ w \in Supersessions /\ SaveReplacement(w)
              /\ writer'[w].pc = "replaced" /\ writer'[w].mem = writer[w].mem
           \/ writer'[w].pc = "over" /\ writer'[w].mem = None
           \/ Restart /\ writer[w].pc = "idle" /\ writer'[w].pc = "idle" /\ writer'[w].mem = None
<1> USE DEF CInv, Typed, TypeOK, volatile, Busy, Over
<1>1. ASSUME NEW t \in Turns, TurnStep(t) PROVE UNCHANGED writer
    BY <1>1 DEF TurnStep, Arrive, ArriveAndRecover, ArriveAndCreate, ArriveReadOnly, ArriveAndStart,
       ArriveAndWait, Note, Progress, Acquire, AbortTurn, StoreTurn, SaveCheckpoint, CheckpointFails,
       Attest, AttestFails, Answer
<1>2. Resume \/ ClearMemory \/ UNCHANGED vars => UNCHANGED writer
    BY DEF Resume, ClearMemory, vars
<1>3. ASSUME NEW v \in Writers, ProposalStep(v) \/ SupersessionStep(v), v # w PROVE writer'[w] = writer[w]
    BY <1>3 DEF ProposalStep, Propose, ProposalRejected, ProposalConflict, ProposalAccepted, Reconcile,
           MemoryGone, SupersessionStep, Supersede, SupersessionRejected, Archive, SaveReplacement,
           FinishSupersession
<1>4. CASE Propose(w) \/ Supersede(w)
    BY <1>4 DEF Propose, Supersede
<1>5. CASE ProposalAccepted(w)
    BY <1>5 DEF ProposalAccepted
<1>6. CASE \/ ProposalRejected(w) \/ ProposalConflict(w) \/ Reconcile(w) \/ MemoryGone(w)
           \/ SupersessionRejected(w) \/ FinishSupersession(w)
    BY <1>6 DEF ProposalRejected, ProposalConflict, Reconcile, MemoryGone, SupersessionRejected, FinishSupersession
<1>7. CASE w \in Supersessions /\ Archive(w)
    BY <1>7 DEF Archive
<1>8. CASE w \in Supersessions /\ SaveReplacement(w)
    BY <1>8 DEF SaveReplacement
<1>9. CASE Restart
    BY <1>9 DEF Restart
<1> QED
    BY <1>1, <1>2, <1>3, <1>4, <1>5, <1>6, <1>7, <1>8, <1>9 DEF Next, ProposalStep, SupersessionStep, Writers

\* The row of a turn's memory is written with the turn.
WrittenWithTurn == \A t \in Turns : rows[t] # "absent" => Recorded("spiral_turn", t)

\* The replacement's id is made in apply_supersession: nothing knows it before.
NotYetMade ==
    \A w \in Supersessions : writer[w].pc \in {"idle", "superseding"} =>
        /\ \A o \in Objects : w \notin heap[o].mems
        /\ \A i \in DOMAIN checkpoints : w \notin checkpoints[i].state.mems
        /\ \A x \in Supersessions : replaces[x] # w
        /\ \A x \in Writers : writer[x].mem # w

\* The row of a replacement is written once.
SavedOnce ==
    \A w \in Supersessions : writer[w].pc \in {"idle", "superseding", "archived"} => replaces[w] = None

\* The three commits of a supersession have no await between them.
OneAtATime ==
    \A w, x \in Supersessions :
        writer[w].pc \in {"archived", "replaced"} /\ writer[x].pc \in {"archived", "replaced"} => w = x

\* The row of a memory that is being replaced, or was: retired, or never saved.
Retired(m) == rows[m] = "superseded" \/ (rows[m] = "absent" /\ m \in Supersessions)

\* Where a supersession is between its commits.
InOrder ==
    /\ \A w \in Supersessions : writer[w].pc = "archived" =>
          /\ Retired(writer[w].mem)
          /\ writer[w].mem # w
          /\ \A x \in Supersessions : replaces[x] # w
    /\ \A w \in Supersessions : writer[w].pc = "replaced" => replaces[w] = writer[w].mem
    /\ \A w \in Supersessions : replaces[w] # None => rows[w] # "absent" /\ Retired(replaces[w])
    /\ \A m \in Memories : Recorded("memory_supersession", m) => \E w \in Supersessions : replaces[w] = m

OInv == RowsHeld /\ WrittenWithTurn /\ NotYetMade /\ SavedOnce /\ OneAtATime /\ InOrder

LEMMA WrittenWithTurnKept ==
    ASSUME CInv, WrittenWithTurn, [Next]_vars
    PROVE  WrittenWithTurn'
<1> SUFFICES ASSUME NEW t \in Turns, rows'[t] # "absent" PROVE Recorded("spiral_turn", t)'
    BY DEF WrittenWithTurn
<1>1. t \in Memories /\ t \notin Supersessions
    BY SessionAssumption DEF Memories
<1>2. CASE rows[t] # "absent"
    BY <1>1, <1>2, RecordedStays DEF WrittenWithTurn, EventTypes
<1>3. CASE StoreTurn(t)
    <2>1. AppendEvent("spiral_turn", t)
        BY <1>3 DEF StoreTurn
    <2> QED
        BY <1>1, <2>1, RecordedAfter DEF Recorded, EventTypes, CInv, Typed
<1>4. ASSUME rows[t] = "absent" PROVE rows'[t] # "superseded"
    <2>1. ASSUME NEW w \in Supersessions, Archive(w) PROVE rows'[t] # "superseded"
        BY <1>1, <1>4, <2>1 DEF Archive, CInv, Typed, TypeOK
    <2>2. ASSUME NEW w \in Supersessions, SaveReplacement(w) PROVE rows'[t] # "superseded"
        BY <1>1, <1>4, <2>2 DEF SaveReplacement, table, CInv, Typed, TypeOK
    <2>3. ASSUME NEW u \in Turns, StoreTurn(u) PROVE rows'[t] # "superseded"
        BY <1>1, <1>4, <2>3 DEF StoreTurn
    <2> QED
        BY <1>4, <2>1, <2>2, <2>3, RowSteps
<1> QED
    BY <1>1, <1>2, <1>3, <1>4, RowMoves

LEMMA NotYetMadeKept ==
    ASSUME CInv, NotYetMade, [Next]_vars
    PROVE  NotYetMade'
<1> SUFFICES ASSUME NEW w \in Supersessions, writer'[w].pc \in {"idle", "superseding"}
             PROVE  /\ \A o \in Objects : w \notin heap'[o].mems
                    /\ \A i \in DOMAIN checkpoints' : w \notin checkpoints'[i].state.mems
                    /\ \A x \in Supersessions : replaces'[x] # w
                    /\ \A x \in Writers : writer'[x].mem # w
    BY DEF NotYetMade
<1>0. w \in Writers /\ w # None /\ w \notin Turns
    BY SessionAssumption DEF Writers
<1>1. writer[w].pc \in {"idle", "superseding"}
    BY <1>0, WriterSteps
<1>2. /\ \A o \in Objects : w \notin heap[o].mems
      /\ \A i \in DOMAIN checkpoints : w \notin checkpoints[i].state.mems
      /\ \A x \in Supersessions : replaces[x] # w
      /\ \A x \in Writers : writer[x].mem # w
    BY <1>1 DEF NotYetMade
<1>3. ASSUME NEW o \in Objects, w \in heap'[o].mems PROVE FALSE
    BY <1>0, <1>2, <1>3, MemorySteps
<1>4. ASSUME NEW i \in DOMAIN checkpoints', w \in checkpoints'[i].state.mems PROVE FALSE
    <2>1. PICK t \in Turns : SaveCheckpoint(t)
        BY <1>2, <1>4, CheckpointSteps
    <2> DEFINE c == [turn |-> t, anchor |-> Len(audit), state |-> heap[t]]
    <2>2. c \in Checkpoint /\ checkpoints \in Seq(Checkpoint)
        BY LenProperties DEF Checkpoint, CInv, Typed, TypeOK, Objects
    <2>3. checkpoints' = Append(checkpoints, c)
        BY <2>1 DEF SaveCheckpoint
    <2>4. (i \in DOMAIN checkpoints /\ checkpoints'[i] = checkpoints[i]) \/ checkpoints'[i] = c
        BY <1>4, <2>2, <2>3, AppendProperties, LenProperties
    <2>5. c.state = heap[t] /\ t \in Objects
        BY DEF Objects
    <2> HIDE DEF c
    <2> QED
        BY <1>2, <1>4, <2>4, <2>5
<1>5. ASSUME NEW x \in Supersessions PROVE replaces'[x] # w
    BY <1>2, <1>5, ReplacesSteps DEF Writers, CInv, Typed, TypeOK
<1>6. ASSUME NEW x \in Writers PROVE writer'[x].mem # w
    BY <1>0, <1>2, WriterSteps
<1> QED
    BY <1>3, <1>4, <1>5, <1>6

LEMMA SavedOnceKept ==
    ASSUME CInv, SavedOnce, [Next]_vars
    PROVE  SavedOnce'
<1> SUFFICES ASSUME NEW w \in Supersessions, writer'[w].pc \in {"idle", "superseding", "archived"}
             PROVE  replaces'[w] = None
    BY DEF SavedOnce
<1>0. w \in Writers
    BY DEF Writers
<1>1. writer[w].pc \in {"idle", "superseding", "archived"}
    BY <1>0, WriterSteps DEF Archive
<1>2. replaces[w] = None
    BY <1>1 DEF SavedOnce
<1>3. ASSUME NEW x \in Supersessions, Busy(x, "replaced"), replaces' = [replaces EXCEPT ![x] = writer[x].mem]
      PROVE  replaces'[w] = None
    <2>1. x # w
        BY <1>0, <1>3 DEF Busy, CInv, Typed, TypeOK
    <2> QED
        BY <1>2, <1>3, <2>1 DEF CInv, Typed, TypeOK
<1> QED
    BY <1>2, <1>3, ReplacesSteps

LEMMA OneAtATimeKept ==
    ASSUME CInv, OneAtATime, [Next]_vars
    PROVE  OneAtATime'
<1> SUFFICES ASSUME NEW w \in Supersessions, NEW x \in Supersessions, w # x,
                    writer'[w].pc \in {"archived", "replaced"}, writer'[x].pc \in {"archived", "replaced"}
             PROVE  FALSE
    BY DEF OneAtATime
<1>0. w \in Writers /\ x \in Writers
    BY DEF Writers
<1>1. ASSUME NEW v \in Supersessions, writer'[v].pc \in {"archived", "replaced"}
      PROVE  writer[v].pc \in {"archived", "replaced"} \/ Archive(v)
    <2>1. v \in Writers
        BY DEF Writers
    <2>2. SaveReplacement(v) => writer[v].pc = "archived"
        BY DEF SaveReplacement
    <2> QED
        BY <1>1, <2>1, <2>2, WriterSteps
<1>2. ASSUME NEW v \in Supersessions, Archive(v), NEW u \in Supersessions, u # v
      PROVE  writer'[u].pc \notin {"archived", "replaced"}
    <2>1. u \in Writers /\ v \in Writers
        BY DEF Writers
    <2>2. writer'[u] = writer[u]
        BY <1>2, <2>1 DEF Archive, Busy, Over, CInv, Typed, TypeOK
    <2> QED
        BY <1>2, <2>1, <2>2 DEF Archive, LoopIdle
<1> QED
    BY <1>1, <1>2 DEF OneAtATime

\* A retired memory stays retired, unless its own row is only now written.
LEMMA RetiredStays ==
    ASSUME CInv, WrittenWithTurn, [Next]_vars, NEW m \in Memories, Retired(m),
           m \in Supersessions => ~SaveReplacement(m)
    PROVE  Retired(m)'
<1>1. ASSUME m \in Turns, StoreTurn(m) PROVE FALSE
    <2>1. rows[m] # "absent"
        BY <1>1, SessionAssumption DEF Retired
    <2>2. ~Recorded("spiral_turn", m)
        BY <1>1 DEF StoreTurn, AppendEvent
    <2> QED
        BY <1>1, <2>1, <2>2 DEF WrittenWithTurn
<1> QED
    BY <1>1, RowMoves DEF Retired

\* The supersession that records a memory as superseded.
LEMMA WhoSupersedes ==
    ASSUME CInv, [Next]_vars, NEW m \in Memories,
           ~Recorded("memory_supersession", m), Recorded("memory_supersession", m)'
    PROVE  \E w \in Supersessions : FinishSupersession(w) /\ writer[w].mem = m
<1> USE DEF durable, volatile, table, EventTypes
<1>1. ASSUME NEW type \in EventTypes, NEW of \in Turns \cup Memories, AppendEvent(type, of)
      PROVE  type = "memory_supersession" /\ of = m
    <2> DEFINE e == [type |-> type, of |-> of]
    <2>1. e \in Event /\ audit \in Seq(Event) /\ audit' = Append(audit, e)
        BY <1>1 DEF Event, AppendEvent, CInv, Typed, TypeOK
    <2>2. PICK i \in DOMAIN audit' : audit'[i] = [type |-> "memory_supersession", of |-> m]
        BY DEF Recorded
    <2>3. (i \in DOMAIN audit /\ audit'[i] = audit[i]) \/ audit'[i] = e
        BY <2>1, <2>2, AppendProperties, LenProperties
    <2>4. audit'[i] = e
        BY <2>2, <2>3 DEF Recorded
    <2> QED
        BY <2>2, <2>4
<1>2. audit' # audit
    BY DEF Recorded
<1>3. ASSUME NEW t \in Turns, TurnStep(t)
      PROVE  AppendEvent("spiral_turn", t) \/ AppendEvent("note", t)
    BY <1>2, <1>3 DEF TurnStep, Arrive, ArriveAndRecover, ArriveAndCreate, ArriveReadOnly, ArriveAndStart,
       ArriveAndWait, Note, Progress, Acquire, AbortTurn, StoreTurn, SaveCheckpoint, CheckpointFails,
       Attest, AttestFails, Answer
<1>4. ASSUME NEW w \in Proposals, ProposalStep(w)
      PROVE  \/ AppendEvent("conflict_membrane", writer[w].mem) /\ writer[w].mem \in Memories
             \/ AppendEvent("memory_reconciled", writer[w].mem) /\ writer[w].mem \in Memories
    BY <1>2, <1>4 DEF ProposalStep, Propose, ProposalRejected, ProposalConflict, ProposalAccepted, Reconcile,
       MemoryGone, CInv, Typed, WriterTyped, ActivePCs, Writers
<1>5. ASSUME NEW w \in Supersessions, SupersessionStep(w)
      PROVE  /\ FinishSupersession(w) /\ AppendEvent("memory_supersession", writer[w].mem)
             /\ writer[w].mem \in Memories
    BY <1>2, <1>5 DEF SupersessionStep, Supersede, SupersessionRejected, Archive, SaveReplacement,
       FinishSupersession, MemoryGone, CInv, Typed, WriterTyped, ActivePCs, Writers
<1>6. ~(Resume \/ ClearMemory \/ Restart \/ UNCHANGED vars)
    BY <1>2 DEF Resume, ClearMemory, Restart, vars
<1>7. PICK w \in Supersessions : SupersessionStep(w)
    BY <1>1, <1>3, <1>4, <1>6 DEF Next
<1> QED
    BY <1>1, <1>5, <1>7

LEMMA InOrderKept ==
    ASSUME CInv, OInv, [Next]_vars
    PROVE  InOrder'
<1> USE DEF OInv
<1>0. \A w \in Supersessions : w \in Writers /\ w \in Memories /\ w # None
    BY SessionAssumption DEF Writers, Memories
<1>a. /\ rows \in [Memories -> {"absent", "draft", "superseded"}]
      /\ replaces \in [Supersessions -> Memories \cup {None}]
      /\ \A w \in Writers : writer[w].pc \in ActivePCs => writer[w].mem \in Memories
    BY DEF CInv, Typed, TypeOK, WriterTyped
<1>b. \A m \in Memories : m # None
    BY SessionAssumption DEF Memories
<1>c. ASSUME NEW x \in Supersessions, SaveReplacement(x)
      PROVE  /\ writer[x].pc = "archived" /\ Retired(writer[x].mem) /\ writer[x].mem # x
             /\ \A v \in Supersessions : replaces[v] # x
             /\ writer[x].mem \in Memories /\ replaces[x] = None
    BY <1>0, <1>a, <1>c DEF SaveReplacement, InOrder, ActivePCs, SavedOnce
<1>1. ASSUME NEW w \in Supersessions, writer'[w].pc = "archived"
      PROVE  /\ Retired(writer[w].mem)'
             /\ writer'[w].mem # w
             /\ \A x \in Supersessions : replaces'[x] # w
    <2>1. CASE Archive(w)
        <3> DEFINE s == writer[w].obj
                   m == writer[w].mem
        <3>1. writer[w].pc = "superseding" /\ s \in Objects /\ m \in Memories /\ m \in heap[s].mems /\ LoopIdle
            BY <1>0, <2>1 DEF Archive, CInv, Typed, WriterTyped, ActivePCs
        <3>2. m # w /\ \A x \in Supersessions : replaces[x] # w
            BY <1>0, <3>1 DEF NotYetMade
        <3>3. /\ rows' = [rows EXCEPT ![m] = IF @ = "absent" THEN @ ELSE "superseded"]
              /\ writer' = [writer EXCEPT ![w].pc = "archived"]
            BY <1>0, <1>1, <2>1 DEF Archive, Busy, Over, CInv, Typed, TypeOK
        <3>4. writer'[w].mem = m
            BY <1>0, <3>3 DEF CInv, Typed, TypeOK
        <3>5. rows[m] = "absent" => m \in Supersessions
            BY <3>1 DEF RowsHeld, HasRow, Kept
        <3>6. rows'[m] = "superseded" \/ (rows'[m] = "absent" /\ m \in Supersessions)
            BY <1>a, <3>1, <3>3, <3>5
        <3>7. UNCHANGED replaces
            BY <2>1 DEF Archive
        <3> QED
            BY <3>2, <3>4, <3>6, <3>7 DEF Retired
    <2>2. CASE writer'[w] = writer[w]
        <3>1. /\ Retired(writer[w].mem) /\ writer[w].mem # w /\ writer[w].mem \in Memories
              /\ \A x \in Supersessions : replaces[x] # w
            BY <1>0, <1>1, <1>a, <2>2 DEF InOrder, ActivePCs
        <3>2. ASSUME NEW x \in Supersessions, SaveReplacement(x) PROVE x = w
            BY <1>1, <1>c, <2>2, <3>2 DEF OneAtATime
        <3>3. ~SaveReplacement(w)
            BY <1>0, <1>1 DEF SaveReplacement, Busy, Over, CInv, Typed, TypeOK
        <3>4. UNCHANGED replaces
            BY <3>2, <3>3, ReplacesSteps
        <3>5. Retired(writer[w].mem)'
            <4>1. PICK m \in Memories : m = writer[w].mem
                BY <3>1
            <4>2. m \in Supersessions => ~SaveReplacement(m)
                BY <3>2, <3>3
            <4>3. Retired(m)
                BY <3>1, <4>1 DEF Retired
            <4>4. Retired(m)'
                BY <4>2, <4>3, RetiredStays
            <4> QED
                BY <2>2, <4>1, <4>4 DEF Retired
        <3> QED
            BY <2>2, <3>1, <3>4, <3>5
    <2> QED
        BY <1>0, <1>1, <2>1, <2>2, WriterSteps
<1>2. ASSUME NEW w \in Supersessions, writer'[w].pc = "replaced"
      PROVE  replaces'[w] = writer'[w].mem
    <2>1. CASE SaveReplacement(w)
        <3>1. replaces' = [replaces EXCEPT ![w] = writer[w].mem] /\ writer' = [writer EXCEPT ![w].pc = "replaced"]
            BY <1>0, <1>2, <2>1 DEF SaveReplacement, Busy, Over, CInv, Typed, TypeOK
        <3> QED
            BY <1>0, <1>a, <3>1 DEF CInv, Typed, TypeOK
    <2>2. CASE writer'[w] = writer[w]
        <3>1. ASSUME NEW x \in Supersessions, SaveReplacement(x) PROVE FALSE
            BY <1>0, <1>2, <1>c, <2>2, <3>1 DEF OneAtATime, SaveReplacement
        <3> QED
            BY <1>2, <2>2, <3>1, ReplacesSteps DEF InOrder
    <2> QED
        BY <1>0, <1>2, <2>1, <2>2, WriterSteps
<1>3. ASSUME NEW w \in Supersessions, replaces'[w] # None
      PROVE  rows'[w] # "absent" /\ Retired(replaces[w])'
    <2>1. CASE replaces'[w] = replaces[w]
        <3>1. PICK m \in Memories : m = replaces[w]
            BY <1>3, <1>a, <2>1
        <3>2. rows[w] # "absent" /\ Retired(m)
            BY <1>3, <2>1, <3>1 DEF InOrder, Retired
        <3>3. m \in Supersessions => ~SaveReplacement(m)
            BY <1>c, <3>1
        <3>4. Retired(m)'
            BY <3>2, <3>3, RetiredStays
        <3>5. rows'[w] # "absent"
            BY <1>0, <3>2, RowSteps
        <3> QED
            BY <2>1, <3>1, <3>4, <3>5 DEF Retired
    <2>2. ASSUME NEW x \in Supersessions, SaveReplacement(x),
                 rows' = [rows EXCEPT ![x] = "draft"],
                 replaces' = [replaces EXCEPT ![x] = writer[x].mem],
                 replaces'[w] # replaces[w]
          PROVE  rows'[w] # "absent" /\ Retired(replaces[w])'
        <3>1. x = w
            BY <1>a, <2>2
        <3>2. replaces'[w] = writer[w].mem /\ rows'[w] = "draft"
            BY <1>0, <1>a, <2>2, <3>1
        <3>3. Retired(writer[w].mem) /\ writer[w].mem # w /\ writer[w].mem \in Memories
            BY <1>c, <2>2, <3>1
        <3>4. rows'[writer[w].mem] = rows[writer[w].mem]
            BY <1>a, <2>2, <3>1, <3>3
        <3> QED
            BY <3>2, <3>3, <3>4 DEF Retired
    <2> QED
        BY <2>1, <2>2, ReplacesSteps
<1>4. ASSUME NEW m \in Memories, Recorded("memory_supersession", m)'
      PROVE  \E w \in Supersessions : replaces'[w] = m
    <2>1. CASE Recorded("memory_supersession", m)
        <3>1. PICK w \in Supersessions : replaces[w] = m
            BY <2>1 DEF InOrder
        <3>2. ASSUME NEW x \in Supersessions, SaveReplacement(x) PROVE x # w
            BY <1>b, <1>c, <3>1, <3>2
        <3> QED
            BY <1>a, <3>1, <3>2, ReplacesSteps
    <2>2. CASE ~Recorded("memory_supersession", m)
        <3>1. PICK w \in Supersessions : FinishSupersession(w) /\ writer[w].mem = m
            BY <1>4, <2>2, WhoSupersedes
        <3>2. replaces[w] = m
            BY <3>1 DEF InOrder, FinishSupersession
        <3>3. UNCHANGED replaces
            BY <3>1 DEF FinishSupersession, table
        <3> QED
            BY <3>2, <3>3
    <2> QED
        BY <2>1, <2>2
<1> QED
    BY <1>1, <1>2, <1>3, <1>4 DEF InOrder

LEMMA OrderKept ==
    ASSUME CInv, OInv, [Next]_vars
    PROVE  OInv'
BY RowsHeldKept, WrittenWithTurnKept, NotYetMadeKept, SavedOnceKept, OneAtATimeKept, InOrderKept DEF OInv

LEMMA OrderFirst == Init => OInv
<1> SUFFICES ASSUME Init PROVE OInv
    OBVIOUS
<1>1. \A w \in Supersessions : writer[w].pc = "idle" /\ replaces[w] = None /\ w # None /\ w \in Memories
    BY SessionAssumption DEF Init, Writers, Memories
<1>2. \A w \in Writers : writer[w].mem = None
    BY DEF Init
<1>3. \A type, of : ~Recorded(type, of)
    BY DEF Init, Recorded
<1>4. WrittenWithTurn
    BY DEF Init, WrittenWithTurn, Memories
<1>5. NotYetMade
    BY <1>1, <1>2 DEF Init, NotYetMade, EmptyState
<1>6. SavedOnce /\ OneAtATime /\ InOrder
    BY <1>1, <1>3 DEF SavedOnce, OneAtATime, InOrder
<1> QED
    BY <1>4, <1>5, <1>6, RowsHeldFirst DEF OInv

\* The three commits of a supersession (apply_supersession) are found on disk in
\* their order, whichever of them fails and wherever the process is killed: an
\* audited supersession has the row of a replacement that names the superseded
\* memory, and a memory that such a row names is a draft no more.
THEOREM SupersessionsComplete == Spec => []SupersessionComplete
<1>1. ASSUME CInv, OInv PROVE SupersessionComplete
    <2>1. ASSUME NEW m \in Memories, NEW w \in Supersessions, replaces[w] = m
          PROVE  rows[w] # "absent" /\ rows[m] # "draft"
        <3>1. m # None
            BY SessionAssumption DEF Memories
        <3>2. rows[w] # "absent" /\ Retired(m)
            BY <1>1, <2>1, <3>1 DEF OInv, InOrder
        <3> QED
            BY <3>2 DEF Retired
    <2>2. ASSUME NEW m \in Memories, Recorded("memory_supersession", m)
          PROVE  \E w \in Supersessions : replaces[w] = m
        BY <1>1, <2>2 DEF OInv, InOrder
    <2> QED
        BY <2>1, <2>2 DEF SupersessionComplete
<1>2. CInv /\ OInv => SupersessionComplete
    BY <1>1
<1>3. CInv /\ OInv /\ [Next]_vars => OInv'
    BY OrderKept
<1> QED
    BY <1>2, <1>3, OrderFirst, ControlHolds, PTL DEF Spec

-----------------------------------------------------------------------------
(* The session implements SessionPromise.                                  *)

LEMMA ModeSteps ==
    ASSUME CInv, [Next]_vars
    PROVE  \/ Mode' = Mode
           \/ Mode = "closed" /\ Mode' = "open" /\ NothingStored
           \/ Mode = "closed" /\ Mode' = "frozen"
           \/ Mode' = "closed"
<1> USE DEF CInv, Typed, TypeOK, Control, QuietUnlessOpen, volatile, Mode, Objects
<1>1. ASSUME NEW t \in Turns, Arrive(t)
      PROVE  \/ Mode' = Mode
             \/ Mode = "closed" /\ Mode' = "open" /\ NothingStored
             \/ Mode = "closed" /\ Mode' = "frozen"
    BY <1>1, SessionAssumption DEF Arrive, ArriveAndRecover, CreateByRecovery, Recover, LockedFor, ArriveAndCreate,
       CreateFresh, ArriveReadOnly, ArriveAndStart, ArriveAndWait
<1>2. ASSUME NEW t \in Turns, Progress(t) \/ Note(t)
      PROVE  Mode' = Mode
    <2>1. CASE AttestFails(t)
        BY <2>1, SessionAssumption DEF AttestFails, LockedFor, LockDiscipline, InTurn
    <2>2. CASE Answer(t)
        BY <2>2, SessionAssumption DEF Answer, LockDiscipline, InTurn
    <2>3. CASE ~AttestFails(t) /\ ~Answer(t)
        BY <1>2, <2>3 DEF Progress, Note, Acquire, AbortTurn, StoreTurn, SaveCheckpoint, CheckpointFails, Attest
    <2> QED
        BY <2>1, <2>2, <2>3
<1>3. ASSUME NEW w \in Proposals, ProposalStep(w)
      PROVE  Mode' = Mode
    <2>1. writer[w].pc \in ActivePCs => live # None /\ writer[w].obj # None
        BY SessionAssumption DEF Writers, WriterTyped
    <2> QED
        BY <1>3, <2>1 DEF ProposalStep, Propose, ProposalRejected, ProposalConflict, ProposalAccepted, Reconcile,
           MemoryGone, LockedFor, ActivePCs
<1>4. ASSUME NEW w \in Supersessions, SupersessionStep(w)
      PROVE  Mode' = Mode
    <2>1. writer[w].pc \in ActivePCs => live # None /\ writer[w].obj # None
        BY SessionAssumption DEF Writers, WriterTyped
    <2> QED
        BY <1>4, <2>1 DEF SupersessionStep, Supersede, SupersessionRejected, Archive, SaveReplacement,
           FinishSupersession, MemoryGone, LockedFor, Authorized, ActivePCs
<1>5. ASSUME Resume
      PROVE  \/ Mode = "closed" /\ Mode' = "open" /\ NothingStored
             \/ Mode = "closed" /\ Mode' = "frozen"
    BY <1>5, SessionAssumption DEF Resume, CreateFresh, CreateByRecovery, Recover, LockedFor
<1>6. ClearMemory \/ UNCHANGED vars => Mode' = Mode
    BY DEF ClearMemory, vars
<1>7. Restart => Mode' = "closed"
    BY DEF Restart
<1> QED
    BY <1>1, <1>2, <1>3, <1>4, <1>5, <1>6, <1>7 DEF Next, TurnStep

LEMMA PromiseStep ==
    ASSUME SInv, [Next]_vars
    PROVE  [Promise!Next]_(Promise!vars)
<1> USE DEF SInv, CInv, Typed, TypeOK
<1>1. ASSUME NEW t \in Turns, StoreTurn(t), t \notin StoredTurns, StoredTurns' = StoredTurns \cup {t}
      PROVE  Promise!Store(t)
    <2>1. Mode = "open" /\ Mode' = "open"
        BY <1>1, SessionAssumption DEF StoreTurn, Mode, Control, LockDiscipline, QuietUnlessOpen, InTurn
    <2>2. Answered' = Answered
        BY <1>1 DEF StoreTurn, Answered
    <2> QED
        BY <1>1, <2>1, <2>2 DEF Promise!Store
<1>2. ASSUME NEW t \in Turns, Answer(t), Answered' = Answered \cup {t}
      PROVE  Promise!Answer(t)
    <2>1. mutex = t /\ Stored(t) /\ t \notin Answered
        BY <1>2 DEF Answer, Stored, Control, LockDiscipline, InTurn, Answered
    <2>2. Mode = "open" /\ Mode' = "open"
        BY <1>2, <2>1, SessionAssumption DEF Answer, Mode, Control, QuietUnlessOpen
    <2>3. StoredTurns' = StoredTurns
        BY <1>2 DEF Answer, durable, table, StoredTurns, Recorded
    <2>4. t \in StoredTurns
        BY <2>1 DEF StoredStage
    <2> QED
        BY <1>2, <2>1, <2>2, <2>3, <2>4 DEF Promise!Answer
<1>3. ASSUME StoredTurns' = StoredTurns, Answered' = Answered
      PROVE  Promise!Open \/ Promise!Freeze \/ Promise!Crash \/ UNCHANGED Promise!vars
    <2>1. NothingStored => StoredTurns = {}
        BY DEF NothingStored, StoredTurns, Recorded
    <2> QED
        BY <1>3, <2>1, ModeSteps DEF Promise!Open, Promise!Freeze, Promise!Crash, Promise!vars
<1>4. ASSUME NEW t \in Turns, Answer(t) PROVE StoredTurns' = StoredTurns
    BY <1>4 DEF Answer, durable, table, StoredTurns, Recorded
<1> QED
    BY <1>1, <1>2, <1>3, <1>4, StoredTurnsGrow, AnsweredSteps DEF Promise!Next, StoreTurn, Answer

\* The engine keeps the promise of SessionPromise: only the process that created
\* a session writes to it, and a turn is answered once, after it is stored.
THEOREM EngineKeepsPromise == Spec => KeepsPromise
<1>1. Init => Promise!Init
    BY DEF Init, Promise!Init, Mode, StoredTurns, Recorded, Answered
<1>2. SInv /\ [Next]_vars => [Promise!Next]_(Promise!vars)
    BY PromiseStep
<1> QED
    BY <1>1, <1>2, StagesHold, PTL DEF Spec, KeepsPromise, Promise!Spec

-----------------------------------------------------------------------------
(* Turns come to an end.  That their steps are taken is for the run to     *)
(* check (TurnsSettle).  Proved is that nobody is lost in the queue of the *)
(* session lock or overtaken there, and that a turn's steps lead on.       *)

Queued(t) == \E i \in DOMAIN waiting : waiting[i] = t

QueuedTurnsWait == \A t \in Turns : pc[t] = "queued" => Queued(t)

\* Who stays in the queue does not get further from its head.
NobodyOvertakes ==
    \A i \in DOMAIN waiting :
        pc'[waiting[i]] = "queued" => \E j \in DOMAIN waiting' : j <= i /\ waiting'[j] = waiting[i]

LEMMA QueueSteps ==
    ASSUME CInv, [Next]_vars
    PROVE  /\ NobodyOvertakes
           /\ \A t \in Turns : pc'[t] = "queued" /\ pc[t] # "queued" => Queued(t)'
<1> USE DEF NobodyOvertakes, Queued, volatile, durable, table
<1>1. waiting \in Seq(Turns) /\ pc \in [Turns -> TurnPCs]
    BY DEF CInv, Typed, TypeOK
<1>2. DOMAIN waiting = 1..Len(waiting) /\ Len(waiting) \in Nat
    BY <1>1, LenProperties
<1>3. CASE waiting' = waiting /\ \A t \in Turns : pc'[t] = "queued" => pc[t] = "queued"
    BY <1>2, <1>3
<1>4. ASSUME NEW t \in Turns, Acquire(t)
      PROVE  /\ NobodyOvertakes
             /\ \A u \in Turns : pc'[u] = "queued" => pc[u] = "queued"
    <2>1. /\ DOMAIN waiting' = 1..(Len(waiting) - 1)
          /\ \A i \in DOMAIN waiting' : waiting'[i] = waiting[i + 1]
        BY <1>1, <1>4, HeadTailProperties, LenProperties DEF Acquire
    <2>2. waiting[1] = t /\ pc' = [pc EXCEPT ![t] = "running"]
        BY <1>4 DEF Acquire
    <2>3. ASSUME NEW i \in DOMAIN waiting, pc'[waiting[i]] = "queued"
          PROVE  i - 1 \in DOMAIN waiting' /\ i - 1 <= i /\ waiting'[i - 1] = waiting[i]
        <3>1. i # 1
            BY <1>1, <2>2, <2>3
        <3>2. i - 1 \in DOMAIN waiting' /\ (i - 1) + 1 = i
            BY <1>2, <2>1, <3>1
        <3> QED
            BY <1>2, <2>1, <3>2
    <2> QED
        BY <1>1, <2>2, <2>3
<1>5. ASSUME NEW t \in Turns, ArriveAndWait(t)
      PROVE  /\ NobodyOvertakes
             /\ \A u \in Turns : pc'[u] = "queued" /\ pc[u] # "queued" => Queued(u)'
    <2>1. /\ DOMAIN waiting' = DOMAIN waiting \cup {Len(waiting) + 1}
          /\ \A i \in DOMAIN waiting : waiting'[i] = waiting[i]
          /\ waiting'[Len(waiting) + 1] = t
        BY <1>1, <1>5, AppendProperties DEF ArriveAndWait
    <2>2. pc' = [pc EXCEPT ![t] = "queued"]
        BY <1>5 DEF ArriveAndWait
    <2> QED
        BY <1>1, <1>2, <2>1, <2>2
<1>6. ASSUME NEW t \in Turns, TurnStep(t), ~Acquire(t), ~ArriveAndWait(t)
      PROVE  waiting' = waiting /\ \A u \in Turns : pc'[u] = "queued" => pc[u] = "queued"
    <2>1. CASE Arrive(t) \/ Note(t)
        BY <1>1, <1>6, <2>1
           DEF Arrive, ArriveAndRecover, ArriveAndCreate, ArriveReadOnly, ArriveAndStart, Note
    <2>2. CASE Progress(t)
        BY <1>1, <1>6, <2>2
           DEF Progress, AbortTurn, StoreTurn, SaveCheckpoint, CheckpointFails, Attest, AttestFails,
               Answer, EndTurn
    <2> QED
        BY <1>6, <2>1, <2>2 DEF TurnStep
<1>7. ASSUME NEW w \in Writers, ProposalStep(w) \/ SupersessionStep(w)
      PROVE  waiting' = waiting /\ pc' = pc
    BY <1>7 DEF ProposalStep, Propose, ProposalRejected, ProposalConflict, ProposalAccepted, Reconcile, MemoryGone,
       SupersessionStep, Supersede, SupersessionRejected, Archive, SaveReplacement, FinishSupersession
<1>8. Resume \/ ClearMemory \/ UNCHANGED vars => waiting' = waiting /\ pc' = pc
    BY DEF Resume, ClearMemory, vars
<1>9. Restart => \A t \in Turns : pc'[t] # "queued"
    BY DEF Restart
<1>10. CASE Restart
    BY <1>1, <1>2, <1>9, <1>10
<1> QED
    BY <1>3, <1>4, <1>5, <1>6, <1>7, <1>8, <1>10 DEF Next, Writers

\* A turn that was told to wait for the session lock is in its queue until it is
\* woken or the process is killed: no error of another turn loses it.
THEOREM QueuedTurnsAreKept == Spec => []QueuedTurnsWait
<1>1. Init => QueuedTurnsWait
    BY DEF Init, QueuedTurnsWait
<1>2. CInv /\ QueuedTurnsWait /\ [Next]_vars => QueuedTurnsWait'
    <2> SUFFICES ASSUME CInv, QueuedTurnsWait, [Next]_vars, NEW t \in Turns, pc'[t] = "queued"
                 PROVE  Queued(t)'
        BY DEF QueuedTurnsWait
    <2>1. CASE pc[t] = "queued"
        <3>1. PICK i \in DOMAIN waiting : waiting[i] = t
            BY <2>1 DEF QueuedTurnsWait, Queued
        <3> QED
            BY <3>1, QueueSteps DEF NobodyOvertakes, Queued
    <2> QED
        BY <2>1, QueueSteps
<1> QED
    BY <1>1, <1>2, ControlHolds, PTL DEF Spec

\* Turns get the session lock in the order in which they asked for it: of those
\* that wait none moves away from the head of the queue.
THEOREM QueueKeepsOrder == Spec => [][NobodyOvertakes]_vars
<1>1. CInv /\ [Next]_vars => NobodyOvertakes
    BY QueueSteps
<1> QED
    BY <1>1, ControlHolds, PTL DEF Spec

Stage ==
    [queued |-> 1, running |-> 2, stored |-> 3, checkpointed |-> 4, signed |-> 5,
     done |-> 6, failed |-> 6, unsigned |-> 6]

\* Every step of a turn that has started takes it to a later stage of engine.chat,
\* the last of which is its answer or its error.
THEOREM TurnsMoveOn ==
    Spec => [][\A t \in Turns : Progress(t) => pc[t] \notin Settled /\ Stage[pc'[t]] > Stage[pc[t]]]_vars
<1>1. CInv => \A t \in Turns : Progress(t) => pc[t] \notin Settled /\ Stage[pc'[t]] > Stage[pc[t]]
    <2> SUFFICES ASSUME CInv, NEW t \in Turns, Progress(t)
                 PROVE  pc[t] \notin Settled /\ Stage[pc'[t]] > Stage[pc[t]]
        OBVIOUS
    <2> USE DEF Settled, Stage
    <2>1. pc \in [Turns -> TurnPCs]
        BY DEF CInv, Typed, TypeOK
    <2>2. CASE Acquire(t)
        <3>1. 1 \in DOMAIN waiting /\ waiting[1] = t
            BY <2>2 DEF CInv, Typed, TypeOK, Acquire
        <3>2. pc[t] = "queued" /\ pc'[t] = "running"
            BY <2>1, <2>2, <3>1 DEF Acquire, CInv, Control, LockDiscipline
        <3> QED
            BY <3>2
    <2>3. CASE AbortTurn(t) \/ StoreTurn(t) \/ SaveCheckpoint(t) \/ CheckpointFails(t)
        BY <2>1, <2>3 DEF AbortTurn, StoreTurn, SaveCheckpoint, CheckpointFails, EndTurn
    <2>4. CASE Attest(t) \/ AttestFails(t) \/ Answer(t)
        BY <2>1, <2>4 DEF Attest, AttestFails, Answer, EndTurn
    <2> QED
        BY <2>2, <2>3, <2>4 DEF Progress
<1> QED
    BY <1>1, ControlHolds, PTL DEF Spec
=============================================================================
