---------------------------- MODULE InferenceProofs ----------------------------
(***************************************************************************)
(* Theorems about Inference: for any number of requests, slots, attempts   *)
(* and credentials, any budget, timeout and cooldown, and any clock.       *)
(***************************************************************************)
EXTENDS Inference, TLAPS

Running(r) == pc[r] \in {"slot", "attempt", "leave"}

\* The event loop runs one request at a time.
OneRuns == \A q, r \in Requests : Running(q) /\ Running(r) => q = r

\* A request at a slot is at one that exists, and one with a result is over.
Placed(r) ==
    /\ pc[r] \in {"attempt", "waiting", "leave"} => slot[r] <= Len(Slots)
    /\ pc[r] \in {"attempt", "waiting"} => attempt[r] > 0
    /\ result[r] # "none" => pc[r] = "done"
    /\ pc[r] = "new" => journal[r] = {}

\* The timeout around a call is cut to the budget.
Timed(r) ==
    /\ Active(r) => now <= began[r] + Budget
    /\ pc[r] = "waiting" => deadline[r] <= began[r] + Budget

\* What has been written is of earlier slots or attempts.
Behind(r, e) ==
    \/ e.slot < slot[r]
    \/ /\ e.slot = slot[r] /\ pc[r] \notin {"new", "slot"}
       /\ e.attempt <= attempt[r]
       /\ pc[r] = "attempt" => e.attempt < attempt[r]

Answers(d, e) == d.slot = e.slot /\ d.attempt = e.attempt /\ d.phase # "started"

Answered(r, e) == \E d \in journal[r] : Answers(d, e)

Current(r, e) == e.slot = slot[r] /\ e.attempt = attempt[r]

\* What has been written lies behind the request, or is the start of its call.
Past(r) ==
    \A e \in journal[r] :
      Behind(r, e) /\ (pc[r] = "waiting" /\ Current(r, e) => e.phase = "started")

\* A call has an outcome unless it is the current one and still has none.
Answering(r) ==
    \A e \in journal[r] :
      e.phase = "started" =>
        /\ e.attempt > 0
        /\ Answered(r, e) \/ (Current(r, e) /\ (pc[r] = "waiting" \/ result[r] = "aborted"))

\* And it has no other.
OneOutcome(r) ==
    \A d, e \in journal[r] : e.attempt > 0 /\ e.phase # "started" /\ Answers(d, e) => d = e

Journaled(r) == Past(r) /\ Answering(r) /\ OneOutcome(r)

Passed == {"skipped", "exhausted", "unavailable", "unknown", "refused"}

\* A slot that was passed has its entry, and so has one that is being left.
Accounted(r) ==
    /\ \A s \in DOMAIN Slots : s < slot[r] => Has(r, s, Passed)
    /\ pc[r] = "leave" => Has(r, slot[r], Passed)
    /\ result[r] = "safe_mode" /\ status[r] # "refused" => slot[r] > Len(Slots)

\* After a refusal the request only ends.
Refused(r) ==
    \A e \in journal[r] :
      e.phase = "refused" =>
        /\ pc[r] \in {"leave", "done"} /\ result[r] # "accepted" /\ status[r] = "refused"
        /\ Current(r, e)

\* A slot in use has a credential, and its model was not cooling down.
Usable(r) ==
    /\ pc[r] \in {"attempt", "waiting"} => ~NoKey(r)
    /\ pc[r] = "attempt" /\ attempt[r] = 1 => cooldown[Here(r).model] <= now

Fine(r) == Placed(r) /\ Timed(r) /\ Journaled(r) /\ Accounted(r) /\ Refused(r) /\ Usable(r)

IInv == TypeOK /\ OneRuns /\ \A r \in Requests : Fine(r)

-----------------------------------------------------------------------------
LEMMA SlotsDomain ==
    Len(Slots) \in Nat /\ DOMAIN Slots = 1..Len(Slots)
BY InferenceAssumption

LEMMA SlotTyped ==
    ASSUME TypeOK, NEW r \in Requests, slot[r] <= Len(Slots)
    PROVE  /\ slot[r] \in DOMAIN Slots
           /\ Here(r).model \in Models
           /\ Here(r).credential \in Credentials \union {NoCredential}
           /\ Here(r).attempts \in Nat \ {0}
<1>1. slot[r] \in 1..Len(Slots)
    BY InferenceAssumption DEF TypeOK
<1>2. Slots[slot[r]] \in SlotType
    BY <1>1, InferenceAssumption
<1> QED
    BY <1>1, <1>2, InferenceAssumption DEF Here, SlotType

LEMMA InitIInv == Init => IInv
<1> SUFFICES ASSUME Init PROVE IInv
    OBVIOUS
<1> USE DEF Init
<1>1. TypeOK
    <2>1. Len(Slots) \in Nat /\ 1 \in 1..(Len(Slots) + 1)
        BY InferenceAssumption
    <2> QED
        BY <2>1 DEF TypeOK
<1>2. OneRuns
    BY DEF OneRuns, Running
<1>3. ASSUME NEW r \in Requests
      PROVE  Fine(r)
    <2>1. Placed(r) /\ Timed(r) /\ Journaled(r) /\ Refused(r) /\ Usable(r)
        BY DEF Placed, Timed, Active, Journaled, Past, Answering, OneOutcome, Refused, Usable
    <2>2. \A s \in DOMAIN Slots : ~(s < slot[r])
        BY SlotsDomain
    <2>3. Accounted(r)
        BY <2>2 DEF Accounted
    <2> QED
        BY <2>1, <2>3 DEF Fine
<1> QED
    BY <1>1, <1>2, <1>3 DEF IInv

-----------------------------------------------------------------------------
(* Types *)

LEMMA TypeStep ==
    ASSUME IInv, [Next]_vars
    PROVE  TypeOK'
<1> TypeOK
    BY DEF IInv
<1> USE DEF TypeOK
<1>1. CASE Tick
    BY <1>1 DEF Tick, requestVars
<1>2. ASSUME NEW r \in Requests, Arrive(r)
      PROVE  TypeOK'
    BY <1>2 DEF Arrive, Goto
<1>3. ASSUME NEW r \in Requests, SkipSlot(r) \/ BudgetExhausted(r) \/ Call(r)
      PROVE  TypeOK'
    <2>1. /\ slot[r] \in Nat /\ attempt[r] \in Nat
          /\ Entry(slot[r], 0, "skipped") \in Entries
          /\ Entry(slot[r], 0, "exhausted") \in Entries
          /\ Entry(slot[r], attempt[r], "started") \in Entries
        BY SlotsDomain DEF Entry, Entries, Phases
    <2>2. pc[r] = "slot" /\ slot[r] <= Len(Slots) => slot[r] + 1 \in 1..(Len(Slots) + 1)
        BY SlotsDomain
    <2>3. Deadline(r) \in Nat
        BY InferenceAssumption DEF Deadline
    <2>4. /\ now' \in Nat /\ cooldown' \in [Models -> Nat]
          /\ pc' \in [Requests -> {"new", "slot", "attempt", "waiting", "leave", "done"}]
          /\ result' \in [Requests -> {"none", "accepted", "safe_mode", "aborted"}]
        BY <1>3, <2>1, <2>2, <2>3 DEF SkipSlot, AtSlot, BudgetExhausted, Call, Records, Goto, clockVars
    <2>5. /\ began' \in [Requests -> Nat] /\ slot' \in [Requests -> 1..(Len(Slots) + 1)]
          /\ attempt' \in [Requests -> Nat] /\ deadline' \in [Requests -> Nat]
        BY <1>3, <2>1, <2>2, <2>3 DEF SkipSlot, AtSlot, BudgetExhausted, Call, Records, Goto, clockVars
    <2>6. /\ failed' \in [Requests -> BOOLEAN] /\ blocked' \in [Requests -> SUBSET Credentials]
          /\ status' \in [Requests -> {"unavailable", "unknown", "refused"}]
          /\ journal' \in [Requests -> SUBSET Entries]
        <3>1. UNCHANGED <<failed, blocked, status>>
            BY <1>3, <2>1, <2>2, <2>3 DEF SkipSlot, AtSlot, BudgetExhausted, Call, Records, Goto, clockVars
        <3>2. journal' \in [Requests -> SUBSET Entries]
            BY <1>3, <2>1, <2>2, <2>3 DEF SkipSlot, AtSlot, BudgetExhausted, Call, Records, Goto, clockVars
        <3> QED
            BY <3>1, <3>2
    <2> QED
        BY <2>4, <2>5, <2>6
<1>4. ASSUME NEW r \in Requests, EnterSlot(r) \/ SafeMode(r) \/ AuditFails(r)
      PROVE  TypeOK'
    <2>1. /\ now' \in Nat /\ cooldown' \in [Models -> Nat]
          /\ pc' \in [Requests -> {"new", "slot", "attempt", "waiting", "leave", "done"}]
          /\ result' \in [Requests -> {"none", "accepted", "safe_mode", "aborted"}]
        BY <1>4 DEF EnterSlot, SafeMode, AuditFails, Ends, Goto, clockVars
    <2>2. /\ began' \in [Requests -> Nat] /\ slot' \in [Requests -> 1..(Len(Slots) + 1)]
          /\ attempt' \in [Requests -> Nat] /\ deadline' \in [Requests -> Nat]
        <3>1. UNCHANGED <<began, slot, deadline>>
            BY <1>4 DEF EnterSlot, SafeMode, AuditFails, Ends, Goto, clockVars
        <3>2. attempt' \in [Requests -> Nat]
            BY <1>4 DEF EnterSlot, SafeMode, AuditFails, Ends, Goto, clockVars
        <3> QED
            BY <3>1, <3>2
    <2>3. /\ failed' \in [Requests -> BOOLEAN] /\ blocked' \in [Requests -> SUBSET Credentials]
          /\ status' \in [Requests -> {"unavailable", "unknown", "refused"}]
          /\ journal' \in [Requests -> SUBSET Entries]
        BY <1>4 DEF EnterSlot, SafeMode, AuditFails, Ends, Goto, clockVars
    <2> QED
        BY <2>1, <2>2, <2>3
<1>5. ASSUME NEW r \in Requests, Accepted(r)
      PROVE  TypeOK'
    <2>1. Entry(slot[r], attempt[r], "accepted") \in Entries
        BY SlotsDomain DEF Entry, Entries, Phases
    <2> QED
        BY <1>5, <2>1 DEF Accepted, Records, Ends, Goto, clockVars
<1>6. ASSUME NEW r \in Requests, NEW fault \in Faults, pc[r] = "waiting", Fails(r, fault)
      PROVE  TypeOK'
    <2>1. StatusOf(fault) \in {"unavailable", "unknown", "refused"}
        BY DEF StatusOf
    <2>2. Entry(slot[r], attempt[r], StatusOf(fault)) \in Entries
        BY <2>1, SlotsDomain DEF Entry, Entries, Phases
    <2>3. {Here(r).credential} \ {NoCredential} \subseteq Credentials
        BY <1>6, SlotTyped DEF IInv, Fine, Placed
    <2>4. /\ now' \in Nat /\ cooldown' \in [Models -> Nat]
          /\ pc' \in [Requests -> {"new", "slot", "attempt", "waiting", "leave", "done"}]
          /\ result' \in [Requests -> {"none", "accepted", "safe_mode", "aborted"}]
        BY <1>6, <2>1, <2>2, <2>3 DEF Fails, Records, Goto, clockVars
    <2>5. /\ began' \in [Requests -> Nat] /\ slot' \in [Requests -> 1..(Len(Slots) + 1)]
          /\ attempt' \in [Requests -> Nat] /\ deadline' \in [Requests -> Nat]
        <3>1. UNCHANGED <<began, slot, deadline>>
            BY <1>6, <2>1, <2>2, <2>3 DEF Fails, Records, Goto, clockVars
        <3>2. attempt' \in [Requests -> Nat]
            BY <1>6, <2>1, <2>2, <2>3 DEF Fails, Records, Goto, clockVars
        <3> QED
            BY <3>1, <3>2
    <2>6. /\ failed' \in [Requests -> BOOLEAN] /\ blocked' \in [Requests -> SUBSET Credentials]
          /\ status' \in [Requests -> {"unavailable", "unknown", "refused"}]
          /\ journal' \in [Requests -> SUBSET Entries]
        BY <1>6, <2>1, <2>2, <2>3 DEF Fails, Records, Goto, clockVars
    <2> QED
        BY <2>4, <2>5, <2>6
<1>7. ASSUME NEW r \in Requests, LeaveSlot(r)
      PROVE  TypeOK'
    <2>1. slot[r] + 1 \in 1..(Len(Slots) + 1)
        BY <1>7, SlotsDomain DEF LeaveSlot, IInv, Fine, Placed
    <2>2. now + Cooldown \in Nat
        BY InferenceAssumption
    <2> QED
        BY <1>7, <2>1, <2>2 DEF LeaveSlot, Goto
<1>8. CASE UNCHANGED vars
    BY <1>8 DEF vars
<1> QED
    BY <1>1, <1>2, <1>3, <1>4, <1>5, <1>6, <1>7, <1>8 DEF Next, Step, Failed, TimedOut, Faults

-----------------------------------------------------------------------------
(* A step of one request leaves the others as they are. *)

Same(q) ==
    /\ pc'[q] = pc[q] /\ began'[q] = began[q] /\ slot'[q] = slot[q] /\ attempt'[q] = attempt[q]
    /\ deadline'[q] = deadline[q] /\ failed'[q] = failed[q] /\ blocked'[q] = blocked[q]
    /\ status'[q] = status[q] /\ journal'[q] = journal[q] /\ result'[q] = result[q]

LEMMA StepsAreLocal ==
    ASSUME TypeOK, NEW r \in Requests, Arrive(r) \/ Step(r)
    PROVE  now' = now /\ \A q \in Requests : q # r => Same(q)
<1> USE DEF TypeOK, Same, clockVars, requestVars, Goto, Records, Ends
<1>1. CASE Arrive(r)
    BY <1>1 DEF Arrive
<1>2. CASE SkipSlot(r) \/ EnterSlot(r)
    BY <1>2 DEF SkipSlot, EnterSlot
<1>3. CASE BudgetExhausted(r) \/ Call(r)
    BY <1>3 DEF BudgetExhausted, Call
<1>4. CASE Accepted(r) \/ SafeMode(r) \/ AuditFails(r)
    BY <1>4 DEF Accepted, SafeMode, AuditFails
<1>5. CASE LeaveSlot(r)
    BY <1>5 DEF LeaveSlot
<1>6. ASSUME NEW fault, Fails(r, fault)
      PROVE  now' = now /\ \A q \in Requests : q # r => Same(q)
    BY <1>6 DEF Fails
<1> QED
    BY <1>1, <1>2, <1>3, <1>4, <1>5, <1>6 DEF Step, Failed, TimedOut

\* What is untouched stays fine, unless its model has begun to cool down.
LEMMA OthersStayFine ==
    ASSUME NEW q \in Requests, Fine(q), Same(q), now' = now,
           Running(q) => cooldown' = cooldown
    PROVE  Fine(q)'
<1> USE DEF Same
<1>1. Placed(q)' /\ Timed(q)' /\ Refused(q)'
    BY DEF Fine, Placed, Timed, Active, Refused, Current
<1>2. Journaled(q)'
    BY DEF Fine, Journaled, Past, Answering, OneOutcome, Behind, Answered, Answers, Current
<1>3. Accounted(q)'
    BY DEF Fine, Accounted, Has
<1>4. Usable(q)'
    BY DEF Fine, Usable, NoKey, Here, Running
<1> QED
    BY <1>1, <1>2, <1>3, <1>4 DEF Fine

\* Requests start to run when no other runs, so one runs at a time; only the
\* one that runs, or one that arrives while none does, changes the cooldowns.
LEMMA OneRunsStep ==
    ASSUME IInv, NEW r \in Requests, Arrive(r) \/ Step(r)
    PROVE  OneRuns' /\ \A q \in Requests : q # r /\ Running(q) => cooldown' = cooldown
<1>1. \A q \in Requests : q # r => (Running(q)' <=> Running(q))
    BY StepsAreLocal DEF Same, Running, IInv
<1>2. Running(r) \/ LoopIdle
    BY DEF Arrive, Step, SkipSlot, EnterSlot, AtSlot, BudgetExhausted, Call, Accepted, Failed, TimedOut, LeaveSlot,
           SafeMode, GivesUp, AuditFails, Running
<1>3. \A q \in Requests : q # r => ~Running(q)
    BY <1>2 DEF LoopIdle, Running, IInv, OneRuns
<1> QED
    BY <1>1, <1>3 DEF OneRuns

-----------------------------------------------------------------------------
(* A step of a request keeps the request itself fine. *)

LEMMA EntriesTyped ==
    ASSUME TypeOK, NEW r \in Requests
    PROVE  \A e \in journal[r] : e.slot \in Nat /\ e.attempt \in Nat /\ e.phase \in Phases
BY DEF TypeOK, Entries

LEMMA NewEntry ==
    ASSUME NEW s \in Nat, NEW a \in Nat, NEW phase
    PROVE  /\ Entry(s, a, phase).slot = s /\ Entry(s, a, phase).attempt = a
           /\ Entry(s, a, phase).phase = phase
BY DEF Entry

\* A slot keeps the entries it has, and gets the new one.
LEMMA HasGrows ==
    ASSUME NEW r \in Requests, NEW e, journal'[r] = journal[r] \union {e}
    PROVE  /\ \A s, phases : Has(r, s, phases) => Has(r, s, phases)'
           /\ \A phases : e.phase \in phases => Has(r, e.slot, phases)'
BY DEF Has

LEMMA NoRefusalYet ==
    ASSUME NEW r \in Requests, Fine(r), pc[r] \in {"slot", "attempt", "waiting"}
    PROVE  (\A e \in journal[r] : e.phase # "refused") /\ result[r] = "none"
BY DEF Fine, Refused, Placed

LEMMA ArriveFine ==
    ASSUME IInv, NEW r \in Requests, Arrive(r)
    PROVE  Fine(r)'
<1>0. TypeOK /\ Fine(r)
    BY DEF IInv
<1>1. /\ pc[r] = "new" /\ pc'[r] = "slot"
      /\ now' = now /\ began'[r] = now /\ now \in Nat
      /\ slot'[r] = slot[r] /\ attempt'[r] = attempt[r]
      /\ journal'[r] = journal[r] /\ status'[r] = status[r] /\ result'[r] = result[r]
    BY <1>0 DEF TypeOK, Arrive, Goto
<1>2. Placed(r)'
    BY <1>0, <1>1 DEF Fine, Placed
<1>3. Timed(r)'
    BY <1>0, <1>1, InferenceAssumption DEF Fine, Timed, Active
<1>4. Journaled(r)'
    BY <1>0, <1>1 DEF Fine, Placed, Journaled, Past, Answering, OneOutcome
<1>5. Accounted(r)'
    BY <1>0, <1>1 DEF Fine, Accounted, Has, Passed
<1>6. Refused(r)'
    BY <1>0, <1>1 DEF Fine, Placed, Refused
<1>7. Usable(r)'
    BY <1>0, <1>1 DEF Fine, Usable, NoKey, Here
<1> QED
    BY <1>2, <1>3, <1>4, <1>5, <1>6, <1>7 DEF Fine

LEMMA SkipFine ==
    ASSUME IInv, NEW r \in Requests, SkipSlot(r)
    PROVE  Fine(r)'
<1>0. TypeOK /\ Fine(r)
    BY DEF IInv
<1>1. /\ slot[r] \in Nat /\ attempt[r] \in Nat /\ began[r] \in Nat /\ now \in Nat
      /\ pc[r] = "slot" /\ pc'[r] = "slot" /\ slot'[r] = slot[r] + 1
      /\ now' = now /\ began'[r] = began[r] /\ attempt'[r] = attempt[r]
      /\ journal'[r] = journal[r] \union {Entry(slot[r], 0, "skipped")}
      /\ status'[r] = status[r] /\ result'[r] = result[r]
      /\ slot[r] <= Len(Slots)
    BY <1>0 DEF TypeOK, SkipSlot, AtSlot, Records, clockVars
<1>2. Placed(r)'
    BY <1>0, <1>1 DEF Fine, Placed
<1>3. Timed(r)'
    BY <1>0, <1>1 DEF Fine, Timed, Active
<1>4. Journaled(r)'
    <2>1. Past(r)'
        BY <1>0, <1>1, EntriesTyped, NewEntry DEF Fine, Journaled, Past, Behind, Current, Placed
    <2>2. Answering(r)'
        BY <1>0, <1>1, EntriesTyped, NewEntry DEF Fine, Journaled, Past, Behind, Answering, Answered, Answers, Current, Placed
    <2>3. OneOutcome(r)'
        BY <1>0, <1>1, EntriesTyped, NewEntry DEF Fine, Journaled, Past, Behind, OneOutcome, Answers, Current, Placed
    <2> QED
        BY <2>1, <2>2, <2>3 DEF Journaled
<1>5. Accounted(r)'
    <2>1. \A s \in DOMAIN Slots : s < slot'[r] => s < slot[r] \/ s = slot[r]
        BY <1>1, SlotsDomain
    <2>2. \A s : s = slot[r] => Has(r, s, Passed)'
        BY <1>1, NewEntry DEF Passed, Has
    <2>3. \A s \in DOMAIN Slots : s < slot'[r] => Has(r, s, Passed)'
        BY <1>0, <1>1, <2>1, <2>2, HasGrows DEF Fine, Accounted
    <2> QED
        BY <1>0, <1>1, <2>3, NoRefusalYet DEF Accounted
<1>6. Refused(r)'
    BY <1>0, <1>1, NoRefusalYet DEF Fine, Refused, Entry
<1>7. Usable(r)'
    BY <1>0, <1>1 DEF Fine, Usable, NoKey, Here
<1> QED
    BY <1>2, <1>3, <1>4, <1>5, <1>6, <1>7 DEF Fine

LEMMA EnterFine ==
    ASSUME IInv, NEW r \in Requests, EnterSlot(r)
    PROVE  Fine(r)'
<1>0. TypeOK /\ Fine(r)
    BY DEF IInv
<1>1. /\ slot[r] \in Nat /\ attempt[r] \in Nat /\ began[r] \in Nat /\ now \in Nat
      /\ pc[r] = "slot" /\ pc'[r] = "attempt" /\ attempt'[r] = 1
      /\ now' = now /\ cooldown' = cooldown /\ began'[r] = began[r] /\ slot'[r] = slot[r]
      /\ journal'[r] = journal[r] /\ status'[r] = status[r] /\ result'[r] = result[r] /\ blocked'[r] = blocked[r]
      /\ slot[r] <= Len(Slots) /\ ~Skips(r)
    BY <1>0 DEF TypeOK, EnterSlot, AtSlot, Goto, clockVars
<1>2. Placed(r)'
    BY <1>0, <1>1 DEF Fine, Placed
<1>3. Timed(r)'
    BY <1>0, <1>1 DEF Fine, Timed, Active
<1>4. Journaled(r)'
    <2>1. Past(r)'
        BY <1>0, <1>1, EntriesTyped DEF Fine, Journaled, Past, Behind, Current, Placed
    <2>2. Answering(r)'
        BY <1>0, <1>1, EntriesTyped DEF Fine, Journaled, Past, Behind, Answering, Answered, Answers, Current, Placed
    <2>3. OneOutcome(r)'
        BY <1>0, <1>1, EntriesTyped DEF Fine, Journaled, Past, Behind, OneOutcome, Answers, Current, Placed
    <2> QED
        BY <2>1, <2>2, <2>3 DEF Journaled
<1>5. Accounted(r)'
    BY <1>0, <1>1, NoRefusalYet DEF Fine, Accounted, Has, Passed
<1>6. Refused(r)'
    BY <1>0, <1>1, NoRefusalYet DEF Fine, Refused
<1>7. Usable(r)'
    BY <1>0, <1>1, SlotTyped DEF Fine, Usable, NoKey, Here, Skips, TypeOK
<1> QED
    BY <1>2, <1>3, <1>4, <1>5, <1>6, <1>7 DEF Fine

LEMMA ExhaustedFine ==
    ASSUME IInv, NEW r \in Requests, BudgetExhausted(r)
    PROVE  Fine(r)'
<1>0. TypeOK /\ Fine(r)
    BY DEF IInv
<1>1. /\ slot[r] \in Nat /\ attempt[r] \in Nat /\ began[r] \in Nat /\ now \in Nat
      /\ pc[r] = "attempt" /\ pc'[r] = "leave"
      /\ now' = now /\ began'[r] = began[r] /\ slot'[r] = slot[r] /\ attempt'[r] = attempt[r]
      /\ journal'[r] = journal[r] \union {Entry(slot[r], 0, "exhausted")}
      /\ status'[r] = status[r] /\ result'[r] = result[r]
    BY <1>0 DEF TypeOK, BudgetExhausted, Records, Goto, clockVars
<1>2. Placed(r)'
    BY <1>0, <1>1 DEF Fine, Placed
<1>3. Timed(r)'
    BY <1>0, <1>1 DEF Fine, Timed, Active
<1>4. Journaled(r)'
    <2>0. \A e \in journal'[r] :
            e \in journal[r] \/ (e.slot = slot[r] /\ e.attempt = 0 /\ e.phase = "exhausted")
        BY <1>1 DEF Entry
    <2>1. Past(r)'
        BY <1>0, <1>1, <2>0, EntriesTyped DEF Fine, Journaled, Past, Behind, Current, Placed
    <2>2. Answering(r)'
        BY <1>0, <1>1, <2>0, EntriesTyped DEF Fine, Journaled, Past, Behind, Answering, Answered, Answers, Current, Placed
    <2>3. OneOutcome(r)'
        BY <1>0, <1>1, <2>0, EntriesTyped DEF Fine, Journaled, Past, Behind, OneOutcome, Answers, Current, Placed
    <2> QED
        BY <2>1, <2>2, <2>3 DEF Journaled
<1>5. Accounted(r)'
    <2>1. Has(r, slot[r], Passed)'
        BY <1>1, NewEntry, HasGrows DEF Passed
    <2>2. \A s \in DOMAIN Slots : s < slot'[r] => Has(r, s, Passed)'
        BY <1>0, <1>1, HasGrows DEF Fine, Accounted
    <2> QED
        BY <1>0, <1>1, <2>1, <2>2, NoRefusalYet DEF Accounted
<1>6. Refused(r)'
    BY <1>0, <1>1, NoRefusalYet DEF Fine, Refused, Entry
<1>7. Usable(r)'
    BY <1>0, <1>1 DEF Fine, Usable, NoKey, Here
<1> QED
    BY <1>2, <1>3, <1>4, <1>5, <1>6, <1>7 DEF Fine

LEMMA CallFine ==
    ASSUME IInv, NEW r \in Requests, Call(r)
    PROVE  Fine(r)'
<1>0. TypeOK /\ Fine(r)
    BY DEF IInv
<1>1. /\ slot[r] \in Nat /\ attempt[r] \in Nat /\ began[r] \in Nat /\ now \in Nat
      /\ pc[r] = "attempt" /\ pc'[r] = "waiting" /\ deadline'[r] = Deadline(r)
      /\ now' = now /\ cooldown' = cooldown /\ began'[r] = began[r] /\ slot'[r] = slot[r] /\ attempt'[r] = attempt[r]
      /\ journal'[r] = journal[r] \union {Entry(slot[r], attempt[r], "started")}
      /\ status'[r] = status[r] /\ result'[r] = result[r] /\ blocked'[r] = blocked[r]
    BY <1>0 DEF TypeOK, Call, Records, Goto, clockVars
<1>2. Placed(r)'
    BY <1>0, <1>1 DEF Fine, Placed
<1>3. Timed(r)'
    BY <1>0, <1>1, InferenceAssumption DEF Fine, Timed, Active, Deadline
<1>4. Journaled(r)'
    <2>1. Past(r)'
        BY <1>0, <1>1, EntriesTyped, NewEntry DEF Fine, Journaled, Past, Behind, Current, Placed
    <2>2. Answering(r)'
        BY <1>0, <1>1, EntriesTyped, NewEntry DEF Fine, Journaled, Past, Behind, Answering, Answered, Answers, Current, Placed
    <2>3. OneOutcome(r)'
        BY <1>0, <1>1, EntriesTyped, NewEntry DEF Fine, Journaled, Past, Behind, OneOutcome, Answers, Current, Placed
    <2> QED
        BY <2>1, <2>2, <2>3 DEF Journaled
<1>5. Accounted(r)'
    <2>1. \A s \in DOMAIN Slots : s < slot'[r] => Has(r, s, Passed)'
        BY <1>0, <1>1, HasGrows DEF Fine, Accounted
    <2> QED
        BY <1>0, <1>1, <2>1, NoRefusalYet DEF Accounted
<1>6. Refused(r)'
    BY <1>0, <1>1, NoRefusalYet DEF Fine, Refused, Entry
<1>7. Usable(r)'
    BY <1>0, <1>1 DEF Fine, Usable, NoKey, Here
<1> QED
    BY <1>2, <1>3, <1>4, <1>5, <1>6, <1>7 DEF Fine

LEMMA AcceptedFine ==
    ASSUME IInv, NEW r \in Requests, Accepted(r)
    PROVE  Fine(r)'
<1>0. TypeOK /\ Fine(r)
    BY DEF IInv
<1>1. /\ slot[r] \in Nat /\ attempt[r] \in Nat /\ began[r] \in Nat /\ now \in Nat
      /\ pc[r] = "waiting" /\ pc'[r] = "done" /\ result'[r] = "accepted"
      /\ now' = now /\ began'[r] = began[r] /\ slot'[r] = slot[r] /\ attempt'[r] = attempt[r] /\ status'[r] = status[r]
      /\ journal'[r] = journal[r] \union {Entry(slot[r], attempt[r], "accepted")}
    BY <1>0 DEF TypeOK, Accepted, Records, Ends, Goto, clockVars
<1>2. Placed(r)'
    BY <1>0, <1>1 DEF Fine, Placed
<1>3. Timed(r)'
    BY <1>0, <1>1 DEF Fine, Timed, Active
<1>4. Journaled(r)'
    <2>1. Past(r)'
        BY <1>0, <1>1, EntriesTyped, NewEntry DEF Fine, Journaled, Past, Behind, Current, Placed
    <2>2. Answering(r)'
        BY <1>0, <1>1, EntriesTyped, NewEntry DEF Fine, Journaled, Past, Behind, Answering, Answered, Answers, Current, Placed
    <2>3. OneOutcome(r)'
        BY <1>0, <1>1, EntriesTyped, NewEntry DEF Fine, Journaled, Past, Behind, OneOutcome, Answers, Current, Placed
    <2> QED
        BY <2>1, <2>2, <2>3 DEF Journaled
<1>5. Accounted(r)'
    <2>1. \A s \in DOMAIN Slots : s < slot'[r] => Has(r, s, Passed)'
        BY <1>0, <1>1, HasGrows DEF Fine, Accounted
    <2> QED
        BY <1>0, <1>1, <2>1, NoRefusalYet DEF Accounted
<1>6. Refused(r)'
    BY <1>0, <1>1, NoRefusalYet DEF Fine, Refused, Entry
<1>7. Usable(r)'
    BY <1>0, <1>1 DEF Fine, Usable, NoKey, Here
<1> QED
    BY <1>2, <1>3, <1>4, <1>5, <1>6, <1>7 DEF Fine

LEMMA LeaveFine ==
    ASSUME IInv, NEW r \in Requests, LeaveSlot(r)
    PROVE  Fine(r)'
<1>0. TypeOK /\ Fine(r)
    BY DEF IInv
<1>1. /\ slot[r] \in Nat /\ attempt[r] \in Nat /\ began[r] \in Nat /\ now \in Nat
      /\ pc[r] = "leave" /\ pc'[r] = "slot" /\ slot'[r] = slot[r] + 1 /\ status[r] # "refused"
      /\ now' = now /\ began'[r] = began[r] /\ attempt'[r] = attempt[r]
      /\ journal'[r] = journal[r] /\ status'[r] = status[r] /\ result'[r] = result[r]
    BY <1>0 DEF TypeOK, LeaveSlot, Goto
<1>2. Placed(r)'
    BY <1>0, <1>1 DEF Fine, Placed
<1>3. Timed(r)'
    BY <1>0, <1>1 DEF Fine, Timed, Active
<1>4. Journaled(r)'
    <2>1. Past(r)'
        BY <1>0, <1>1, EntriesTyped DEF Fine, Journaled, Past, Behind, Current, Placed
    <2>2. Answering(r)'
        BY <1>0, <1>1, EntriesTyped DEF Fine, Journaled, Past, Behind, Answering, Answered, Answers, Current, Placed
    <2>3. OneOutcome(r)'
        BY <1>0, <1>1, EntriesTyped DEF Fine, Journaled, Past, Behind, OneOutcome, Answers, Current, Placed
    <2> QED
        BY <2>1, <2>2, <2>3 DEF Journaled
<1>5. Accounted(r)'
    BY <1>0, <1>1, SlotsDomain DEF Fine, Accounted, Has, Passed, Placed
<1>6. Refused(r)'
    BY <1>0, <1>1 DEF Fine, Refused
<1>7. Usable(r)'
    BY <1>0, <1>1 DEF Fine, Usable, NoKey, Here
<1> QED
    BY <1>2, <1>3, <1>4, <1>5, <1>6, <1>7 DEF Fine

LEMMA SafeModeFine ==
    ASSUME IInv, NEW r \in Requests, SafeMode(r)
    PROVE  Fine(r)'
<1>0. TypeOK /\ Fine(r)
    BY DEF IInv
<1>1. /\ slot[r] \in Nat /\ attempt[r] \in Nat /\ began[r] \in Nat /\ now \in Nat
      /\ GivesUp(r) /\ pc'[r] = "done" /\ result'[r] = "safe_mode"
      /\ now' = now /\ began'[r] = began[r] /\ slot'[r] = slot[r] /\ attempt'[r] = attempt[r]
      /\ journal'[r] = journal[r] /\ status'[r] = status[r]
    BY <1>0 DEF TypeOK, SafeMode, Ends, Goto, clockVars
<1>2. Placed(r)'
    BY <1>0, <1>1 DEF Fine, Placed
<1>3. Timed(r)'
    BY <1>0, <1>1 DEF Fine, Timed, Active
<1>4. Journaled(r)'
    <2>1. Past(r)'
        BY <1>0, <1>1, EntriesTyped DEF Fine, Journaled, Past, Behind, Current, Placed, GivesUp
    <2>2. Answering(r)'
        BY <1>0, <1>1, EntriesTyped DEF Fine, Journaled, Past, Behind, Answering, Answered, Answers, Current, Placed, GivesUp
    <2>3. OneOutcome(r)'
        BY <1>0, <1>1, EntriesTyped DEF Fine, Journaled, Past, Behind, OneOutcome, Answers, Current, Placed, GivesUp
    <2> QED
        BY <2>1, <2>2, <2>3 DEF Journaled
<1>5. Accounted(r)'
    BY <1>0, <1>1 DEF Fine, GivesUp, Accounted, Has
<1>6. Refused(r)'
    BY <1>0, <1>1 DEF Fine, GivesUp, Refused, Current
<1>7. Usable(r)'
    BY <1>0, <1>1 DEF Fine, Usable, NoKey, Here
<1> QED
    BY <1>2, <1>3, <1>4, <1>5, <1>6, <1>7 DEF Fine

LEMMA AuditFailsFine ==
    ASSUME IInv, NEW r \in Requests, AuditFails(r)
    PROVE  Fine(r)'
<1>0. TypeOK /\ Fine(r)
    BY DEF IInv
<1>1. /\ slot[r] \in Nat /\ attempt[r] \in Nat /\ began[r] \in Nat /\ now \in Nat
      /\ pc[r] \in {"slot", "attempt", "waiting", "leave"} /\ pc'[r] = "done" /\ result'[r] = "aborted"
      /\ now' = now /\ began'[r] = began[r] /\ slot'[r] = slot[r] /\ attempt'[r] = attempt[r]
      /\ journal'[r] = journal[r] /\ status'[r] = status[r]
    BY <1>0 DEF TypeOK, AuditFails, AtSlot, GivesUp, Ends, Goto, clockVars
<1>2. Placed(r)'
    BY <1>0, <1>1 DEF Fine, Placed
<1>3. Timed(r)'
    BY <1>0, <1>1 DEF Fine, Timed, Active
<1>4. Journaled(r)'
    <2>1. Past(r)'
        BY <1>0, <1>1, EntriesTyped DEF Fine, Journaled, Past, Behind, Current, Placed
    <2>2. Answering(r)'
        BY <1>0, <1>1, EntriesTyped DEF Fine, Journaled, Past, Behind, Answering, Answered, Answers, Current, Placed
    <2>3. OneOutcome(r)'
        BY <1>0, <1>1, EntriesTyped DEF Fine, Journaled, Past, Behind, OneOutcome, Answers, Current, Placed
    <2> QED
        BY <2>1, <2>2, <2>3 DEF Journaled
<1>5. Accounted(r)'
    BY <1>0, <1>1 DEF Fine, Accounted, Has
<1>6. Refused(r)'
    BY <1>0, <1>1 DEF Fine, Refused, Current
<1>7. Usable(r)'
    BY <1>0, <1>1 DEF Fine, Usable, NoKey, Here
<1> QED
    BY <1>2, <1>3, <1>4, <1>5, <1>6, <1>7 DEF Fine

LEMMA FailsFine ==
    ASSUME IInv, NEW r \in Requests, NEW fault \in Faults, pc[r] = "waiting", Fails(r, fault)
    PROVE  Fine(r)'
<1>0. TypeOK /\ Fine(r)
    BY DEF IInv
<1>1. /\ slot[r] \in Nat /\ attempt[r] \in Nat /\ began[r] \in Nat /\ now \in Nat
      /\ \/ pc'[r] = "attempt" /\ attempt'[r] = attempt[r] + 1 /\ Again(r, fault)
         \/ pc'[r] = "leave" /\ attempt'[r] = attempt[r]
      /\ now' = now /\ cooldown' = cooldown /\ began'[r] = began[r] /\ slot'[r] = slot[r] /\ result'[r] = result[r]
      /\ journal'[r] = journal[r] \union {Entry(slot[r], attempt[r], StatusOf(fault))}
      /\ status'[r] = StatusOf(fault)
      /\ fault # "credential" => blocked'[r] = blocked[r]
    BY <1>0 DEF TypeOK, Fails, Records, Goto, clockVars
<1>2. /\ \A e \in journal'[r] :
            e \in journal[r] \/ (e.slot = slot[r] /\ e.attempt = attempt[r] /\ e.phase = StatusOf(fault))
      /\ StatusOf(fault) \in Passed /\ StatusOf(fault) # "started"
      /\ \E e \in journal'[r] : e.slot = slot[r] /\ e.attempt = attempt[r] /\ e.phase = StatusOf(fault)
    <2> DEFINE new == Entry(slot[r], attempt[r], StatusOf(fault))
    <2>1. StatusOf(fault) \in Passed /\ StatusOf(fault) # "started"
        BY DEF StatusOf, Passed
    <2>2. new.slot = slot[r] /\ new.attempt = attempt[r] /\ new.phase = StatusOf(fault)
        BY DEF Entry
    <2>3. journal'[r] = journal[r] \union {new}
        BY <1>1
    <2> HIDE DEF new
    <2> QED
        BY <2>1, <2>2, <2>3
<1>3. Placed(r)'
    BY <1>0, <1>1 DEF Fine, Placed
<1>4. Timed(r)'
    BY <1>0, <1>1 DEF Fine, Timed, Active
<1>5. Journaled(r)'
    <2>1. Past(r)'
        BY <1>0, <1>1, <1>2, EntriesTyped DEF Fine, Journaled, Past, Behind, Current, Placed
    <2>2. Answering(r)'
        BY <1>0, <1>1, <1>2, EntriesTyped DEF Fine, Journaled, Past, Behind, Answering, Answered, Answers, Current, Placed
    <2>3. OneOutcome(r)'
        BY <1>0, <1>1, <1>2, EntriesTyped DEF Fine, Journaled, Past, Behind, OneOutcome, Answers, Current, Placed
    <2> QED
        BY <2>1, <2>2, <2>3 DEF Journaled
<1>6. Accounted(r)'
    <2>1. Has(r, slot[r], Passed)'
        BY <1>1, <1>2 DEF Has
    <2>2. \A s \in DOMAIN Slots : s < slot'[r] => Has(r, s, Passed)'
        BY <1>0, <1>1, HasGrows DEF Fine, Accounted
    <2> QED
        BY <1>0, <1>1, <2>1, <2>2, NoRefusalYet DEF Accounted
<1>7. Refused(r)'
    BY <1>0, <1>1, <1>2, NoRefusalYet DEF Refused, Current, Again, Retryable, StatusOf
<1>8. Usable(r)'
    BY <1>0, <1>1 DEF Fine, Usable, NoKey, Here, Again, Retryable, Placed
<1> QED
    BY <1>3, <1>4, <1>5, <1>6, <1>7, <1>8 DEF Fine

LEMMA TickFine ==
    ASSUME IInv, NEW r \in Requests, Tick
    PROVE  Fine(r)'
<1> USE DEF IInv, Tick, requestVars
<1>1. Placed(r)' /\ Journaled(r)' /\ Refused(r)' /\ Accounted(r)'
    BY DEF Fine, Placed, Journaled, Past, Answering, OneOutcome, Behind, Answered, Answers, Current, Refused, Accounted, Has
<1>2. now' = now + 1 /\ now \in Nat /\ began[r] \in Nat /\ deadline[r] \in Nat
    BY DEF TypeOK
<1>3. Timed(r)'
    BY <1>2, InferenceAssumption DEF Fine, Timed, Active, LoopIdle
<1>4. Usable(r)'
    BY DEF Fine, Usable, NoKey, Here, LoopIdle
<1> QED
    BY <1>1, <1>3, <1>4 DEF Fine

LEMMA NextIInv ==
    ASSUME IInv, [Next]_vars
    PROVE  IInv'
<1>1. TypeOK'
    BY TypeStep
<1>2. ASSUME NEW r \in Requests, Arrive(r) \/ Step(r)
      PROVE  OneRuns' /\ \A q \in Requests : Fine(q)'
    <2>1. Fine(r)'
        BY <1>2, ArriveFine, SkipFine, EnterFine, ExhaustedFine, CallFine, AcceptedFine, LeaveFine, SafeModeFine,
           AuditFailsFine, FailsFine DEF Step, Failed, TimedOut, Faults
    <2>2. OneRuns' /\ \A q \in Requests : q # r => Fine(q)'
        BY <1>2, StepsAreLocal, OneRunsStep, OthersStayFine DEF IInv
    <2> QED
        BY <2>1, <2>2
<1>3. CASE Tick
    <2>1. OneRuns'
        BY <1>3 DEF Tick, requestVars, IInv, OneRuns, Running
    <2> QED
        BY <1>1, <1>3, <2>1, TickFine DEF IInv
<1>4. CASE UNCHANGED vars
    BY <1>4 DEF vars, IInv, TypeOK, OneRuns, Running, Fine, Placed, Timed, Active, Journaled, Past, Answering, OneOutcome,
                Behind, Answered, Answers, Current, Accounted, Has, Refused, Usable, NoKey, Here
<1> QED
    BY <1>1, <1>2, <1>3, <1>4 DEF Next, IInv

\* Every request is at one slot at a time and in time, and the journal says what
\* it has done there.
THEOREM RequestsAreFine == Spec => []IInv
BY InitIInv, NextIInv, PTL DEF Spec

-----------------------------------------------------------------------------
(* The properties that the runs check.                                     *)

\* Every variable of the inference model keeps its type.
THEOREM InferenceTyped == Spec => []TypeOK
BY RequestsAreFine, PTL DEF IInv

\* However slots, attempts, retries and timeouts are configured, a request is
\* over when its budget is.
THEOREM BudgetIsKept == Spec => []WithinBudget
<1>1. IInv => WithinBudget
    BY DEF IInv, Fine, Timed, WithinBudget
<1> QED
    BY <1>1, RequestsAreFine, PTL

\* A slot is passed, and the safe-mode text given, with an audit entry only.
THEOREM SlotsAreAccounted == Spec => []EverySlotAccounted
<1>1. IInv => EverySlotAccounted
    <2> SUFFICES ASSUME IInv, NEW r \in Requests, NEW s \in DOMAIN Slots
                 PROVE  /\ s < slot[r] =>
                             Has(r, s, {"skipped", "exhausted", "unavailable", "unknown", "refused"})
                        /\ result[r] = "safe_mode" /\ status[r] # "refused" => s < slot[r]
        BY DEF EverySlotAccounted
    <2>1. Accounted(r) /\ slot[r] \in Nat
        BY SlotsDomain DEF IInv, TypeOK, Fine
    <2>2. s \in Nat /\ s <= Len(Slots) /\ Len(Slots) \in Nat
        BY SlotsDomain
    <2> QED
        BY <2>1, <2>2 DEF Accounted, Passed
<1> QED
    BY <1>1, RequestsAreFine, PTL

\* A refusal ends the request: nothing is called or accepted after it.
THEOREM RefusalsAreFinal == Spec => []RefusalIsFinal
<1>1. IInv => RefusalIsFinal
    <2> SUFFICES ASSUME IInv, NEW r \in Requests, NEW e \in journal[r], e.phase = "refused"
                 PROVE  /\ result[r] # "accepted" /\ status[r] = "refused"
                        /\ \A c \in Calls(r) : c[1] < e.slot \/ (c[1] = e.slot /\ c[2] <= e.attempt)
        BY DEF RefusalIsFinal
    <2>1. Past(r) /\ Refused(r)
        BY DEF IInv, Fine, Journaled
    <2>2. \A f \in journal[r] :
            f.slot < slot[r] \/ (f.slot = slot[r] /\ f.attempt <= attempt[r])
        BY <2>1 DEF Past, Behind
    <2>3. \A c \in Calls(r) : \E f \in journal[r] : c = <<f.slot, f.attempt>>
        BY DEF Calls
    <2> QED
        BY <2>1, <2>2, <2>3 DEF Refused, Current
<1> QED
    BY <1>1, RequestsAreFine, PTL

\* Each call has one outcome in the audit, or is the one under way or the one
\* the request was abandoned with.
THEOREM CallsAreJournaled == Spec => []EveryCallJournaled
<1>1. IInv => EveryCallJournaled
    <2> SUFFICES ASSUME IInv, NEW r \in Requests
                 PROVE  /\ \A c \in Calls(r) : \A d, e \in Outcomes(r, c) : d = e
                        /\ Pending(r) # {} => /\ Pending(r) = {<<slot[r], attempt[r]>>}
                                              /\ pc[r] = "waiting" \/ result[r] = "aborted"
        BY DEF EveryCallJournaled
    <2>1. Answering(r) /\ OneOutcome(r)
        BY DEF IInv, Fine, Journaled
    <2>2. \A c \in Calls(r) :
            \E f \in journal[r] : c = <<f.slot, f.attempt>> /\ f.phase = "started"
        BY DEF Calls
    <2>3. ASSUME NEW c \in Calls(r), NEW d \in Outcomes(r, c), NEW e \in Outcomes(r, c)
          PROVE  d = e
        <3>1. c[2] > 0
            BY <2>1, <2>2 DEF Answering
        <3> QED
            BY <2>1, <3>1 DEF Outcomes, OneOutcome, Answers
    <2>4. ASSUME NEW c \in Pending(r)
          PROVE  c = <<slot[r], attempt[r]>> /\ (pc[r] = "waiting" \/ result[r] = "aborted")
        <3>1. PICK f \in journal[r] : c = <<f.slot, f.attempt>> /\ f.phase = "started"
            BY <2>2 DEF Pending
        <3>2. ~Answered(r, f)
            BY <3>1 DEF Pending, Outcomes, Answered, Answers
        <3> QED
            BY <2>1, <3>1, <3>2 DEF Answering, Current
    <2> QED
        BY <2>3, <2>4
<1> QED
    BY <1>1, RequestsAreFine, PTL

\* Calls are made by one action.
LEMMA NewCalls ==
    ASSUME IInv, [Next]_vars, NEW r \in Requests, NEW c \in Calls(r)' \ Calls(r)
    PROVE  pc[r] = "attempt" /\ c = <<slot[r], attempt[r]>>
<1>0. TypeOK
    BY DEF IInv
<1>1. CASE Tick \/ UNCHANGED vars
    BY <1>1 DEF Tick, requestVars, vars, Calls
<1>2. ASSUME NEW q \in Requests, Arrive(q) \/ Step(q)
      PROVE  pc[r] = "attempt" /\ c = <<slot[r], attempt[r]>>
    <2>1. CASE q # r
        BY <1>0, <1>2, <2>1, StepsAreLocal DEF Same, Calls
    <2>2. CASE q = r /\ Call(r)
        <3>1. pc[r] = "attempt" /\ journal'[r] = journal[r] \union {Entry(slot[r], attempt[r], "started")}
            BY <1>0, <2>2 DEF Call, Records, TypeOK
        <3> QED
            BY <3>1 DEF Calls, Entry
    <2>3. CASE q = r /\ ~Call(r)
        <3>1. \/ journal'[r] = journal[r]
              \/ \E s, a : \E phase \in {"skipped", "exhausted", "accepted", "unavailable", "unknown", "refused"} :
                   journal'[r] = journal[r] \union {Entry(s, a, phase)}
            <4>1. CASE Arrive(r) \/ EnterSlot(r) \/ LeaveSlot(r) \/ SafeMode(r) \/ AuditFails(r)
                BY <4>1 DEF Arrive, EnterSlot, LeaveSlot, SafeMode, AuditFails
            <4>2. ASSUME NEW entry, Records(r, entry)
                  PROVE  journal'[r] = journal[r] \union {entry}
                BY <1>0, <4>2 DEF Records, TypeOK
            <4>3. CASE SkipSlot(r)
                BY <4>2, <4>3 DEF SkipSlot
            <4>4. CASE BudgetExhausted(r)
                BY <4>2, <4>4 DEF BudgetExhausted
            <4>5. CASE Accepted(r)
                BY <4>2, <4>5 DEF Accepted
            <4>6. ASSUME NEW fault \in Faults, Fails(r, fault)
                  PROVE  \E s, a : \E phase \in {"unavailable", "unknown", "refused"} :
                           journal'[r] = journal[r] \union {Entry(s, a, phase)}
                <5>1. journal'[r] = journal[r] \union {Entry(slot[r], attempt[r], StatusOf(fault))}
                    BY <1>0, <4>6 DEF Fails, Records, TypeOK
                <5>2. StatusOf(fault) \in {"unavailable", "unknown", "refused"}
                    BY DEF StatusOf
                <5> QED
                    BY <5>1, <5>2
            <4> QED
                BY <1>2, <2>3, <4>1, <4>3, <4>4, <4>5, <4>6 DEF Step, Failed, TimedOut, Faults
        <3> QED
            BY <3>1 DEF Calls, Entry
    <2> QED
        BY <2>1, <2>2, <2>3
<1> QED
    BY <1>1, <1>2 DEF Next

\* No slot without a usable credential is called, and none is begun whose model
\* cools down because of any request.
THEOREM UsableSlotsAreCalled == Spec => OnlyUsableSlotsCalled
<1>1. IInv /\ [Next]_vars =>
        \A r \in Requests : \A c \in Calls(r)' \ Calls(r) :
          /\ Slots[c[1]].credential \notin blocked[r] \union Missing
          /\ c[2] = 1 => cooldown[Slots[c[1]].model] <= now
    BY NewCalls DEF IInv, Fine, Usable, NoKey, Here
<1> QED
    BY <1>1, RequestsAreFine, PTL DEF Spec, OnlyUsableSlotsCalled

-----------------------------------------------------------------------------
(* Requests come to an end.  That a step is taken is for the run to check   *)
(* (InferenceEnds); that steps cannot go on for ever is proved here.        *)

\* Attempts spent at the current slot; to leave it spends the rest.
Spent(r) ==
    IF pc[r] \in {"attempt", "waiting"} THEN attempt[r]
    ELSE IF pc[r] = "leave" THEN Here(r).attempts + 1 ELSE 0

\* The next place: a later slot, a later attempt, or from the attempt to its call.
Onward(r) ==
    \/ pc'[r] = "done"
    \/ slot'[r] > slot[r]
    \/ slot'[r] = slot[r] /\ Spent(r)' > Spent(r)
    \/ /\ slot'[r] = slot[r] /\ Spent(r)' = Spent(r)
       /\ pc[r] = "attempt" /\ pc'[r] = "waiting"

\* A slot is not tried more often than it may be.
AttemptsLimited == \A r \in Requests : pc[r] \in {"attempt", "waiting"} => attempt[r] <= Here(r).attempts

\* What a step of a request does to its place.
LEMMA StepMoves ==
    ASSUME IInv, AttemptsLimited, NEW r \in Requests, Step(r)
    PROVE  /\ pc[r] # "done" /\ Onward(r)
           /\ pc'[r] \in {"attempt", "waiting"} => attempt'[r] <= Here(r)'.attempts
<1>1. /\ slot[r] \in Nat /\ attempt[r] \in Nat
      /\ pc[r] \in {"new", "slot", "attempt", "waiting", "leave", "done"}
    BY SlotsDomain DEF IInv, TypeOK
<1>2. slot[r] <= Len(Slots) => Here(r).attempts \in Nat \ {0}
    BY SlotTyped DEF IInv
<1>3. pc[r] \in {"attempt", "waiting", "leave"} => slot[r] <= Len(Slots)
    BY DEF IInv, Fine, Placed
<1>4. pc[r] \in {"attempt", "waiting"} => attempt[r] <= Here(r).attempts
    BY DEF AttemptsLimited
<1> USE DEF Goto, Onward, Spent, Here
<1>5. TypeOK
    BY DEF IInv
<1>6. CASE SkipSlot(r)
    BY <1>1, <1>5, <1>6 DEF SkipSlot, AtSlot, TypeOK
<1>7. CASE EnterSlot(r)
    <2>1. /\ pc[r] = "slot" /\ pc'[r] = "attempt" /\ attempt'[r] = 1 /\ slot'[r] = slot[r]
          /\ slot[r] <= Len(Slots)
        BY <1>5, <1>7 DEF EnterSlot, AtSlot, TypeOK
    <2> QED
        BY <1>1, <1>2, <2>1
<1>8. CASE BudgetExhausted(r)
    <2>1. pc[r] = "attempt" /\ pc'[r] = "leave" /\ slot'[r] = slot[r]
        BY <1>5, <1>8 DEF BudgetExhausted, TypeOK
    <2> QED
        BY <1>1, <1>2, <1>3, <1>4, <2>1
<1>9. CASE Call(r)
    <2>1. /\ pc[r] = "attempt" /\ pc'[r] = "waiting" /\ slot'[r] = slot[r]
          /\ attempt'[r] = attempt[r]
        BY <1>5, <1>9 DEF Call, TypeOK
    <2> QED
        BY <1>1, <1>4, <2>1
<1>10. CASE Accepted(r) \/ SafeMode(r) \/ AuditFails(r)
    BY <1>5, <1>10 DEF Accepted, SafeMode, AuditFails, GivesUp, AtSlot, Ends, TypeOK
<1>11. ASSUME NEW fault \in Faults, pc[r] = "waiting", Fails(r, fault)
       PROVE  /\ pc[r] # "done" /\ Onward(r)
              /\ pc'[r] \in {"attempt", "waiting"} => attempt'[r] <= Here(r)'.attempts
    <2>1. /\ slot'[r] = slot[r]
          /\ \/ pc'[r] = "attempt" /\ attempt'[r] = attempt[r] + 1 /\ attempt[r] < Here(r).attempts
             \/ pc'[r] = "leave"
        BY <1>5, <1>11 DEF Fails, Again, TypeOK
    <2> QED
        BY <1>1, <1>2, <1>3, <1>4, <1>11, <2>1
<1>12. CASE LeaveSlot(r)
    <2>1. pc[r] = "leave" /\ pc'[r] = "slot" /\ slot'[r] = slot[r] + 1
        BY <1>5, <1>12 DEF LeaveSlot, TypeOK
    <2> QED
        BY <1>1, <2>1
<1> QED
    BY <1>6, <1>7, <1>8, <1>9, <1>10, <1>11, <1>12 DEF Step, Failed, TimedOut, Faults

\* No slot is tried more often than its max_attempts, whichever attempt fails how.
THEOREM AttemptsAreLimited == Spec => []AttemptsLimited
<1>1. Init => AttemptsLimited
    BY DEF Init, AttemptsLimited
<1>2. IInv /\ AttemptsLimited /\ [Next]_vars => AttemptsLimited'
    <2> SUFFICES ASSUME IInv, AttemptsLimited, [Next]_vars, NEW q \in Requests
                 PROVE  (pc[q] \in {"attempt", "waiting"} => attempt[q] <= Here(q).attempts)'
        BY DEF AttemptsLimited
    <2>1. CASE Tick \/ UNCHANGED vars
        BY <2>1 DEF Tick, requestVars, vars, AttemptsLimited, Here
    <2>2. CASE Arrive(q)
        <3>1. pc'[q] = "slot"
            BY <2>2 DEF Arrive, Goto, IInv, TypeOK
        <3> QED
            BY <3>1
    <2>3. CASE Step(q)
        BY <2>3, StepMoves
    <2>4. ASSUME NEW r \in Requests, r # q, Arrive(r) \/ Step(r)
          PROVE  (pc[q] \in {"attempt", "waiting"} => attempt[q] <= Here(q).attempts)'
        <3>1. Same(q)
            BY <2>4, StepsAreLocal DEF IInv
        <3> QED
            BY <3>1 DEF Same, AttemptsLimited, Here
    <2> QED
        BY <2>1, <2>2, <2>3, <2>4 DEF Next
<1> QED
    BY <1>1, <1>2, RequestsAreFine, PTL DEF Spec

\* Every step of a request takes it to a later slot, a later attempt, from an
\* attempt to its call, or to its end: with finitely many slots, each tried
\* finitely often, no behaviour of the providers keeps generate_llm_reply going.
THEOREM RequestsMoveOn == Spec => [][\A r \in Requests : Step(r) => pc[r] # "done" /\ Onward(r)]_vars
<1>1. IInv /\ AttemptsLimited => \A r \in Requests : Step(r) => pc[r] # "done" /\ Onward(r)
    BY StepMoves
<1> QED
    BY <1>1, RequestsAreFine, AttemptsAreLimited, PTL DEF Spec
=============================================================================
