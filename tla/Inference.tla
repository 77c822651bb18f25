------------------------------ MODULE Inference ------------------------------
(***************************************************************************)
(* generate_llm_reply (src/jarvis/brain/llm.py): concurrent requests walk  *)
(* the configured inference slots, under one time budget each, and share   *)
(* the cooldowns of the models that failed.                                *)
(*                                                                         *)
(* The server is one event loop.  A request gives it up only while it      *)
(* waits for a provider, so the steps between two waits belong together    *)
(* (LoopIdle) and take no time.  What a provider answers, and whether it   *)
(* answers at all, is a choice; an append to the audit chain may fail.     *)
(***************************************************************************)
EXTENDS Naturals, Sequences

CONSTANTS
    Requests,      \* calls of generate_llm_reply
    Slots,         \* configured_slots(): a sequence of SlotType
    Models,        \* (provider, base_url, model) triples
    Credentials,   \* names of api_key_env
    NoCredential,  \* a slot without one
    Missing,       \* credentials whose key is not set
    Budget,        \* settings.llm_timeout_seconds
    Timeout,       \* timeout_seconds of a slot
    Cooldown,      \* cooldown_seconds of a slot
    Horizon        \* bound on the clock

SlotType == [model : Models, credential : Credentials \union {NoCredential}, attempts : Nat \ {0}]

ASSUME InferenceAssumption ==
    /\ Slots \in Seq(SlotType) /\ Slots # <<>>
    /\ NoCredential \notin Credentials /\ Missing \subseteq Credentials
    /\ Budget \in Nat \ {0} /\ Timeout \in Nat \ {0} /\ Cooldown \in Nat \ {0}
    /\ Horizon \in Nat

VARIABLES
    now,       \* time.monotonic(), and perf_counter
    cooldown,  \* _model_cooldowns: until when a model is skipped, 0 if it is not in there
    pc,        \* where each request is
    began,     \* when it began
    slot,      \* the slot it is at
    attempt,   \* the attempt at that slot
    deadline,  \* when the timeout around the provider's call fires
    failed,    \* slot_failed
    blocked,   \* blocked_keys
    status,    \* outcome: of the latest attempt that failed
    journal,   \* audited entries
    result     \* what the caller got

clockVars   == <<now, cooldown>>
requestVars == <<began, slot, attempt, deadline, failed, blocked, status, journal, result>>
vars == <<now, cooldown, pc, began, slot, attempt, deadline, failed, blocked, status,
          journal, result>>

\* What _request_model raises.  Only these leave a later attempt possible:
\* a timeout, 429 or 5xx, and an answer that could not be used.
Faults == {"credential", "client", "server", "unknown", "refused"}

StatusOf(fault) ==
    IF fault \in {"unknown", "refused"} THEN fault ELSE "unavailable"

Retryable(fault) == fault \in {"server", "unknown"}

Entry(s, a, phase) == [slot |-> s, attempt |-> a, phase |-> phase]

Phases  == {"started", "accepted", "unavailable", "unknown", "refused", "skipped", "exhausted"}
Entries == [slot : Nat, attempt : Nat, phase : Phases]

Init ==
    /\ now = 0 /\ cooldown = [m \in Models |-> 0]
    /\ pc = [r \in Requests |-> "new"] /\ began = [r \in Requests |-> 0]
    /\ slot = [r \in Requests |-> 1] /\ attempt = [r \in Requests |-> 0]
    /\ deadline = [r \in Requests |-> 0] /\ failed = [r \in Requests |-> FALSE]
    /\ blocked = [r \in Requests |-> {}]
    /\ status = [r \in Requests |-> "unavailable"]
    /\ journal = [r \in Requests |-> {}]
    /\ result = [r \in Requests |-> "none"]

\* No request is between two waits.
LoopIdle == \A r \in Requests : pc[r] \in {"new", "waiting", "done"}

Goto(r, place) == pc' = [pc EXCEPT ![r] = place]

Records(r, entry) == journal' = [journal EXCEPT ![r] = @ \union {entry}]

Ends(r, how) == Goto(r, "done") /\ result' = [result EXCEPT ![r] = how]

Here(r) == Slots[slot[r]]

-----------------------------------------------------------------------------
(* Walking the slots *)

\* Expired cooldowns are forgotten when a request begins.
Arrive(r) ==
    /\ pc[r] = "new" /\ LoopIdle
    /\ now + Budget <= Horizon
    /\ Goto(r, "slot")
    /\ began' = [began EXCEPT ![r] = now]
    /\ cooldown' = [m \in Models |-> IF cooldown[m] <= now THEN 0 ELSE cooldown[m]]
    /\ UNCHANGED <<now, slot, attempt, deadline, failed, blocked, status, journal, result>>

AtSlot(r) == pc[r] = "slot" /\ slot[r] <= Len(Slots)

NoKey(r) == Here(r).credential \in Missing \union blocked[r]

\* Mutant of Skips: the credential that was rejected is tried again.
SkipsMissing(r) == Here(r).credential \in Missing \/ cooldown[Here(r).model] > now

Skips(r) == NoKey(r) \/ cooldown[Here(r).model] > now

SkipSlot(r) ==
    /\ AtSlot(r) /\ Skips(r)
    /\ Records(r, Entry(slot[r], 0, "skipped"))
    /\ slot' = [slot EXCEPT ![r] = @ + 1]
    /\ UNCHANGED <<clockVars, pc, began, attempt, deadline, failed, blocked, status, result>>

EnterSlot(r) ==
    /\ AtSlot(r) /\ ~Skips(r)
    /\ attempt' = [attempt EXCEPT ![r] = 1]
    /\ failed' = [failed EXCEPT ![r] = FALSE]
    /\ Goto(r, "attempt")
    /\ UNCHANGED <<clockVars, began, slot, deadline, blocked, status, journal, result>>

\* The budget of the whole request is looked at before every attempt.
Remains(r) == now < began[r] + Budget

\* Mutant of BudgetExhausted: the slot is passed over without an entry.
BudgetExhaustedSilently(r) ==
    /\ pc[r] = "attempt" /\ ~Remains(r)
    /\ Goto(r, "leave")
    /\ UNCHANGED <<clockVars, requestVars>>

\* Mutant of BudgetExhausted: the slot is entered again.
BudgetExhaustedRepeats(r) ==
    /\ pc[r] = "attempt" /\ ~Remains(r)
    /\ Records(r, Entry(slot[r], 0, "exhausted"))
    /\ Goto(r, "slot")
    /\ UNCHANGED <<clockVars, began, slot, attempt, deadline, failed, blocked, status, result>>

BudgetExhausted(r) ==
    /\ pc[r] = "attempt" /\ ~Remains(r)
    /\ Records(r, Entry(slot[r], 0, "exhausted"))
    /\ Goto(r, "leave")
    /\ UNCHANGED <<clockVars, began, slot, attempt, deadline, failed, blocked, status, result>>

\* Mutant of Deadline: every attempt gets the whole timeout of its slot.
DeadlineOfSlot(r) == now + Timeout

Deadline(r) ==
    IF now + Timeout < began[r] + Budget THEN now + Timeout ELSE began[r] + Budget

\* The start of the attempt is audited before the provider is called.
Call(r) ==
    /\ pc[r] = "attempt" /\ Remains(r)
    /\ Records(r, Entry(slot[r], attempt[r], "started"))
    /\ deadline' = [deadline EXCEPT ![r] = Deadline(r)]
    /\ Goto(r, "waiting")
    /\ UNCHANGED <<clockVars, began, slot, attempt, failed, blocked, status, result>>

-----------------------------------------------------------------------------
(* A provider answers, or does not *)

\* Mutant of Accepted: the answer is returned before it is recorded.
AcceptedUnrecorded(r) ==
    /\ pc[r] = "waiting" /\ LoopIdle
    /\ Ends(r, "accepted")
    /\ UNCHANGED <<clockVars, began, slot, attempt, deadline, failed, blocked, status, journal>>

Accepted(r) ==
    /\ pc[r] = "waiting" /\ LoopIdle
    /\ Records(r, Entry(slot[r], attempt[r], "accepted"))
    /\ Ends(r, "accepted")
    /\ UNCHANGED <<clockVars, began, slot, attempt, deadline, failed, blocked, status>>

\* Mutant of Again: a refusal is tried once more.
AgainUnlessFinal(r, fault) == fault \notin {"credential", "client"} /\ attempt[r] < Here(r).attempts

Again(r, fault) == Retryable(fault) /\ attempt[r] < Here(r).attempts

Fails(r, fault) ==
    /\ failed' = [failed EXCEPT ![r] = TRUE]
    /\ status' = [status EXCEPT ![r] = StatusOf(fault)]
    /\ Records(r, Entry(slot[r], attempt[r], StatusOf(fault)))
    /\ blocked' = [blocked EXCEPT ![r] =
                     @ \union (IF fault = "credential" THEN {Here(r).credential} \ {NoCredential}
                               ELSE {})]
    /\ IF Again(r, fault)
         THEN attempt' = [attempt EXCEPT ![r] = @ + 1] /\ Goto(r, "attempt")
         ELSE UNCHANGED attempt /\ Goto(r, "leave")
    /\ UNCHANGED <<clockVars, began, slot, deadline, result>>

Failed(r, fault) == pc[r] = "waiting" /\ LoopIdle /\ Fails(r, fault)

TimedOut(r) ==
    pc[r] = "waiting" /\ LoopIdle /\ now >= deadline[r] /\ Fails(r, "server")

\* A slot that failed makes its model cool down, for every request.
LeaveSlot(r) ==
    /\ pc[r] = "leave" /\ status[r] # "refused"
    /\ cooldown' = IF failed[r] THEN [cooldown EXCEPT ![Here(r).model] = now + Cooldown]
                   ELSE cooldown
    /\ slot' = [slot EXCEPT ![r] = @ + 1]
    /\ Goto(r, "slot")
    /\ UNCHANGED <<now, began, attempt, deadline, failed, blocked, status, journal, result>>

\* After the last slot, or after a refusal: the fixed text.
GivesUp(r) == (pc[r] = "slot" /\ slot[r] > Len(Slots)) \/ (pc[r] = "leave" /\ status[r] = "refused")

SafeMode(r) ==
    /\ GivesUp(r)
    /\ Ends(r, "safe_mode")
    /\ UNCHANGED <<clockVars, began, slot, attempt, deadline, failed, blocked, status, journal>>

\* audit_attempt raises: of an entry, or of the result of a provider's call.
AuditFails(r) ==
    /\ \/ AtSlot(r) /\ Skips(r)
       \/ pc[r] = "attempt" \/ GivesUp(r)
       \/ pc[r] = "waiting" /\ LoopIdle
    /\ Ends(r, "aborted")
    /\ UNCHANGED <<clockVars, began, slot, attempt, deadline, failed, blocked, status, journal>>

\* Time passes while requests wait; a timeout that is due fires first.
Tick ==
    /\ LoopIdle /\ now < Horizon
    /\ \A r \in Requests : pc[r] = "waiting" => now < deadline[r]
    /\ now' = now + 1
    /\ UNCHANGED <<cooldown, pc, requestVars>>

-----------------------------------------------------------------------------
Step(r) ==
    \/ SkipSlot(r) \/ EnterSlot(r) \/ BudgetExhausted(r) \/ Call(r)
    \/ Accepted(r) \/ (\E fault \in Faults : Failed(r, fault)) \/ TimedOut(r)
    \/ LeaveSlot(r) \/ SafeMode(r) \/ AuditFails(r)

Next == Tick \/ \E r \in Requests : Arrive(r) \/ Step(r)

\* The clock goes on and the event loop runs what is due.  Providers need
\* not answer.
Unattended(r) ==
    \/ SkipSlot(r) \/ EnterSlot(r) \/ BudgetExhausted(r) \/ Call(r) \/ TimedOut(r)
    \/ LeaveSlot(r) \/ SafeMode(r)

Spec == Init /\ [][Next]_vars

FairSpec == Spec /\ WF_vars(Tick) /\ \A r \in Requests : WF_vars(Unattended(r))

-----------------------------------------------------------------------------
(* Properties *)

Active(r) == pc[r] \notin {"new", "done"}

\* Every variable stays in its range.
TypeOK ==
    /\ now \in Nat /\ cooldown \in [Models -> Nat]
    /\ pc \in [Requests -> {"new", "slot", "attempt", "waiting", "leave", "done"}]
    /\ began \in [Requests -> Nat] /\ slot \in [Requests -> 1..(Len(Slots) + 1)]
    /\ attempt \in [Requests -> Nat] /\ deadline \in [Requests -> Nat]
    /\ failed \in [Requests -> BOOLEAN] /\ blocked \in [Requests -> SUBSET Credentials]
    /\ status \in [Requests -> {"unavailable", "unknown", "refused"}]
    /\ journal \in [Requests -> SUBSET Entries]
    /\ result \in [Requests -> {"none", "accepted", "safe_mode", "aborted"}]

\* A request is over when its budget is: the timeout of an attempt is cut to
\* what is left of it, so slots, retries and timeouts together never exceed it.
WithinBudget == \A r \in Requests : Active(r) => now <= began[r] + Budget

\* Calls to providers: their start is audited first.
Calls(r) == {<<e.slot, e.attempt>> : e \in {f \in journal[r] : f.phase = "started"}}

Has(r, s, phases) == \E e \in journal[r] : e.slot = s /\ e.phase \in phases

\* The safe-mode text, and an answer of a fallback slot, are given only when
\* each earlier slot is accounted for in the audit: skipped, out of budget or
\* failed.  After a refusal the later slots were not called.
EverySlotAccounted ==
    \A r \in Requests : \A s \in DOMAIN Slots :
      /\ s < slot[r] => Has(r, s, {"skipped", "exhausted", "unavailable", "unknown", "refused"})
      /\ result[r] = "safe_mode" /\ status[r] # "refused" => s < slot[r]

\* Once a provider has refused the content nothing evades it: the refusal is
\* the last entry of the request and no other slot or attempt answers.
RefusalIsFinal ==
    \A r \in Requests :
      \A e \in journal[r] :
        e.phase = "refused" =>
          /\ result[r] # "accepted" /\ status[r] = "refused"
          /\ \A c \in Calls(r) : c[1] < e.slot \/ (c[1] = e.slot /\ c[2] <= e.attempt)

\* Each call has one outcome in the audit, unless it is under way or its
\* outcome could not be audited; then the request was abandoned with it.
Outcomes(r, c) ==
    {e \in journal[r] : e.slot = c[1] /\ e.attempt = c[2] /\ e.phase # "started"}

Pending(r) == {c \in Calls(r) : Outcomes(r, c) = {}}

EveryCallJournaled ==
    \A r \in Requests :
      /\ \A c \in Calls(r) : \A d, e \in Outcomes(r, c) : d = e
      /\ Pending(r) # {} => /\ Pending(r) = {<<slot[r], attempt[r]>>}
                            /\ pc[r] = "waiting" \/ result[r] = "aborted"

\* A request calls no slot whose credential is missing or was rejected before
\* in that request, whatever slots share it, and begins with no model that
\* cools down because of any request's failure; only a request that is at it
\* already may try it again.
OnlyUsableSlotsCalled ==
    [][\A r \in Requests : \A c \in Calls(r)' \ Calls(r) :
         /\ Slots[c[1]].credential \notin blocked[r] \union Missing
         /\ c[2] = 1 => cooldown[Slots[c[1]].model] <= now]_vars

\* Every request that begins gets a result, whether or not a provider answers.
InferenceEnds == \A r \in Requests : pc[r] = "slot" ~> pc[r] = "done"
=============================================================================
