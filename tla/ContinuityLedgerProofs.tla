------------------------ MODULE ContinuityLedgerProofs ------------------------
(***************************************************************************)
(* Theorems about ContinuityLedger, for any number of memories, requests,  *)
(* attempts, rows and restarts, and whatever the ledger does.              *)
(***************************************************************************)
EXTENDS ContinuityLedger, FiniteSetTheorems, TLAPS

-----------------------------------------------------------------------------
(* Type correctness.                                                       *)

\* A request under way, and one with a POST under way, has its job.
JobsKnown ==
    /\ \A r \in Requests : pc[r] \in {"waiting", "verifying"} => job[r] \in Job
    /\ \A r \in Requests, n \in 1..Attempts : <<r, n>> \in net => job[r] \in Job

\* Only an answer that names a row is verified, and no supersession is.
AnswersKnown ==
    /\ \A r \in Requests :
          answer[r] \in Answer /\ answer[r].kind = "accepted" =>
              answer[r].id \in LedgerIds /\ answer[r].hash \in Texts
    /\ \A r \in Requests :
          pc[r] = "verifying" =>
              r \notin Supersedes /\ answer[r] \in Answer /\ answer[r].kind = "accepted"

IInv == TypeOK /\ JobsKnown /\ AnswersKnown

\* The altered form of a text is a text.
LEMMA ClaimedTyped ==
    ASSUME NEW text \in Texts PROVE Claimed(text) \subseteq Texts
<1>1. text[1] \in Memories \cup Corrections
    BY DEF Texts
<1>2. <<text[1], "altered">> \in Texts
    BY <1>1 DEF Texts
<1> QED
    BY <1>2 DEF Claimed

LEMMA WholeTyped ==
    ASSUME NEW x \in Memories \cup Corrections
    PROVE  Whole(x) \in Texts /\ <<x, "stripped">> \in Texts
BY DEF Whole, Texts

LEMMA KeyTyped ==
    /\ \A m \in Memories : ProposeKey(m) \in Key
    /\ \A m \in Memories, text \in Texts : PromoteKey(m, text) \in Key
    /\ \A i \in LedgerIds, text \in Texts : SupersedeKey(i, text) \in Key
BY DEF ProposeKey, PromoteKey, SupersedeKey, Key, Routes

\* A row, once there, stays as it is; a new row is a row.
LEMMA StoresKeeps ==
    ASSUME TypeOK, NEW j \in Job, NEW i \in LedgerIds, NEW hash \in Texts, Stores(j, i, hash)
    PROVE  /\ rows' \in [LedgerIds -> Row \cup {None}]
           /\ \A k \in LedgerIds : rows[k] # None => rows'[k] = rows[k]
<1>1. [key |-> j.key, hash |-> hash] \in Row
    BY DEF Job, Row
<1> QED
    BY <1>1 DEF Stores, TypeOK

\* What a step of the ledger does to the rows and to the answers.
LEMMA LedgerStepKeeps ==
    ASSUME IInv, NEW r \in Requests, NEW n \in 1..Attempts, LedgerStep(r, n)
    PROVE  /\ rows' \in [LedgerIds -> Row \cup {None}]
           /\ \A k \in LedgerIds : rows[k] # None => rows'[k] = rows[k]
           /\ net' \subseteq net
           /\ UNCHANGED <<pc, job, attempt, session, restarts>>
           /\ \/ UNCHANGED answer
              \/ /\ pc[r] = "waiting"
                 /\ \E a \in Answer :
                       /\ answer' = [answer EXCEPT ![r] = a]
                       /\ a.kind = "accepted" => a.id \in LedgerIds /\ a.hash \in Texts
<1>1. CASE LedgerAccepts(r, n)
    <2>1. job[r] \in Job /\ job[r].text \in Texts
        BY <1>1 DEF LedgerAccepts, IInv, JobsKnown, Job
    <2>2. PICK i \in LedgerIds, hash \in Claimed(job[r].text) :
            /\ Stores(job[r], i, hash)
            /\ \E id \in IF Lapses THEN LedgerIds ELSE {i},
                  said \in IF Lapses THEN {hash, job[r].text} ELSE {hash} :
                  Respond(r, n, "accepted", id, said)
        BY <1>1 DEF LedgerAccepts
    <2>3. hash \in Texts
        BY <2>1, <2>2, ClaimedTyped
    <2>4. PICK id \in LedgerIds, said \in Texts : Respond(r, n, "accepted", id, said)
        BY <2>1, <2>2, <2>3
    <2>5. [kind |-> "accepted", id |-> id, hash |-> said] \in Answer
        BY DEF Answer, AnswerKinds
    <2>6. \/ UNCHANGED answer
          \/ /\ pc[r] = "waiting"
             /\ answer' = [answer EXCEPT ![r] = [kind |-> "accepted", id |-> id, hash |-> said]]
        BY <2>4 DEF Respond
    <2>7. net' \subseteq net /\ UNCHANGED <<pc, job, attempt, session, restarts>>
        BY <2>4 DEF Respond
    <2> QED
        BY <2>1, <2>2, <2>3, <2>5, <2>6, <2>7, StoresKeeps DEF IInv
<1>2. ASSUME NEW kind \in AnswerKinds \ {"accepted"}, Respond(r, n, kind, None, None)
      PROVE  /\ net' \subseteq net
             /\ UNCHANGED <<pc, job, attempt, session, restarts>>
             /\ \/ UNCHANGED answer
                \/ /\ pc[r] = "waiting"
                   /\ \E a \in Answer : answer' = [answer EXCEPT ![r] = a] /\ a.kind # "accepted"
    <2>1. [kind |-> kind, id |-> None, hash |-> None] \in Answer
        BY DEF Answer
    <2> QED
        BY <1>2, <2>1 DEF Respond
<1>3. ASSUME <<r, n>> \in net,
             \/ UNCHANGED rows
             \/ \E i \in LedgerIds, hash \in Claimed(job[r].text) : Stores(job[r], i, hash)
      PROVE  /\ rows' \in [LedgerIds -> Row \cup {None}]
             /\ \A k \in LedgerIds : rows[k] # None => rows'[k] = rows[k]
    <2>1. job[r] \in Job /\ job[r].text \in Texts
        BY <1>3 DEF IInv, JobsKnown, Job
    <2>2. CASE UNCHANGED rows
        BY <2>2 DEF IInv, TypeOK
    <2>3. ASSUME NEW i \in LedgerIds, NEW hash \in Claimed(job[r].text), Stores(job[r], i, hash)
          PROVE  /\ rows' \in [LedgerIds -> Row \cup {None}]
                 /\ \A k \in LedgerIds : rows[k] # None => rows'[k] = rows[k]
        <3>1. hash \in Texts
            BY <2>1, ClaimedTyped
        <3> QED
            BY <2>1, <2>3, <3>1, StoresKeeps DEF IInv
    <2> QED
        BY <1>3, <2>2, <2>3
<1>4. CASE LedgerRefuses(r, n)
    <2>1. PICK kind \in AnswerKinds \ {"accepted"} : Respond(r, n, kind, None, None)
        BY <1>4 DEF LedgerRefuses, AnswerKinds
    <2>2. UNCHANGED rows /\ <<r, n>> \in net
        BY <1>4 DEF LedgerRefuses
    <2> QED
        BY <1>2, <1>3, <2>1, <2>2
<1>5. CASE LedgerFails(r, n)
    <2>1. PICK kind \in AnswerKinds \ {"accepted"} : Respond(r, n, kind, None, None)
        BY <1>5 DEF LedgerFails, AnswerKinds
    <2>2. /\ rows' \in [LedgerIds -> Row \cup {None}]
          /\ \A k \in LedgerIds : rows[k] # None => rows'[k] = rows[k]
        BY <1>3, <1>5 DEF LedgerFails
    <2> QED
        BY <1>2, <2>1, <2>2
<1>6. CASE LedgerDrops(r, n)
    <2>1. /\ rows' \in [LedgerIds -> Row \cup {None}]
          /\ \A k \in LedgerIds : rows[k] # None => rows'[k] = rows[k]
        BY <1>3, <1>6 DEF LedgerDrops
    <2>2. net' \subseteq net /\ UNCHANGED <<client, session, restarts>>
        BY <1>6 DEF LedgerDrops
    <2> QED
        BY <2>1, <2>2 DEF client
<1> QED
    BY <1>1, <1>4, <1>5, <1>6 DEF LedgerStep

LEMMA LedgerStepTyped ==
    ASSUME IInv, NEW r \in Requests, NEW n \in 1..Attempts, LedgerStep(r, n)
    PROVE  IInv'
<1> USE DEF IInv, TypeOK, session, copies
<1>1. /\ rows' \in [LedgerIds -> Row \cup {None}]
      /\ net' \subseteq net
      /\ UNCHANGED <<pc, job, attempt, session, restarts>>
    BY LedgerStepKeeps
<1>2. CASE UNCHANGED answer
    <2>1. TypeOK'
        BY <1>1, <1>2
    <2>2. JobsKnown' /\ AnswersKnown'
        BY <1>1, <1>2 DEF JobsKnown, AnswersKnown
    <2> QED
        BY <2>1, <2>2
<1>3. ASSUME NEW a \in Answer, pc[r] = "waiting", answer' = [answer EXCEPT ![r] = a],
             a.kind = "accepted" => a.id \in LedgerIds /\ a.hash \in Texts
      PROVE  IInv'
    <2>1. answer' \in [Requests -> Answer \cup {None}]
        BY <1>3
    <2>2. TypeOK'
        BY <1>1, <2>1
    <2>3. JobsKnown'
        BY <1>1 DEF JobsKnown
    <2>4. AnswersKnown'
        BY <1>1, <1>3 DEF AnswersKnown
    <2> QED
        BY <2>2, <2>3, <2>4
<1> QED
    BY <1>2, <1>3, LedgerStepKeeps

LEMMA SubmitTyped ==
    ASSUME IInv, NEW r \in Requests, pc[r] = "idle", NEW j \in Job, Submit(r, j)
    PROVE  IInv'
<1> USE DEF IInv, TypeOK, Submit, session, copies
<1>1. 1 \in 1..Attempts /\ 1 \in 0..Attempts
    BY LedgerAssumption
<1>2. pc' \in [Requests -> PCs]
    BY DEF PCs
<1>3. net' \in SUBSET (Requests \X (1..Attempts)) /\ attempt' \in [Requests -> 0..Attempts]
    BY <1>1
<1>4. TypeOK'
    BY <1>2, <1>3
<1>5. JobsKnown'
    BY DEF JobsKnown
<1>6. AnswersKnown'
    BY DEF AnswersKnown
<1> QED
    BY <1>4, <1>5, <1>6

LEMMA RefusalTyped == ASSUME NEW r \in Requests PROVE Refusal(r) \subseteq Event
BY DEF Refusal, Event, EventTypes

LEMMA AskTyped ==
    ASSUME IInv, NEW r \in Requests, Ask(r)
    PROVE  IInv'
<1>1. CASE r \in Proposes /\ Propose(r)
    <2>1. PICK m \in Memories :
            Submit(r, [mem |-> m, obj |-> live, key |-> ProposeKey(m), text |-> Whole(m)])
        BY <1>1 DEF Propose
    <2>2. [mem |-> m, obj |-> live, key |-> ProposeKey(m), text |-> Whole(m)] \in Job
        BY WholeTyped, KeyTyped DEF Job, IInv, TypeOK
    <2> QED
        BY <1>1, <2>1, <2>2, SubmitTyped DEF Propose
<1>2. CASE r \in Promotes /\ Promote(r)
    <2>1. PICK m \in Memories :
            Submit(r, [mem |-> m, obj |-> live, key |-> PromoteKey(m, PromotedText(m)), text |-> PromotedText(m)])
        BY <1>2 DEF Promote
    <2>2. PromotedText(m) \in Texts
        BY WholeTyped DEF PromotedText
    <2>3. [mem |-> m, obj |-> live, key |-> PromoteKey(m, PromotedText(m)), text |-> PromotedText(m)] \in Job
        BY <2>2, KeyTyped DEF Job, IInv, TypeOK
    <2> QED
        BY <1>2, <2>1, <2>3, SubmitTyped DEF Promote
<1>3. CASE r \in Promotes /\ PromoteDenied(r)
    <2>1. TypeOK'
        BY <1>3, RefusalTyped DEF PromoteDenied, Ends, copies, IInv, TypeOK, PCs, Outcomes
    <2>2. JobsKnown' /\ AnswersKnown'
        BY <1>3 DEF PromoteDenied, Ends, IInv, TypeOK, JobsKnown, AnswersKnown
    <2> QED
        BY <2>1, <2>2 DEF IInv
<1>4. CASE r \in Supersedes /\ Supersede(r)
    <2>1. PICK m \in Memories, c \in Corrections :
            /\ bound[live][m] # None
            /\ Submit(r, [mem |-> m, obj |-> live, key |-> SupersedeKey(bound[live][m], Whole(c)), text |-> Whole(c)])
        BY <1>4 DEF Supersede
    <2>2. bound[live][m] \in LedgerIds
        BY <2>1 DEF IInv, TypeOK
    <2>3. [mem |-> m, obj |-> live, key |-> SupersedeKey(bound[live][m], Whole(c)), text |-> Whole(c)] \in Job
        BY <2>2, WholeTyped, KeyTyped DEF Job, IInv, TypeOK
    <2> QED
        BY <1>4, <2>1, <2>3, SubmitTyped DEF Supersede
<1> QED
    BY <1>1, <1>2, <1>3, <1>4 DEF Ask

\* A request that ends, whatever it leaves in the audit, the lock or the
\* metadata.
LEMMA EndingTyped ==
    ASSUME IInv, NEW r \in Requests, NEW outcome \in Outcomes,
           pc' = [pc EXCEPT ![r] = outcome],
           audit' \in SUBSET Event,
           lock' \in LockReasons,
           live' \in Objects,
           bound' \in [Objects -> [Memories -> LedgerIds \cup {None}]],
           UNCHANGED <<job, attempt, answer, net, rows, saved, turn, restarts>>
    PROVE  IInv'
<1>1. outcome \in PCs /\ outcome \notin {"waiting", "verifying"}
    BY DEF PCs, Outcomes
<1>2. TypeOK'
    BY <1>1 DEF IInv, TypeOK
<1>3. JobsKnown' /\ AnswersKnown'
    BY <1>1 DEF IInv, TypeOK, JobsKnown, AnswersKnown
<1> QED
    BY <1>2, <1>3 DEF IInv

\* The row that was verified is one of the ledger, and claims the memory's hash
\* when it can be bound.
LEMMA VerifiedClaims ==
    ASSUME IInv, NEW r \in Requests, Verified(r)
    PROVE  /\ answer[r].id \in LedgerIds
           /\ job[r] \in Job
           /\ job[r].mem \in Memories
           /\ job[r].obj \in Objects
           /\ Bindable(r) => Claims(answer[r].id, job[r].mem)
<1>1. answer[r].id \in LedgerIds
    BY DEF Verified, IInv, AnswersKnown
<1>2. job[r] \in Job
    BY DEF Verified, IInv, JobsKnown
<1> QED
    BY <1>1, <1>2 DEF Verified, Bindable, Claims, Job

LEMMA ProgressTyped ==
    ASSUME IInv, NEW r \in Requests, Progress(r)
    PROVE  IInv'
<1> USE DEF session, copies
<1>a. /\ lock \in LockReasons
      /\ live \in Objects
      /\ bound \in [Objects -> [Memories -> LedgerIds \cup {None}]]
      /\ audit \in SUBSET Event
    BY DEF IInv, TypeOK
<1>b. LockedFor("conflict") \in LockReasons /\ Authorized \in LockReasons
    BY <1>a DEF LockedFor, Authorized, LockReasons
<1>c. ASSUME NEW outcome \in Outcomes, Ends(r, outcome), lock' \in LockReasons,
             UNCHANGED <<job, attempt, answer, net, rows, copies, restarts>>
      PROVE  IInv'
    BY <1>a, <1>c, RefusalTyped, EndingTyped DEF Ends
<1>1. CASE Retry(r)
    <2>1. attempt[r] \in 0..Attempts /\ attempt[r] < Attempts /\ Attempts \in Nat
        BY <1>1, LedgerAssumption DEF Retry, IInv, TypeOK
    <2>2. attempt[r] + 1 \in 1..Attempts /\ attempt[r] + 1 \in 0..Attempts
        BY <2>1
    <2>3. TypeOK'
        BY <1>1, <2>2 DEF Retry, IInv, TypeOK
    <2>4. job[r] \in Job
        BY <1>1 DEF Retry, AttemptFailed, Waits, IInv, JobsKnown
    <2>5. JobsKnown'
        BY <1>1, <2>4 DEF Retry, IInv, JobsKnown
    <2>6. AnswersKnown'
        BY <1>1 DEF Retry, IInv, AnswersKnown
    <2> QED
        BY <2>3, <2>5, <2>6 DEF IInv
<1>2. CASE GiveUp(r)
    BY <1>2, <1>a, <1>c DEF GiveUp, Outcomes
<1>3. CASE Unproven(r)
    BY <1>3, <1>a, <1>c DEF Unproven, Outcomes
<1>4. CASE ProposeRefused(r)
    <2>1. job[r].mem \in Memories
        BY <1>4 DEF ProposeRefused, Says, Waits, IInv, JobsKnown, Job
    <2>2. [type |-> "conflict_membrane", of |-> job[r].mem, id |-> None] \in Event
        BY <2>1 DEF Event, EventTypes
    <2>3. /\ audit' \in SUBSET Event
          /\ \E outcome \in Outcomes : pc' = [pc EXCEPT ![r] = outcome]
        BY <1>4, <1>a, <2>2 DEF ProposeRefused, Outcomes
    <2> QED
        BY <1>4, <1>a, <1>b, <2>3, EndingTyped DEF ProposeRefused
<1>5. CASE Refused(r)
    BY <1>5, <1>a, <1>c DEF Refused, Outcomes
<1>6. CASE Conflict(r)
    BY <1>6, <1>b, <1>c DEF Conflict, Outcomes
<1>7. CASE Accepted(r)
    <2>1. answer[r] \in Answer /\ answer[r].kind = "accepted" /\ job[r] \in Job
        BY <1>7 DEF Accepted, Says, Waits, IInv, TypeOK, JobsKnown
    <2>2. TypeOK'
        BY <1>7 DEF Accepted, IInv, TypeOK, PCs
    <2>3. JobsKnown'
        BY <1>7, <2>1 DEF Accepted, IInv, TypeOK, JobsKnown
    <2>4. AnswersKnown'
        BY <1>7, <2>1 DEF Accepted, IInv, TypeOK, AnswersKnown
    <2> QED
        BY <2>2, <2>3, <2>4 DEF IInv
<1>8. CASE VerifyFails(r)
    BY <1>8, <1>a, <1>c DEF VerifyFails, Outcomes
<1>9. CASE ReconcileRefused(r)
    BY <1>9, <1>a, <1>c DEF ReconcileRefused, Outcomes
<1>d. ASSUME Verified(r), Bind(r)
      PROVE  bound' \in [Objects -> [Memories -> LedgerIds \cup {None}]]
    BY <1>a, <1>d, VerifiedClaims DEF Bind
<1>10. CASE Reconcile(r)
    <2>1. answer[r].id \in LedgerIds /\ job[r].mem \in Memories /\ job[r].obj \in Objects
        BY <1>10, VerifiedClaims DEF Reconcile
    <2>2. Reconciled(r) \in Event /\ Applied(r) \subseteq Event
        BY <2>1 DEF Reconciled, Applied, Event, EventTypes
    <2>3. audit' \in SUBSET Event /\ live' \in Objects
        BY <1>10, <1>a, <2>1, <2>2 DEF Reconcile
    <2> QED
        BY <1>10, <1>a, <1>d, <2>3, EndingTyped DEF Reconcile, Outcomes
<1>11. CASE ReconcileRepeated(r)
    BY <1>11, <1>a, <1>d, EndingTyped DEF ReconcileRepeated, Outcomes
<1>12. CASE LineageInvalid(r)
    BY <1>12, <1>a, <1>c DEF LineageInvalid, Outcomes
<1>13. CASE ApplySupersession(r)
    <2>1. job[r].mem \in Memories /\ job[r].obj \in Objects /\ answer[r].id \in LedgerIds
        BY <1>13 DEF ApplySupersession, Says, Waits, IInv, TypeOK, JobsKnown, AnswersKnown, Job
    <2>2. Superseded(r) \in Event
        BY <2>1 DEF Superseded, Event, EventTypes
    <2>3. /\ audit' \in SUBSET Event
          /\ lock' \in LockReasons
          /\ live' \in Objects
          /\ \E outcome \in Outcomes : pc' = [pc EXCEPT ![r] = outcome]
        BY <1>13, <1>a, <1>b, <2>1, <2>2 DEF ApplySupersession, Outcomes
    <2> QED
        BY <1>13, <1>a, <2>3, EndingTyped DEF ApplySupersession
<1> QED
    BY <1>1, <1>2, <1>3, <1>4, <1>5, <1>6, <1>7, <1>8, <1>9, <1>10, <1>11, <1>12, <1>13 DEF Progress

\* A turn leaves requests, ledger, lock and audit alone.
LEMMA TurnKeeps ==
    ASSUME NEW t \in Turns, TurnStep(t)
    PROVE  UNCHANGED <<pc, job, attempt, answer, net, rows, lock, audit, restarts>>
BY DEF TurnStep, TurnArrives, TurnQueues, TurnWakes, Starts, TurnEnds, TurnFails, client

LEMMA TurnTyped ==
    ASSUME IInv, NEW t \in Turns, TurnStep(t)
    PROVE  IInv'
<1>1. t \in Objects
    BY DEF Objects
<1>2. live' \in Objects
    BY <1>1 DEF TurnStep, TurnArrives, TurnQueues, TurnWakes, Starts, TurnEnds, TurnFails, IInv, TypeOK
<1>3. bound' \in [Objects -> [Memories -> LedgerIds \cup {None}]]
    BY <1>1 DEF TurnStep, TurnArrives, TurnQueues, TurnWakes, Starts, TurnEnds, TurnFails, IInv, TypeOK
<1>4. saved' \in [Memories -> LedgerIds \cup {None}]
    BY <1>1 DEF TurnStep, TurnArrives, TurnQueues, TurnWakes, Starts, TurnEnds, TurnFails, IInv, TypeOK
<1>5. turn' \in [Turns -> TurnPCs]
    BY DEF TurnStep, TurnArrives, TurnQueues, TurnWakes, Starts, TurnEnds, TurnFails, IInv, TypeOK, TurnPCs
<1>6. TypeOK'
    BY <1>2, <1>3, <1>4, <1>5, TurnKeeps DEF IInv, TypeOK
<1>7. JobsKnown' /\ AnswersKnown'
    BY TurnKeeps DEF IInv, JobsKnown, AnswersKnown
<1> QED
    BY <1>6, <1>7 DEF IInv

LEMMA RestartTyped == ASSUME IInv, Restart PROVE IInv'
<1> USE DEF Restart
<1>1. \A r \in Requests : pc'[r] \in PCs /\ pc'[r] \notin {"waiting", "verifying"}
    BY DEF IInv, TypeOK, PCs, Outcomes
<1>2. pc' \in [Requests -> PCs]
    BY <1>1
<1>3. restarts' \in Nat /\ lock' \in LockReasons
    BY DEF IInv, TypeOK, LockReasons
<1>4. turn' \in [Turns -> TurnPCs]
    BY DEF IInv, TypeOK, TurnPCs
<1>5. /\ live' \in Objects
      /\ bound' \in [Objects -> [Memories -> LedgerIds \cup {None}]]
    BY DEF IInv, TypeOK, Objects
<1>6. TypeOK'
    BY <1>2, <1>3, <1>4, <1>5 DEF IInv, TypeOK
<1>7. JobsKnown' /\ AnswersKnown'
    BY <1>1 DEF IInv, JobsKnown, AnswersKnown
<1> QED
    BY <1>6, <1>7 DEF IInv

LEMMA InitTyped == Init => IInv
<1> SUFFICES ASSUME Init PROVE IInv
    OBVIOUS
<1>1. TypeOK
    <2>1. 0 \in 0..Attempts
        BY LedgerAssumption
    <2> QED
        BY <2>1 DEF Init, TypeOK, PCs, LockReasons, TurnPCs, Objects, Unbound
<1>2. JobsKnown /\ AnswersKnown
    BY LedgerAssumption DEF Init, JobsKnown, AnswersKnown
<1> QED
    BY <1>1, <1>2 DEF IInv

LEMMA NextTyped == IInv /\ [Next]_vars => IInv'
<1> SUFFICES ASSUME IInv, [Next]_vars PROVE IInv'
    OBVIOUS
<1>1. CASE UNCHANGED vars
    BY <1>1 DEF vars, client, session, copies, IInv, TypeOK, JobsKnown, AnswersKnown
<1>2. CASE \E r \in Requests : Ask(r) \/ Progress(r)
    BY <1>2, AskTyped, ProgressTyped
<1>3. CASE \E r \in Requests, n \in 1..Attempts : LedgerStep(r, n)
    BY <1>3, LedgerStepTyped
<1> QED
    BY <1>1, <1>2, <1>3, TurnTyped, RestartTyped DEF Next

LEMMA TypesHold == Spec => []IInv
BY InitTyped, NextTyped, PTL DEF Spec

\* Every variable keeps its type: in particular no request makes more than
\* Attempts POSTs.
THEOREM TypeCorrect == Spec => []TypeOK
<1>1. IInv => TypeOK
    BY DEF IInv
<1> QED
    BY <1>1, TypesHold, PTL

-----------------------------------------------------------------------------
(* What a step can do to the rows, the audit and the jobs.                 *)

RowsKept  == \A k \in LedgerIds : rows[k] # None => rows'[k] = rows[k]
AuditKept == audit \subseteq audit'
JobsKept  == \A r \in Requests : pc[r] # "idle" => job'[r] = job[r]

\* Rows and events are never changed or removed, and a request keeps its job.
LEMMA NothingTakenBack ==
    ASSUME IInv, [Next]_vars
    PROVE  RowsKept /\ AuditKept /\ JobsKept
<1> USE DEF RowsKept, AuditKept, JobsKept, session, client, copies
<1>1. CASE UNCHANGED vars
    BY <1>1 DEF vars
<1>2. ASSUME NEW r \in Requests, Ask(r)
      PROVE  RowsKept /\ AuditKept /\ JobsKept
    <2>1. ASSUME NEW j, pc[r] = "idle", Submit(r, j)
          PROVE  RowsKept /\ AuditKept /\ JobsKept
        BY <2>1 DEF Submit, IInv, TypeOK
    <2> QED
        BY <1>2, <2>1 DEF Ask, Propose, Promote, PromoteDenied, Ends, Supersede
<1>3. ASSUME NEW r \in Requests, Progress(r)
      PROVE  RowsKept /\ AuditKept /\ JobsKept
    BY <1>3 DEF Progress, Retry, GiveUp, Unproven, ProposeRefused, Refused, Conflict, Accepted,
                VerifyFails, ReconcileRefused, Reconcile, ReconcileRepeated, LineageInvalid,
                ApplySupersession, Ends
<1>4. ASSUME NEW r \in Requests, NEW n \in 1..Attempts, LedgerStep(r, n)
      PROVE  RowsKept /\ AuditKept /\ JobsKept
    BY <1>4, LedgerStepKeeps
<1>5. ASSUME NEW t \in Turns, TurnStep(t)
      PROVE  RowsKept /\ AuditKept /\ JobsKept
    BY <1>5, TurnKeeps
<1>6. CASE Restart
    BY <1>6 DEF Restart
<1> QED
    BY <1>1, <1>2, <1>3, <1>4, <1>5, <1>6 DEF Next

-----------------------------------------------------------------------------
(* What is reported as stored is stored.                                   *)

\* Only a reconciliation makes a request end as stored.
LEMMA OnlyReconcileStores ==
    ASSUME IInv, [Next]_vars, NEW r \in Requests, pc'[r] = "durably_stored"
    PROVE  pc[r] = "durably_stored" \/ Reconcile(r)
<1> USE DEF session, client, copies
<1>1. CASE UNCHANGED vars
    BY <1>1 DEF vars
<1>2. ASSUME NEW q \in Requests, Ask(q)
      PROVE  pc[r] = "durably_stored"
    BY <1>2 DEF Ask, Propose, Promote, PromoteDenied, Supersede, Submit, Ends, IInv, TypeOK
<1>3. ASSUME NEW q \in Requests, Progress(q), ~Reconcile(q)
      PROVE  pc[r] = "durably_stored"
    BY <1>3 DEF Progress, Retry, GiveUp, Unproven, ProposeRefused, Refused, Conflict, Accepted,
                VerifyFails, ReconcileRefused, ReconcileRepeated, LineageInvalid,
                ApplySupersession, Ends, IInv, TypeOK
<1>4. ASSUME NEW q \in Requests, Reconcile(q), q # r
      PROVE  pc[r] = "durably_stored"
    BY <1>4 DEF Reconcile, IInv, TypeOK
<1>5. ASSUME NEW q \in Requests, NEW n \in 1..Attempts, LedgerStep(q, n)
      PROVE  pc[r] = "durably_stored"
    BY <1>5, LedgerStepKeeps
<1>6. ASSUME NEW t \in Turns, TurnStep(t)
      PROVE  pc[r] = "durably_stored"
    BY <1>6, TurnKeeps
<1>7. CASE Restart
    BY <1>7 DEF Restart, IInv, TypeOK
<1> QED
    BY <1>1, <1>2, <1>3, <1>4, <1>5, <1>6, <1>7 DEF Next

LEMMA StoredStep == IInv /\ StoredIsDurable /\ [Next]_vars => StoredIsDurable'
<1> SUFFICES ASSUME IInv, StoredIsDurable, [Next]_vars,
                    NEW r \in Requests, pc'[r] = "durably_stored"
             PROVE  \E i \in LedgerIds :
                        /\ Claims(i, job[r].mem)'
                        /\ [type |-> "memory_reconciled", of |-> job[r].mem, id |-> i]' \in audit'
    BY DEF StoredIsDurable
<1>1. RowsKept /\ AuditKept /\ JobsKept
    BY NothingTakenBack
<1>2. CASE pc[r] = "durably_stored"
    <2>1. job'[r] = job[r]
        BY <1>1, <1>2 DEF JobsKept
    <2> QED
        BY <1>1, <1>2, <2>1 DEF StoredIsDurable, Claims, RowsKept, AuditKept
<1>3. CASE Reconcile(r)
    <2>1. answer[r].id \in LedgerIds /\ Claims(answer[r].id, job[r].mem)
        BY <1>3, VerifiedClaims DEF Reconcile
    <2>2. UNCHANGED <<job, rows>>
        BY <1>3 DEF Reconcile
    <2>3. [type |-> "memory_reconciled", of |-> job[r].mem, id |-> answer[r].id] \in audit'
        BY <1>3 DEF Reconcile, Reconciled
    <2> QED
        BY <2>1, <2>2, <2>3 DEF Claims
<1> QED
    BY <1>2, <1>3, OnlyReconcileStores

\* Whatever the ledger loses, repeats, alters or misreports, and across
\* restarts: for a memory reported as durably stored the ledger has a row that
\* claims the memory's hash, and the local audit names that row.
THEOREM StoredIsInLedger == Spec => []StoredIsDurable
<1>1. Init => StoredIsDurable
    BY DEF Init, StoredIsDurable
<1> QED
    BY <1>1, StoredStep, TypesHold, PTL DEF Spec

-----------------------------------------------------------------------------
(* Bindings and audit.                                                     *)

\* The steps that leave the live state, its copies and the checkpoint alone.
LEMMA QuietSteps ==
    ASSUME IInv, NEW r \in Requests
    PROVE  /\ Ask(r) => UNCHANGED <<rows, copies>>
           /\ Progress(r) => \/ UNCHANGED <<rows, copies>>
                             \/ Reconcile(r)
                             \/ ReconcileRepeated(r)
                             \/ ApplySupersession(r) /\ UNCHANGED <<rows, bound, saved, turn>>
           /\ \A n \in 1..Attempts : LedgerStep(r, n) => UNCHANGED copies
<1> USE DEF session, client, copies
<1>1. Ask(r) => UNCHANGED <<rows, copies>>
    BY DEF Ask, Propose, Promote, PromoteDenied, Supersede, Submit
<1>2. ASSUME Progress(r), ~Reconcile(r), ~ReconcileRepeated(r), ~ApplySupersession(r)
      PROVE  UNCHANGED <<rows, copies>>
    BY <1>2 DEF Progress, Retry, GiveUp, Unproven, ProposeRefused, Refused, Conflict, Accepted,
                VerifyFails, ReconcileRefused, LineageInvalid
<1>3. ASSUME ApplySupersession(r)
      PROVE  UNCHANGED <<rows, bound, saved, turn>>
    BY <1>3 DEF ApplySupersession
<1>4. ASSUME NEW n \in 1..Attempts, LedgerStep(r, n)
      PROVE  UNCHANGED copies
    BY <1>4, LedgerStepKeeps
<1> QED
    BY <1>1, <1>2, <1>3, <1>4

\* A binding that was not there before, in any copy, is made by a request that
\* has verified the row; turns and restarts only hand bindings on.
LEMMA WhoBinds ==
    ASSUME IInv, [Next]_vars, NEW b \in Bindings', NEW m \in Memories, b[m] # None
    PROVE  \/ \E c \in Bindings : c[m] = b[m]
           \/ \E r \in Requests : /\ Reconcile(r) \/ ReconcileRepeated(r)
                                  /\ job[r].mem = m
                                  /\ answer[r].id = b[m]
<1> DEFINE Old == \E c \in Bindings : c[m] = b[m]
<1>0. /\ bound \in [Objects -> [Memories -> LedgerIds \cup {None}]]
      /\ live \in Objects
    BY DEF IInv, TypeOK
<1>a. /\ saved \in Bindings
      /\ \A o \in Objects : bound[o] \in Bindings
    BY DEF Bindings
<1>b. (\E o \in Objects : b = bound'[o]) \/ b = saved'
    BY DEF Bindings
<1>1. CASE UNCHANGED <<bound, saved>>
    BY <1>1, <1>a, <1>b
<1>2. ASSUME NEW r \in Requests, Reconcile(r) \/ ReconcileRepeated(r)
      PROVE  Old \/ (job[r].mem = m /\ answer[r].id = b[m])
    <2>1. /\ bound' = [bound EXCEPT ![job[r].obj][job[r].mem] = answer[r].id]
          /\ UNCHANGED saved
        BY <1>2 DEF Reconcile, ReconcileRepeated, Bind
    <2>2. job[r].mem \in Memories /\ job[r].obj \in Objects
        BY <1>2, VerifiedClaims DEF Reconcile, ReconcileRepeated
    <2>3. ASSUME NEW o \in Objects, ~(o = job[r].obj /\ m = job[r].mem) PROVE bound'[o][m] = bound[o][m]
        BY <1>0, <2>1, <2>2, <2>3
    <2>4. bound'[job[r].obj][job[r].mem] = answer[r].id
        BY <1>0, <2>1, <2>2
    <2>5. CASE b = saved'
        BY <1>a, <2>1, <2>5
    <2>6. ASSUME NEW o \in Objects, b = bound'[o] PROVE Old \/ (job[r].mem = m /\ answer[r].id = b[m])
        BY <1>a, <2>3, <2>4, <2>6
    <2> QED
        BY <1>b, <2>5, <2>6
<1>3. ASSUME NEW t \in Turns, TurnStep(t) PROVE Old
    <2>1. t \in Objects
        BY DEF Objects
    <2>2. \A o \in Objects : bound'[o] \in {bound[o], bound[live]}
        BY <1>0, <1>3, <2>1 DEF TurnStep, TurnArrives, TurnQueues, TurnWakes, Starts, TurnEnds, TurnFails
    <2>3. saved' \in {saved, bound[t]}
        BY <1>3 DEF TurnStep, TurnArrives, TurnQueues, TurnWakes, Starts, TurnEnds, TurnFails
    <2> QED
        BY <1>0, <1>a, <1>b, <2>1, <2>2, <2>3
<1>4. CASE Restart
    BY <1>4, <1>a, <1>b DEF Restart
<1>5. CASE UNCHANGED vars
    BY <1>1, <1>5 DEF vars, session, copies
<1> QED
    BY <1>1, <1>2, <1>3, <1>4, <1>5, QuietSteps DEF Next, copies

\* The reconciliation of m with row i is audited, or the request that made it
\* was answered with an error.
Accounted(m, i) ==
    \/ [type |-> "memory_reconciled", of |-> m, id |-> i] \in audit
    \/ \E r \in Proposes \cup Promotes :
          pc[r] = "error" /\ job[r].mem = m /\ answer[r].id = i

\* An error is final.
LEMMA ErrorsStay ==
    ASSUME IInv, [Next]_vars, NEW r \in Requests, pc[r] = "error"
    PROVE  pc'[r] = "error" /\ job'[r] = job[r] /\ answer'[r] = answer[r]
<1> USE DEF session, client, copies
<1>1. CASE UNCHANGED vars
    BY <1>1 DEF vars
<1>2. ASSUME NEW q \in Requests, Ask(q)
      PROVE  pc'[r] = "error" /\ job'[r] = job[r] /\ answer'[r] = answer[r]
    <2>1. pc[q] = "idle" /\ UNCHANGED answer
        BY <1>2 DEF Ask, Propose, Promote, PromoteDenied, Supersede, Submit
    <2>2. \/ UNCHANGED job /\ \E p : pc' = [pc EXCEPT ![q] = p]
          \/ \E j : Submit(q, j)
        BY <1>2 DEF Ask, Propose, Promote, PromoteDenied, Supersede, Ends
    <2>3. q # r
        BY <2>1
    <2>4. pc \in [Requests -> PCs] /\ job \in [Requests -> Job \cup {None}]
        BY DEF IInv, TypeOK
    <2> QED
        BY <2>1, <2>2, <2>3, <2>4 DEF Submit
<1>3. ASSUME NEW q \in Requests, Progress(q)
      PROVE  pc'[r] = "error" /\ job'[r] = job[r] /\ answer'[r] = answer[r]
    <2>1. pc[q] \in {"waiting", "verifying"}
        BY <1>3 DEF Progress, Retry, GiveUp, Unproven, ProposeRefused, Refused, Conflict, Accepted,
                VerifyFails, ReconcileRefused, Reconcile, ReconcileRepeated, LineageInvalid,
                ApplySupersession, AttemptFailed, Says, Waits, Verified
    <2>2. UNCHANGED <<job, answer>> /\ (UNCHANGED pc \/ \E p : pc' = [pc EXCEPT ![q] = p])
        BY <1>3 DEF Progress, Retry, GiveUp, Unproven, ProposeRefused, Refused, Conflict, Accepted,
                VerifyFails, ReconcileRefused, Reconcile, ReconcileRepeated, LineageInvalid,
                ApplySupersession, Ends
    <2> QED
        BY <2>1, <2>2 DEF IInv, TypeOK
<1>4. ASSUME NEW q \in Requests, NEW n \in 1..Attempts, LedgerStep(q, n)
      PROVE  pc'[r] = "error" /\ job'[r] = job[r] /\ answer'[r] = answer[r]
    BY <1>4, LedgerStepKeeps DEF IInv, TypeOK
<1>5. ASSUME NEW t \in Turns, TurnStep(t)
      PROVE  pc'[r] = "error" /\ job'[r] = job[r] /\ answer'[r] = answer[r]
    BY <1>5, TurnKeeps
<1>6. CASE Restart
    BY <1>6 DEF Restart
<1> QED
    BY <1>1, <1>2, <1>3, <1>4, <1>5, <1>6 DEF Next

LEMMA AccountedKept ==
    ASSUME IInv, [Next]_vars, NEW m, NEW i, Accounted(m, i)
    PROVE  Accounted(m, i)'
<1>1. CASE [type |-> "memory_reconciled", of |-> m, id |-> i] \in audit
    BY <1>1, NothingTakenBack DEF AuditKept, Accounted
<1>2. ASSUME NEW r \in Proposes \cup Promotes, pc[r] = "error", job[r].mem = m, answer[r].id = i
      PROVE  Accounted(m, i)'
    BY <1>2, ErrorsStay DEF Accounted, Requests
<1> QED
    BY <1>1, <1>2 DEF Accounted

\* Whatever a request binds, it accounts for in the same step.
LEMMA BindsAccounted ==
    ASSUME IInv, NEW r \in Requests, Reconcile(r) \/ ReconcileRepeated(r)
    PROVE  Accounted(job[r].mem, answer[r].id)'
<1>1. r \in Proposes \cup Promotes
    BY DEF Reconcile, ReconcileRepeated, Verified, IInv, AnswersKnown, Requests
<1>2. UNCHANGED <<job, answer>>
    BY DEF Reconcile, ReconcileRepeated
<1>3. CASE Reconcile(r)
    <2>1. Reconciled(r) \in audit'
        BY <1>3 DEF Reconcile
    <2> QED
        BY <1>2, <2>1 DEF Accounted, Reconciled
<1>4. CASE ReconcileRepeated(r)
    <2>1. pc'[r] = "error"
        BY <1>4 DEF ReconcileRepeated, IInv, TypeOK
    <2> QED
        BY <1>1, <1>2, <2>1 DEF Accounted
<1> QED
    BY <1>3, <1>4

LEMMA BindingStep == IInv /\ BindingAccounted /\ [Next]_vars => BindingAccounted'
<1> SUFFICES ASSUME IInv, BindingAccounted, [Next]_vars,
                    NEW b \in Bindings', NEW m \in Memories, b[m] # None
             PROVE  /\ \/ [type |-> "memory_reconciled", of |-> m, id |-> b[m]] \in audit'
                       \/ \E r \in Proposes \cup Promotes :
                             pc'[r] = "error" /\ job'[r].mem = m /\ answer'[r].id = b[m]
    BY DEF BindingAccounted
<1> DEFINE i == b[m]
<1>1. CASE \E c \in Bindings : c[m] = i
    <2>1. Accounted(m, i)
        BY <1>1 DEF BindingAccounted, Accounted
    <2> HIDE DEF i
    <2>2. Accounted(m, i)'
        BY <2>1, AccountedKept
    <2> QED
        BY <2>2 DEF Accounted, i
<1>2. ASSUME NEW r \in Requests, Reconcile(r) \/ ReconcileRepeated(r), job[r].mem = m, answer[r].id = i
      PROVE  \/ [type |-> "memory_reconciled", of |-> m, id |-> i] \in audit'
             \/ \E q \in Proposes \cup Promotes :
                   pc'[q] = "error" /\ job'[q].mem = m /\ answer'[q].id = i
    <2>1. Accounted(job[r].mem, answer[r].id)'
        BY <1>2, BindsAccounted
    <2>2. UNCHANGED <<job, answer>>
        BY <1>2 DEF Reconcile, ReconcileRepeated
    <2> QED
        BY <1>2, <2>1, <2>2 DEF Accounted
<1> QED
    BY <1>1, <1>2, WhoBinds

\* Through racing requests on one route or on two, turns that overlap them and
\* undo their bindings, and kills: a memory is bound, in the live state, in a
\* copy and in the checkpoint, to a row its audit names, or to one whose request
\* was answered with an error.
THEOREM BindingsAreAccounted == Spec => []BindingAccounted
<1>1. Init => BindingAccounted
    BY DEF Init, BindingAccounted, Bindings, Unbound
<1> QED
    BY <1>1, BindingStep, TypesHold, PTL DEF Spec

\* A memory that is bound, in the live state, in a copy of it or in the
\* checkpoint, is bound to a row that claims its hash, and has a reconciliation
\* in the audit, though perhaps one that names another row.
BoundIsHeld ==
    \A b \in Bindings, m \in Memories : b[m] # None =>
        Claims(b[m], m) /\ Recorded("memory_reconciled", m)

LEMMA BindingsTyped ==
    ASSUME IInv, NEW b \in Bindings, NEW m \in Memories, b[m] # None
    PROVE  b[m] \in LedgerIds
BY DEF IInv, TypeOK, Bindings

LEMMA BoundStep == IInv /\ BoundIsHeld /\ [Next]_vars => BoundIsHeld'
<1> SUFFICES ASSUME IInv, BoundIsHeld, [Next]_vars,
                    NEW b \in Bindings', NEW m \in Memories, b[m] # None
             PROVE  /\ rows'[b[m]] # None /\ rows'[b[m]].hash = Whole(m)
                    /\ \E e \in audit' : e.type = "memory_reconciled" /\ e.of = m
    BY DEF BoundIsHeld, Claims, Recorded
<1>1. RowsKept /\ AuditKept
    BY NothingTakenBack
<1>2. ASSUME NEW c \in Bindings, c[m] = b[m]
      PROVE  /\ rows'[b[m]] # None /\ rows'[b[m]].hash = Whole(m)
             /\ \E e \in audit' : e.type = "memory_reconciled" /\ e.of = m
    <2>1. Claims(b[m], m) /\ Recorded("memory_reconciled", m)
        BY <1>2 DEF BoundIsHeld
    <2>2. b[m] \in LedgerIds
        BY <1>2, BindingsTyped
    <2> QED
        BY <1>1, <2>1, <2>2 DEF Claims, RowsKept, Recorded, AuditKept
<1>3. ASSUME NEW r \in Requests, Reconcile(r) \/ ReconcileRepeated(r), job[r].mem = m, answer[r].id = b[m]
      PROVE  /\ rows'[b[m]] # None /\ rows'[b[m]].hash = Whole(m)
             /\ \E e \in audit' : e.type = "memory_reconciled" /\ e.of = m
    <2>1. Claims(b[m], m)
        BY <1>3, VerifiedClaims DEF Reconcile, ReconcileRepeated
    <2>2. UNCHANGED rows
        BY <1>3 DEF Reconcile, ReconcileRepeated
    <2>3. CASE Reconcile(r)
        <3>1. Reconciled(r) \in audit'
            BY <2>3 DEF Reconcile
        <3> QED
            BY <1>3, <2>1, <2>2, <3>1 DEF Claims, Reconciled
    <2>4. CASE ReconcileRepeated(r)
        <3>1. Recorded("memory_reconciled", m) /\ UNCHANGED audit
            BY <1>3, <2>4 DEF ReconcileRepeated
        <3> QED
            BY <2>1, <2>2, <3>1 DEF Claims, Recorded
    <2> QED
        BY <1>3, <2>3, <2>4
<1> QED
    BY <1>2, <1>3, WhoBinds

\* Whatever is lost, retried, late or repeated, and across turns that undo
\* bindings and any number of restarts: a bound memory is in the ledger, as far
\* as the ledger's hash says, and has been reconciled in the audit.
THEOREM BindingsAreHeld == Spec => []BoundIsHeld
<1>1. Init => BoundIsHeld
    BY DEF Init, BoundIsHeld, Bindings, Unbound
<1> QED
    BY <1>1, BoundStep, TypesHold, PTL DEF Spec

-----------------------------------------------------------------------------
(* The lock.                                                               *)

LEMMA LockStep == IInv /\ ConflictStaysLocked /\ [Next]_vars => ConflictStaysLocked'
<1> SUFFICES ASSUME IInv, ConflictStaysLocked, [Next]_vars PROVE ConflictStaysLocked'
    OBVIOUS
<1> USE DEF ConflictStaysLocked, session, client, copies
<1>1. \A m \in Memories : Recorded("memory_supersession", m) => Recorded("memory_supersession", m)'
    BY NothingTakenBack DEF Recorded, AuditKept
<1>2. ASSUME lock # "none" => lock' # "none",
             \A r \in Requests : pc'[r] = "conflict" => pc[r] = "conflict"
      PROVE  ConflictStaysLocked'
    BY <1>1, <1>2
<1>3. CASE UNCHANGED vars
    BY <1>2, <1>3 DEF vars
<1>4. ASSUME NEW r \in Requests, Ask(r) PROVE ConflictStaysLocked'
    BY <1>2, <1>4 DEF Ask, Propose, Promote, PromoteDenied, Supersede, Submit, Ends, IInv, TypeOK
<1>5. ASSUME NEW r \in Requests, ProposeRefused(r) \/ Conflict(r) PROVE ConflictStaysLocked'
    BY <1>5 DEF ProposeRefused, Conflict, LockedFor
<1>6. ASSUME NEW r \in Requests, ApplySupersession(r) PROVE ConflictStaysLocked'
    <2>1. job[r].mem \in Memories
        BY <1>6 DEF ApplySupersession, Says, Waits, IInv, JobsKnown, Job
    <2>2. CASE Recorded("memory_supersession", job[r].mem)
        BY <1>1, <2>1, <2>2
    <2>3. CASE ~Recorded("memory_supersession", job[r].mem)
        <3>1. Superseded(r) \in audit'
            BY <1>6, <2>3 DEF ApplySupersession
        <3>2. Recorded("memory_supersession", job[r].mem)'
            <4>1. job' = job
                BY <1>6 DEF ApplySupersession
            <4> QED
                BY <3>1, <4>1 DEF Superseded, Recorded
        <3>3. job' = job
            BY <1>6 DEF ApplySupersession
        <3> QED
            BY <2>1, <3>2, <3>3
    <2> QED
        BY <2>2, <2>3
<1>7. ASSUME NEW r \in Requests, Progress(r),
             ~ProposeRefused(r), ~Conflict(r), ~ApplySupersession(r)
      PROVE  ConflictStaysLocked'
    BY <1>2, <1>7 DEF Progress, Retry, GiveUp, Unproven, Refused, Accepted, VerifyFails,
                ReconcileRefused, Reconcile, ReconcileRepeated, LineageInvalid, Ends, IInv, TypeOK
<1>8. ASSUME NEW r \in Requests, NEW n \in 1..Attempts, LedgerStep(r, n)
      PROVE  ConflictStaysLocked'
    BY <1>2, <1>8, LedgerStepKeeps
<1>9. ASSUME NEW t \in Turns, TurnStep(t)
      PROVE  ConflictStaysLocked'
    BY <1>2, <1>9, TurnKeeps
<1>10. CASE Restart
    BY <1>10 DEF Restart
<1> QED
    BY <1>3, <1>4, <1>5, <1>6, <1>7, <1>8, <1>9, <1>10 DEF Next

\* A reported conflict keeps the session read-only until a supersession is
\* audited, through racing requests and restarts.
THEOREM ConflictsLock == Spec => []ConflictStaysLocked
<1>1. Init => ConflictStaysLocked
    BY DEF Init, ConflictStaysLocked
<1> QED
    BY <1>1, LockStep, TypesHold, PTL DEF Spec

-----------------------------------------------------------------------------
(* A conflict lock is lifted on the strength of a row of the ledger.       *)

\* Nothing has answered a request that was not made.
NothingAnswered == \A r \in Requests : pc[r] = "idle" => answer[r] = None

\* The live state, and the one a request uses, are not copies still to be taken.
CopiesTaken ==
    /\ live \notin Blank
    /\ \A r \in Requests : pc[r] \in {"waiting", "verifying"} => job[r].obj \notin Blank

\* While a supersession waits its memory stays bound, in the object it uses, to
\* the row it replaces.
BoundMeanwhile ==
    \A r \in Supersedes : pc[r] = "waiting" =>
        bound[job[r].obj][job[r].mem] # None /\ job[r].key.of = bound[job[r].obj][job[r].mem]

\* An accepted request has the row it was told of.
AcceptedHasRow ==
    \A r \in Requests : answer[r] # None /\ answer[r].kind = "accepted" =>
        rows[answer[r].id] # None /\ rows[answer[r].id].key = job[r].key

UInv == NothingAnswered /\ CopiesTaken /\ BoundMeanwhile /\ AcceptedHasRow

LEMMA NothingAnsweredKept == IInv /\ NothingAnswered /\ [Next]_vars => NothingAnswered'
<1> SUFFICES ASSUME IInv, NothingAnswered, [Next]_vars PROVE NothingAnswered'
    OBVIOUS
<1> USE DEF NothingAnswered, session, client, copies, IInv, TypeOK
<1>1. ASSUME UNCHANGED answer, \A r \in Requests : pc'[r] = "idle" => pc[r] = "idle"
      PROVE  NothingAnswered'
    BY <1>1
<1>2. ASSUME NEW r \in Requests, Ask(r) PROVE NothingAnswered'
    BY <1>1, <1>2 DEF Ask, Propose, Promote, PromoteDenied, Supersede, Submit, Ends
<1>3. ASSUME NEW r \in Requests, Progress(r) PROVE NothingAnswered'
    BY <1>1, <1>3 DEF Progress, Retry, GiveUp, Unproven, ProposeRefused, Refused, Conflict, Accepted,
                VerifyFails, ReconcileRefused, Reconcile, ReconcileRepeated, LineageInvalid,
                ApplySupersession, Ends
<1>4. ASSUME NEW r \in Requests, NEW n \in 1..Attempts, LedgerStep(r, n) PROVE NothingAnswered'
    BY <1>4, LedgerStepKeeps
<1>5. CASE UNCHANGED vars
    BY <1>1, <1>5 DEF vars
<1>6. ASSUME NEW t \in Turns, TurnStep(t) PROVE NothingAnswered'
    BY <1>1, <1>6, TurnKeeps
<1>7. CASE Restart
    BY <1>1, <1>7 DEF Restart
<1> QED
    BY <1>2, <1>3, <1>4, <1>5, <1>6, <1>7 DEF Next

\* Turns only take copies that are blank, and only publish those they took.
LEMMA TurnCopies ==
    ASSUME IInv, NEW t \in Turns, TurnStep(t)
    PROVE  \/ /\ t \in Blank /\ Blank' = Blank \ {t}
              /\ bound' = [bound EXCEPT ![t] = bound[live]]
              /\ UNCHANGED <<live, saved>>
           \/ /\ t \notin Blank /\ Blank' = Blank
              /\ live' = t /\ saved' = bound[t]
              /\ UNCHANGED bound
           \/ Blank' = Blank /\ UNCHANGED <<live, bound, saved>>
<1>0. turn \in [Turns -> TurnPCs]
    BY DEF IInv, TypeOK
<1>1. CASE TurnArrives(t) \/ TurnWakes(t)
    BY <1>0, <1>1 DEF TurnArrives, TurnWakes, Starts, Blank
<1>2. CASE TurnEnds(t)
    BY <1>0, <1>2 DEF TurnEnds, Blank
<1>3. CASE TurnQueues(t) \/ TurnFails(t)
    BY <1>0, <1>3 DEF TurnQueues, TurnFails, Blank
<1> QED
    BY <1>1, <1>2, <1>3 DEF TurnStep

LEMMA CopiesTakenKept == IInv /\ CopiesTaken /\ [Next]_vars => CopiesTaken'
<1> SUFFICES ASSUME IInv, CopiesTaken, [Next]_vars PROVE CopiesTaken'
    OBVIOUS
<1> USE DEF CopiesTaken
<1>1. ASSUME UNCHANGED <<turn, job>>, live' = live \/ \E r \in Requests : pc[r] \in {"waiting", "verifying"} /\ live' = job[r].obj,
             \A r \in Requests : pc'[r] \in {"waiting", "verifying"} => pc[r] \in {"waiting", "verifying"}
      PROVE  CopiesTaken'
    BY <1>1 DEF Blank
<1>2. CASE UNCHANGED vars
    BY <1>1, <1>2 DEF vars, session, copies, client
<1>3. ASSUME NEW r \in Requests, Ask(r) PROVE CopiesTaken'
    <2>1. ASSUME NEW m, NEW k, NEW x, Submit(r, [mem |-> m, obj |-> live, key |-> k, text |-> x])
          PROVE  CopiesTaken'
        BY <2>1 DEF Submit, session, copies, Blank, IInv, TypeOK
    <2>2. CASE r \in Promotes /\ PromoteDenied(r)
        BY <1>1, <2>2 DEF PromoteDenied, Ends, session, copies, IInv, TypeOK
    <2> QED
        BY <1>3, <2>1, <2>2 DEF Ask, Propose, Promote, Supersede
<1>4. ASSUME NEW r \in Requests, Progress(r) PROVE CopiesTaken'
    <2>1. UNCHANGED <<turn, job>>
        BY <1>4 DEF Progress, Retry, GiveUp, Unproven, ProposeRefused, Refused, Conflict, Accepted,
                VerifyFails, ReconcileRefused, Reconcile, ReconcileRepeated, LineageInvalid,
                ApplySupersession, client, session, copies
    <2>2. pc[r] \in {"waiting", "verifying"}
        BY <1>4 DEF Progress, Retry, GiveUp, Unproven, ProposeRefused, Refused, Conflict, Accepted,
                VerifyFails, ReconcileRefused, Reconcile, ReconcileRepeated, LineageInvalid,
                ApplySupersession, AttemptFailed, Says, Waits, Verified
    <2>3. live' = live \/ live' = job[r].obj
        BY <1>4, QuietSteps DEF Reconcile, ReconcileRepeated, ApplySupersession, copies
    <2>4. UNCHANGED pc \/ \E p : pc' = [pc EXCEPT ![r] = p]
        BY <1>4 DEF Progress, Retry, GiveUp, Unproven, ProposeRefused, Refused, Conflict, Accepted,
                VerifyFails, ReconcileRefused, Reconcile, ReconcileRepeated, LineageInvalid,
                ApplySupersession, Ends, client, session, copies
    <2>5. \A q \in Requests : pc'[q] \in {"waiting", "verifying"} => pc[q] \in {"waiting", "verifying"}
        BY <2>2, <2>4 DEF IInv, TypeOK
    <2> QED
        BY <1>1, <2>1, <2>2, <2>3, <2>5
<1>5. ASSUME NEW r \in Requests, NEW n \in 1..Attempts, LedgerStep(r, n) PROVE CopiesTaken'
    BY <1>1, <1>5, LedgerStepKeeps DEF session, copies
<1>6. ASSUME NEW t \in Turns, TurnStep(t) PROVE CopiesTaken'
    <2>1. Blank' \subseteq Blank /\ live' \notin Blank'
        BY <1>6, TurnCopies
    <2>2. UNCHANGED <<pc, job>>
        BY <1>6, TurnKeeps
    <2> QED
        BY <2>1, <2>2
<1>7. CASE Restart
    BY <1>7, LedgerAssumption DEF Restart, Blank
<1> QED
    BY <1>2, <1>3, <1>4, <1>5, <1>6, <1>7 DEF Next

LEMMA BoundMeanwhileKept == IInv /\ CopiesTaken /\ BoundMeanwhile /\ [Next]_vars => BoundMeanwhile'
<1> SUFFICES ASSUME IInv, CopiesTaken, BoundMeanwhile, [Next]_vars PROVE BoundMeanwhile'
    OBVIOUS
<1>0. \A r \in Supersedes : r \in Requests
    BY DEF Requests
<1>a. /\ pc \in [Requests -> PCs]
      /\ job \in [Requests -> Job \cup {None}]
      /\ bound \in [Objects -> [Memories -> LedgerIds \cup {None}]]
    BY DEF IInv, TypeOK
<1>b. \A r \in Supersedes : pc[r] = "waiting" => job[r].mem \in Memories /\ job[r].obj \in Objects
    BY <1>0 DEF IInv, JobsKnown, Job
<1>1. ASSUME UNCHANGED <<job, bound>>, \A r \in Supersedes : pc'[r] = "waiting" => pc[r] = "waiting"
      PROVE  BoundMeanwhile'
    BY <1>1 DEF BoundMeanwhile
<1>2. ASSUME NEW r \in Requests, Ask(r) PROVE BoundMeanwhile'
    <2>1. ASSUME NEW j, Submit(r, j),
                 r \in Supersedes => bound[j.obj][j.mem] # None /\ j.key.of = bound[j.obj][j.mem]
          PROVE  BoundMeanwhile'
        BY <1>0, <1>a, <2>1 DEF Submit, BoundMeanwhile, session, copies
    <2>2. CASE r \in Supersedes /\ Supersede(r)
        <3>1. PICK m \in Memories, c \in Corrections :
                /\ bound[live][m] # None
                /\ Submit(r, [mem |-> m, obj |-> live, key |-> SupersedeKey(bound[live][m], Whole(c)), text |-> Whole(c)])
            BY <2>2 DEF Supersede
        <3> QED
            BY <2>1, <3>1 DEF SupersedeKey
    <2>3. CASE r \in Proposes /\ Propose(r)
        BY <2>1, <2>3, LedgerAssumption DEF Propose
    <2>4. CASE r \in Promotes /\ Promote(r)
        BY <2>1, <2>4, LedgerAssumption DEF Promote
    <2>5. CASE r \in Promotes /\ PromoteDenied(r)
        BY <1>0, <1>1, <1>a, <2>5 DEF PromoteDenied, Ends, copies
    <2> QED
        BY <1>2, <2>2, <2>3, <2>4, <2>5 DEF Ask
<1>3. ASSUME NEW r \in Requests, Reconcile(r) \/ ReconcileRepeated(r) PROVE BoundMeanwhile'
    <2>1. job[r].mem \in Memories /\ job[r].obj \in Objects
        BY <1>3, VerifiedClaims DEF Reconcile, ReconcileRepeated
    <2>2. /\ bound' = [bound EXCEPT ![job[r].obj][job[r].mem] = answer[r].id]
          /\ bound[job[r].obj][job[r].mem] \in {None, answer[r].id}
        BY <1>3 DEF Reconcile, ReconcileRepeated, Bindable, Binding, Bind
    <2>3. \A o \in Objects, m \in Memories : bound[o][m] # None => bound'[o][m] = bound[o][m]
        BY <1>a, <2>1, <2>2
    <2>4. UNCHANGED job /\ \A q \in Supersedes : pc'[q] = "waiting" => pc[q] = "waiting"
        BY <1>0, <1>3, <1>a DEF Reconcile, ReconcileRepeated
    <2> QED
        BY <1>b, <2>3, <2>4 DEF BoundMeanwhile
<1>4. ASSUME NEW r \in Requests, Progress(r), ~Reconcile(r), ~ReconcileRepeated(r) PROVE BoundMeanwhile'
    <2>1. UNCHANGED bound
        BY <1>4, QuietSteps DEF copies
    <2>2. UNCHANGED job /\ \A q \in Supersedes : pc'[q] = "waiting" => pc[q] = "waiting"
        BY <1>0, <1>4, <1>a DEF Progress, Retry, GiveUp, Unproven, ProposeRefused, Refused, Conflict, Accepted,
                VerifyFails, ReconcileRefused, LineageInvalid, ApplySupersession, Ends, client, session
    <2> QED
        BY <1>1, <2>1, <2>2
<1>5. ASSUME NEW r \in Requests, NEW n \in 1..Attempts, LedgerStep(r, n) PROVE BoundMeanwhile'
    BY <1>1, <1>5, LedgerStepKeeps DEF session, copies
<1>6. ASSUME NEW t \in Turns, TurnStep(t) PROVE BoundMeanwhile'
    <2>1. UNCHANGED <<pc, job>>
        BY <1>6, TurnKeeps
    <2>2. \A o \in Objects \ Blank : bound'[o] = bound[o]
        BY <1>6, <1>a, TurnCopies
    <2> QED
        BY <1>0, <1>b, <2>1, <2>2 DEF BoundMeanwhile, CopiesTaken
<1>7. CASE UNCHANGED vars
    BY <1>1, <1>7 DEF vars, client, session, copies
<1>8. CASE Restart
    BY <1>0, <1>8 DEF Restart, BoundMeanwhile
<1> QED
    BY <1>2, <1>3, <1>4, <1>5, <1>6, <1>7, <1>8 DEF Next

\* An honest ledger's answer names the row that holds the write.
LEMMA AcceptedStep ==
    ASSUME ~Lapses, IInv, NEW r \in Requests, NEW n \in 1..Attempts, LedgerStep(r, n)
    PROVE  \/ UNCHANGED answer
           \/ /\ pc[r] = "waiting"
              /\ \E a \in Answer :
                    /\ answer' = [answer EXCEPT ![r] = a]
                    /\ a.kind = "accepted" => rows'[a.id] # None /\ rows'[a.id].key = job[r].key
<1>1. CASE LedgerAccepts(r, n)
    <2>1. PICK i \in LedgerIds, hash \in Claimed(job[r].text) :
             /\ Stores(job[r], i, hash)
             /\ \E said \in {hash} : Respond(r, n, "accepted", i, said)
        BY <1>1 DEF LedgerAccepts
    <2>2. job[r] \in Job /\ job[r].text \in Texts
        BY <1>1 DEF LedgerAccepts, IInv, JobsKnown, Job
    <2>3. hash \in Texts
        BY <2>1, <2>2, ClaimedTyped
    <2>4. [key |-> job[r].key, hash |-> hash] \in Row
        BY <2>2, <2>3 DEF Job, Row
    <2>5. rows'[i] = [key |-> job[r].key, hash |-> hash]
        BY <2>1 DEF Stores, IInv, TypeOK
    <2>6. rows'[i] # None /\ rows'[i].key = job[r].key
        BY <2>4, <2>5, LedgerAssumption
    <2>7. [kind |-> "accepted", id |-> i, hash |-> hash] \in Answer
        BY <2>3 DEF Answer, AnswerKinds
    <2> QED
        BY <2>1, <2>6, <2>7 DEF Respond
<1>2. CASE LedgerRefuses(r, n) \/ LedgerFails(r, n)
    <2>1. PICK kind \in AnswerKinds \ {"accepted"} : Respond(r, n, kind, None, None)
        BY <1>2 DEF LedgerRefuses, LedgerFails, AnswerKinds
    <2>2. [kind |-> kind, id |-> None, hash |-> None] \in Answer
        BY DEF Answer
    <2> QED
        BY <2>1, <2>2 DEF Respond
<1>3. CASE LedgerDrops(r, n)
    BY <1>3 DEF LedgerDrops, client
<1> QED
    BY <1>1, <1>2, <1>3 DEF LedgerStep

LEMMA AcceptedHasRowKept ==
    ASSUME ~Lapses, IInv, NothingAnswered, AcceptedHasRow, [Next]_vars
    PROVE  AcceptedHasRow'
<1> USE DEF AcceptedHasRow, session, client, copies
<1>0. RowsKept /\ JobsKept
    BY NothingTakenBack
<1>1. \A r \in Requests : answer[r] # None /\ answer[r].kind = "accepted" =>
         answer[r].id \in LedgerIds /\ pc[r] # "idle"
    BY DEF IInv, TypeOK, AnswersKnown, NothingAnswered
<1>2. ASSUME NEW r \in Requests, answer'[r] = answer[r], answer[r] # None, answer[r].kind = "accepted"
      PROVE  rows'[answer[r].id] # None /\ rows'[answer[r].id].key = job'[r].key
    BY <1>0, <1>1, <1>2 DEF RowsKept, JobsKept
<1>3. CASE UNCHANGED answer
    BY <1>2, <1>3
<1>4. ASSUME NEW r \in Requests, NEW n \in 1..Attempts, LedgerStep(r, n), ~UNCHANGED answer
      PROVE  AcceptedHasRow'
    <2>1. PICK a \in Answer :
             /\ answer' = [answer EXCEPT ![r] = a]
             /\ a.kind = "accepted" => rows'[a.id] # None /\ rows'[a.id].key = job[r].key
        BY <1>4, AcceptedStep
    <2>2. job' = job
        BY <1>4, LedgerStepKeeps
    <2>3. answer \in [Requests -> Answer \cup {None}]
        BY DEF IInv, TypeOK
    <2>4. \A q \in Requests : q # r => answer'[q] = answer[q]
        BY <2>1, <2>3
    <2>5. answer'[r] = a
        BY <2>1, <2>3
    <2> QED
        BY <1>2, <2>1, <2>2, <2>4, <2>5
<1>5. ASSUME NEW r \in Requests, Ask(r) \/ Progress(r) PROVE UNCHANGED answer
    BY <1>5 DEF Ask, Propose, Promote, PromoteDenied, Supersede, Submit,
                Progress, Retry, GiveUp, Unproven, ProposeRefused, Refused, Conflict, Accepted,
                VerifyFails, ReconcileRefused, Reconcile, ReconcileRepeated, LineageInvalid,
                ApplySupersession
<1>6. UNCHANGED vars \/ (\E t \in Turns : TurnStep(t)) \/ Restart => UNCHANGED answer
    BY TurnKeeps DEF vars, Restart
<1> QED
    BY <1>3, <1>4, <1>5, <1>6 DEF Next

\* Only an audited supersession lifts a conflict lock.
LEMMA UnlockStep ==
    ASSUME IInv, [Next]_vars, lock = "conflict", lock' = "none"
    PROVE  \E r \in Requests : ApplySupersession(r) /\ ~Recorded("memory_supersession", job[r].mem)
<1> USE DEF session, client, copies, LockedFor
<1>1. ASSUME NEW r \in Requests, Ask(r) PROVE UNCHANGED lock
    BY <1>1 DEF Ask, Propose, Promote, PromoteDenied, Supersede, Submit
<1>2. ASSUME NEW r \in Requests, Progress(r), ~ApplySupersession(r) PROVE UNCHANGED lock
    BY <1>2 DEF Progress, Retry, GiveUp, Unproven, ProposeRefused, Refused, Conflict, Accepted,
                VerifyFails, ReconcileRefused, Reconcile, ReconcileRepeated, LineageInvalid
<1>3. ASSUME NEW r \in Requests, NEW n \in 1..Attempts, LedgerStep(r, n) PROVE UNCHANGED lock
    BY <1>3, LedgerStepKeeps
<1>4. UNCHANGED vars \/ (\E t \in Turns : TurnStep(t)) \/ Restart => lock' \in {lock, "recovery"}
    BY TurnKeeps DEF vars, Restart
<1>5. PICK r \in Requests : ApplySupersession(r)
    BY <1>1, <1>2, <1>3, <1>4 DEF Next
<1>6. ~Recorded("memory_supersession", job[r].mem)
    BY <1>5 DEF ApplySupersession
<1> QED
    BY <1>5, <1>6

LEMMA BackedStep ==
    ASSUME IInv, UInv, [Next]_vars, lock = "conflict", lock' = "none"
    PROVE  \E m \in Memories, i \in LedgerIds :
              /\ [type |-> "memory_supersession", of |-> m, id |-> i] \in audit' \ audit
              /\ rows[i] # None
              /\ rows[i].key.of = bound[live'][m]
<1>1. PICK r \in Requests : ApplySupersession(r) /\ ~Recorded("memory_supersession", job[r].mem)
    BY UnlockStep
<1>2. /\ r \in Supersedes /\ pc[r] = "waiting"
      /\ answer[r] # None /\ answer[r].kind = "accepted"
      /\ audit' = audit \cup {Superseded(r)}
      /\ live' = job[r].obj
    BY <1>1 DEF ApplySupersession, Says, Waits
<1>3. job[r].mem \in Memories /\ answer[r].id \in LedgerIds
    BY <1>2 DEF IInv, TypeOK, JobsKnown, AnswersKnown, Job
<1>4. Superseded(r) \notin audit
    BY <1>1 DEF Recorded, Superseded
<1>5. rows[answer[r].id] # None /\ rows[answer[r].id].key = job[r].key
    BY <1>2 DEF UInv, AcceptedHasRow
<1>6. job[r].key.of = bound[live'][job[r].mem]
    BY <1>2 DEF UInv, BoundMeanwhile
<1> QED
    BY <1>2, <1>3, <1>4, <1>5, <1>6 DEF Superseded

\* A conflict lock is lifted only in the step that audits a supersession, and
\* the row that step names is in the ledger and replaces the row the memory is
\* bound to in the state that the step makes live: in the object the request
\* uses the binding cannot change while the supersession waits, though a turn
\* may have made another object live, and a restart ends the wait.  The ledger
\* must be one that answers with the row it wrote, since apply_supersession
\* does not retrieve the replacement.
THEOREM UnlocksAreBacked ==
    ASSUME ~Lapses
    PROVE  Spec => UnlockIsBacked
<1> DEFINE Backed ==
        lock = "conflict" /\ lock' = "none" =>
            \E m \in Memories, i \in LedgerIds :
                /\ [type |-> "memory_supersession", of |-> m, id |-> i] \in audit' \ audit
                /\ rows[i] # None
                /\ rows[i].key.of = bound[live'][m]
<1>1. Init => UInv
    BY LedgerAssumption DEF Init, UInv, NothingAnswered, CopiesTaken, Blank, BoundMeanwhile, AcceptedHasRow, Requests
<1>2. IInv /\ UInv /\ [Next]_vars => UInv'
    BY NothingAnsweredKept, CopiesTakenKept, BoundMeanwhileKept, AcceptedHasRowKept DEF UInv
<1>3. IInv /\ UInv /\ [Next]_vars => Backed
    BY BackedStep
<1> QED
    BY <1>1, <1>2, <1>3, TypesHold, PTL DEF Spec, UnlockIsBacked

-----------------------------------------------------------------------------
(* The refinement of StoragePromise.                                       *)

\* A write to the ledger holds one more row or changes none.
LEMMA StoresIsHold ==
    ASSUME IInv, NEW j \in Job, NEW i \in LedgerIds, NEW hash \in Texts,
           Stores(j, i, hash), UNCHANGED copies
    PROVE  [Promise!Next]_(Promise!vars)
<1>1. Blank' = Blank /\ UNCHANGED <<bound, live, saved>>
    BY DEF copies, Blank
<1>2. CASE UNCHANGED rows
    <2>1. Held' = Held
        BY <1>2 DEF Held
    <2> QED
        BY <1>1, <2>1 DEF Promise!vars
<1>3. CASE rows[i] = None /\ rows' = [rows EXCEPT ![i] = [key |-> j.key, hash |-> hash]]
    <2>1. [key |-> j.key, hash |-> hash] \in Row
        BY DEF Job, Row
    <2>2. [key |-> j.key, hash |-> hash] # None
        BY <2>1, LedgerAssumption
    <2>3. rows \in [LedgerIds -> Row \cup {None}]
        BY DEF IInv, TypeOK
    <2>4. Held' = [Held EXCEPT ![i] = hash]
        BY <1>3, <2>2, <2>3 DEF Held
    <2>5. Held[i] = None
        BY <1>3 DEF Held
    <2>6. Promise!Hold(i)
        BY <1>1, <2>4, <2>5 DEF Promise!Hold
    <2> QED
        BY <2>6 DEF Promise!Next
<1> QED
    BY <1>2, <1>3 DEF Stores

\* A step that leaves rows, bindings and copies alone is a stutter.
LEMMA StutterStep ==
    ASSUME UNCHANGED <<rows, live, bound, saved>>, Blank' = Blank
    PROVE  UNCHANGED Promise!vars
BY DEF Promise!vars, Held

LEMMA LedgerRefines ==
    ASSUME IInv, NEW r \in Requests, NEW n \in 1..Attempts, LedgerStep(r, n)
    PROVE  [Promise!Next]_(Promise!vars)
<1>1. UNCHANGED copies
    BY LedgerStepKeeps DEF session
<1>2. job[r] \in Job /\ job[r].text \in Texts
    BY DEF LedgerStep, LedgerAccepts, LedgerRefuses, LedgerFails, LedgerDrops, IInv, JobsKnown, Job
<1>3. \/ UNCHANGED rows
      \/ \E i \in LedgerIds, hash \in Claimed(job[r].text) : Stores(job[r], i, hash)
    BY DEF LedgerStep, LedgerAccepts, LedgerRefuses, LedgerFails, LedgerDrops
<1>4. CASE UNCHANGED rows
    BY <1>1, <1>4, StutterStep DEF copies, Blank
<1>5. ASSUME NEW i \in LedgerIds, NEW hash \in Claimed(job[r].text), Stores(job[r], i, hash)
      PROVE  [Promise!Next]_(Promise!vars)
    <2>1. hash \in Texts
        BY <1>2, ClaimedTyped
    <2> QED
        BY <1>1, <1>2, <1>5, <2>1, StoresIsHold
<1> QED
    BY <1>3, <1>4, <1>5

\* A binding is new and names a row with the memory's hash, or was there; the
\* copy it is made in may become live.
LEMMA BindingRefines ==
    ASSUME IInv, CopiesTaken, NEW r \in Requests, Verified(r), Bindable(r), Bind(r),
           live' \in {live, job[r].obj},
           UNCHANGED <<rows, saved, turn>>
    PROVE  [Promise!Next]_(Promise!vars)
<1> DEFINE o == job[r].obj
           m == job[r].mem
           i == answer[r].id
<1>1. i \in LedgerIds /\ m \in Memories /\ o \in Objects /\ Claims(i, m)
    BY VerifiedClaims
<1>2. bound \in [Objects -> [Memories -> LedgerIds \cup {None}]]
    BY DEF IInv, TypeOK
<1>3. Held' = Held /\ Blank' = Blank
    BY DEF Held, Blank
<1>4. o \notin Blank
    BY DEF CopiesTaken, Verified
<1>5. bound' = [bound EXCEPT ![o][m] = i] /\ bound[o][m] \in {None, i}
    BY DEF Bind, Bindable, Binding
<1>6. CASE bound[o][m] = i
    <2>1. bound' = bound
        BY <1>1, <1>2, <1>5, <1>6
    <2>2. CASE live' = o
        <3>1. Promise!Publish(o)
            BY <1>3, <1>4, <2>1, <2>2 DEF Promise!Publish
        <3> QED
            BY <1>1, <3>1 DEF Promise!Next
    <2>3. CASE live' = live
        BY <1>3, <2>1, <2>3, StutterStep
    <2> QED
        BY <2>2, <2>3
<1>7. CASE bound[o][m] = None
    <2>1. Held[i] = Whole(m) /\ Own[m] = Whole(m)
        BY <1>1 DEF Held, Own, Claims
    <2>2. Promise!Bind(o, m, i)
        BY <1>3, <1>4, <1>5, <1>7, <2>1 DEF Promise!Bind
    <2> QED
        BY <1>1, <2>2 DEF Promise!Next
<1> QED
    BY <1>5, <1>6, <1>7

\* A supersession leaves the bindings alone and may make its object live.
LEMMA SupersedingRefines ==
    ASSUME IInv, CopiesTaken, NEW r \in Requests, ApplySupersession(r),
           UNCHANGED <<rows, bound, saved, turn>>
    PROVE  [Promise!Next]_(Promise!vars)
<1>1. Held' = Held /\ Blank' = Blank
    BY DEF Held, Blank
<1>2. job[r].obj \in Objects /\ job[r].obj \notin Blank
    BY DEF ApplySupersession, Says, Waits, CopiesTaken, IInv, JobsKnown, Job
<1>3. live' = live \/ live' = job[r].obj
    BY DEF ApplySupersession
<1>4. CASE live' = live
    BY <1>1, <1>4, StutterStep
<1>5. CASE live' = job[r].obj
    <2>1. Promise!Publish(job[r].obj)
        BY <1>1, <1>2, <1>5 DEF Promise!Publish
    <2> QED
        BY <1>2, <2>1 DEF Promise!Next
<1> QED
    BY <1>3, <1>4, <1>5

\* A turn takes its copy, publishes it, or neither.
LEMMA TurnRefines ==
    ASSUME IInv, NEW t \in Turns, TurnStep(t)
    PROVE  [Promise!Next]_(Promise!vars)
<1>1. Held' = Held /\ t \in Objects
    BY TurnKeeps DEF Held, Objects
<1>2. CASE /\ t \in Blank /\ Blank' = Blank \ {t}
           /\ bound' = [bound EXCEPT ![t] = bound[live]]
           /\ UNCHANGED <<live, saved>>
    <2>1. Promise!Take(t)
        BY <1>1, <1>2 DEF Promise!Take
    <2> QED
        BY <1>1, <2>1 DEF Promise!Next
<1>3. CASE /\ t \notin Blank /\ Blank' = Blank
           /\ live' = t /\ saved' = bound[t]
           /\ UNCHANGED bound
    <2>1. Promise!Publish(t)
        BY <1>1, <1>3 DEF Promise!Publish
    <2> QED
        BY <1>1, <2>1 DEF Promise!Next
<1>4. CASE Blank' = Blank /\ UNCHANGED <<live, bound, saved>>
    BY <1>4, StutterStep, TurnKeeps
<1> QED
    BY <1>2, <1>3, <1>4, TurnCopies

LEMMA NextRefines ==
    IInv /\ CopiesTaken /\ [Next]_vars => [Promise!Next]_(Promise!vars)
<1> SUFFICES ASSUME IInv, CopiesTaken, [Next]_vars PROVE [Promise!Next]_(Promise!vars)
    OBVIOUS
<1>1. ASSUME UNCHANGED <<rows, copies>> PROVE [Promise!Next]_(Promise!vars)
    BY <1>1, StutterStep DEF copies, Blank
<1>2. CASE UNCHANGED vars
    BY <1>1, <1>2 DEF vars, session
<1>3. ASSUME NEW r \in Requests, Ask(r) PROVE [Promise!Next]_(Promise!vars)
    BY <1>1, <1>3, QuietSteps
<1>4. ASSUME NEW r \in Requests, Reconcile(r) \/ ReconcileRepeated(r)
      PROVE  [Promise!Next]_(Promise!vars)
    BY <1>4, BindingRefines DEF Reconcile, ReconcileRepeated
<1>5. ASSUME NEW r \in Requests, Progress(r) PROVE [Promise!Next]_(Promise!vars)
    BY <1>1, <1>4, <1>5, QuietSteps, SupersedingRefines
<1>6. ASSUME NEW r \in Requests, NEW n \in 1..Attempts, LedgerStep(r, n)
      PROVE  [Promise!Next]_(Promise!vars)
    BY <1>6, LedgerRefines
<1>7. CASE Restart
    <2>1. Held' = Held /\ Blank' \subseteq Blank
        BY <1>7 DEF Restart, Held, Blank
    <2>2. Promise!Forget
        BY <1>7, <2>1 DEF Restart, Promise!Forget
    <2> QED
        BY <2>2 DEF Promise!Next
<1> QED
    BY <1>2, <1>3, <1>5, <1>6, <1>7, TurnRefines DEF Next

\* The requests, retries, lost and late answers, races, turns that undo a
\* binding and restarts together do no more to the rows, to the copies of the
\* state and to their bindings than StoragePromise allows.
THEOREM LedgerKeepsPromise == Spec => KeepsPromise
<1>1. Init => Promise!Init /\ CopiesTaken
    <2> SUFFICES ASSUME Init PROVE Promise!Init /\ CopiesTaken
        OBVIOUS
    <2>1. Held = [i \in LedgerIds |-> None]
        BY DEF Init, Held
    <2>2. Blank = Objects \ {Opened}
        BY LedgerAssumption DEF Init, Blank, Objects
    <2>3. CopiesTaken
        BY <2>2 DEF Init, CopiesTaken
    <2> QED
        BY <2>1, <2>2, <2>3 DEF Init, Unbound, Promise!Init, Promise!Unbound
<1>2. IInv /\ CopiesTaken /\ [Next]_vars => [Promise!Next]_(Promise!vars)
    BY NextRefines
<1>3. IInv /\ CopiesTaken /\ [Next]_vars => CopiesTaken'
    BY CopiesTakenKept
<1> QED
    BY <1>1, <1>2, <1>3, TypesHold, PTL DEF Spec, KeepsPromise, Promise!Spec

-----------------------------------------------------------------------------
(* Retried writes are stored once.                                         *)

\* The idempotency key of a proposal or promotion says which memory and text.
KeysNamed ==
    /\ \A r \in Proposes : job[r] # None =>
          job[r].key = ProposeKey(job[r].mem)
    /\ \A r \in Promotes : job[r] # None =>
          job[r].key = PromoteKey(job[r].mem, job[r].text)

\* The ledger has one row for a key.
RowsDistinct ==
    \A i, k \in LedgerIds :
        rows[i] # None /\ rows[k] # None /\ rows[i].key = rows[k].key => i = k

LEMMA KeysStep ==
    ASSUME IInv, KeysNamed, [Next]_vars
    PROVE  KeysNamed'
<1> USE DEF KeysNamed, session, client, copies
<1>1. CASE UNCHANGED job
    BY <1>1
<1>2. ASSUME NEW r \in Requests, r \in Proposes /\ Propose(r) PROVE KeysNamed'
    <2>1. PICK m \in Memories :
            Submit(r, [mem |-> m, obj |-> live, key |-> ProposeKey(m), text |-> Whole(m)])
        BY <1>2 DEF Propose
    <2>2. r \notin Promotes
        BY <1>2, LedgerAssumption
    <2>3. job \in [Requests -> Job \cup {None}]
        BY DEF IInv, TypeOK
    <2> QED
        BY <1>2, <2>1, <2>2, <2>3 DEF Submit, Requests
<1>3. ASSUME NEW r \in Requests, r \in Promotes /\ Promote(r) PROVE KeysNamed'
    <2>1. PICK m \in Memories :
            Submit(r, [mem |-> m, obj |-> live, key |-> PromoteKey(m, PromotedText(m)), text |-> PromotedText(m)])
        BY <1>3 DEF Promote
    <2>2. r \notin Proposes
        BY <1>3, LedgerAssumption
    <2>3. job \in [Requests -> Job \cup {None}]
        BY DEF IInv, TypeOK
    <2> QED
        BY <1>3, <2>1, <2>2, <2>3 DEF Submit, Requests
<1>4. ASSUME NEW r \in Requests, r \in Supersedes /\ Supersede(r) PROVE KeysNamed'
    <2>1. PICK j : Submit(r, j)
        BY <1>4 DEF Supersede
    <2>2. r \notin Proposes /\ r \notin Promotes
        BY <1>4, LedgerAssumption
    <2>3. job \in [Requests -> Job \cup {None}]
        BY DEF IInv, TypeOK
    <2> QED
        BY <2>1, <2>2, <2>3 DEF Submit, Requests
<1>5. ASSUME NEW r \in Requests, r \in Promotes /\ PromoteDenied(r) PROVE UNCHANGED job
    BY <1>5 DEF PromoteDenied
<1>6. ASSUME NEW r \in Requests, Progress(r) PROVE UNCHANGED job
    BY <1>6 DEF Progress, Retry, GiveUp, Unproven, ProposeRefused, Refused, Conflict, Accepted,
                VerifyFails, ReconcileRefused, Reconcile, ReconcileRepeated, LineageInvalid,
                ApplySupersession
<1>7. ASSUME NEW r \in Requests, NEW n \in 1..Attempts, LedgerStep(r, n) PROVE UNCHANGED job
    BY <1>7, LedgerStepKeeps
<1>8. UNCHANGED vars \/ (\E t \in Turns : TurnStep(t)) \/ Restart => UNCHANGED job
    BY TurnKeeps DEF vars, Restart
<1> QED
    BY <1>1, <1>2, <1>3, <1>4, <1>5, <1>6, <1>7, <1>8 DEF Next, Ask

LEMMA RowsStep ==
    ASSUME IInv, RowsDistinct, [Next]_vars
    PROVE  RowsDistinct'
<1> USE DEF RowsDistinct, session, client, copies
<1>1. CASE UNCHANGED rows
    BY <1>1
<1>2. ASSUME NEW r \in Requests, NEW n \in 1..Attempts, LedgerStep(r, n) PROVE RowsDistinct'
    <2>1. \/ UNCHANGED rows
          \/ \E i \in LedgerIds, hash \in Claimed(job[r].text) : Stores(job[r], i, hash)
        BY <1>2 DEF LedgerStep, LedgerAccepts, LedgerRefuses, LedgerFails, LedgerDrops
    <2>2. ASSUME NEW i \in LedgerIds, NEW hash, Stores(job[r], i, hash), ~UNCHANGED rows
          PROVE  RowsDistinct'
        <3>1. /\ Stored(job[r].key) = {}
              /\ rows' = [rows EXCEPT ![i] = [key |-> job[r].key, hash |-> hash]]
            BY <2>2 DEF Stores
        <3>2. rows \in [LedgerIds -> Row \cup {None}]
            BY DEF IInv, TypeOK
        <3>3. \A k \in LedgerIds : rows[k] # None => rows[k].key # job[r].key
            BY <3>1 DEF Stored
        <3> QED
            BY <3>1, <3>2, <3>3
    <2> QED
        BY <1>1, <2>1, <2>2
<1>3. ASSUME NEW r \in Requests, Ask(r) PROVE UNCHANGED rows
    BY <1>3 DEF Ask, Propose, Promote, PromoteDenied, Supersede, Submit
<1>4. ASSUME NEW r \in Requests, Progress(r) PROVE UNCHANGED rows
    BY <1>4 DEF Progress, Retry, GiveUp, Unproven, ProposeRefused, Refused, Conflict, Accepted,
                VerifyFails, ReconcileRefused, Reconcile, ReconcileRepeated, LineageInvalid,
                ApplySupersession
<1>5. UNCHANGED vars \/ (\E t \in Turns : TurnStep(t)) \/ Restart => UNCHANGED rows
    BY TurnKeeps DEF vars, Restart
<1> QED
    BY <1>1, <1>2, <1>3, <1>4, <1>5 DEF Next

LEMMA AtMostOne ==
    ASSUME NEW S, \A x, y \in S : x = y
    PROVE  Cardinality(S) <= 1
<1>1. CASE S = {}
    BY <1>1, FS_EmptySet
<1>2. CASE S # {}
    <2>1. PICK x : x \in S
        BY <1>2
    <2>2. S = {x}
        BY <2>1
    <2> QED
        BY <2>2, FS_Singleton
<1> QED
    BY <1>1, <1>2

\* The keys of the two routes differ.
LEMMA RoutesDiffer ==
    /\ \A m \in Memories : ProposeKey(m).route = "propose"
    /\ \A m \in Memories, text \in Texts : PromoteKey(m, text).route = "promote"
BY DEF ProposeKey, PromoteKey

LEMMA StoredOnceFollows ==
    ASSUME IInv, KeysNamed, RowsDistinct
    PROVE  StoredOnce
<1> SUFFICES ASSUME NEW r \in Proposes \cup Promotes, NEW s \in Proposes \cup Promotes,
                    job[r] # None, job[s] # None,
                    job[r].key.route = job[s].key.route,
                    job[r].mem = job[s].mem,
                    job[r].text = job[s].text
             PROVE  Cardinality(Stored(job[r].key) \cup Stored(job[s].key)) <= 1
    BY DEF StoredOnce
<1>1. job[r].mem \in Memories /\ job[r].text \in Texts
    BY DEF IInv, TypeOK, Requests, Job
<1>2. job[s].mem \in Memories /\ job[s].text \in Texts
    BY DEF IInv, TypeOK, Requests, Job
<1>3. ~(r \in Proposes /\ s \in Promotes) /\ ~(r \in Promotes /\ s \in Proposes)
    BY <1>1, <1>2, RoutesDiffer DEF KeysNamed
<1>4. job[r].key = job[s].key
    BY <1>3 DEF KeysNamed
<1>5. \A x, y \in Stored(job[r].key) \cup Stored(job[s].key) : x = y
    BY <1>4 DEF Stored, RowsDistinct
<1> QED
    BY <1>5, AtMostOne

\* Proposals or promotions of one memory, by however many requests and
\* attempts, applied in whatever order and however late, leave one row.
THEOREM RetriesStoreOnce == Spec => []StoredOnce
<1>1. Init => KeysNamed /\ RowsDistinct
    BY LedgerAssumption DEF Init, KeysNamed, RowsDistinct, Requests, Job
<1>2. IInv /\ KeysNamed /\ RowsDistinct /\ [Next]_vars => (KeysNamed /\ RowsDistinct)'
    BY KeysStep, RowsStep
<1>3. IInv /\ KeysNamed /\ RowsDistinct => StoredOnce
    BY StoredOnceFollows
<1> QED
    BY <1>1, <1>2, <1>3, TypesHold, PTL DEF Spec

-----------------------------------------------------------------------------
(* Requests come to an end.  That their steps are taken is for the run to  *)
(* check (RequestsSettle); that they cannot go on for ever is proved here. *)

\* One more of at most Attempts POSTs, from the POSTs to the retrieval, or to
\* an outcome, after which the request takes no step.
Onward(r) ==
    /\ pc[r] \in {"waiting", "verifying"}
    /\ \/ pc'[r] = "waiting" /\ pc[r] = "waiting" /\ attempt'[r] \in (attempt[r] + 1)..Attempts
       \/ pc'[r] = "verifying" /\ pc[r] = "waiting"
       \/ pc'[r] \in Outcomes

\* Every step of a request takes it to a later one of its at most Attempts POSTs,
\* from them to the retrieval of the row, or to its outcome: nothing that the
\* ledger answers, or answers late, keeps _post_with_retries or a route going.
THEOREM RequestsMoveOn == Spec => [][\A r \in Requests : Progress(r) => Onward(r)]_vars
<1>1. IInv => \A r \in Requests : Progress(r) => Onward(r)
    <2> SUFFICES ASSUME IInv, NEW r \in Requests, Progress(r) PROVE Onward(r)
        OBVIOUS
    <2>1. attempt[r] \in 0..Attempts /\ Attempts \in Nat
        BY LedgerAssumption DEF IInv, TypeOK
    <2>2. ASSUME NEW outcome \in Outcomes, pc[r] \in {"waiting", "verifying"}, pc' = [pc EXCEPT ![r] = outcome]
          PROVE  Onward(r)
        BY <2>2 DEF Onward, IInv, TypeOK
    <2>3. CASE Retry(r)
        BY <2>1, <2>3 DEF Retry, AttemptFailed, Waits, client, session, Onward, IInv, TypeOK
    <2>4. CASE Accepted(r)
        BY <2>4 DEF Accepted, Says, Waits, Onward, IInv, TypeOK
    <2>5. CASE GiveUp(r) \/ Unproven(r) \/ Refused(r) \/ Conflict(r) \/ VerifyFails(r)
        BY <2>2, <2>5 DEF GiveUp, Unproven, Refused, Conflict, VerifyFails, AttemptFailed, Says, Waits, Ends, Outcomes
    <2>6. CASE ProposeRefused(r) \/ ReconcileRefused(r) \/ Reconcile(r) \/ ReconcileRepeated(r)
        BY <2>2, <2>6 DEF ProposeRefused, ReconcileRefused, Reconcile, ReconcileRepeated, Verified, Says, Waits, Ends, Outcomes
    <2>7. CASE LineageInvalid(r) \/ ApplySupersession(r)
        BY <2>2, <2>7 DEF LineageInvalid, ApplySupersession, Says, Waits, Ends, Outcomes
    <2> QED
        BY <2>3, <2>4, <2>5, <2>6, <2>7 DEF Progress
<1> QED
    BY <1>1, TypesHold, PTL DEF Spec
=============================================================================
