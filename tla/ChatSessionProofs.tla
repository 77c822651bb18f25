-------------------------- MODULE ChatSessionProofs --------------------------
(***************************************************************************)
(* Theorems about what ChatTurn shows and what its session keeps: the      *)
(* marks on the unsupported sentences of an answer, and the bounded list   *)
(* of long-term memories.                                                  *)
(***************************************************************************)
EXTENDS ChatTurnProofs, FunctionTheorems, FiniteSetTheorems, SequenceTheorems

-----------------------------------------------------------------------------
(* Sorting by importance.  The place of an entry is one more than the      *)
(* number of entries ahead of it; the places are a bijection.              *)

Front(list, i) == {j \in DOMAIN list : Ahead(list, j, i)}

LEMMA FrontTyped ==
    ASSUME NEW list \in Seq(Nat), NEW i \in DOMAIN list
    PROVE  /\ IsFiniteSet(Front(list, i)) /\ Cardinality(Front(list, i)) \in Nat
           /\ Front(list, i) \subseteq DOMAIN list \ {i}
           /\ PlaceOf(list, i) = Cardinality(Front(list, i)) + 1
           /\ PlaceOf(list, i) \in DOMAIN list
           /\ PlaceOf(list, i) = Len(list) => Front(list, i) = DOMAIN list \ {i}
<1> DEFINE others == DOMAIN list \ {i}
<1>1. DOMAIN list = 1..Len(list) /\ Len(list) \in Nat /\ i \in 1..Len(list) /\ list[i] \in Nat
    OBVIOUS
<1>2. Front(list, i) \subseteq others
    BY <1>1 DEF Front, Ahead
<1>3. IsFiniteSet(DOMAIN list) /\ Cardinality(DOMAIN list) = Len(list)
    <2>1. /\ IsFiniteSet(1..Len(list))
          /\ Cardinality(1..Len(list)) = IF 1 > Len(list) THEN 0 ELSE Len(list) - 1 + 1
        BY <1>1, FS_Interval
    <2>2. (IF 1 > Len(list) THEN 0 ELSE Len(list) - 1 + 1) = Len(list)
        BY <1>1
    <2> QED
        BY <1>1, <2>1, <2>2
<1>4. IsFiniteSet(others) /\ Cardinality(others) = Len(list) - 1
    BY <1>1, <1>3, FS_RemoveElement
<1>5. /\ IsFiniteSet(Front(list, i)) /\ Cardinality(Front(list, i)) <= Cardinality(others)
      /\ Cardinality(Front(list, i)) = Cardinality(others) => Front(list, i) = others
    BY <1>2, <1>4, FS_Subset
<1>6. Cardinality(Front(list, i)) \in Nat
    BY <1>5, FS_CardinalityType
<1>7. PlaceOf(list, i) = Cardinality(Front(list, i)) + 1
    BY <1>6 DEF PlaceOf, Front
<1> HIDE DEF others
<1>8. PlaceOf(list, i) \in DOMAIN list
    BY <1>1, <1>4, <1>5, <1>6, <1>7
<1>9. PlaceOf(list, i) = Len(list) => Front(list, i) = others
    BY <1>1, <1>4, <1>5, <1>6, <1>7
<1> QED
    BY <1>2, <1>5, <1>6, <1>7, <1>8, <1>9 DEF others

LEMMA AheadOrders ==
    ASSUME NEW list \in Seq(Nat), NEW i \in DOMAIN list, NEW j \in DOMAIN list
    PROVE  /\ i # j => Ahead(list, i, j) \/ Ahead(list, j, i)
           /\ ~Ahead(list, i, i)
           /\ Ahead(list, i, j) => list[i] >= list[j]
           /\ \A k \in DOMAIN list : Ahead(list, k, i) /\ Ahead(list, i, j) => Ahead(list, k, j)
<1>1. i \in Nat /\ j \in Nat /\ \A k \in DOMAIN list : k \in Nat /\ list[k] \in Nat
    OBVIOUS
<1> QED
    BY <1>1 DEF Ahead

LEMMA AheadIsEarlier ==
    ASSUME NEW list \in Seq(Nat), NEW i \in DOMAIN list, NEW j \in DOMAIN list, Ahead(list, i, j)
    PROVE  PlaceOf(list, i) < PlaceOf(list, j)
<1> DEFINE before == Front(list, i) \union {i}
<1>1. i \notin Front(list, i) /\ before \subseteq Front(list, j)
    BY AheadOrders DEF Front
<1>2. Cardinality(before) = Cardinality(Front(list, i)) + 1
    BY <1>1, FrontTyped, FS_AddElement
<1>3. Cardinality(before) <= Cardinality(Front(list, j))
    BY <1>1, FrontTyped, FS_Subset
<1> QED
    BY <1>2, <1>3, FrontTyped

\* Each place is held by exactly one entry.
LEMMA PlacesAreBijective ==
    ASSUME NEW list \in Seq(Nat)
    PROVE  /\ \A i, j \in DOMAIN list : PlaceOf(list, i) = PlaceOf(list, j) => i = j
           /\ \A place \in DOMAIN list : \E i \in DOMAIN list : PlaceOf(list, i) = place
<1> DEFINE D == DOMAIN list
           f == [i \in D |-> PlaceOf(list, i)]
<1>1. \A i \in D : PlaceOf(list, i) \in D
    BY FrontTyped
<1>2. ASSUME NEW i \in D, NEW j \in D, PlaceOf(list, i) = PlaceOf(list, j) PROVE i = j
    <2>1. PlaceOf(list, i) \in Nat /\ PlaceOf(list, j) \in Nat
        BY <1>1
    <2> QED
        BY <1>2, <2>1, AheadOrders, AheadIsEarlier
<1>3. IsFiniteSet(D)
    <2>1. D = 1..Len(list) /\ Len(list) \in Nat
        OBVIOUS
    <2> QED
        BY <2>1, FS_Interval
<1>4. f \in [D -> D] /\ \A i, j \in D : f[i] = f[j] => i = j
    BY <1>1, <1>2
<1>5. f \in Injection(D, D)
    BY <1>4, Fun_IsInj
<1>6. f \in Surjection(D, D)
    BY <1>3, <1>5, FS_Injection
<1>7. \A place \in D : \E i \in D : f[i] = place
    BY <1>6, Fun_SurjectionProperties
<1> QED
    BY <1>2, <1>7

\* The sorted list has every entry at its place, and the last is the least.
LEMMA SortedByImportance ==
    ASSUME NEW S \in SUBSET Nat, NEW list \in Seq(S)
    PROVE  /\ ByImportance(list) \in Seq(S) /\ Len(ByImportance(list)) = Len(list)
           /\ \A i \in DOMAIN list : ByImportance(list)[PlaceOf(list, i)] = list[i]
           /\ \A place \in DOMAIN list : ByImportance(list)[place] >= ByImportance(list)[Len(list)]
<1> DEFINE D == DOMAIN list
           At(place) == CHOOSE i \in D : PlaceOf(list, i) = place
           sorted == ByImportance(list)
<1>1. list \in Seq(Nat) /\ D = 1..Len(list) /\ Len(list) \in Nat
    BY SeqMonotonic, LenProperties
<1>2. ASSUME NEW place \in D PROVE At(place) \in D /\ PlaceOf(list, At(place)) = place
    <2>1. \E i \in D : PlaceOf(list, i) = place
        BY <1>1, PlacesAreBijective
    <2> QED
        BY <2>1
<1>3. ASSUME NEW i \in D PROVE PlaceOf(list, i) \in D /\ At(PlaceOf(list, i)) = i
    <2>1. PlaceOf(list, i) \in D
        BY <1>1, FrontTyped
    <2> QED
        BY <1>1, <1>2, <2>1, PlacesAreBijective
<1>4. sorted = [place \in D |-> list[At(place)]]
    BY DEF ByImportance
<1> HIDE DEF At, sorted
<1>5. sorted \in Seq(S) /\ Len(sorted) = Len(list)
    BY <1>1, <1>2, <1>4
<1>6. \A i \in D : sorted[PlaceOf(list, i)] = list[i]
    BY <1>3, <1>4
<1>7. ASSUME NEW place \in D PROVE sorted[place] >= sorted[Len(list)]
    <2>1. Len(list) \in D
        BY <1>1
    <2> DEFINE last == At(Len(list))
    <2>2. last \in D /\ PlaceOf(list, last) = Len(list)
        BY <1>2, <2>1
    <2>3. Front(list, last) = D \ {last}
        BY <1>1, <2>2, FrontTyped
    <2>4. list[last] \in Nat /\ At(place) \in D
        BY <1>1, <1>2, <2>2
    <2>5. list[At(place)] >= list[last]
        <3>1. CASE At(place) = last
            BY <2>4, <3>1
        <3>2. CASE At(place) # last
            BY <1>1, <2>2, <2>3, <2>4, <3>2, AheadOrders DEF Front
        <3> QED
            BY <3>1, <3>2
    <2> QED
        BY <1>4, <2>1, <2>5
<1> QED
    BY <1>5, <1>6, <1>7 DEF sorted

-----------------------------------------------------------------------------
(* What a full memory gives up.                                            *)

Holding(list, level) == {i \in DOMAIN list : list[i] >= level}

LEMMA HoldingFinite ==
    ASSUME NEW list \in Seq(Nat), NEW level
    PROVE  IsFiniteSet(Holding(list, level)) /\ Cardinality(Holding(list, level)) \in Nat
<1>1. DOMAIN list = 1..Len(list) /\ Len(list) \in Nat
    OBVIOUS
<1>2. IsFiniteSet(DOMAIN list) /\ Holding(list, level) \subseteq DOMAIN list
    BY <1>1, FS_Interval DEF Holding
<1> QED
    BY <1>2, FS_Subset, FS_CardinalityType

\* The first entries of the sorted list hold as many of an importance or more
\* as the list without its last entry: if the entry that is cut has it, all
\* that are kept have it, and if not, all that have it are kept.
LEMMA CutKeeps ==
    ASSUME NEW longer \in Seq(Nat), NEW n \in Nat, Len(longer) = n + 1, NEW kept \in Seq(Nat), Len(kept) = n,
           \A i \in 1..n : kept[i] = ByImportance(longer)[i],
           NEW list \in Seq(Nat), Len(list) = n, \A i \in 1..n : list[i] = longer[i],
           NEW level \in Nat
    PROVE  Cardinality(Holding(list, level)) <= Cardinality(Holding(kept, level))
<1> DEFINE sorted == ByImportance(longer)
           A == Holding(list, level)
           K == Holding(kept, level)
<1>1. /\ sorted \in Seq(Nat) /\ Len(sorted) = n + 1
      /\ \A i \in DOMAIN longer : sorted[PlaceOf(longer, i)] = longer[i]
      /\ \A place \in DOMAIN longer : sorted[place] >= sorted[n + 1]
    BY SortedByImportance
<1>2. DOMAIN longer = 1..(n + 1) /\ DOMAIN list = 1..n /\ DOMAIN kept = 1..n
    OBVIOUS
<1> HIDE DEF sorted
<1>3. sorted[n + 1] \in Nat /\ \A i \in 1..n : sorted[i] \in Nat /\ kept[i] = sorted[i]
    BY <1>1 DEF sorted
<1>4. IsFiniteSet(K)
    BY HoldingFinite
<1>5. CASE sorted[n + 1] >= level
    <2>1. A \subseteq K
        <3> SUFFICES ASSUME NEW i \in 1..n PROVE kept[i] >= level
            BY <1>2 DEF Holding
        <3>1. i \in DOMAIN longer
            BY <1>2
        <3>2. sorted[i] >= sorted[n + 1]
            BY <1>1, <3>1
        <3> QED
            BY <1>3, <1>5, <3>2
    <2> QED
        BY <1>4, <2>1, FS_Subset
<1>6. CASE ~(sorted[n + 1] >= level)
    <2> DEFINE f == [i \in A |-> PlaceOf(longer, i)]
    <2>1. ASSUME NEW i \in A PROVE PlaceOf(longer, i) \in K
        <3>1. i \in 1..n /\ i \in DOMAIN longer /\ longer[i] >= level
            BY <1>2 DEF Holding
        <3>2. PlaceOf(longer, i) \in 1..(n + 1)
            BY <1>2, <3>1, FrontTyped
        <3>3. sorted[PlaceOf(longer, i)] >= level
            BY <1>1, <3>1
        <3>4. PlaceOf(longer, i) # n + 1
            BY <1>6, <3>3
        <3>5. PlaceOf(longer, i) \in 1..n
            BY <3>2, <3>4
        <3> QED
            BY <1>2, <1>3, <3>3, <3>5 DEF Holding
    <2>2. ASSUME NEW i \in A, NEW j \in A, PlaceOf(longer, i) = PlaceOf(longer, j) PROVE i = j
        <3>1. i \in DOMAIN longer /\ j \in DOMAIN longer
            BY <1>2 DEF Holding
        <3> QED
            BY <2>2, <3>1, PlacesAreBijective
    <2>3. f \in [A -> K] /\ \A i, j \in A : f[i] = f[j] => i = j
        BY <2>1, <2>2
    <2>4. f \in Injection(A, K)
        BY <2>3, Fun_IsInj
    <2> QED
        BY <1>4, <2>4, FS_Injection
<1> QED
    BY <1>5, <1>6

LEMMA RememberKeeps ==
    ASSUME NEW S \in SUBSET Nat, NEW list \in Seq(S), Len(list) <= MaxMemories, NEW importance \in S
    PROVE  /\ Remember(list, importance) \in Seq(S) /\ Len(Remember(list, importance)) <= MaxMemories
           /\ \A level \in Nat : AtLeast(Remember(list, importance), level) >= AtLeast(list, level)
<1> DEFINE longer == Append(list, importance)
           after  == Remember(list, importance)
<1>1. /\ longer \in Seq(S) /\ Len(longer) = Len(list) + 1
      /\ \A i \in 1..Len(list) : longer[i] = list[i]
    BY AppendProperties
<1>2. list \in Seq(Nat) /\ longer \in Seq(Nat) /\ Len(list) \in Nat /\ MaxMemories \in Nat
    BY <1>1, SeqMonotonic, LenProperties, ChatAssumption
<1>3. /\ after \in Seq(S) /\ Len(after) <= MaxMemories
      /\ \A level \in Nat : Cardinality(Holding(after, level)) >= Cardinality(Holding(list, level))
    <2>1. CASE ~(Len(longer) > MaxMemories)
        <3>1. after = longer
            BY <2>1 DEF Remember
        <3>2. ASSUME NEW level \in Nat
              PROVE  Cardinality(Holding(longer, level)) >= Cardinality(Holding(list, level))
            <4>1. Holding(list, level) \subseteq Holding(longer, level)
                BY <1>1, <1>2 DEF Holding
            <4>2. IsFiniteSet(Holding(longer, level))
                BY <1>2, HoldingFinite
            <4>3. Cardinality(Holding(list, level)) <= Cardinality(Holding(longer, level))
                BY <4>1, <4>2, FS_Subset
            <4> QED
                BY <1>2, <4>3, HoldingFinite
        <3> QED
            BY <1>1, <1>2, <2>1, <3>1, <3>2
    <2>2. CASE Len(longer) > MaxMemories
        <3>1. Len(list) = MaxMemories
            BY <1>1, <1>2, <2>2
        <3>2. after = SubSeq(ByImportance(longer), 1, MaxMemories)
            BY <2>2 DEF Remember
        <3>3. ByImportance(longer) \in Seq(S) /\ Len(ByImportance(longer)) = MaxMemories + 1
            BY <1>1, <3>1, SortedByImportance
        <3>4. \A i \in 1..MaxMemories : ByImportance(longer)[i] \in S
            BY <1>2, <3>3, ElementOfSeq
        <3>5. /\ after \in Seq(S) /\ Len(after) = MaxMemories
              /\ \A i \in 1..MaxMemories : after[i] = ByImportance(longer)[i]
            <4>1. /\ after \in Seq(S)
                  /\ Len(after) = IF 1 <= MaxMemories THEN MaxMemories - 1 + 1 ELSE 0
                  /\ \A i \in 1 .. MaxMemories - 1 + 1 : after[i] = ByImportance(longer)[1 + i - 1]
                BY <1>2, <3>2, <3>4, SubSeqProperties
            <4>2. MaxMemories - 1 + 1 = MaxMemories /\ \A i \in 1..MaxMemories : 1 + i - 1 = i
                BY <1>2
            <4> QED
                BY <1>2, <4>1, <4>2
        <3>6. after \in Seq(Nat)
            BY <3>5, SeqMonotonic
        <3>7. ASSUME NEW level \in Nat
              PROVE  Cardinality(Holding(after, level)) >= Cardinality(Holding(list, level))
            <4>1. Cardinality(Holding(list, level)) <= Cardinality(Holding(after, level))
                BY <1>1, <1>2, <3>1, <3>5, <3>6, CutKeeps
            <4> QED
                BY <1>2, <3>6, <4>1, HoldingFinite
        <3> QED
            BY <1>2, <3>5, <3>7
    <2> QED
        BY <2>1, <2>2
<1> QED
    BY <1>3 DEF AtLeast, Holding

-----------------------------------------------------------------------------
(* The strengthening                                                       *)

\* The part of TypeOK that TurnTyped leaves out, but for the memories.
RestTyped ==
    /\ attempt \in 0..ToolAttempts /\ origin \in {"none", "model", "safe_mode", "local"}
    /\ shown \in Texts /\ spoken \in BOOLEAN

\* Only a memory that is worth something is remembered.
MemoriesHeld ==
    /\ memories \in Seq(1..MaxImportance) /\ Len(memories) <= MaxMemories
    /\ "memory" \in wrote => request.importance > 0

\* Until the reply is judged: a challenge that hides what a claim demands has
\* failed the turn closed or kept the model from being asked.
LetThrough ==
    /\ pc \in {"previous", "ask", "evaluate"} /\ decision # "fail_closed" =>
         action \in {"continue", "require_evidence", "clarify"}
    /\ pc = "evaluate" /\ origin = "model" /\ decision # "fail_closed" => action # "clarify"

ClaimsMarked ==
    \A i \in Tagged(reply, evidence) :
      LET c == ClaimOf(reply[i], evidence)
      IN  /\ c.class = "factual" /\ c.support = "missing" => "noted" \in shown.marks
          /\ c.class = "causal" /\ Unsupported(c) =>
               "noted" \in shown.marks /\ (reply[i].literal => i \in shown.hedged)

AnswersMarked ==
    (pc \in Judging \/ Saved) /\ origin = "model" /\ decision = "answer" => ClaimsMarked

SInv == RestTyped /\ MemoriesHeld /\ LetThrough /\ AnswersMarked

LEMMA SInvUnchanged ==
    ASSUME SInv, UNCHANGED vars
    PROVE  SInv'
BY DEF vars, SInv, RestTyped, MemoriesHeld, LetThrough, AnswersMarked, Saved, ClaimsMarked

-----------------------------------------------------------------------------
(* Steps that end the turn early or prepare its answer.                    *)

Quiet ==
    /\ pc' \in {"idle", "search", "auto_search", "tools", "record", "recall", "record_recall", "challenge"}
    /\ attempt' \in 0..ToolAttempts /\ outcome' # "saved"
    /\ UNCHANGED <<request, action, decision, reply, origin, shown, wrote, sessionVars>>

LEMMA ThinkIsQuiet ==
    ASSUME TInv, SInv, Think \/ AuditFails \/ SaveFails
    PROVE  Challenge \/ Quiet
<1>1. attempt \in 0..ToolAttempts /\ ToolAttempts \in Nat \ {0} /\ (pc # "idle" => outcome = "none")
    BY ChatAssumption DEF SInv, RestTyped, TInv, Undecided
<1>2. ASSUME NEW cause \in Causes, Abort(cause) PROVE Quiet
    BY <1>1, <1>2 DEF Abort, Causes, Quiet, turnVars
<1>3. ASSUME NEW hits \in BOOLEAN, Retrieving, Retrieved(hits) PROVE Quiet
    BY <1>1, <1>3 DEF Retrieving, Searching, Retrieved, AfterRetrieval, Quiet
<1>4. ASSUME QuotaGranted \/ TryAgain PROVE Quiet
    BY <1>1, <1>4 DEF QuotaGranted, TryAgain, Retrieving, Searching, turnVars, Quiet
<1>5. ASSUME QuotaFails \/ SearchRaises PROVE Quiet
    BY <1>1, <1>2, <1>5 DEF QuotaFails, SearchRaises, Retrieving, Searching, Causes, turnVars, Quiet
<1>6. ASSUME NEW successes, UseLocalTools(successes) PROVE Quiet
    BY <1>1, <1>6 DEF UseLocalTools, Quiet
<1>7. ASSUME (\E t \in Tools : RecordTool(t)) \/ ToolsRecorded \/ RecordRecall PROVE Quiet
    BY <1>1, <1>7 DEF RecordTool, ToolsRecorded, RecordRecall, turnVars, Quiet
<1>8. ASSUME RecallRaises \/ AuditFails \/ SaveFails PROVE Quiet
    BY <1>2, <1>8 DEF RecallRaises, AuditFails, SaveFails, Causes
<1>9. ASSUME QuotaRefused \/ GivesUp \/ \E hits \in BOOLEAN : Answers(hits) PROVE Quiet
    BY <1>3, <1>9 DEF QuotaRefused, GivesUp, Answers
<1> QED
    BY <1>4, <1>5, <1>6, <1>7, <1>8, <1>9 DEF Think

LEMMA QuietKeeps ==
    ASSUME TInv, SInv, Quiet
    PROVE  SInv'
<1> USE DEF Quiet, sessionVars
<1>1. RestTyped' /\ MemoriesHeld'
    BY DEF SInv, RestTyped, MemoriesHeld
<1>2. LetThrough' /\ AnswersMarked'
    BY DEF SInv, LetThrough, AnswersMarked, Judging, Saved
<1> QED
    BY <1>1, <1>2 DEF SInv

LEMMA ArriveKeeps ==
    ASSUME TInv, SInv, NEW r \in Requests, Arrive(r)
    PROVE  SInv'
<1> USE DEF Arrive, sessionVars
<1>1. pc' \in {"search", "auto_search", "tools"}
    BY DEF AfterArrival
<1>2. RestTyped' /\ MemoriesHeld'
    BY ChatAssumption DEF SInv, RestTyped, MemoriesHeld, AsItStands, Texts
<1>3. LetThrough' /\ AnswersMarked'
    BY <1>1 DEF LetThrough, AnswersMarked, Judging, Saved
<1> QED
    BY <1>2, <1>3 DEF SInv

LEMMA ChallengeKeeps ==
    ASSUME TInv, SInv, Challenge
    PROVE  SInv'
<1> USE DEF Challenge, sessionVars
<1>1. request.uncertain \in BOOLEAN /\ Stressed(request) \in BOOLEAN
    BY RequestsAssumption DEF TInv, TurnTyped, RequestType, Stressed
<1>2. action' \in {"fail_closed", "require_evidence", "clarify", "continue"}
    BY <1>1, ChallengeCases
<1>3. action' = "fail_closed" => decision' = "fail_closed"
    BY DEF MapDecision
<1>4. origin = "none" /\ outcome = "none" /\ pc' \in {"previous", "ask"}
    BY DEF TInv, Undecided, Deciding
<1>5. RestTyped' /\ MemoriesHeld'
    BY DEF SInv, RestTyped, MemoriesHeld
<1>6. LetThrough' /\ AnswersMarked'
    BY <1>2, <1>3, <1>4 DEF LetThrough, AnswersMarked, Judging, Saved
<1> QED
    BY <1>5, <1>6 DEF SInv

\* The model is not asked when the challenge wants the user to be clearer.
LEMMA RespondKeeps ==
    ASSUME TInv, SInv, Respond
    PROVE  SInv'
<1>1. ASSUME RecordPrevious PROVE SInv'
    <2> USE <1>1 DEF RecordPrevious, sessionVars
    <2>1. RestTyped' /\ MemoriesHeld'
        BY DEF SInv, RestTyped, MemoriesHeld
    <2>2. LetThrough' /\ AnswersMarked'
        BY DEF TInv, Undecided, SInv, LetThrough, AnswersMarked, Judging, Saved
    <2> QED
        BY <2>1, <2>2 DEF SInv
<1>2. ASSUME NEW text, NEW from \in {"model", "safe_mode", "local"}, NEW new, pc = "ask", Replies(text, from, new),
             new = decision \/ decision # "fail_closed", from = "model" => AsksModel
      PROVE  SInv'
    <2> USE <1>2 DEF Replies, sessionVars
    <2>1. RestTyped' /\ MemoriesHeld'
        BY DEF SInv, RestTyped, MemoriesHeld
    <2>2. LetThrough' /\ AnswersMarked'
        BY DEF TInv, Undecided, SInv, LetThrough, AnswersMarked, Judging, Saved, AsksModel
    <2> QED
        BY <2>1, <2>2 DEF SInv
<1>3. ASSUME NEW text \in ModelReplies, ModelAnswers(text) PROVE SInv'
    BY <1>2, <1>3 DEF ModelAnswers
<1>4. ASSUME NEW text \in FixedReplies, SafeMode(text) \/ RepliesItself(text) PROVE SInv'
    BY <1>2, <1>4 DEF SafeMode, RepliesItself
<1>5. CASE AuditFails
    BY <1>5, ThinkIsQuiet, QuietKeeps, ChallengeKeeps
<1> QED
    BY <1>1, <1>3, <1>4, <1>5 DEF Respond

\* What an answer's treatment shows of its claims.
LEMMA EvaluateKeeps ==
    ASSUME TInv, SInv, NEW cited \in SUBSET MayCite, Evaluate(cited)
    PROVE  SInv'
<1> USE DEF Evaluate, sessionVars
<1>1. reply \in Seq(Units) /\ evidence' \in SUBSET Sources /\ action \in Actions /\ action # "abstain"
    BY RepliesAreSequences, SourcesOfTurn DEF TInv, TurnTyped, Undecided
<1>2. gate' = Evaluated(reply, evidence', action) /\ gate' \in Gates
      /\ gate'.action # "abstain" /\ gate'.response # "abstained"
    <2>1. gate' = Evaluated(reply, evidence', action)
        OBVIOUS
    <2> HIDE DEF Evaluate
    <2> QED
        BY <1>1, <2>1, EvaluatedCause DEF OutcomeOf
<1>3. /\ origin # "none" /\ outcome = "none" /\ pc = "evaluate"
      /\ origin # "safe_mode" => decision \in {"answer", "fail_closed"}
    BY DEF TInv, Undecided, Journal
<1>4. shown' \in Texts
    BY <1>1, TreatmentTyped DEF AsItStands, Texts
<1>5. RestTyped' /\ MemoriesHeld'
    BY <1>4 DEF SInv, RestTyped, MemoriesHeld
<1>6. LetThrough'
    BY DEF SInv, LetThrough
<1>7. AnswersMarked'
    <2> SUFFICES ASSUME origin = "model", decision' = "answer", NEW i \in Tagged(reply, evidence'),
                        NEW c, c = ClaimOf(reply[i], evidence'),
                        \/ c.class = "factual" /\ c.support = "missing"
                        \/ c.class = "causal" /\ Unsupported(c)
                 PROVE  /\ "noted" \in shown'.marks
                        /\ c.class = "causal" /\ reply[i].literal => i \in shown'.hedged
        BY DEF AnswersMarked, ClaimsMarked
    <2>1. decision' = DecisionAfter(gate', decision) /\ shown' = Treatment(gate'.action, reply, evidence')
        OBVIOUS
    <2>2. decision = "answer" /\ gate'.action \notin {"block", "fail_closed", "abstain"}
        BY <1>2, <1>3, <2>1, DecisionAfterCases
    <2>3. action \in {"continue", "require_evidence"}
        BY <1>3, <2>2 DEF SInv, LetThrough
    <2> QED
        BY <1>1, <1>2, <2>1, <2>2, <2>3, GapIsMarked
<1> QED
    BY <1>5, <1>6, <1>7 DEF SInv

LEMMA WriteKeeps ==
    ASSUME TInv, SInv, (\E learns \in BOOLEAN : Reflect(learns)) \/ Evolve
    PROVE  SInv'
<1>1. /\ pc \in Judging /\ pc' \in Judging
      /\ "memory" \in wrote' => "memory" \in wrote \/ request.importance > 0
      /\ UNCHANGED <<request, attempt, records, found, audited, evidence, action, decision,
                     reply, origin, gate, shown, outcome, sessionVars>>
    BY DEF Reflect, Evolve, Judging
<1> USE <1>1 DEF sessionVars
<1>2. RestTyped' /\ MemoriesHeld'
    BY DEF SInv, RestTyped, MemoriesHeld
<1>3. LetThrough' /\ AnswersMarked'
    BY DEF SInv, LetThrough, AnswersMarked, Judging, Saved, ClaimsMarked
<1> QED
    BY <1>2, <1>3 DEF SInv

LEMMA SaveKeeps ==
    ASSUME TInv, SInv, Save
    PROVE  SInv' /\ \A level \in Nat : AtLeast(memories', level) >= AtLeast(memories, level)
<1> USE DEF Save, turnVars
<1>1. request.importance \in 0..MaxImportance /\ MaxImportance \in Nat
    BY RequestsAssumption, ChatAssumption DEF TInv, TurnTyped, RequestType
<1>2. memories \in Seq(1..MaxImportance) /\ Len(memories) <= MaxMemories
    BY DEF SInv, MemoriesHeld
<1>3. /\ memories' \in Seq(1..MaxImportance) /\ Len(memories') <= MaxMemories
      /\ \A level \in Nat : AtLeast(memories', level) >= AtLeast(memories, level)
    <2>1. CASE "memory" \in wrote
        <3>1. request.importance \in 1..MaxImportance /\ 1..MaxImportance \in SUBSET Nat
            BY <1>1, <2>1 DEF SInv, MemoriesHeld
        <3>2. memories' = Remember(memories, request.importance)
            BY <2>1
        <3> HIDE DEF Save
        <3> QED
            BY <1>2, <3>1, <3>2, RememberKeeps
    <2>2. CASE "memory" \notin wrote
        <3>1. memories \in Seq(Nat)
            BY <1>1, <1>2, SeqMonotonic
        <3>2. \A level \in Nat : AtLeast(memories, level) \in Nat
            BY <3>1, HoldingFinite DEF AtLeast, Holding
        <3> QED
            BY <1>2, <2>2, <3>2
    <2> QED
        BY <2>1, <2>2
<1>4. RestTyped' /\ MemoriesHeld'
    BY <1>3 DEF SInv, RestTyped, MemoriesHeld
<1>5. LetThrough' /\ AnswersMarked'
    BY DEF SInv, LetThrough, AnswersMarked, Judging, Saved, ClaimsMarked
<1> QED
    BY <1>3, <1>4, <1>5 DEF SInv

LEMMA InitSInv == Init => SInv
<1> SUFFICES ASSUME Init PROVE SInv
    OBVIOUS
<1>1. /\ pc = "idle" /\ attempt = 0 /\ outcome = "none" /\ origin = "none" /\ shown = AsItStands /\ wrote = {}
      /\ memories = <<>>
    BY DEF Init
<1>2. spoken \in BOOLEAN
    BY DEF Init
<1>3. attempt \in 0..ToolAttempts
    BY <1>1, ChatAssumption
<1>4. RestTyped
    BY <1>1, <1>2, <1>3 DEF RestTyped, AsItStands, Texts
<1>5. <<>> \in Seq(1..MaxImportance) /\ Len(<<>>) <= MaxMemories
    BY ChatAssumption, EmptySeq
<1>6. MemoriesHeld
    BY <1>1, <1>5 DEF MemoriesHeld
<1>7. LetThrough /\ AnswersMarked
    BY <1>1 DEF LetThrough, AnswersMarked, Judging, Saved
<1> QED
    BY <1>4, <1>6, <1>7 DEF SInv

LEMMA NextSInv ==
    ASSUME TInv, SInv, [Next]_vars
    PROVE  SInv'
<1>1. CASE Think
    BY <1>1, ThinkIsQuiet, QuietKeeps, ChallengeKeeps
<1>2. CASE Respond
    BY <1>2, RespondKeeps
<1>3. CASE Conclude
    <2>1. CASE SaveFails
        BY <2>1, ThinkIsQuiet, QuietKeeps, ChallengeKeeps
    <2> QED
        BY <1>3, <2>1, EvaluateKeeps, WriteKeeps, SaveKeeps DEF Conclude
<1>4. CASE \E r \in Requests : Arrive(r)
    BY <1>4, ArriveKeeps
<1> QED
    BY <1>1, <1>2, <1>3, <1>4, SInvUnchanged DEF Next, Step

-----------------------------------------------------------------------------
(* Theorems                                                                *)

\* The memories of a session are bounded and worth keeping, and an answer of the
\* turn has been marked as the gates demand (the conjuncts of SInv).
THEOREM SessionHolds == Spec => []SInv
BY InitSInv, NextSInv, TurnHolds, PTL DEF Spec

\* Every variable of ChatTurn stays in its range, the sorted and cut list of
\* long-term memories (add_long_term_memory) included.
THEOREM ChatTyped == Spec => []TypeOK
<1>1. TInv /\ SInv => TypeOK
    BY DEF TInv, TurnTyped, SInv, RestTyped, MemoriesHeld, TypeOK
<1> QED
    BY <1>1, TurnHolds, SessionHolds, PTL

\* A model's answer never shows a tagged fact without any support, or a tagged
\* causal sentence without full support, without the note at its end, and marks
\* the causal sentence itself where its text is found (apply_reply_resolution):
\* no verdict of the challenge or of another claim masks that of the claim.
THEOREM UnsupportedIsMarked == Spec => []UnsupportedNeverPlain
<1>1. SInv => UnsupportedNeverPlain
    BY DEF SInv, AnswersMarked, ClaimsMarked, Gated, UnsupportedNeverPlain
<1> QED
    BY <1>1, SessionHolds, PTL

\* A full long-term memory gives up an entry of the least importance: of no
\* importance does a step leave fewer entries of that importance or more.
THEOREM ImportantMemoriesStay == Spec => NoImportantMemoryLost
<1> DEFINE Stays == \A level \in 1..MaxImportance : AtLeast(memories', level) >= AtLeast(memories, level)
<1>1. TInv /\ SInv /\ [Next]_vars => Stays
    <2> SUFFICES ASSUME TInv, SInv, [Next]_vars PROVE Stays
        OBVIOUS
    <2>1. CASE Save
        BY <2>1, SaveKeeps
    <2>2. CASE ~Save
        <3>1. memories' = memories
            <4>1. Quiet \/ Challenge => memories' = memories
                BY DEF Quiet, Challenge, sessionVars
            <4>2. Think \/ AuditFails \/ SaveFails => memories' = memories
                BY <4>1, ThinkIsQuiet
            <4>3. Respond \/ Conclude => memories' = memories
                BY <2>2, <4>2
                   DEF Respond, RecordPrevious, ModelAnswers, SafeMode, RepliesItself, Replies,
                       Conclude, Evaluate, Reflect, Evolve, sessionVars
            <4> QED
                BY <4>2, <4>3 DEF Next, Step, Arrive, sessionVars, vars
        <3>2. MaxImportance \in Nat /\ memories \in Seq(1..MaxImportance)
            BY ChatAssumption DEF SInv, MemoriesHeld
        <3>3. memories \in Seq(Nat)
            BY <3>2, SeqMonotonic
        <3>4. \A level \in Nat : AtLeast(memories, level) \in Nat
            BY <3>3, HoldingFinite DEF AtLeast, Holding
        <3> QED
            BY <3>1, <3>2, <3>4
    <2> QED
        BY <2>1, <2>2
<1>2. TInv /\ SInv /\ [Next]_vars => [Stays]_vars
    BY <1>1
<1> QED
    BY <1>2, TurnHolds, SessionHolds, PTL DEF Spec, NoImportantMemoryLost

-----------------------------------------------------------------------------
(* A turn comes to an end.  That its steps are taken is for the run to      *)
(* check (TurnEnds); that they cannot go on for ever is proved here.        *)

Stage ==
    [search |-> 1, auto_search |-> 1, tools |-> 2, record |-> 3, recall |-> 4,
     record_recall |-> 5, challenge |-> 6, previous |-> 7, ask |-> 8, evaluate |-> 9,
     reflect |-> 10, evolve |-> 11, save |-> 12, idle |-> 13]

\* A later stage, or within one a later attempt or a record less to audit.
Onward ==
    \/ Stage[pc'] > Stage[pc]
    \/ pc' = pc /\ Retrieving /\ attempt' \in (attempt + 1)..ToolAttempts
    \/ pc' = pc /\ pc = "record" /\ \E t \in Unrecorded : Unrecorded' = Unrecorded \ {t}

LEMMA StepMoves ==
    ASSUME TInv, SInv, Step
    PROVE  Onward
<1>1. attempt \in 0..ToolAttempts /\ ToolAttempts \in Nat \ {0}
    BY ChatAssumption DEF SInv, RestTyped
<1> USE DEF Onward, Stage
<1>2. CASE Think
    <2>1. ASSUME NEW hits \in BOOLEAN, Retrieving, Retrieved(hits) PROVE Onward
        BY <2>1 DEF Retrieving, Searching, Retrieved, AfterRetrieval
    <2>2. CASE QuotaGranted \/ TryAgain
        BY <1>1, <2>2 DEF QuotaGranted, TryAgain
    <2>3. CASE QuotaFails \/ SearchRaises \/ RecallRaises
        BY <2>3 DEF QuotaFails, SearchRaises, RecallRaises, Retrieving, Searching, Abort
    <2>4. CASE (\E successes \in SUBSET LocalTools : UseLocalTools(successes)) \/ RecordRecall
        BY <2>4 DEF UseLocalTools, RecordRecall
    <2>5. ASSUME NEW t \in Tools, RecordTool(t) PROVE Onward
        BY <2>5 DEF RecordTool, Unrecorded
    <2>6. CASE ToolsRecorded \/ Challenge
        BY <2>6 DEF ToolsRecorded, Challenge
    <2>7. CASE QuotaRefused \/ GivesUp \/ \E hits \in BOOLEAN : Answers(hits)
        BY <2>1, <2>7 DEF QuotaRefused, GivesUp, Answers
    <2> QED
        BY <1>2, <2>2, <2>3, <2>4, <2>5, <2>6, <2>7 DEF Think
<1>3. CASE Respond
    BY <1>3 DEF Respond, RecordPrevious, AuditFails, ModelAnswers, SafeMode, RepliesItself, Replies, Abort
<1>4. CASE Conclude
    BY <1>4 DEF Conclude, Evaluate, Reflect, Evolve, Save, SaveFails, Abort
<1> QED
    BY <1>2, <1>3, <1>4 DEF Step

\* Every step of a turn takes it to a later stage, a later attempt of at most
\* ToolAttempts, or leaves one record less to audit: whatever the tools, the
\* model and the ledgers do, engine.chat comes to its end or its exception.
THEOREM TurnMovesOn == Spec => [][Step => Onward]_vars
<1>1. TInv /\ SInv => (Step => Onward)
    BY StepMoves
<1> QED
    BY <1>1, TurnHolds, SessionHolds, PTL DEF Spec
=============================================================================
