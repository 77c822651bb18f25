--------------------------- MODULE AuthQuotaProofs ---------------------------
(***************************************************************************)
(* Theorems about the quotas of Auth: for any limits, any periods and any  *)
(* interleaving of the requests that draw on them.                         *)
(***************************************************************************)
EXTENDS AuthProofs

-----------------------------------------------------------------------------
(* The strengthening *)

\* The scopes whose rows no charge deletes early: the others that delete rows
\* of their buckets have windows at least as long.
Shortest == {s \in Scopes : \A t \in Sharing(s) : Period[s] <= Period[t]}

Grants(s, b, w) == {g \in granted : g[1] = s /\ g[2] = b /\ g[3] = w}

QuotaTyped ==
    /\ quota \subseteq [scope : Scopes, bucket : Buckets, window : Nat, used : Nat]
    /\ granted \subseteq Scopes \X Buckets \X Nat \X Requests
    /\ IsFiniteSet(granted)
    /\ \A q \in Requests : request[q].pc = "admitted" => request[q].conversation \in Conversations

\* Tools are charged per conversation, chat and voice per user.
Fits(scope, bucket) == scope \in Tools <=> bucket \in Conversations

\* A scope has one row for a bucket and a window.
OneRow ==
    /\ \A r \in quota : Fits(r.scope, r.bucket)
    /\ \A r, s \in quota : r.scope = s.scope /\ r.bucket = s.bucket /\ r.window = s.window => r = s

\* The rows count the units granted, and those of the current window are there.
Counted ==
    /\ \A r \in quota : r.scope \in Shortest => r.used = Cardinality(Grants(r.scope, r.bucket, r.window))
    /\ \A g \in granted : g[1] \in Shortest /\ g[3] = Window(g[1]) =>
         \E r \in quota : r.scope = g[1] /\ r.bucket = g[2] /\ r.window = g[3]

\* A request is charged for a scope once; no unit is of a window to come.
Spent(q, scope) ==
    IF scope \in Tools THEN scope \in request[q].asked ELSE request[q].pc \in {"admitted", "over"}

UnitsSpent == \A g \in granted : Spent(g[4], g[1]) /\ g[3] <= Window(g[1])

QInv == QuotaTyped /\ OneRow /\ Counted /\ UnitsSpent /\ QuotaHeld

-----------------------------------------------------------------------------
(* Windows *)

LEMMA WindowTyped ==
    ASSUME now \in Nat, NEW scope \in Scopes
    PROVE  Window(scope) \in Nat
<1>1. Period[scope] \in Nat \ {0}
    BY AuthAssumption
<1> QED
    BY <1>1 DEF Window

LEMMA WindowsPass ==
    ASSUME now \in Nat, now' = now + 1, NEW scope \in Scopes
    PROVE  Window(scope)' \in Nat /\ Window(scope) <= Window(scope)'
<1>1. Period[scope] \in Nat \ {0}
    BY AuthAssumption
<1>2. ASSUME NEW p \in Nat \ {0}, NEW n \in Nat PROVE (n + 1) \div p \in Nat /\ n \div p <= (n + 1) \div p
    OBVIOUS
<1> QED
    BY <1>1, <1>2 DEF Window

\* A scope with the longer period is not further in its windows.
LEMMA LongerLags ==
    ASSUME now \in Nat, NEW s \in Scopes, NEW t \in Scopes, Period[s] <= Period[t]
    PROVE  Window(t) <= Window(s)
<1>1. Period[s] \in Nat \ {0} /\ Period[t] \in Nat \ {0}
    BY AuthAssumption
<1>2. ASSUME NEW p \in Nat \ {0}, NEW o \in Nat \ {0}, NEW n \in Nat, p <= o PROVE n \div o <= n \div p
    BY <1>2
<1> QED
    BY <1>1, <1>2 DEF Window

LEMMA ScopesTyped == Tools \subseteq Scopes /\ {"chat", "voice"} = Scopes \ Tools
BY DEF Tools, Scopes

\* A charge or a refusal leaves the rows that count the current units.
LEMMA RecentKeeps ==
    ASSUME AInv, QInv, NEW scope \in Scopes, NEW bucket \in Buckets, Fits(scope, bucket),
           NEW r \in quota, r.scope \in Shortest, r.window = Window(r.scope)
    PROVE  r \in Recent(scope, bucket)
<1>1. now \in Nat /\ r.scope \in Scopes /\ r.window \in Nat
    BY DEF AInv, AccountTyped, QInv, QuotaTyped
<1>2. CASE r.bucket # bucket
    BY <1>2 DEF Recent
<1>3. CASE r.bucket = bucket
    <2>1. scope \in Sharing(r.scope)
        BY <1>1, <1>3 DEF Sharing, QInv, OneRow, Fits
    <2>2. Window(scope) <= Window(r.scope)
        BY <1>1, <2>1, LongerLags DEF Shortest
    <2> QED
        BY <1>1, <2>2, WindowTyped DEF Recent
<1> QED
    BY <1>2, <1>3

-----------------------------------------------------------------------------
(* What a charge and a refusal do to the rows *)

LEMMA RefuseStep ==
    ASSUME AInv, QInv, NEW scope \in Scopes, NEW bucket \in Buckets, Fits(scope, bucket),
           Refuse(scope, bucket), now' = now
    PROVE  /\ quota' \subseteq quota /\ granted' = granted
           /\ OneRow' /\ Counted' /\ QuotaHeld'
<1>1. quota' = Recent(scope, bucket) /\ granted' = granted /\ quota' \subseteq quota
    BY DEF Refuse, Recent
<1>2. OneRow'
    BY <1>1 DEF QInv, OneRow
<1>3. \A t : Window(t)' = Window(t)
    BY DEF Window
<1>4. ASSUME NEW r \in quota', r.scope \in Shortest
      PROVE  r.used = Cardinality({g \in granted' : g[1] = r.scope /\ g[2] = r.bucket /\ g[3] = r.window})
    BY <1>1, <1>4 DEF QInv, Counted, Grants
<1>5. ASSUME NEW g \in granted', g[1] \in Shortest, g[3] = Window(g[1])
      PROVE  \E r \in quota' : r.scope = g[1] /\ r.bucket = g[2] /\ r.window = g[3]
    <2>1. PICK r \in quota : r.scope = g[1] /\ r.bucket = g[2] /\ r.window = g[3]
        BY <1>1, <1>5 DEF QInv, Counted
    <2> QED
        BY <1>1, <1>5, <2>1, RecentKeeps
<1>6. Counted'
    BY <1>3, <1>4, <1>5 DEF Counted, Grants
<1>7. QuotaHeld'
    BY <1>1 DEF QInv, QuotaHeld
<1> QED
    BY <1>1, <1>2, <1>6, <1>7

\* The unit a charge grants is counted by the row it writes, and is within the
\* limit.
LEMMA ChargeCounts ==
    ASSUME AInv, QInv, NEW q \in Requests, NEW scope \in Shortest, NEW bucket \in Buckets, Fits(scope, bucket),
           ~Exhausted(scope, bucket), <<scope, bucket, Window(scope), q>> \notin granted
    PROVE  LET used == 1 + IF \E r \in Used(scope, bucket) : TRUE
                            THEN (CHOOSE r \in Used(scope, bucket) : TRUE).used ELSE 0
               after == Grants(scope, bucket, Window(scope)) \union {<<scope, bucket, Window(scope), q>>}
           IN  used = Cardinality(after) /\ used <= Limit[scope]
<1> DEFINE before == Grants(scope, bucket, Window(scope))
           unit == <<scope, bucket, Window(scope), q>>
<1>1. scope \in Scopes
    BY DEF Shortest
<1>2. IsFiniteSet(before) /\ unit \notin before
    BY FS_Subset DEF Grants, QInv, QuotaTyped
<1>3. Cardinality(before) \in Nat
    BY <1>2, FS_CardinalityType
<1>4. Cardinality(before \union {unit}) = Cardinality(before) + 1
    BY <1>2, FS_AddElement
<1>5. Limit[scope] \in Nat \ {0}
    BY <1>1, AuthAssumption
<1>6. CASE \E r \in Used(scope, bucket) : TRUE
    <2> DEFINE row == CHOOSE r \in Used(scope, bucket) : TRUE
    <2>1. row \in Used(scope, bucket)
        BY <1>6
    <2>2. row \in quota /\ row.scope = scope /\ row.bucket = bucket /\ row.window = Window(scope)
        BY <2>1 DEF Used, Recent
    <2>3. row.used = Cardinality(before)
        BY <2>2 DEF QInv, Counted
    <2>4. ~(row.used >= Limit[scope])
        BY <2>1 DEF Exhausted
    <2> HIDE DEF row
    <2>5. row.used + 1 = Cardinality(before \union {unit}) /\ row.used + 1 <= Limit[scope]
        BY <1>3, <1>4, <1>5, <2>3, <2>4
    <2> USE DEF row
    <2> QED
        BY <1>3, <1>6, <2>3, <2>5
<1>7. CASE ~\E r \in Used(scope, bucket) : TRUE
    <2>1. before = {}
        <3> SUFFICES ASSUME NEW g \in before PROVE FALSE
            OBVIOUS
        <3>1. PICK r \in quota : r.scope = scope /\ r.bucket = bucket /\ r.window = Window(scope)
            BY DEF Grants, QInv, Counted
        <3>2. r \in Recent(scope, bucket)
            BY <1>1, <3>1, RecentKeeps
        <3> QED
            BY <1>7, <3>1, <3>2 DEF Used
    <2>2. Cardinality(before) = 0
        BY <2>1, FS_EmptySet
    <2> QED
        BY <1>4, <1>5, <1>7, <2>2
<1> QED
    BY <1>6, <1>7

LEMMA ChargeStep ==
    ASSUME AInv, QInv, NEW q \in Requests, NEW scope \in Scopes, NEW bucket \in Buckets, Fits(scope, bucket),
           ~Exhausted(scope, bucket), Charge(q, scope, bucket), ~Spent(q, scope), now' = now
    PROVE  /\ quota' \subseteq [scope : Scopes, bucket : Buckets, window : Nat, used : Nat]
           /\ granted' = granted \union {<<scope, bucket, Window(scope), q>>}
           /\ IsFiniteSet(granted')
           /\ OneRow' /\ Counted' /\ QuotaHeld'
<1> DEFINE used == 1 + IF \E r \in Used(scope, bucket) : TRUE
                       THEN (CHOOSE r \in Used(scope, bucket) : TRUE).used ELSE 0
           new  == Unit(scope, bucket, used)
           unit == <<scope, bucket, Window(scope), q>>
<1>1. /\ quota' = (Recent(scope, bucket) \ Used(scope, bucket)) \union {new}
      /\ granted' = granted \union {unit}
    BY DEF Charge
<1>2. unit \notin granted
    BY DEF QInv, UnitsSpent
<1>3. now \in Nat /\ Window(scope) \in Nat /\ \A t : Window(t)' = Window(t)
    BY WindowTyped DEF AInv, AccountTyped, Window
<1>4. used \in Nat
    BY DEF Used, Recent, QInv, QuotaTyped
<1>5. scope \in Shortest =>
        used = Cardinality(Grants(scope, bucket, Window(scope)) \union {unit}) /\ used <= Limit[scope]
    BY <1>2, ChargeCounts
<1> HIDE DEF used
<1>6. new.scope = scope /\ new.bucket = bucket /\ new.window = Window(scope) /\ new.used = used
      /\ new \in [scope : Scopes, bucket : Buckets, window : Nat, used : Nat]
    BY <1>3, <1>4 DEF Unit
<1> HIDE DEF new
<1>7. unit[1] = scope /\ unit[2] = bucket /\ unit[3] = Window(scope) /\ unit[4] = q
    OBVIOUS
<1> HIDE DEF unit
<1>8. \A r \in quota' : r = new \/ (r \in quota /\ ~(r.scope = scope /\ r.bucket = bucket /\ r.window = Window(scope)))
    BY <1>1 DEF Used, Recent
<1>9. quota' \subseteq [scope : Scopes, bucket : Buckets, window : Nat, used : Nat]
    BY <1>6, <1>8 DEF QInv, QuotaTyped
<1>10. IsFiniteSet(granted')
    BY <1>1, FS_AddElement DEF QInv, QuotaTyped
<1>11. OneRow'
    BY <1>6, <1>8 DEF QInv, OneRow
<1>12. \A s, b, w : Grants(s, b, w)' =
          IF s = scope /\ b = bucket /\ w = Window(scope)
          THEN Grants(s, b, w) \union {unit} ELSE Grants(s, b, w)
    BY <1>1, <1>7 DEF Grants
<1>13. ASSUME NEW r \in quota', r.scope \in Shortest
       PROVE  r.used = Cardinality(Grants(r.scope, r.bucket, r.window)')
    <2>1. CASE r = new
        BY <1>5, <1>6, <1>12, <1>13, <2>1
    <2>2. CASE r # new
        BY <1>8, <1>12, <1>13, <2>2 DEF QInv, Counted
    <2> QED
        BY <2>1, <2>2
<1>14. ASSUME NEW g \in granted', g[1] \in Shortest, g[3] = Window(g[1])
       PROVE  \E r \in quota' : r.scope = g[1] /\ r.bucket = g[2] /\ r.window = g[3]
    <2>1. CASE g[1] = scope /\ g[2] = bucket
        BY <1>1, <1>6, <1>14, <2>1
    <2>2. CASE ~(g[1] = scope /\ g[2] = bucket)
        <3>1. g \in granted
            BY <1>1, <1>7, <2>2
        <3>2. PICK r \in quota : r.scope = g[1] /\ r.bucket = g[2] /\ r.window = g[3]
            BY <1>14, <3>1 DEF QInv, Counted
        <3>3. r \in Recent(scope, bucket) /\ r \notin Used(scope, bucket)
            BY <1>14, <2>2, <3>2, RecentKeeps DEF Used
        <3> QED
            BY <1>1, <3>2, <3>3
    <2> QED
        BY <2>1, <2>2
<1>15. Counted'
    BY <1>3, <1>13, <1>14 DEF Counted, Grants
<1>16. QuotaHeld'
    <2> SUFFICES ASSUME NEW s \in Shortest, NEW b \in Buckets, NEW g \in granted'
                 PROVE  Cardinality(Grants(s, b, g[3])') <= Limit[s]
        BY DEF QuotaHeld, Shortest, Grants
    <2>1. CASE s = scope /\ b = bucket /\ g[3] = Window(scope)
        BY <1>5, <1>12, <2>1
    <2>2. CASE ~(s = scope /\ b = bucket /\ g[3] = Window(scope))
        <3>1. Grants(s, b, g[3])' = Grants(s, b, g[3])
            BY <1>12, <2>2
        <3>3. CASE Grants(s, b, g[3]) = {}
            <4>1. s \in Scopes
                BY DEF Shortest
            <4>2. Cardinality({}) = 0 /\ Limit[s] \in Nat
                BY <4>1, FS_EmptySet, AuthAssumption
            <4> QED
                BY <3>1, <3>3, <4>2
        <3>4. CASE Grants(s, b, g[3]) # {}
            <4>1. PICK h \in granted : h[1] = s /\ h[2] = b /\ h[3] = g[3]
                BY <3>4 DEF Grants
            <4>2. Cardinality(Grants(s, b, h[3])) <= Limit[s]
                BY DEF QInv, QuotaHeld, Shortest, Grants
            <4> QED
                BY <3>1, <4>1, <4>2
        <3> QED
            BY <3>3, <3>4
    <2> QED
        BY <2>1, <2>2
<1> QED
    BY <1>1, <1>9, <1>10, <1>11, <1>15, <1>16 DEF unit

-----------------------------------------------------------------------------
(* Steps *)

\* A request is over when it was, keeps what it has asked, and is only admitted
\* to a conversation.
Proceeds(q) ==
    /\ now' = now
    /\ \A p \in Requests : p # q => request'[p] = request[p]
    /\ request[q].pc \in {"admitted", "over"} => request'[q].pc \in {"admitted", "over"}
    /\ request[q].asked \subseteq request'[q].asked
    /\ request'[q].pc = "admitted" => request'[q].conversation \in Conversations

\* A request draws on one bucket at most, and never twice for one scope.
Draws(q) ==
    \/ UNCHANGED <<quota, granted>>
    \/ \E scope \in Scopes, bucket \in Buckets :
         /\ Fits(scope, bucket)
         /\ \/ Refuse(scope, bucket)
            \/ ~Exhausted(scope, bucket) /\ Charge(q, scope, bucket) /\ ~Spent(q, scope) /\ Spent(q, scope)'

LEMMA SpentStays ==
    ASSUME NEW q \in Requests, Proceeds(q), NEW p \in Requests, NEW scope \in Scopes, Spent(p, scope)
    PROVE  Spent(p, scope)'
<1>1. CASE p = q
    BY <1>1 DEF Proceeds, Spent
<1>2. CASE p # q
    BY <1>2 DEF Proceeds, Spent
<1> QED
    BY <1>1, <1>2

\* A unit that a step grants.
FreshUnit(g) == g[1] \in Scopes /\ g[3] = Window(g[1]) /\ Spent(g[4], g[1])'

\* The units stay spent, and one granted now is of the window of now.
LEMMA UnitsStaySpent ==
    ASSUME AInv, QInv, NEW q \in Requests, Proceeds(q),
           \A g \in granted' : g \in granted \/ FreshUnit(g)
    PROVE  UnitsSpent'
<1>1. \A s : Window(s)' = Window(s)
    BY DEF Proceeds, Window
<1>2. ASSUME NEW g \in granted' PROVE Spent(g[4], g[1])' /\ g[3] <= Window(g[1])
    <2>1. CASE g \in granted
        <3>1. g[4] \in Requests /\ g[1] \in Scopes
            BY <2>1 DEF QInv, QuotaTyped
        <3> QED
            BY <2>1, <3>1, SpentStays DEF QInv, UnitsSpent
    <2>2. CASE g \notin granted
        <3>1. now \in Nat
            BY DEF AInv, AccountTyped
        <3>2. Window(g[1]) \in Nat
            BY <1>2, <2>2, <3>1, WindowTyped DEF FreshUnit
        <3> QED
            BY <1>2, <2>2, <3>2 DEF FreshUnit
    <2> QED
        BY <1>2, <2>1, <2>2
<1> QED
    BY <1>1, <1>2 DEF UnitsSpent

LEMMA DrawsStep ==
    ASSUME AInv, QInv, NEW q \in Requests, Proceeds(q), Draws(q)
    PROVE  QInv'
<1>1. now' = now /\ now \in Nat
    BY DEF Proceeds, AInv, AccountTyped
<1>2. \A p \in Requests : request'[p].pc = "admitted" => request'[p].conversation \in Conversations
    BY DEF Proceeds, QInv, QuotaTyped
<1>3. CASE UNCHANGED <<quota, granted>>
    <2>1. \A s : Window(s)' = Window(s)
        BY <1>1 DEF Window
    <2>2. QuotaTyped' /\ OneRow' /\ QuotaHeld'
        BY <1>2, <1>3 DEF QInv, QuotaTyped, OneRow, QuotaHeld
    <2>3. Counted'
        BY <1>3, <2>1 DEF QInv, Counted, Grants
    <2>4. UnitsSpent'
        BY <1>3, UnitsStaySpent
    <2> QED
        BY <2>2, <2>3, <2>4 DEF QInv
<1>4. ASSUME NEW scope \in Scopes, NEW bucket \in Buckets, Fits(scope, bucket), Refuse(scope, bucket)
      PROVE  QInv'
    <2>1. quota' \subseteq quota /\ granted' = granted /\ OneRow' /\ Counted' /\ QuotaHeld'
        BY <1>1, <1>4, RefuseStep
    <2>2. QuotaTyped'
        BY <1>2, <2>1 DEF QInv, QuotaTyped
    <2>3. UnitsSpent'
        BY <2>1, UnitsStaySpent
    <2> QED
        BY <2>1, <2>2, <2>3 DEF QInv
<1>5. ASSUME NEW scope \in Scopes, NEW bucket \in Buckets, Fits(scope, bucket),
             ~Exhausted(scope, bucket), Charge(q, scope, bucket), ~Spent(q, scope), Spent(q, scope)'
      PROVE  QInv'
    <2> DEFINE unit == <<scope, bucket, Window(scope), q>>
    <2>1. /\ quota' \subseteq [scope : Scopes, bucket : Buckets, window : Nat, used : Nat]
          /\ granted' = granted \union {unit} /\ IsFiniteSet(granted')
          /\ OneRow' /\ Counted' /\ QuotaHeld'
        BY <1>1, <1>5, ChargeStep
    <2>2. unit \in Scopes \X Buckets \X Nat \X Requests
        BY <1>1, WindowTyped
    <2>3. QuotaTyped'
        BY <1>2, <2>1, <2>2 DEF QInv, QuotaTyped
    <2>4. UnitsSpent'
        <3>1. unit[1] = scope /\ unit[3] = Window(scope) /\ unit[4] = q
            OBVIOUS
        <3>2. FreshUnit(unit)
            BY <1>5, <3>1 DEF FreshUnit, Spent
        <3> QED
            BY <2>1, <3>2, UnitsStaySpent
    <2> QED
        BY <2>1, <2>3, <2>4 DEF QInv
<1> QED
    BY <1>3, <1>4, <1>5 DEF Draws

\* A request whose record becomes another one.
LEMMA ProceedsTo ==
    ASSUME AInv, QInv, now' = now, NEW q \in Requests, NEW r, request' = [request EXCEPT ![q] = r],
           request[q].pc \in {"admitted", "over"} => r.pc \in {"admitted", "over"},
           request[q].asked \subseteq r.asked,
           r.pc = "admitted" => r.conversation \in Conversations
    PROVE  Proceeds(q) /\ request'[q] = r
<1>1. request \in [Requests -> RequestType]
    BY DEF AInv, RequestsTyped
<1> QED
    BY <1>1 DEF Proceeds

LEMMA EnterProceeds ==
    ASSUME AInv, QInv, NEW q \in Requests, EnterOperator(q) \/ \E b \in Browsers : Enter(q, b)
    PROVE  Proceeds(q) /\ Draws(q)
<1>1. request \in [Requests -> RequestType]
    BY DEF AInv, RequestsTyped
<1>2. now' = now /\ UNCHANGED <<quota, granted>> /\ request[q].pc = "new"
    BY DEF EnterOperator, Enter
<1>3. CASE EnterOperator(q)
    <2>1. request' = [request EXCEPT ![q].pc = "entered", ![q].party = Operator]
        BY <1>3 DEF EnterOperator
    <2> QED
        BY <1>1, <1>2, <2>1 DEF Proceeds, Draws, RequestType
<1>4. CASE \E b \in Browsers : Enter(q, b)
    <2>1. PICK b \in Browsers : Enter(q, b)
        BY <1>4
    <2>2. PICK s \in Authenticated(cookie[b]) :
            request' = [request EXCEPT ![q].pc = "entered", ![q].party = s.user,
                                       ![q].ledger = IF s.access > now THEN s.token ELSE None]
        BY <2>1 DEF Enter
    <2> QED
        BY <1>1, <1>2, <2>2 DEF Proceeds, Draws, RequestType
<1> QED
    BY <1>3, <1>4

\* Over and Admitted, from where a request has entered.
LEMMA EnteredProceeds ==
    ASSUME AInv, QInv, now' = now, NEW q \in Requests, request[q].pc = "entered",
           Over(q) \/ \E v \in Conversations : Admitted(q, v)
    PROVE  Proceeds(q) /\ request'[q].pc \in {"admitted", "over"}
<1>1. request \in [Requests -> RequestType]
    BY DEF AInv, RequestsTyped
<1>2. CASE Over(q)
    BY <1>1, <1>2 DEF Over, Proceeds, RequestType
<1>3. CASE \E v \in Conversations : Admitted(q, v)
    <2>1. PICK v \in Conversations : Admitted(q, v)
        BY <1>3
    <2> QED
        BY <1>1, <2>1 DEF Admitted, Proceeds, RequestType
<1> QED
    BY <1>2, <1>3

\* Chat and voice are charged as the request leaves "entered", to its user.
LEMMA VisitDraws ==
    ASSUME AInv, QInv, NEW q \in Requests, Visits(q), NEW scope \in {"chat", "voice"},
           request'[q].pc \in {"admitted", "over"},
           \/ Refuse(scope, request[q].party)
           \/ ~Exhausted(scope, request[q].party) /\ Charge(q, scope, request[q].party)
    PROVE  Draws(q)
<1>1. request[q].party \in Users
    BY DEF Visits, AInv, OwnTokens, Parties
<1> DEFINE user == request[q].party
<1>2. user \in Buckets /\ Fits(scope, user) /\ scope \in Scopes /\ scope \notin Tools
    BY <1>1, AuthAssumption DEF Buckets, Fits, Scopes, Tools
<1>3. ~Spent(q, scope) /\ Spent(q, scope)'
    BY <1>2 DEF Spent, Visits
<1>4. PICK bucket \in Buckets : bucket = user
    BY <1>2
<1> QED
    BY <1>2, <1>3, <1>4 DEF Draws

LEMMA RouteProceeds ==
    ASSUME AInv, QInv, NEW q \in Requests,
           \/ \E v \in Conversations : \/ Read(q, v) \/ ChatAnew(q, v) \/ ChatAsOperator(q, v)
                                       \/ \E claimed \in Users : Chat(q, v, claimed)
           \/ ChatOverLimit(q) \/ Voice(q)
    PROVE  Proceeds(q) /\ Draws(q)
<1>1. request[q].pc = "entered" /\ now' = now /\ (Over(q) \/ \E w \in Conversations : Admitted(q, w))
    BY DEF Read, ChatAnew, ChatAsOperator, Chat, ChatOverLimit, Voice, Visits
<1>2. Proceeds(q) /\ request'[q].pc \in {"admitted", "over"}
    BY <1>1, EnteredProceeds
<1>3. \/ UNCHANGED <<quota, granted>>
      \/ /\ Visits(q)
         /\ \E scope \in {"chat", "voice"} :
              \/ Refuse(scope, request[q].party)
              \/ ~Exhausted(scope, request[q].party) /\ Charge(q, scope, request[q].party)
    BY DEF Read, ChatAnew, ChatAsOperator, Chat, ChatOverLimit, Voice
<1>4. Draws(q)
    BY <1>2, <1>3, VisitDraws DEF Draws
<1> QED
    BY <1>2, <1>4

\* A tool is charged as it is asked, to the conversation.
LEMMA ToolProceeds ==
    ASSUME AInv, QInv, NEW q \in Requests, NEW scope \in Tools, Asks(q, scope), now' = now,
           NEW r, request' = [request EXCEPT ![q] = r],
           r.pc = request[q].pc /\ r.conversation = request[q].conversation,
           r.asked = request[q].asked \union {scope},
           \/ Refuse(scope, request[q].conversation)
           \/ ~Exhausted(scope, request[q].conversation) /\ Charge(q, scope, request[q].conversation)
    PROVE  Proceeds(q) /\ Draws(q)
<1> DEFINE place == request[q].conversation
<1>1. place \in Conversations
    BY DEF Asks, QInv, QuotaTyped
<1>2. Proceeds(q) /\ request'[q] = r
    BY <1>1, ProceedsTo DEF Asks
<1>3. place \in Buckets /\ Fits(scope, place) /\ scope \in Scopes
    BY <1>1, ScopesTyped DEF Buckets, Fits
<1>4. ~Spent(q, scope) /\ Spent(q, scope)'
    BY <1>2 DEF Spent, Asks
<1>5. PICK bucket \in Buckets : bucket = place
    BY <1>3
<1> QED
    BY <1>2, <1>3, <1>4, <1>5 DEF Draws

LEMMA ToolsProceed ==
    ASSUME AInv, QInv, NEW q \in Requests, Search(q) \/ Recall(q)
    PROVE  Proceeds(q) /\ Draws(q)
<1>1. request \in [Requests -> RequestType]
    BY DEF AInv, RequestsTyped
<1>2. CASE Search(q)
    <2> DEFINE r == [request[q] EXCEPT !.asked = @ \union {"web_search"}]
    <2>1. request' = [request EXCEPT ![q] = r]
        BY <1>1, <1>2 DEF Search
    <2>2. /\ r.pc = request[q].pc /\ r.conversation = request[q].conversation
          /\ r.asked = request[q].asked \union {"web_search"}
        BY <1>1 DEF RequestType
    <2> HIDE DEF r
    <2>3. "web_search" \in Tools /\ Asks(q, "web_search") /\ now' = now
        BY <1>2 DEF Search, Tools
    <2>4. \/ Refuse("web_search", request[q].conversation)
          \/ /\ ~Exhausted("web_search", request[q].conversation)
             /\ Charge(q, "web_search", request[q].conversation)
        BY <1>2 DEF Search
    <2> QED
        BY <2>1, <2>2, <2>3, <2>4, ToolProceeds
<1>3. CASE Recall(q)
    <2>1. "ledger_recall" \in Tools /\ Asks(q, "ledger_recall") /\ now' = now
        BY <1>3 DEF Recall, Tools
    <2>2. \/ Refuse("ledger_recall", request[q].conversation)
          \/ /\ ~Exhausted("ledger_recall", request[q].conversation)
             /\ Charge(q, "ledger_recall", request[q].conversation)
        BY <1>3 DEF Recall
    <2>3. \E sent : request' = [request EXCEPT ![q].asked = @ \union {"ledger_recall"}, ![q].sent = sent]
        <3>1. CASE request' = [request EXCEPT ![q].asked = @ \union {"ledger_recall"}]
            <4>1. [request EXCEPT ![q].asked = @ \union {"ledger_recall"}] =
                  [request EXCEPT ![q].asked = @ \union {"ledger_recall"}, ![q].sent = request[q].sent]
                BY <1>1 DEF RequestType
            <4> QED
                BY <3>1, <4>1
        <3>2. CASE request' = [request EXCEPT ![q].asked = @ \union {"ledger_recall"},
                    ![q].sent = IF request[q].party = Operator THEN @ ELSE client[request[q].party]]
            <4>1. request' = [request EXCEPT ![q].asked = @ \union {"ledger_recall"},
                    ![q].sent = IF request[q].party = Operator THEN request[q].sent
                                ELSE client[request[q].party]]
                BY <1>1, <3>2 DEF RequestType
            <4> QED
                BY <4>1
        <3> QED
            BY <1>3, <3>1, <3>2 DEF Recall
    <2>4. PICK sent : request' = [request EXCEPT ![q].asked = @ \union {"ledger_recall"}, ![q].sent = sent]
        BY <2>3
    <2> DEFINE r == [request[q] EXCEPT !.asked = @ \union {"ledger_recall"}, !.sent = sent]
    <2>5. request' = [request EXCEPT ![q] = r]
        BY <1>1, <2>4
    <2>6. /\ r.pc = request[q].pc /\ r.conversation = request[q].conversation
          /\ r.asked = request[q].asked \union {"ledger_recall"}
        BY <1>1 DEF RequestType
    <2> HIDE DEF r
    <2> QED
        BY <2>1, <2>2, <2>5, <2>6, ToolProceeds
<1> QED
    BY <1>2, <1>3

\* Time passes: no unit is of the new window yet when a new one begins.
LEMMA TickStep ==
    ASSUME AInv, QInv, Tick
    PROVE  QInv'
<1>1. /\ now \in Nat /\ now' = now + 1
      /\ quota' = quota /\ granted' = granted /\ request' = request
    BY DEF Tick, requestVars, AInv, AccountTyped
<1>2. QuotaTyped' /\ OneRow' /\ QuotaHeld'
    BY <1>1 DEF QInv, QuotaTyped, OneRow, QuotaHeld
<1>3. ASSUME NEW g \in granted
      PROVE  g[1] \in Scopes /\ g[3] \in Nat /\ g[3] <= Window(g[1]) /\ Spent(g[4], g[1])
    BY DEF QInv, QuotaTyped, UnitsSpent
<1>4. ASSUME NEW s \in Scopes PROVE Window(s) \in Nat /\ Window(s)' \in Nat /\ Window(s) <= Window(s)'
    BY <1>1, WindowTyped, WindowsPass
<1>5. UnitsSpent'
    <2> SUFFICES ASSUME NEW g \in granted PROVE Spent(g[4], g[1])' /\ g[3] <= Window(g[1])'
        BY <1>1 DEF UnitsSpent
    <2>1. PICK s \in Scopes : s = g[1]
        BY <1>3
    <2>2. g[3] <= Window(s)'
        BY <1>3, <1>4, <2>1
    <2> QED
        BY <1>1, <1>3, <2>1, <2>2 DEF Spent
<1>6. Counted'
    <2>1. ASSUME NEW g \in granted, g[1] \in Shortest, NEW s \in Scopes, s = g[1], g[3] = Window(s)'
          PROVE  \E r \in quota : r.scope = g[1] /\ r.bucket = g[2] /\ r.window = g[3]
        <3>1. g[3] = Window(g[1])
            BY <1>3, <1>4, <2>1
        <3> QED
            BY <2>1, <3>1 DEF QInv, Counted
    <2>2. \A g \in granted : g[1] \in Shortest /\ g[3] = Window(g[1])' =>
            \E r \in quota : r.scope = g[1] /\ r.bucket = g[2] /\ r.window = g[3]
        BY <1>3, <2>1
    <2> QED
        BY <1>1, <2>2 DEF QInv, Counted, Grants
<1> QED
    BY <1>2, <1>5, <1>6 DEF QInv

LEMMA IdleStep ==
    ASSUME AInv, QInv, now' = now, UNCHANGED requestVars
    PROVE  QInv'
<1>1. quota' = quota /\ granted' = granted /\ request' = request
    BY DEF requestVars
<1>2. \A s : Window(s)' = Window(s)
    BY DEF Window
<1> QED
    BY <1>1, <1>2 DEF QInv, QuotaTyped, OneRow, Counted, Grants, UnitsSpent, Spent, QuotaHeld

-----------------------------------------------------------------------------
(* Theorems *)

LEMMA InitQInv == Init => QInv
<1> SUFFICES ASSUME Init PROVE QInv
    OBVIOUS
<1>1. quota = {} /\ granted = {} /\ \A q \in Requests : request[q].pc = "new"
    BY DEF Init
<1>2. IsFiniteSet(granted)
    BY <1>1, FS_EmptySet
<1> QED
    BY <1>1, <1>2 DEF QInv, QuotaTyped, OneRow, Counted, UnitsSpent, QuotaHeld

LEMMA NextQInv == AInv /\ QInv /\ [Next]_vars => QInv'
<1> SUFFICES ASSUME AInv, QInv, [Next]_vars PROVE QInv'
    OBVIOUS
<1>1. CASE Account
    <2>1. now' = now /\ UNCHANGED requestVars
        BY <1>1 DEF Account, StartFlow, Consume, Exchanging, CallbackFails, Login, Logout, RevokeUser
    <2> QED
        BY <2>1, IdleStep
<1>2. CASE \E q \in Requests : Serve(q)
    <2>1. PICK q \in Requests : Serve(q)
        BY <1>2
    <2>2. Proceeds(q) /\ Draws(q)
        <3>1. CASE EnterOperator(q) \/ \E b \in Browsers : Enter(q, b)
            BY <3>1, EnterProceeds
        <3>2. CASE \/ \E v \in Conversations : \/ Read(q, v) \/ ChatAnew(q, v) \/ ChatAsOperator(q, v)
                                               \/ \E claimed \in Users : Chat(q, v, claimed)
                   \/ ChatOverLimit(q) \/ Voice(q)
            BY <3>2, RouteProceeds
        <3>3. CASE Search(q) \/ Recall(q)
            BY <3>3, ToolsProceed
        <3> QED
            BY <2>1, <3>1, <3>2, <3>3 DEF Serve
    <2> QED
        BY <2>2, DrawsStep
<1>3. CASE UNCHANGED vars
    BY <1>3, IdleStep DEF vars, requestVars
<1> QED
    BY <1>1, <1>2, <1>3, TickStep DEF Next

\* In one window a scope grants a bucket no more than its limit: the row that
\* counts the window is never taken by a charge of another scope that shares
\* the bucket, for the windows of that scope are at least as long.
THEOREM QuotasHold == Spec => []QuotaHeld
<1>1. QInv => QuotaHeld
    BY DEF QInv
<1>2. Spec => []QInv
    BY AuthHolds, InitQInv, NextQInv, PTL DEF Spec
<1> QED
    BY <1>1, <1>2, PTL

\* The variables of Auth stay in their ranges.
THEOREM AuthTyped == Spec => []TypeOK
<1>1. AInv /\ QInv => TypeOK
    BY DEF AInv, AccountTyped, CallbackType, RequestsTyped, RequestType, QInv, QuotaTyped, TypeOK
<1>2. Spec => []QInv
    BY AuthHolds, InitQInv, NextQInv, PTL DEF Spec
<1> QED
    BY <1>1, <1>2, AuthHolds, PTL

=============================================================================
