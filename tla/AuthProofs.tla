------------------------------ MODULE AuthProofs ------------------------------
(***************************************************************************)
(* Theorems about Auth: for any users, browsers, flows, callbacks,         *)
(* requests and conversations, any limits and any clock.                   *)
(***************************************************************************)
EXTENDS Auth, FiniteSetTheorems, TLAPS

-----------------------------------------------------------------------------
(* The strengthening *)

CallbackType ==
    [pc : {"new", "exchanging", "done", "failed"}, flow : Flows \union {None},
     browser : Browsers \union {None}, old : Tokens \union {None}, user : Users \union {None}]

AccountTyped ==
    /\ now \in Nat
    /\ issued \in [Flows -> [browser : Browsers \union {None}, expires : Nat]]
    /\ flows \subseteq Flows
    /\ callback \in [Callbacks -> CallbackType]
    /\ sessions \subseteq SessionType(Tokens)
    /\ disabled \subseteq Users
    /\ cookie \in [Browsers -> Tokens \union {None}]

RequestType ==
    [pc : {"new", "entered", "admitted", "over"}, party : Parties \union {None},
     ledger : Tokens \union {None}, conversation : Conversations \union {None},
     asked : SUBSET Tools, sent : Tokens \union {None}]

RequestsTyped ==
    /\ request \in [Requests -> RequestType]
    /\ owner \in [Conversations -> Users \union {None}]
    /\ parties \in [Conversations -> SUBSET Parties]
    /\ client \in [Users -> Tokens \union {None}]

\* A consumed flow belongs to one callback and is not in the table any more.
FlowsConsumed ==
    /\ \A f \in flows : issued[f].browser # None
    /\ \A c \in Callbacks :
         callback[c].flow # None =>
           /\ callback[c].flow \in Flows \ flows /\ callback[c].browser # None
           /\ issued[callback[c].flow].browser = callback[c].browser
           /\ \A d \in Callbacks : callback[d].flow = callback[c].flow => d = c
    /\ \A c \in Callbacks : callback[c].pc = "new" => callback[c].flow = None

\* The token was made for the user: by a login, or before this process.
MadeFor(token, u) ==
    \/ \E s \in Stored : s.token = token /\ s.user = u
    \/ token \in Callbacks /\ callback[token].pc = "done" /\ callback[token].user = u

SessionsMade == \A s \in sessions : MadeFor(s.token, s.user)

\* Whoever has been authenticated is known, and ledger tokens are his own.
OwnTokens ==
    /\ \A q \in Requests :
         /\ request[q].pc # "new" => request[q].party \in Parties
         /\ request[q].ledger # None => MadeFor(request[q].ledger, request[q].party)
         /\ request[q].pc = "new" => request[q].ledger = None /\ request[q].sent = None
         /\ request[q].sent # None => MadeFor(request[q].sent, request[q].party)
    /\ \A u \in Users : client[u] # None => MadeFor(client[u], u)

AInv ==
    /\ AccountTyped /\ RequestsTyped /\ FlowsConsumed /\ SessionsMade /\ OwnTokens
    /\ DisabledHaveNoSession /\ OneParty /\ IsFiniteSet(sessions) /\ SessionsCapped

-----------------------------------------------------------------------------
LEMMA TokensTyped ==
    /\ Callbacks \subseteq Tokens /\ None \notin Tokens
    /\ \A s \in Stored : s.token \in Tokens /\ s \in SessionType(Tokens)
<1>1. \A s \in Stored : s.token \in {t.token : t \in Stored}
    OBVIOUS
<1> QED
    BY <1>1, AuthAssumption, StoredAssumption DEF Tokens, SessionType

\* A token was made for one user, and UserOf knows him.
LEMMA UserOfMade ==
    ASSUME NEW token, NEW u, MadeFor(token, u)
    PROVE  UserOf(token) = u
<1>1. CASE token \in Callbacks
    <2>1. ~\E s \in Stored : s.token = token
        BY <1>1, StoredAssumption
    <2> QED
        BY <1>1, <2>1 DEF MadeFor, UserOf
<1>2. CASE token \notin Callbacks
    <2>1. PICK s \in Stored : s.token = token /\ s.user = u
        BY <1>2 DEF MadeFor
    <2>2. \A t \in Stored : t.token = token => t = s
        BY <2>1, StoredAssumption
    <2>3. (CHOOSE t \in Stored : t.token = token) = s
        BY <2>1, <2>2
    <2> QED
        BY <1>2, <2>1, <2>3 DEF UserOf
<1> QED
    BY <1>1, <1>2

LEMMA InitAInv == Init => AInv
<1> SUFFICES ASSUME Init PROVE AInv
    OBVIOUS
<1> USE DEF Init
<1>1. AccountTyped
    <2>1. NotIssued \in [browser : Browsers \union {None}, expires : Nat]
        BY DEF NotIssued
    <2>2. callback \in [Callbacks -> CallbackType]
        BY DEF CallbackType
    <2>3. cookie \in [Browsers -> Tokens \union {None}]
        BY DEF Tokens
    <2> QED
        BY <2>1, <2>2, <2>3, TokensTyped DEF AccountTyped
<1>2. RequestsTyped
    <2>1. request \in [Requests -> RequestType]
        BY DEF RequestType
    <2> QED
        BY <2>1 DEF RequestsTyped
<1>3. FlowsConsumed /\ SessionsMade /\ OwnTokens
    BY DEF FlowsConsumed, SessionsMade, MadeFor, OwnTokens
<1>4. DisabledHaveNoSession /\ OneParty
    BY DEF DisabledHaveNoSession, OneParty
<1>5. IsFiniteSet(sessions) /\ SessionsCapped
    BY StoredAssumption DEF SessionsCapped, SessionsOf
<1> QED
    BY <1>1, <1>2, <1>3, <1>4, <1>5 DEF AInv

-----------------------------------------------------------------------------
(* Steps of accounts *)

\* What steps of accounts keep of the requests: tokens stay made for their user.
LEMMA RequestsUntouched ==
    ASSUME AInv, UNCHANGED requestVars,
           \A c \in Callbacks : callback[c].pc = "done" => callback'[c] = callback[c]
    PROVE  RequestsTyped' /\ OwnTokens' /\ OneParty'
<1> USE DEF requestVars, AInv
<1>1. RequestsTyped' /\ OneParty'
    BY DEF RequestsTyped, OneParty
<1>2. OwnTokens'
    BY DEF OwnTokens, MadeFor
<1> QED
    BY <1>1, <1>2

\* Fewer sessions of fewer users need nothing new.
LEMMA FewerSessions ==
    ASSUME AInv, sessions' \subseteq sessions, \A s \in sessions' : s.user \notin disabled',
           \A c \in Callbacks : callback[c].pc = "done" => callback'[c] = callback[c]
    PROVE  SessionsMade' /\ DisabledHaveNoSession' /\ IsFiniteSet(sessions') /\ SessionsCapped'
<1>1. SessionsMade'
    BY DEF AInv, SessionsMade, MadeFor
<1>2. DisabledHaveNoSession'
    BY DEF DisabledHaveNoSession
<1>3. IsFiniteSet(sessions')
    BY FS_Subset DEF AInv
<1>4. ASSUME NEW u \in Users
      PROVE  Cardinality(SessionsOf(u, sessions')) <= SessionCap
    <2>1. SessionsOf(u, sessions') \subseteq SessionsOf(u, sessions) /\ IsFiniteSet(SessionsOf(u, sessions))
        BY FS_Subset DEF SessionsOf, AInv
    <2>2. Cardinality(SessionsOf(u, sessions)) <= SessionCap
        BY DEF AInv, SessionsCapped
    <2> QED
        BY <2>1, <2>2, FS_Subset, FS_CardinalityType, AuthAssumption
<1> QED
    BY <1>1, <1>2, <1>3, <1>4 DEF SessionsCapped

LEMMA StartFlowStep ==
    ASSUME AInv, NEW f \in Flows, NEW b \in Browsers, StartFlow(f, b)
    PROVE  AInv'
<1> USE DEF StartFlow
<1>1. /\ issued[f] = NotIssued /\ issued' = [issued EXCEPT ![f] = [browser |-> b, expires |-> now + FlowLife]]
      /\ flows' \subseteq flows \union {f} /\ b # None
      /\ UNCHANGED <<now, callback, sessions, disabled, cookie, requestVars>>
    BY AuthAssumption
<1> HIDE DEF StartFlow
<1>2. AccountTyped'
    BY <1>1, AuthAssumption DEF AInv, AccountTyped
<1>3. \A g \in Flows : g # f => issued'[g] = issued[g]
    BY <1>1 DEF AInv, AccountTyped
<1>4. \A c \in Callbacks : callback[c].flow # f
    BY <1>1, AuthAssumption DEF AInv, AccountTyped, CallbackType, FlowsConsumed, NotIssued
<1>5. FlowsConsumed'
    BY <1>1, <1>3, <1>4 DEF AInv, AccountTyped, FlowsConsumed
<1> QED
    BY <1>1, <1>2, <1>5, RequestsUntouched, FewerSessions DEF AInv, DisabledHaveNoSession

LEMMA ConsumeStep ==
    ASSUME AInv, NEW c \in Callbacks, NEW f \in Flows, NEW b \in Browsers, Consume(c, f, b)
    PROVE  AInv'
<1>1. /\ callback[c].pc = "new" /\ f \in flows /\ issued[f].browser = b
      /\ flows' = flows \ {f}
      /\ callback' = [callback EXCEPT ![c] = [pc |-> "exchanging", flow |-> f, browser |-> b,
                                              old |-> cookie[b], user |-> None]]
      /\ UNCHANGED <<now, issued, sessions, disabled, cookie, requestVars>>
    BY DEF Consume, CanConsume, Exchanging
<1>2. AccountTyped'
    BY <1>1 DEF AInv, AccountTyped, CallbackType
<1>3. \A d \in Callbacks : d # c => callback'[d] = callback[d]
    BY <1>1 DEF AInv, AccountTyped
<1>4. \A d \in Callbacks : callback[d].flow # f
    BY <1>1, AuthAssumption DEF AInv, FlowsConsumed
<1>5. callback'[c].flow = f /\ callback'[c].browser = b /\ callback'[c].pc = "exchanging" /\ b # None
    BY <1>1, AuthAssumption DEF AInv, AccountTyped
<1>6. FlowsConsumed'
    BY <1>1, <1>3, <1>4, <1>5 DEF AInv, FlowsConsumed
<1> QED
    BY <1>1, <1>2, <1>3, <1>6, RequestsUntouched, FewerSessions DEF AInv, DisabledHaveNoSession

\* A step that neither consumes a flow nor takes one back.
LEMMA SameFlows ==
    ASSUME FlowsConsumed, UNCHANGED <<issued, flows>>,
           \A d \in Callbacks : /\ callback'[d].flow = callback[d].flow
                                /\ callback'[d].browser = callback[d].browser
                                /\ callback'[d].pc = "new" => callback[d].pc = "new"
    PROVE  FlowsConsumed'
<1>1. \A f \in flows' : issued'[f].browser # None
    BY DEF FlowsConsumed
<1>2. \A d \in Callbacks : callback'[d].pc = "new" => callback'[d].flow = None
    BY DEF FlowsConsumed
<1>3. ASSUME NEW d \in Callbacks, callback'[d].flow # None
      PROVE  /\ callback'[d].flow \in Flows \ flows' /\ callback'[d].browser # None
             /\ issued'[callback'[d].flow].browser = callback'[d].browser
             /\ \A e \in Callbacks : callback'[e].flow = callback'[d].flow => e = d
    BY <1>3 DEF FlowsConsumed
<1> QED
    BY <1>1, <1>2, <1>3 DEF FlowsConsumed

LEMMA CallbackFailsStep ==
    ASSUME AInv, NEW c \in Callbacks, CallbackFails(c)
    PROVE  AInv'
<1>1. /\ callback[c].pc \in {"new", "exchanging"}
      /\ UNCHANGED <<now, issued, flows, sessions, disabled, cookie, requestVars>>
    BY DEF CallbackFails
<1>2. /\ callback'[c] = [callback[c] EXCEPT !.pc = "failed"]
      /\ \A d \in Callbacks : d # c => callback'[d] = callback[d]
      /\ callback' \in [Callbacks -> CallbackType]
    BY DEF CallbackFails, AInv, AccountTyped, CallbackType
<1>3. \A d \in Callbacks : callback'[d].flow = callback[d].flow /\ callback'[d].browser = callback[d].browser
    BY <1>2 DEF AInv, AccountTyped, CallbackType
<1>4. callback'[c].pc = "failed"
    BY <1>2 DEF AInv, AccountTyped, CallbackType
<1>5. AccountTyped'
    BY <1>1, <1>2 DEF AInv, AccountTyped
<1>6. \A d \in Callbacks : callback'[d].pc = "new" => callback[d].pc = "new"
    BY <1>2, <1>4
<1>7. FlowsConsumed'
    BY <1>1, <1>3, <1>6, SameFlows DEF AInv
<1> QED
    BY <1>1, <1>2, <1>5, <1>7, RequestsUntouched, FewerSessions DEF AInv, DisabledHaveNoSession

\* Logging out and revoking remove sessions; revoking removes all of the user.
LEMMA LogoutStep ==
    ASSUME AInv, NEW b \in Browsers, Logout(b)
    PROVE  AInv'
<1>1. /\ sessions' \subseteq sessions /\ cookie' = [cookie EXCEPT ![b] = None]
      /\ UNCHANGED <<now, issued, flows, callback, disabled, requestVars>>
    BY DEF Logout
<1>2. AccountTyped' /\ FlowsConsumed'
    BY <1>1 DEF AInv, AccountTyped, FlowsConsumed
<1> QED
    BY <1>1, <1>2, RequestsUntouched, FewerSessions DEF AInv, DisabledHaveNoSession

LEMMA RevokeStep ==
    ASSUME AInv, NEW u \in Users, NEW disable \in BOOLEAN, RevokeUser(u, disable)
    PROVE  AInv'
<1>1. /\ sessions' = sessions \ SessionsOf(u, sessions) /\ disabled' \subseteq disabled \union {u}
      /\ UNCHANGED <<now, issued, flows, callback, cookie, requestVars>>
    BY DEF RevokeUser
<1>2. AccountTyped' /\ FlowsConsumed'
    BY <1>1 DEF AInv, AccountTyped, FlowsConsumed
<1>3. \A s \in sessions' : s.user \notin disabled'
    BY <1>1 DEF SessionsOf, AInv, DisabledHaveNoSession
<1> QED
    BY <1>1, <1>2, <1>3, RequestsUntouched, FewerSessions DEF AInv

\* What a login keeps of the user's sessions leaves room for the new one.
LEMMA NewestLeavesRoom ==
    ASSUME NEW rows, IsFiniteSet(rows), NEW kept \in Newest(rows)
    PROVE  /\ kept \subseteq rows /\ IsFiniteSet(kept)
           /\ Cardinality(kept) <= SessionCap - 1
           /\ Cardinality(rows) < SessionCap => kept = rows
           /\ Cardinality(rows) >= SessionCap => Cardinality(kept) = SessionCap - 1
<1>1. kept \subseteq rows /\ IsFiniteSet(kept) /\ Cardinality(rows) \in Nat
    BY FS_Subset, FS_CardinalityType DEF Newest
<1>2. Cardinality(kept) = IF Cardinality(rows) < SessionCap THEN Cardinality(rows) ELSE SessionCap - 1
    BY DEF Newest
<1>3. Cardinality(rows) < SessionCap => kept = rows
    BY <1>1, <1>2, FS_Subset
<1> QED
    BY <1>1, <1>2, <1>3, AuthAssumption

LEMMA LoginStep ==
    ASSUME AInv, NEW c \in Callbacks, NEW u \in Users, Login(c, u)
    PROVE  AInv'
<1> DEFINE live == {s \in sessions : s.expires > now /\ s.token # callback[c].old}
           new  == Session(c, u)
<1>1. PICK kept \in Newest(SessionsOf(u, live)) :
        sessions' = (live \ SessionsOf(u, live)) \union kept \union {new}
    BY DEF Login
<1>2. /\ callback[c].pc = "exchanging" /\ u \notin disabled
      /\ cookie' = [cookie EXCEPT ![callback[c].browser] = c]
      /\ UNCHANGED <<now, issued, flows, disabled, requestVars>>
    BY DEF Login, MayLogin
<1>3. /\ callback'[c] = [callback[c] EXCEPT !.pc = "done", !.user = u]
      /\ \A d \in Callbacks : d # c => callback'[d] = callback[d]
      /\ callback' \in [Callbacks -> CallbackType]
    BY DEF Login, AInv, AccountTyped, CallbackType
<1>4. /\ callback'[c].pc = "done" /\ callback'[c].user = u /\ callback'[c].flow = callback[c].flow
      /\ callback'[c].browser = callback[c].browser
    BY <1>3 DEF AInv, AccountTyped, CallbackType
<1>5. new \in SessionType(Tokens) /\ new.token = c /\ new.user = u
    BY TokensTyped, AuthAssumption DEF Session, SessionType, AInv, AccountTyped
<1> HIDE DEF new
<1>6. live \subseteq sessions /\ IsFiniteSet(SessionsOf(u, live)) /\ IsFiniteSet(live)
    BY FS_Subset DEF AInv, SessionsOf
<1>7. kept \subseteq SessionsOf(u, live) /\ IsFiniteSet(kept) /\ Cardinality(kept) <= SessionCap - 1
    BY <1>6, NewestLeavesRoom
<1>8. sessions' \subseteq live \union {new}
    BY <1>1, <1>7 DEF SessionsOf
<1>9. AccountTyped'
    BY <1>2, <1>3, <1>5, <1>6, <1>8, TokensTyped DEF AInv, AccountTyped
<1>10. FlowsConsumed'
    BY <1>2, <1>3, <1>4, SameFlows DEF AInv
<1>11. SessionsMade'
    <2> SUFFICES ASSUME NEW s \in sessions' PROVE MadeFor(s.token, s.user)'
        BY DEF SessionsMade
    <2>1. CASE s = new
        BY <1>4, <1>5, <2>1 DEF MadeFor
    <2>2. CASE s \in sessions
        <3>1. MadeFor(s.token, s.user)
            BY <2>2 DEF AInv, SessionsMade
        <3> QED
            BY <1>2, <1>3, <3>1 DEF MadeFor
    <2> QED
        BY <1>6, <1>8, <2>1, <2>2
<1>12. DisabledHaveNoSession'
    BY <1>2, <1>5, <1>6, <1>8 DEF AInv, DisabledHaveNoSession
<1>13. IsFiniteSet(sessions')
    BY <1>6, <1>8, FS_Subset, FS_AddElement
<1>14. ASSUME NEW v \in Users
       PROVE  Cardinality(SessionsOf(v, sessions')) <= SessionCap
    <2>1. CASE v = u
        <3>1. SessionsOf(u, sessions') \subseteq kept \union {new}
            BY <1>1, <1>5 DEF SessionsOf
        <3>2. IsFiniteSet(kept \union {new}) /\ Cardinality(kept \union {new}) <= Cardinality(kept) + 1
            <4>1. Cardinality(kept) \in Nat
                BY <1>7, FS_CardinalityType
            <4>2. IsFiniteSet(kept \union {new})
                BY <1>7, FS_AddElement
            <4>3. Cardinality(kept \union {new}) =
                    IF new \in kept THEN Cardinality(kept) ELSE Cardinality(kept) + 1
                BY <1>7, FS_AddElement
            <4> QED
                BY <4>1, <4>2, <4>3
        <3>3. Cardinality(SessionsOf(u, sessions')) <= Cardinality(kept \union {new})
            BY <3>1, <3>2, FS_Subset
        <3> QED
            BY <1>7, <2>1, <3>1, <3>2, <3>3, FS_Subset, FS_CardinalityType, AuthAssumption
    <2>2. CASE v # u
        <3>1. SessionsOf(v, sessions') \subseteq SessionsOf(v, sessions)
            BY <1>5, <1>6, <1>8, <2>2 DEF SessionsOf
        <3>2. IsFiniteSet(SessionsOf(v, sessions)) /\ Cardinality(SessionsOf(v, sessions)) <= SessionCap
            BY FS_Subset DEF SessionsOf, AInv, SessionsCapped
        <3> QED
            BY <3>1, <3>2, FS_Subset, FS_CardinalityType, AuthAssumption
    <2> QED
        BY <2>1, <2>2
<1>15. \A d \in Callbacks : callback[d].pc = "done" => callback'[d] = callback[d]
    BY <1>2, <1>3
<1> QED
    BY <1>2, <1>9, <1>10, <1>11, <1>12, <1>13, <1>14, <1>15, RequestsUntouched DEF AInv, SessionsCapped

-----------------------------------------------------------------------------
(* Steps of requests *)

\* What a step of a request keeps: everything of the accounts.
LEMMA AccountsUntouched ==
    ASSUME AInv, UNCHANGED accountVars, now' \in Nat
    PROVE  /\ AccountTyped' /\ FlowsConsumed' /\ SessionsMade' /\ DisabledHaveNoSession'
           /\ IsFiniteSet(sessions') /\ SessionsCapped'
           /\ \A token, u : MadeFor(token, u)' <=> MadeFor(token, u)
<1> USE DEF accountVars, AInv
<1>1. AccountTyped' /\ FlowsConsumed'
    BY DEF AccountTyped, FlowsConsumed
<1>2. SessionsMade' /\ \A token, u : MadeFor(token, u)' <=> MadeFor(token, u)
    BY DEF SessionsMade, MadeFor
<1>3. DisabledHaveNoSession' /\ IsFiniteSet(sessions') /\ SessionsCapped'
    BY DEF DisabledHaveNoSession, SessionsCapped, SessionsOf
<1> QED
    BY <1>1, <1>2, <1>3

\* One request goes on, for the party it was authenticated for and with the
\* tokens it has; clients and owners stay what they are.
GoesOn(q) ==
    /\ request' \in [Requests -> RequestType]
    /\ request'[q].pc # "new" /\ request[q].pc # "new"
    /\ request'[q].party = request[q].party /\ request'[q].ledger = request[q].ledger
    /\ \A p \in Requests : p # q => request'[p] = request[p]

LEMMA GoesOnKeepsTokens ==
    ASSUME AInv, UNCHANGED accountVars, now' \in Nat, NEW q \in Requests, GoesOn(q),
           \/ request'[q].sent = request[q].sent
           \/ request'[q].sent # None => MadeFor(request'[q].sent, request[q].party),
           \A u \in Users : client'[u] # None => MadeFor(client'[u], u)
    PROVE  OwnTokens'
<1>2. ASSUME NEW p \in Requests
      PROVE  /\ request'[p].pc # "new" => request'[p].party \in Parties
             /\ request'[p].ledger # None => MadeFor(request'[p].ledger, request'[p].party)
             /\ request'[p].pc = "new" => request'[p].ledger = None /\ request'[p].sent = None
             /\ request'[p].sent # None => MadeFor(request'[p].sent, request'[p].party)
    <2>1. CASE p = q
        BY <2>1 DEF GoesOn, AInv, OwnTokens
    <2>2. CASE p # q
        BY <2>2 DEF GoesOn, AInv, OwnTokens
    <2> QED
        BY <2>1, <2>2
<1> QED
    BY <1>2 DEF OwnTokens, MadeFor, accountVars

\* The client a request leaves its account is the one it was given.
LEMMA BindOwn ==
    ASSUME AInv, NEW q \in Requests, request[q].pc # "new", request[q].party # Operator, Bind(q)
    PROVE  /\ client' \in [Users -> Tokens \union {None}]
           /\ \A u \in Users : client'[u] # None => MadeFor(client'[u], u)
<1>1. request[q].party \in Users /\ request[q].ledger \in Tokens \union {None}
    BY DEF AInv, RequestsTyped, RequestType, OwnTokens, Parties
<1>2. client \in [Users -> Tokens \union {None}]
    BY DEF AInv, RequestsTyped
<1>3. request[q].ledger # None => MadeFor(request[q].ledger, request[q].party)
    BY DEF AInv, OwnTokens
<1>4. client' = [client EXCEPT ![request[q].party] = request[q].ledger]
    BY DEF Bind
<1>5. \A u \in Users : client[u] # None => MadeFor(client[u], u)
    BY DEF AInv, OwnTokens
<1> QED
    BY <1>1, <1>2, <1>3, <1>4, <1>5

LEMMA EnterStep ==
    ASSUME AInv, NEW q \in Requests, NEW b \in Browsers, Enter(q, b)
    PROVE  AInv'
<1>1. PICK s \in Authenticated(cookie[b]) :
        request' = [request EXCEPT ![q].pc = "entered", ![q].party = s.user,
                                   ![q].ledger = IF s.access > now THEN s.token ELSE None]
    BY DEF Enter
<1>2. request[q].pc = "new" /\ UNCHANGED <<now, accountVars, owner, parties, client>>
    BY DEF Enter
<1>3. s \in sessions /\ s.user \in Users /\ s.token \in Tokens /\ MadeFor(s.token, s.user)
    BY DEF Authenticated, AInv, AccountTyped, SessionType, SessionsMade
<1>4. /\ request' \in [Requests -> RequestType]
      /\ \A p \in Requests : p # q => request'[p] = request[p]
      /\ request'[q].pc = "entered" /\ request'[q].party = s.user
      /\ request'[q].ledger \in {s.token, None} /\ request'[q].sent = request[q].sent
    <2> DEFINE ledger == IF s.access > now THEN s.token ELSE None
               entered == [request[q] EXCEPT !.pc = "entered", !.party = s.user, !.ledger = ledger]
    <2>1. ledger \in {s.token, None} /\ ledger \in Tokens \union {None}
        BY <1>3
    <2> HIDE DEF ledger
    <2>2. request \in [Requests -> RequestType] /\ request' = [request EXCEPT ![q] = entered]
        BY <1>1 DEF AInv, RequestsTyped, ledger
    <2>3. entered \in RequestType /\ entered.pc = "entered" /\ entered.party = s.user
          /\ entered.ledger = ledger /\ entered.sent = request[q].sent
        BY <1>3, <2>1, <2>2 DEF RequestType, Parties
    <2> HIDE DEF entered
    <2> QED
        BY <2>1, <2>2, <2>3
<1>5. now' \in Nat
    BY <1>2 DEF AInv, AccountTyped
<1>7. OwnTokens'
    <2>1. \A p \in Requests :
            /\ request'[p].pc # "new" => request'[p].party \in Parties
            /\ request'[p].ledger # None => MadeFor(request'[p].ledger, request'[p].party)
            /\ request'[p].pc = "new" => request'[p].ledger = None /\ request'[p].sent = None
            /\ request'[p].sent # None => MadeFor(request'[p].sent, request'[p].party)
        BY <1>2, <1>3, <1>4 DEF AInv, OwnTokens, Parties
    <2>2. \A u \in Users : client'[u] # None => MadeFor(client'[u], u)
        BY <1>2 DEF AInv, OwnTokens
    <2> QED
        BY <1>2, <2>1, <2>2 DEF OwnTokens, MadeFor, accountVars
<1>8. RequestsTyped' /\ OneParty'
    BY <1>2, <1>4 DEF AInv, RequestsTyped, OneParty
<1> QED
    BY <1>2, <1>5, <1>7, <1>8, AccountsUntouched DEF AInv

LEMMA EnterOperatorStep ==
    ASSUME AInv, NEW q \in Requests, EnterOperator(q)
    PROVE  AInv'
<1>1. /\ request[q].pc = "new" /\ UNCHANGED <<now, accountVars, owner, parties, client>>
      /\ request' = [request EXCEPT ![q].pc = "entered", ![q].party = Operator]
    BY DEF EnterOperator
<1>2. /\ request' \in [Requests -> RequestType]
      /\ \A p \in Requests : p # q => request'[p] = request[p]
      /\ request'[q].pc = "entered" /\ request'[q].party = Operator
      /\ request'[q].ledger = request[q].ledger /\ request'[q].sent = request[q].sent
    <2> DEFINE entered == [request[q] EXCEPT !.pc = "entered", !.party = Operator]
    <2>1. request \in [Requests -> RequestType] /\ request' = [request EXCEPT ![q] = entered]
        BY <1>1 DEF AInv, RequestsTyped
    <2>2. entered \in RequestType /\ entered.pc = "entered" /\ entered.party = Operator
          /\ entered.ledger = request[q].ledger /\ entered.sent = request[q].sent
        BY <2>1 DEF RequestType, Parties
    <2> HIDE DEF entered
    <2> QED
        BY <2>1, <2>2
<1>3. now' \in Nat
    BY <1>1 DEF AInv, AccountTyped
<1>4. OwnTokens'
    <2>1. \A p \in Requests :
            /\ request'[p].pc # "new" => request'[p].party \in Parties
            /\ request'[p].ledger # None => MadeFor(request'[p].ledger, request'[p].party)
            /\ request'[p].pc = "new" => request'[p].ledger = None /\ request'[p].sent = None
            /\ request'[p].sent # None => MadeFor(request'[p].sent, request'[p].party)
        BY <1>1, <1>2 DEF AInv, OwnTokens, Parties
    <2>2. \A u \in Users : client'[u] # None => MadeFor(client'[u], u)
        BY <1>1 DEF AInv, OwnTokens
    <2> QED
        BY <1>1, <2>1, <2>2 DEF OwnTokens, MadeFor, accountVars
<1>5. RequestsTyped' /\ OneParty'
    BY <1>1, <1>2 DEF AInv, RequestsTyped, OneParty
<1> QED
    BY <1>1, <1>3, <1>4, <1>5, AccountsUntouched DEF AInv

\* A request is over, or admitted to a conversation, or has asked a tool.
LEMMA GoingOn ==
    ASSUME AInv, NEW q \in Requests, request[q].pc # "new", UNCHANGED <<now, accountVars>>
    PROVE  /\ now' \in Nat
           /\ Over(q) => GoesOn(q) /\ request'[q].sent = request[q].sent
           /\ \A v \in Conversations : Admitted(q, v) => GoesOn(q) /\ request'[q].sent = request[q].sent
<1>1. now' \in Nat /\ request \in [Requests -> RequestType]
    BY DEF AInv, AccountTyped, RequestsTyped
<1>2. ASSUME Over(q) PROVE GoesOn(q) /\ request'[q].sent = request[q].sent
    BY <1>1, <1>2 DEF Over, GoesOn, RequestType
<1>3. ASSUME NEW v \in Conversations, Admitted(q, v)
      PROVE  GoesOn(q) /\ request'[q].sent = request[q].sent
    BY <1>1, <1>3 DEF Admitted, GoesOn, RequestType
<1> QED
    BY <1>1, <1>2, <1>3

\* Whoever is let into a conversation may use it.
LEMMA LettingIn ==
    ASSUME AInv, NEW q \in Requests, NEW v \in Conversations, request[q].pc # "new",
           MayUse(request[q].party, v), LetIn(q, v), owner' = owner
    PROVE  OneParty' /\ parties' \in [Conversations -> SUBSET Parties]
<1>1. request[q].party \in Parties /\ parties \in [Conversations -> SUBSET Parties]
    BY DEF AInv, OwnTokens, RequestsTyped
<1>2. request[q].party = IF owner[v] = None THEN Operator ELSE owner[v]
    BY <1>1, AuthAssumption DEF MayUse, Parties
<1>3. parties' = [parties EXCEPT ![v] = @ \union {request[q].party}]
    BY DEF LetIn
<1> QED
    BY <1>1, <1>2, <1>3 DEF AInv, OneParty

\* What the steps of a request have in common: they leave the accounts alone.
LEMMA RequestStep ==
    ASSUME AInv, UNCHANGED <<now, accountVars>>, NEW q \in Requests, GoesOn(q),
           \/ request'[q].sent = request[q].sent
           \/ request'[q].sent # None => MadeFor(request'[q].sent, request[q].party),
           client' \in [Users -> Tokens \union {None}],
           \A u \in Users : client'[u] # None => MadeFor(client'[u], u),
           owner' \in [Conversations -> Users \union {None}],
           parties' \in [Conversations -> SUBSET Parties], OneParty'
    PROVE  AInv'
<1>1. now' \in Nat
    BY DEF AInv, AccountTyped
<1>2. OwnTokens'
    BY <1>1, GoesOnKeepsTokens
<1>3. RequestsTyped'
    BY DEF RequestsTyped, GoesOn
<1> QED
    BY <1>1, <1>2, <1>3, AccountsUntouched DEF AInv

\* What a step keeps that leaves clients, owners or parties alone.
LEMMA Keeping ==
    ASSUME AInv
    PROVE  /\ client' = client =>
                /\ client' \in [Users -> Tokens \union {None}]
                /\ \A u \in Users : client'[u] # None => MadeFor(client'[u], u)
           /\ owner' = owner => owner' \in [Conversations -> Users \union {None}]
           /\ owner' = owner /\ parties' = parties =>
                parties' \in [Conversations -> SUBSET Parties] /\ OneParty'
<1>1. client' = client =>
        /\ client' \in [Users -> Tokens \union {None}]
        /\ \A u \in Users : client'[u] # None => MadeFor(client'[u], u)
    BY DEF AInv, RequestsTyped, OwnTokens
<1> QED
    BY <1>1 DEF AInv, RequestsTyped, OneParty

LEMMA ReadStep ==
    ASSUME AInv, NEW q \in Requests, NEW v \in Conversations, Read(q, v)
    PROVE  AInv'
<1>1. /\ request[q].pc # "new" /\ MayUse(request[q].party, v) /\ LetIn(q, v) /\ Over(q)
      /\ UNCHANGED <<now, accountVars>> /\ owner' = owner
      /\ (Bind(q) /\ request[q].party # Operator) \/ client' = client
    BY DEF Read, Visits
<1>2. GoesOn(q) /\ request'[q].sent = request[q].sent
    BY <1>1, GoingOn
<1>3. /\ client' \in [Users -> Tokens \union {None}]
      /\ \A u \in Users : client'[u] # None => MadeFor(client'[u], u)
    BY <1>1, BindOwn, Keeping
<1>4. owner' \in [Conversations -> Users \union {None}]
    BY <1>1, Keeping
<1>5. parties' \in [Conversations -> SUBSET Parties] /\ OneParty'
    BY <1>1, LettingIn
<1> QED
    BY <1>1, <1>2, <1>3, <1>4, <1>5, RequestStep

LEMMA ChatAnewStep ==
    ASSUME AInv, NEW q \in Requests, NEW v \in Conversations, ChatAnew(q, v)
    PROVE  AInv'
<1>1. /\ request[q].pc # "new" /\ request[q].party # Operator /\ Bind(q)
      /\ owner[v] = None /\ parties[v] = {}
      /\ owner' = [owner EXCEPT ![v] = request[q].party] /\ Admitted(q, v)
      /\ UNCHANGED <<now, accountVars>>
    BY DEF ChatAnew, Visits, Fresh
<1>2. GoesOn(q) /\ request'[q].sent = request[q].sent
    BY <1>1, GoingOn
<1>3. /\ client' \in [Users -> Tokens \union {None}]
      /\ \A u \in Users : client'[u] # None => MadeFor(client'[u], u)
    BY <1>1, BindOwn
<1>4. request[q].party \in Users /\ request[q].party # None
    BY <1>1, AuthAssumption DEF AInv, OwnTokens, Parties
<1>5. /\ owner \in [Conversations -> Users \union {None}]
      /\ parties \in [Conversations -> SUBSET Parties]
      /\ parties' = [parties EXCEPT ![v] = @ \union {request[q].party}]
    BY <1>1 DEF AInv, RequestsTyped, Admitted, LetIn
<1>6. owner' \in [Conversations -> Users \union {None}] /\ parties' \in [Conversations -> SUBSET Parties]
    BY <1>1, <1>4, <1>5 DEF Parties
<1>7. OneParty'
    BY <1>1, <1>4, <1>5 DEF AInv, OneParty
<1> QED
    BY <1>1, <1>2, <1>3, <1>6, <1>7, RequestStep

LEMMA ChatStep ==
    ASSUME AInv, NEW q \in Requests, NEW v \in Conversations, NEW claimed \in Users,
           Chat(q, v, claimed)
    PROVE  AInv'
<1>1. /\ request[q].pc # "new" /\ request[q].party # Operator /\ Bind(q)
      /\ UNCHANGED <<now, accountVars>> /\ owner' = owner
      /\ \/ MayUse(request[q].party, v) /\ Admitted(q, v)
         \/ Over(q) /\ parties' = parties
    BY DEF Chat, Visits
<1>2. GoesOn(q) /\ request'[q].sent = request[q].sent
    BY <1>1, GoingOn
<1>3. /\ client' \in [Users -> Tokens \union {None}]
      /\ \A u \in Users : client'[u] # None => MadeFor(client'[u], u)
    BY <1>1, BindOwn
<1>4. owner' \in [Conversations -> Users \union {None}]
    BY <1>1, Keeping
<1>5. parties' \in [Conversations -> SUBSET Parties] /\ OneParty'
    BY <1>1, LettingIn, Keeping DEF Admitted
<1> QED
    BY <1>1, <1>2, <1>3, <1>4, <1>5, RequestStep

LEMMA ChatAsOperatorStep ==
    ASSUME AInv, NEW q \in Requests, NEW v \in Conversations, ChatAsOperator(q, v)
    PROVE  AInv'
<1>1. /\ request[q].pc # "new" /\ client' = client
      /\ UNCHANGED <<now, accountVars>> /\ owner' = owner
      /\ \/ MayUse(request[q].party, v) /\ Admitted(q, v)
         \/ Over(q) /\ parties' = parties
    BY DEF ChatAsOperator
<1>2. GoesOn(q) /\ request'[q].sent = request[q].sent
    BY <1>1, GoingOn
<1>3. parties' \in [Conversations -> SUBSET Parties] /\ OneParty'
    BY <1>1, LettingIn, Keeping DEF Admitted
<1> QED
    BY <1>1, <1>2, <1>3, Keeping, RequestStep

\* A chat beyond the limit, and a transcription.
LEMMA NotAdmittedStep ==
    ASSUME AInv, NEW q \in Requests, ChatOverLimit(q) \/ Voice(q)
    PROVE  AInv'
<1>1. /\ request[q].pc # "new" /\ request[q].party # Operator /\ Over(q)
      /\ UNCHANGED <<now, accountVars>> /\ owner' = owner /\ parties' = parties
      /\ Bind(q) \/ client' = client
    BY DEF ChatOverLimit, Voice, Visits
<1>2. GoesOn(q) /\ request'[q].sent = request[q].sent
    BY <1>1, GoingOn
<1>3. /\ client' \in [Users -> Tokens \union {None}]
      /\ \A u \in Users : client'[u] # None => MadeFor(client'[u], u)
    BY <1>1, BindOwn, Keeping
<1>4. /\ owner' \in [Conversations -> Users \union {None}]
      /\ parties' \in [Conversations -> SUBSET Parties] /\ OneParty'
    BY <1>1, Keeping
<1> QED
    BY <1>1, <1>2, <1>3, <1>4, RequestStep

LEMMA SearchStep ==
    ASSUME AInv, NEW q \in Requests, Search(q)
    PROVE  AInv'
<1>1. /\ request[q].pc # "new" /\ client' = client /\ owner' = owner /\ parties' = parties
      /\ UNCHANGED <<now, accountVars>>
      /\ request' = [request EXCEPT ![q].asked = @ \union {"web_search"}]
    BY DEF Search, Asks
<1>2. request \in [Requests -> RequestType]
    BY DEF AInv, RequestsTyped
<1>3. GoesOn(q) /\ request'[q].sent = request[q].sent
    BY <1>1, <1>2 DEF GoesOn, RequestType, Tools
<1> QED
    BY <1>1, <1>3, Keeping, RequestStep

\* The token recall goes out with is the client's, so the account's own.
LEMMA RecallStep ==
    ASSUME AInv, NEW q \in Requests, Recall(q)
    PROVE  AInv'
<1>1. /\ request[q].pc # "new" /\ client' = client /\ owner' = owner /\ parties' = parties
      /\ UNCHANGED <<now, accountVars>>
      /\ request[q].party # Operator => client[request[q].party] # None
    BY DEF Recall, Asks
<1>2. \/ request' = [request EXCEPT ![q].asked = @ \union {"ledger_recall"}]
      \/ request' = [request EXCEPT ![q].asked = @ \union {"ledger_recall"},
                       ![q].sent = IF request[q].party = Operator THEN @ ELSE client[request[q].party]]
    BY DEF Recall
<1>3. /\ request \in [Requests -> RequestType] /\ client \in [Users -> Tokens \union {None}]
      /\ request[q].party \in Parties
      /\ \A u \in Users : client[u] # None => MadeFor(client[u], u)
    BY <1>1 DEF AInv, RequestsTyped, OwnTokens
<1>4. CASE request' = [request EXCEPT ![q].asked = @ \union {"ledger_recall"}]
    <2>1. GoesOn(q) /\ request'[q].sent = request[q].sent
        BY <1>1, <1>3, <1>4 DEF GoesOn, RequestType, Tools
    <2> QED
        BY <1>1, <2>1, Keeping, RequestStep
<1>5. CASE request' = [request EXCEPT ![q].asked = @ \union {"ledger_recall"},
                         ![q].sent = IF request[q].party = Operator THEN @ ELSE client[request[q].party]]
    <2> DEFINE token == IF request[q].party = Operator THEN request[q].sent ELSE client[request[q].party]
    <2>1. token \in Tokens \union {None}
        BY <1>3 DEF RequestType, Parties
    <2> DEFINE asking == [request[q] EXCEPT !.asked = @ \union {"ledger_recall"}, !.sent = token]
    <2>2. request' = [request EXCEPT ![q] = asking]
        BY <1>3, <1>5
    <2> HIDE DEF token
    <2>3. /\ asking \in RequestType /\ asking.pc = request[q].pc /\ asking.sent = token
          /\ asking.party = request[q].party /\ asking.ledger = request[q].ledger
        BY <1>3, <2>1 DEF RequestType, Tools
    <2> HIDE DEF asking
    <2>4. GoesOn(q) /\ request'[q].sent = token
        BY <1>1, <1>3, <2>2, <2>3 DEF GoesOn
    <2> USE DEF token
    <2>5. \/ request'[q].sent = request[q].sent
          \/ request'[q].sent # None => MadeFor(request'[q].sent, request[q].party)
        BY <1>3, <2>4 DEF Parties
    <2> QED
        BY <1>1, <2>4, <2>5, Keeping, RequestStep
<1> QED
    BY <1>2, <1>4, <1>5

-----------------------------------------------------------------------------
(* What a login takes *)

\* No session lasts longer than one that is made now.
ExpiresByNow == \A s \in sessions : s.expires <= now + SessionLife

\* The only steps that change the sessions, and the only one that ends a login.
LEMMA SessionSteps ==
    ASSUME AInv, [Next]_vars
    PROVE  /\ \/ sessions' \subseteq sessions
              \/ \E c \in Callbacks, u \in Users : Login(c, u)
           /\ \A c \in Callbacks : callback[c].pc = "exchanging" /\ callback'[c].pc = "done" =>
                \E u \in Users : Login(c, u)
           /\ now' = now \/ (now' = now + 1 /\ Tick)
<1> USE DEF AInv, AccountTyped, CallbackType, accountVars
<1>1. Tick \/ UNCHANGED vars => /\ UNCHANGED <<sessions, callback>>
                                /\ now' = now \/ (now' = now + 1 /\ Tick)
    BY DEF Tick, vars
<1>2. ASSUME NEW q \in Requests, Serve(q) PROVE UNCHANGED <<sessions, callback, now>>
    BY <1>2 DEF Serve, Enter, EnterOperator, Read, ChatAnew, ChatAsOperator, Chat, ChatOverLimit,
                Voice, Search, Recall
<1>3. ASSUME NEW c \in Callbacks, NEW u \in Users, Login(c, u)
      PROVE  now' = now /\ \A d \in Callbacks : d # c => callback'[d] = callback[d]
    BY <1>3 DEF Login
<1>4. ASSUME Account, \A c \in Callbacks, u \in Users : ~Login(c, u)
      PROVE  /\ sessions' \subseteq sessions /\ now' = now
             /\ \A c \in Callbacks : callback'[c].pc = "done" => callback[c].pc = "done"
    <2>1. CASE \E f \in Flows, b \in Browsers : StartFlow(f, b) \/ \E c \in Callbacks : Consume(c, f, b)
        BY <2>1 DEF StartFlow, Consume, Exchanging
    <2>2. CASE \E c \in Callbacks : CallbackFails(c)
        BY <2>2 DEF CallbackFails
    <2>3. CASE \E b \in Browsers : Logout(b)
        BY <2>3 DEF Logout
    <2>4. CASE \E u \in Users, disable \in BOOLEAN : RevokeUser(u, disable)
        BY <2>4 DEF RevokeUser
    <2> QED
        BY <1>4, <2>1, <2>2, <2>3, <2>4 DEF Account
<1>5. CASE \E c \in Callbacks, u \in Users : Login(c, u)
    BY <1>3, <1>5
<1> QED
    BY <1>1, <1>2, <1>4, <1>5 DEF Next

LEMMA ExpiresStep ==
    ASSUME AInv, ExpiresByNow, [Next]_vars
    PROVE  ExpiresByNow'
<1>1. now \in Nat /\ SessionLife \in Nat /\ \A s \in sessions : s.expires \in Nat
    BY AuthAssumption DEF AInv, AccountTyped, SessionType
<1>2. CASE sessions' \subseteq sessions
    BY <1>1, <1>2, SessionSteps DEF ExpiresByNow
<1>3. ASSUME NEW c \in Callbacks, NEW u \in Users, Login(c, u)
      PROVE  ExpiresByNow'
    <2>1. now' = now /\ sessions' \subseteq sessions \union {Session(c, u)}
        BY <1>3 DEF Login, Newest, SessionsOf
    <2>2. Session(c, u).expires = now + SessionLife
        BY DEF Session
    <2> QED
        BY <1>1, <2>1, <2>2 DEF ExpiresByNow
<1> QED
    BY <1>2, <1>3, SessionSteps

LEMMA LoginEvicts ==
    ASSUME AInv, ExpiresByNow, NEW c \in Callbacks, NEW u \in Users, Login(c, u),
           NEW s \in sessions \ sessions', s.expires > now, s.token # callback[c].old
    PROVE  /\ s.user = u /\ callback'[c].user = u
           /\ Cardinality(SessionsOf(u, sessions')) = SessionCap
           /\ \A t \in SessionsOf(u, sessions') : t.expires >= s.expires
<1> DEFINE live == {x \in sessions : x.expires > now /\ x.token # callback[c].old}
           mine == SessionsOf(u, live)
           new  == Session(c, u)
<1>1. PICK kept \in Newest(mine) : sessions' = (live \ mine) \union kept \union {new}
    BY DEF Login
<1>2. callback[c].pc = "exchanging" /\ callback'[c].user = u
    BY DEF Login, AInv, AccountTyped, CallbackType
<1>3. new.token = c /\ new.user = u /\ new.expires = now + SessionLife
    BY DEF Session
<1>4. new \notin sessions
    <2>1. ASSUME new \in sessions PROVE MadeFor(c, u)
        BY <1>3, <2>1 DEF AInv, SessionsMade
    <2>2. ~\E x \in Stored : x.token = c
        BY StoredAssumption
    <2> QED
        BY <1>2, <2>1, <2>2 DEF MadeFor
<1> HIDE DEF new
<1>5. s \in live /\ s \in mine /\ s \notin kept
    BY <1>1
<1>6. IsFiniteSet(mine)
    BY FS_Subset DEF AInv, SessionsOf
<1>7. kept \subseteq mine /\ IsFiniteSet(kept) /\ Cardinality(kept) = SessionCap - 1
    <2>1. Cardinality(mine) \in Nat
        BY <1>6, FS_CardinalityType
    <2> HIDE DEF mine
    <2> QED
        BY <1>5, <1>6, <2>1, NewestLeavesRoom, AuthAssumption
<1>8. SessionsOf(u, sessions') = kept \union {new}
    BY <1>1, <1>3, <1>7 DEF SessionsOf
<1>9. Cardinality(kept \union {new}) = SessionCap
    <2>1. new \notin kept
        BY <1>4, <1>7 DEF SessionsOf
    <2>2. Cardinality(kept \union {new}) = Cardinality(kept) + 1
        BY <1>7, <2>1, FS_AddElement
    <2> QED
        BY <1>7, <2>2, AuthAssumption
<1>10. ASSUME NEW t \in kept PROVE t.expires >= s.expires
    BY <1>1, <1>5 DEF Newest
<1>11. new.expires >= s.expires
    BY <1>3, AuthAssumption DEF ExpiresByNow, AInv, AccountTyped, SessionType
<1>12. s.user = u
    BY <1>5 DEF SessionsOf
<1> QED
    BY <1>2, <1>8, <1>9, <1>10, <1>11, <1>12

-----------------------------------------------------------------------------
(* Theorems *)

LEMMA NextAInv == AInv /\ [Next]_vars => AInv'
<1> SUFFICES ASSUME AInv, [Next]_vars PROVE AInv'
    OBVIOUS
<1>1. CASE Tick
    <2>1. now' \in Nat /\ UNCHANGED accountVars /\ UNCHANGED requestVars
        BY <1>1 DEF Tick, AInv, AccountTyped
    <2>2. \A c \in Callbacks : callback'[c] = callback[c]
        BY <2>1 DEF accountVars
    <2> QED
        BY <2>1, <2>2, AccountsUntouched, RequestsUntouched DEF AInv
<1>2. CASE Account
    <2>1. CASE \E f \in Flows, b \in Browsers : StartFlow(f, b) \/ \E c \in Callbacks : Consume(c, f, b)
        BY <2>1, StartFlowStep, ConsumeStep
    <2>2. CASE \E c \in Callbacks : CallbackFails(c) \/ \E u \in Users : Login(c, u)
        BY <2>2, CallbackFailsStep, LoginStep
    <2>3. CASE \E b \in Browsers : Logout(b)
        BY <2>3, LogoutStep
    <2>4. CASE \E u \in Users, disable \in BOOLEAN : RevokeUser(u, disable)
        BY <2>4, RevokeStep
    <2> QED
        BY <1>2, <2>1, <2>2, <2>3, <2>4 DEF Account
<1>3. CASE \E q \in Requests : Serve(q)
    <2>1. PICK q \in Requests : Serve(q)
        BY <1>3
    <2>2. CASE (\E b \in Browsers : Enter(q, b)) \/ EnterOperator(q)
        BY <2>2, EnterStep, EnterOperatorStep
    <2>3. CASE \E v \in Conversations : Read(q, v) \/ ChatAnew(q, v) \/ ChatAsOperator(q, v)
        BY <2>3, ReadStep, ChatAnewStep, ChatAsOperatorStep
    <2>4. CASE \E v \in Conversations, claimed \in Users : Chat(q, v, claimed)
        BY <2>4, ChatStep
    <2>5. CASE ChatOverLimit(q) \/ Voice(q) \/ Search(q) \/ Recall(q)
        BY <2>5, NotAdmittedStep, SearchStep, RecallStep
    <2> QED
        BY <2>1, <2>2, <2>3, <2>4, <2>5 DEF Serve
<1>4. CASE UNCHANGED vars
    <2>1. now' \in Nat /\ UNCHANGED accountVars /\ UNCHANGED requestVars
        BY <1>4 DEF vars, accountVars, requestVars, AInv, AccountTyped
    <2>2. \A c \in Callbacks : callback'[c] = callback[c]
        BY <2>1 DEF accountVars
    <2> QED
        BY <2>1, <2>2, AccountsUntouched, RequestsUntouched DEF AInv
<1> QED
    BY <1>1, <1>2, <1>3, <1>4 DEF Next

\* The strengthening holds in every reachable state.
THEOREM AuthHolds == Spec => []AInv
BY InitAInv, NextAInv, PTL DEF Spec

\* Of two callbacks that race on a login flow one at most gets past
\* consume_flow (auth.py), and it is one of the browser that started it.
THEOREM FlowsLogInOnce == Spec => []FlowLogsInOnce
<1>1. AInv => FlowLogsInOnce
    BY DEF AInv, FlowsConsumed, FlowLogsInOnce
<1> QED
    BY <1>1, AuthHolds, PTL

\* A disabled account has no session, although AccessStore.login runs long
\* after the callback began.
THEOREM DisabledAreOut == Spec => []DisabledHaveNoSession
<1>1. AInv => DisabledHaveNoSession
    BY DEF AInv
<1> QED
    BY <1>1, AuthHolds, PTL

\* No account has more sessions than the cap: the rows a login keeps leave
\* room for the one it adds.
THEOREM SessionsStayCapped == Spec => []SessionsCapped
<1>1. AInv => SessionsCapped
    BY DEF AInv
<1> QED
    BY <1>1, AuthHolds, PTL

\* A conversation is used by its owner only, and an unowned one by the
\* operator only (require_session, new_conversation).
THEOREM ConversationsHaveOneParty == Spec => []OneParty
<1>1. AInv => OneParty
    BY DEF AInv
<1> QED
    BY <1>1, AuthHolds, PTL

\* Recall asks the ledger with a token of the account that asks, whichever of
\* its requests has set the client of its engine last (for_principal).
THEOREM LedgerIsAskedAsCaller == Spec => []LedgerAskedAsCaller
<1>1. AInv => LedgerAskedAsCaller
    BY UserOfMade DEF AInv, OwnTokens, LedgerAskedAsCaller
<1> QED
    BY <1>1, AuthHolds, PTL

\* A login takes the expired sessions and the one its browser came with, and of
\* the user's others only those that expire first, and only when he is at the
\* cap (AccessStore.login).  The rows of an earlier process must not outlast a
\* session made now: they do not unless visitor_session_hours was made shorter
\* or the clock was set back between the two.
THEOREM LoginsEvictOldest ==
    ASSUME \A s \in Stored : s.expires <= SessionLife
    PROVE  Spec => LoginEvictsOldest
<1> DEFINE Evicts ==
        \A c \in Callbacks :
          callback[c].pc = "exchanging" /\ callback'[c].pc = "done" =>
            \A s \in sessions \ sessions' :
              s.expires <= now \/ s.token = callback[c].old \/
              /\ s.user = callback'[c].user
              /\ Cardinality(SessionsOf(s.user, sessions')) = SessionCap
              /\ \A t \in SessionsOf(s.user, sessions') : t.expires >= s.expires
<1>1. Init => ExpiresByNow
    BY AuthAssumption DEF Init, ExpiresByNow
<1>2. AInv /\ ExpiresByNow /\ [Next]_vars => ExpiresByNow'
    BY ExpiresStep
<1>3. AInv /\ ExpiresByNow /\ [Next]_vars => Evicts
    <2> SUFFICES ASSUME AInv, ExpiresByNow, [Next]_vars,
                        NEW c \in Callbacks, callback[c].pc = "exchanging", callback'[c].pc = "done",
                        NEW s \in sessions \ sessions', ~(s.expires <= now), s.token # callback[c].old
                 PROVE  /\ s.user = callback'[c].user
                        /\ Cardinality(SessionsOf(s.user, sessions')) = SessionCap
                        /\ \A t \in SessionsOf(s.user, sessions') : t.expires >= s.expires
        OBVIOUS
    <2>1. PICK u \in Users : Login(c, u)
        BY SessionSteps
    <2>2. s.expires > now
        BY DEF AInv, AccountTyped, SessionType
    <2> QED
        BY <2>1, <2>2, LoginEvicts
<1> QED
    BY <1>1, <1>2, <1>3, AuthHolds, PTL DEF Spec, LoginEvictsOldest
=============================================================================
