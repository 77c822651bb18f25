-------------------------------- MODULE Auth --------------------------------
(***************************************************************************)
(* Who may do what (src/jarvis/auth.py, routes/auth.py, the boundary in    *)
(* main.py and the entry of routes/chat.py): one-time login flows, capped  *)
(* sessions, revocation from the command line in a process of its own,     *)
(* the owner of a conversation, the quotas, and the Continuity Ledger      *)
(* client that the requests of one account share.                          *)
(*                                                                         *)
(* AccessStore is SQLite: each method is one transaction and one step.  A  *)
(* login callback waits for the identity provider between two of them, a   *)
(* request waits for its body after it was authenticated and for its tools *)
(* after it was admitted; everything else may happen meanwhile.            *)
(***************************************************************************)
EXTENDS Naturals, FiniteSets

CONSTANTS
    Users, Browsers, Flows, Callbacks, Requests, Conversations,
    Operator,      \* who holds the service token
    None,
    Stored,        \* auth_sessions of an earlier process
    FlowCap,       \* 1000: flows that may be pending
    FlowLife,      \* 300 s
    SessionCap,    \* 10: sessions of one user
    SessionLife,   \* settings.visitor_session_hours
    TokenLife,     \* access_expires of a login
    Limit, Period, \* of each quota scope
    Horizon        \* bound on the clock

Tools  == {"web_search", "ledger_recall"}
Scopes == {"chat", "voice"} \union Tools

\* A session is named after the callback that made it; access is when its
\* ledger token expires.
SessionType(tokens) == [token : tokens, user : Users, expires : Nat, access : Nat]

Tokens == Callbacks \union {s.token : s \in Stored}

ASSUME AuthAssumption ==
    /\ FlowCap \in Nat \ {0} /\ FlowLife \in Nat \ {0} /\ SessionCap \in Nat \ {0}
    /\ SessionLife \in Nat \ {0} /\ TokenLife \in Nat /\ Horizon \in Nat
    /\ Limit \in [Scopes -> Nat \ {0}] /\ Period \in [Scopes -> Nat \ {0}]
    /\ Operator \notin Users /\ None \notin Users \union Browsers \union Flows \union Conversations
    /\ Users \intersect Conversations = {}  \* "oidc-..." and "tenant:owner:session"
    /\ None \notin Tokens /\ Operator # None

\* The rows of an earlier process are keyed by their tokens.
ASSUME StoredAssumption ==
    /\ Stored \subseteq SessionType({s.token : s \in Stored}) /\ IsFiniteSet(Stored)
    /\ \A s, t \in Stored : s.token = t.token => s = t
    /\ {s.token : s \in Stored} \intersect Callbacks = {}
    /\ \A u \in Users : Cardinality({s \in Stored : s.user = u}) <= SessionCap

VARIABLES
    now,
    issued,    \* flow -> its browser and expiry, once it was started
    flows,     \* rows of auth_flows
    callback,  \* each GET /auth/callback
    sessions,  \* rows of auth_sessions
    disabled,  \* users
    cookie,    \* the session token each browser holds
    request,   \* each request to a protected route
    owner,     \* rows of auth_conversations
    parties,   \* who was let into each conversation so far
    quota,     \* rows of auth_quota
    granted,   \* quota units granted: scope, bucket, window and request
    client     \* the ledger client of each tenant's engine: a token, or None

accountVars == <<issued, flows, callback, sessions, disabled, cookie>>
requestVars == <<request, owner, parties, quota, granted, client>>
vars == <<now, issued, flows, callback, sessions, disabled, cookie, request, owner, parties,
          quota, granted, client>>

NotIssued == [browser |-> None, expires |-> 0]

Init ==
    /\ now = 0
    /\ issued = [f \in Flows |-> NotIssued] /\ flows = {}
    /\ callback = [c \in Callbacks |->
                    [pc |-> "new", flow |-> None, browser |-> None, old |-> None, user |-> None]]
    /\ sessions = Stored /\ disabled = {}
    /\ cookie \in [Browsers -> {None} \union {s.token : s \in Stored}]
    /\ request = [q \in Requests |-> [pc |-> "new", party |-> None, ledger |-> None,
                                      conversation |-> None, asked |-> {}, sent |-> None]]
    /\ owner = [v \in Conversations |-> None] /\ parties = [v \in Conversations |-> {}]
    /\ quota = {} /\ granted = {}
    /\ client = [u \in Users |-> None]

Tick == now < Horizon /\ now' = now + 1 /\ UNCHANGED <<accountVars, requestVars>>

-----------------------------------------------------------------------------
(* Login *)

\* start_flow: the state and the browser's flow cookie are fresh.
StartFlow(f, b) ==
    LET pending == {g \in flows : issued[g].expires > now}
    IN  /\ issued[f] = NotIssued /\ Cardinality(pending) < FlowCap
        /\ issued' = [issued EXCEPT ![f] = [browser |-> b, expires |-> now + FlowLife]]
        /\ flows' = pending \union {f}
        /\ UNCHANGED <<now, callback, sessions, disabled, cookie, requestVars>>

CanConsume(f, b) == f \in flows /\ issued[f].expires > now /\ issued[f].browser = b

Exchanging(c, f, b) ==
    callback' = [callback EXCEPT ![c] = [pc |-> "exchanging", flow |-> f, browser |-> b,
                                         old |-> cookie[b], user |-> None]]

\* Mutant of Consume: the row is left for the clean-up.
ConsumeLater(c, f, b) ==
    /\ callback[c].pc = "new" /\ CanConsume(f, b)
    /\ Exchanging(c, f, b)
    /\ UNCHANGED <<now, issued, flows, sessions, disabled, cookie, requestVars>>

\* consume_flow; the callback carries the session cookie of its browser on.
Consume(c, f, b) ==
    /\ callback[c].pc = "new" /\ CanConsume(f, b)
    /\ flows' = flows \ {f}
    /\ Exchanging(c, f, b)
    /\ UNCHANGED <<now, issued, sessions, disabled, cookie, requestVars>>

\* No such flow, another browser, an expired one; the provider does not
\* confirm an identity; the account is disabled.
CallbackFails(c) ==
    /\ callback[c].pc \in {"new", "exchanging"}
    /\ callback' = [callback EXCEPT ![c].pc = "failed"]
    /\ UNCHANGED <<now, issued, flows, sessions, disabled, cookie, requestVars>>

SessionsOf(u, rows) == {s \in rows : s.user = u}

\* Mutants of Newest: any rows are kept, and one too many.
NewestAny(rows) ==
    {kept \in SUBSET rows :
       Cardinality(kept) = IF Cardinality(rows) < SessionCap THEN Cardinality(rows) ELSE SessionCap - 1}

NewestAndOne(rows) ==
    {kept \in SUBSET rows :
       /\ Cardinality(kept) = IF Cardinality(rows) < SessionCap THEN Cardinality(rows) ELSE SessionCap
       /\ \A k \in kept, d \in rows \ kept : k.expires >= d.expires}

\* The rows a login keeps of the user's: the SessionCap - 1 that expire last.
Newest(rows) ==
    {kept \in SUBSET rows :
       /\ Cardinality(kept) = IF Cardinality(rows) < SessionCap THEN Cardinality(rows) ELSE SessionCap - 1
       /\ \A k \in kept, d \in rows \ kept : k.expires >= d.expires}

Session(c, u) == [token |-> c, user |-> u, expires |-> now + SessionLife, access |-> now + TokenLife]

\* Mutant of MayLogin: the account is not looked at again.
MayLoginAnyway(u) == TRUE

MayLogin(u) == u \notin disabled

\* AccessStore.login, and the answer that sets the cookie.
Login(c, u) ==
    LET live == {s \in sessions : s.expires > now /\ s.token # callback[c].old}
    IN  /\ callback[c].pc = "exchanging" /\ MayLogin(u)
        /\ \E kept \in Newest(SessionsOf(u, live)) :
             sessions' = (live \ SessionsOf(u, live)) \union kept \union {Session(c, u)}
        /\ cookie' = [cookie EXCEPT ![callback[c].browser] = c]
        /\ callback' = [callback EXCEPT ![c].pc = "done", ![c].user = u]
        /\ UNCHANGED <<now, issued, flows, disabled, requestVars>>

\* authenticate: the unexpired session of a token, if its user is not disabled.
Authenticated(token) ==
    {s \in sessions : s.token = token /\ s.expires > now /\ s.user \notin disabled}

Logout(b) ==
    /\ cookie[b] # None
    /\ sessions' = sessions \ Authenticated(cookie[b])
    /\ cookie' = [cookie EXCEPT ![b] = None]
    /\ UNCHANGED <<now, issued, flows, callback, disabled, requestVars>>

\* The command line's revoke_user.
RevokeUser(u, disable) ==
    /\ disabled' = IF disable THEN disabled \union {u} ELSE disabled
    /\ sessions' = sessions \ SessionsOf(u, sessions)
    /\ UNCHANGED <<now, issued, flows, callback, cookie, requestVars>>

-----------------------------------------------------------------------------
(* Quotas *)

Window(scope) == now \div Period[scope]

\* The rows a charge leaves: those of its bucket that are two windows old go,
\* whatever scope they belong to.
Recent(scope, bucket) == {r \in quota : ~(r.bucket = bucket /\ r.window + 1 < Window(scope))}

Used(scope, bucket) ==
    {r \in Recent(scope, bucket) : r.scope = scope /\ r.bucket = bucket /\ r.window = Window(scope)}

\* Mutant of Exhausted: one more is allowed.
ExhaustedLate(scope, bucket) == \E r \in Used(scope, bucket) : r.used > Limit[scope]

Exhausted(scope, bucket) == \E r \in Used(scope, bucket) : r.used >= Limit[scope]

Unit(scope, bucket, used) ==
    [scope |-> scope, bucket |-> bucket, window |-> Window(scope), used |-> used]

\* consume_quota
Charge(q, scope, bucket) ==
    /\ quota' = (Recent(scope, bucket) \ Used(scope, bucket)) \union
                {Unit(scope, bucket, 1 + IF \E r \in Used(scope, bucket) : TRUE
                                           THEN (CHOOSE r \in Used(scope, bucket) : TRUE).used ELSE 0)}
    /\ granted' = granted \union {<<scope, bucket, Window(scope), q>>}

Refuse(scope, bucket) == quota' = Recent(scope, bucket) /\ UNCHANGED granted

-----------------------------------------------------------------------------
(* Requests *)

\* service_boundary: who asks, and with which ledger token if it has not
\* expired.  The body of the request is read after that.
Enter(q, b) ==
    /\ request[q].pc = "new"
    /\ \E s \in Authenticated(cookie[b]) :
         request' = [request EXCEPT ![q].pc = "entered", ![q].party = s.user,
                                    ![q].ledger = IF s.access > now THEN s.token ELSE None]
    /\ UNCHANGED <<now, accountVars, owner, parties, quota, granted, client>>

EnterOperator(q) ==
    /\ request[q].pc = "new"
    /\ request' = [request EXCEPT ![q].pc = "entered", ![q].party = Operator]
    /\ UNCHANGED <<now, accountVars, owner, parties, quota, granted, client>>

Visits(q) == request[q].pc = "entered" /\ request[q].party # Operator

\* Mutant of Bind: all visitors share the client.
BindAll(q) == client' = [u \in Users |-> request[q].ledger]

\* for_principal: every request of an account sets the client of its engine.
Bind(q) == client' = [client EXCEPT ![request[q].party] = request[q].ledger]

\* Mutant of MayUse: an operator is let into any conversation.
MayUseAny(party, v) == party = Operator \/ owner[v] = party

\* require_session: its owner's, or the operator's when nobody owns it.
MayUse(party, v) == IF party = Operator THEN owner[v] = None ELSE owner[v] = party

LetIn(q, v) == parties' = [parties EXCEPT ![v] = @ \union {request[q].party}]

Admitted(q, v) ==
    /\ request' = [request EXCEPT ![q].pc = "admitted", ![q].conversation = v]
    /\ LetIn(q, v)

Over(q) == request' = [request EXCEPT ![q].pc = "over"]

\* A route that only reads a conversation.
Read(q, v) ==
    /\ request[q].pc = "entered" /\ MayUse(request[q].party, v)
    /\ IF Visits(q) THEN Bind(q) ELSE UNCHANGED client
    /\ LetIn(q, v) /\ Over(q)
    /\ UNCHANGED <<now, accountVars, owner, quota, granted>>

\* new_conversation: an id nobody has used.
Fresh(v) == owner[v] = None /\ parties[v] = {}

\* POST /chat of a visitor: the quota is charged before the claimed user and
\* the conversation are looked at.
ChatAnew(q, v) ==
    LET u == request[q].party
    IN  /\ Visits(q) /\ ~Exhausted("chat", u) /\ Fresh(v)
        /\ Bind(q) /\ Charge(q, "chat", u)
        /\ owner' = [owner EXCEPT ![v] = u]
        /\ Admitted(q, v)
        /\ UNCHANGED <<now, accountVars>>

Chat(q, v, claimed) ==
    LET u == request[q].party
    IN  /\ Visits(q) /\ ~Exhausted("chat", u)
        /\ Bind(q) /\ Charge(q, "chat", u)
        /\ IF claimed = u /\ MayUse(u, v) THEN Admitted(q, v) ELSE Over(q) /\ UNCHANGED parties
        /\ UNCHANGED <<now, accountVars, owner>>

ChatOverLimit(q) ==
    /\ Visits(q) /\ Exhausted("chat", request[q].party)
    /\ Bind(q) /\ Refuse("chat", request[q].party) /\ Over(q)
    /\ UNCHANGED <<now, accountVars, owner, parties>>

\* POST /voice/transcribe
Voice(q) ==
    LET u == request[q].party
    IN  /\ Visits(q)
        /\ IF Exhausted("voice", u) THEN Refuse("voice", u) ELSE Charge(q, "voice", u)
        /\ Over(q)
        /\ UNCHANGED <<now, accountVars, owner, parties, client>>

ChatAsOperator(q, v) ==
    /\ request[q].pc = "entered" /\ request[q].party = Operator
    /\ IF MayUse(Operator, v) THEN Admitted(q, v) ELSE Over(q) /\ UNCHANGED parties
    /\ UNCHANGED <<now, accountVars, owner, quota, granted, client>>

Asks(q, scope) == request[q].pc = "admitted" /\ scope \notin request[q].asked

\* The tools of an admitted turn have their quota per conversation.
Search(q) ==
    LET v == request[q].conversation
    IN  /\ Asks(q, "web_search")
        /\ IF Exhausted("web_search", v) THEN Refuse("web_search", v) ELSE Charge(q, "web_search", v)
        /\ request' = [request EXCEPT ![q].asked = @ \union {"web_search"}]
        /\ UNCHANGED <<now, accountVars, owner, parties, client>>

\* Recall goes out with the client the tenant's engine has at that moment;
\* without one it is skipped.
Recall(q) ==
    LET v == request[q].conversation
        u == request[q].party
    IN  /\ Asks(q, "ledger_recall") /\ (u # Operator => client[u] # None)
        /\ IF Exhausted("ledger_recall", v)
             THEN /\ Refuse("ledger_recall", v)
                  /\ request' = [request EXCEPT ![q].asked = @ \union {"ledger_recall"}]
             ELSE /\ Charge(q, "ledger_recall", v)
                  /\ request' = [request EXCEPT ![q].asked = @ \union {"ledger_recall"},
                                                ![q].sent = IF u = Operator THEN @ ELSE client[u]]
        /\ UNCHANGED <<now, accountVars, owner, parties, client>>

-----------------------------------------------------------------------------
Account ==
    \/ \E f \in Flows, b \in Browsers : StartFlow(f, b) \/ \E c \in Callbacks : Consume(c, f, b)
    \/ \E c \in Callbacks : CallbackFails(c) \/ \E u \in Users : Login(c, u)
    \/ \E b \in Browsers : Logout(b)
    \/ \E u \in Users, disable \in BOOLEAN : RevokeUser(u, disable)

Serve(q) ==
    \/ (\E b \in Browsers : Enter(q, b)) \/ EnterOperator(q)
    \/ \E v \in Conversations : \/ Read(q, v) \/ ChatAnew(q, v) \/ ChatAsOperator(q, v)
                                \/ \E claimed \in Users : Chat(q, v, claimed)
    \/ ChatOverLimit(q) \/ Voice(q) \/ Search(q) \/ Recall(q)

Next == Tick \/ Account \/ \E q \in Requests : Serve(q)

Spec == Init /\ [][Next]_vars

-----------------------------------------------------------------------------
(* Properties *)

Parties == Users \union {Operator}
Buckets == Users \union Conversations

\* Every variable stays in its range.
TypeOK ==
    /\ now \in Nat
    /\ issued \in [Flows -> [browser : Browsers \union {None}, expires : Nat]]
    /\ flows \subseteq Flows
    /\ callback \in [Callbacks -> [pc : {"new", "exchanging", "done", "failed"},
                                   flow : Flows \union {None}, browser : Browsers \union {None},
                                   old : Tokens \union {None}, user : Users \union {None}]]
    /\ sessions \subseteq SessionType(Tokens)
    /\ disabled \subseteq Users
    /\ cookie \in [Browsers -> Tokens \union {None}]
    /\ request \in [Requests -> [pc : {"new", "entered", "admitted", "over"},
                                 party : Parties \union {None}, ledger : Tokens \union {None},
                                 conversation : Conversations \union {None},
                                 asked : SUBSET Tools, sent : Tokens \union {None}]]
    /\ owner \in [Conversations -> Users \union {None}]
    /\ parties \in [Conversations -> SUBSET Parties]
    /\ quota \subseteq [scope : Scopes, bucket : Buckets, window : Nat, used : Nat]
    /\ granted \subseteq Scopes \X Buckets \X Nat \X Requests
    /\ client \in [Users -> Tokens \union {None}]

\* A login flow signs in at most once, in the browser that started it: of two
\* callbacks that race on it one at most gets past consume_flow.
FlowLogsInOnce ==
    \A c, d \in Callbacks :
      callback[c].flow # None =>
        /\ callback[d].flow = callback[c].flow => c = d
        /\ issued[callback[c].flow].browser = callback[c].browser

\* A disabled account has no session, also when it was disabled while the
\* identity provider was being asked about a login of it.
DisabledHaveNoSession == \A s \in sessions : s.user \notin disabled

\* No account has more sessions than the cap, whatever logins race.
SessionsCapped == \A u \in Users : Cardinality(SessionsOf(u, sessions)) <= SessionCap

\* A login takes sessions that have not expired from its own browser, from a
\* user who is at the cap, and of his only those that expire first.
LoginEvictsOldest ==
    [][\A c \in Callbacks :
         callback[c].pc = "exchanging" /\ callback'[c].pc = "done" =>
           \A s \in sessions \ sessions' :
             s.expires <= now \/ s.token = callback[c].old \/
             /\ s.user = callback'[c].user
             /\ Cardinality(SessionsOf(s.user, sessions')) = SessionCap
             /\ \A t \in SessionsOf(s.user, sessions') : t.expires >= s.expires]_vars

\* A conversation is used by its owner only, and one that nobody owns by the
\* operator only: who has been let in once stays the only party.
OneParty ==
    \A v \in Conversations : parties[v] \subseteq {IF owner[v] = None THEN Operator ELSE owner[v]}

\* The ledger is asked in the name of the account that asks, however the
\* requests of its sessions and of others replace the clients meanwhile.
UserOf(token) ==
    IF token \in Callbacks THEN callback[token].user
    ELSE (CHOOSE s \in Stored : s.token = token).user

LedgerAskedAsCaller ==
    \A q \in Requests : request[q].sent # None => UserOf(request[q].sent) = request[q].party

\* In one window a scope grants a bucket no more than its limit, whatever
\* requests race for the last unit: so it is for every scope whose window is
\* no longer than that of the scopes it shares a bucket with, for a charge
\* deletes the old rows of the bucket without looking at their scope.
Sharing(scope) == IF scope \in Tools THEN Tools ELSE Scopes \ Tools

QuotaHeld ==
    \A scope \in {s \in Scopes : \A t \in Sharing(s) : Period[s] <= Period[t]} :
      \A bucket \in Buckets, w \in {g[3] : g \in granted} :
        Cardinality({g \in granted : g[1] = scope /\ g[2] = bucket /\ g[3] = w}) <= Limit[scope]
=============================================================================
