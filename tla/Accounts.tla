------------------------------ MODULE Accounts ------------------------------
(***************************************************************************)
(* Accounts and what stands for them: users and sessions (auth/service.rs  *)
(* and service/account.rs), OAuth clients, consents, codes and rotating    *)
(* token families (server/auth.rs, routes/oauth*.rs), service tokens.      *)
(* A handler runs one SQL statement a step, with no transaction around     *)
(* them but that of replace_password, so handlers interleave.              *)
(***************************************************************************)
EXTENDS Identity, Integers, FiniteSets, SequencesExt

CONSTANTS AccountClients,      \* concurrent handlers
          UserNames, Passwords, \* those that pass validation
          TokenScopes,         \* scopes service tokens are asked for
          MaxAccountRequests,  \* bound, on requests and expiries
          NoHandler

\* The statements each handler goes through, by the name of the next one.
HandlerPCs ==
  [register  |-> {"count", "insert", "session"},
   login     |-> {"session"},
   password  |-> {"verify", "replace"},
   authorize |-> {"park", "code"},
   consent   |-> {"delete", "remember", "insert_consent", "code"},
   exchange  |-> {"burn", "issue"},
   refresh   |-> {"reuse", "age", "rotate", "renew", "revoke"},
   local     |-> {"seed"}]

WorkedOn == {"founding", "local", "consent", "code", "family", "keep"} \X Nat
UserIds == UserNames \cup {LocalAdmin.id}
Handlers ==
  [op : DOMAIN HandlerPCs, pc : UNION {HandlerPCs[op] : op \in DOMAIN HandlerPCs},
   user : UserIds \cup {NoHandler}, at : Nat \cup Passwords, on : SUBSET WorkedOn,
   row : Nat, todo : SUBSET Nat, current : Passwords \cup {NoHandler},
   admin : BOOLEAN, granted : BOOLEAN, since : Nat, approved : Nat]

ASSUME AccountsAssumption ==
  /\ MaxAccountRequests \in Nat
  /\ NoHandler \notin Handlers

VARIABLES serverMode,  \* Mode::Server, else Mode::Local
          users,       \* name -> [admin, password], a partial function
          sessions,    \* Seq([user, live, since]): live until it expires or is deleted
          clients,     \* how many OAuth clients registered
          consents,    \* {<<user, client>>}
          asks,        \* consent requests: Seq([user, client, state])
          codes,       \* Seq([user, client, used, live, since])
          tokens,      \* Seq([user, client, family, revoked, live, since, approved])
          aged,        \* the families past their absolute lifetime
          serviceTokens, \* Seq([owner, admin, scope, label, state, seeded])
          handler,     \* client -> the handler it waits for, or NoHandler
          accountRequests,
          epoch,       \* history: name -> how often its password was replaced
          clashes      \* history: what two handlers worked on at the same time
accountRows == <<users, sessions, clients, consents, asks, codes, tokens, aged, serviceTokens>>
accountVars == <<serverMode, accountRows, handler, accountRequests, epoch, clashes>>

User(admin, password) == [admin |-> admin, password |-> password]
Session(u, since)     == [user |-> u, live |-> TRUE, since |-> since]

\* since and approved are history, in replacements of the user's password: when
\* the row was asked for, and when the code a token goes back to was.
Code(u, client, ask, since)  ==
  [user |-> u, client |-> client, used |-> FALSE, live |-> TRUE, ask |-> ask, since |-> since]
Token(u, client, family, code, since, approved) ==
  [user |-> u, client |-> client, family |-> family, revoked |-> FALSE, live |-> TRUE, code |-> code,
   since |-> since, approved |-> approved]

\* A fresh deployment; or one where an admin and a user signed in, one client
\* registered, and the user may have been asked for it, hold a code or a family.
AccountsInit ==
  /\ serverMode \in BOOLEAN
  /\ \/ /\ users = <<>> /\ sessions = <<>> /\ clients = 0
        /\ consents = {} /\ asks = <<>> /\ codes = <<>> /\ tokens = <<>>
     \/ \E a, u \in UserNames, p \in Passwords, granted \in {"ask", "code", "family"} :
          /\ serverMode /\ a # u
          /\ users = [n \in {a, u} |-> User(n = a, p)]
          /\ sessions = <<Session(a, 0), Session(u, 0)>> /\ clients = 1
          /\ consents = IF granted = "ask" THEN {} ELSE {<<u, 1>>}
          /\ asks = IF granted = "ask" THEN <<[user |-> u, client |-> 1, state |-> "live"]>> ELSE <<>>
          /\ codes = IF granted = "code" THEN <<Code(u, 1, 0, 0)>> ELSE <<>>
          /\ tokens = IF granted = "family" THEN <<Token(u, 1, 1, 0, 0, 0)>> ELSE <<>>
  /\ aged = {} /\ serviceTokens = <<>>
  /\ handler = [c \in AccountClients |-> NoHandler]
  /\ accountRequests = 0
  /\ epoch = [n \in UserNames |-> 0] /\ clashes = {}

(***************************************************************************)
(* Who a credential stands for: at most one caller.                        *)
(***************************************************************************)
Credential(kind, at) == [kind |-> kind, at |-> at]
NoCredential == Credential("none", 0)
SessionOf(i) == Credential("session", i)
Credentials  == {NoCredential} \cup {SessionOf(i) : i \in DOMAIN sessions}
                \cup {Credential("oauth", t) : t \in DOMAIN tokens}
                \cup {Credential("service", t) : t \in DOMAIN serviceTokens}

UserRow(u) == {Caller(u, users[n].admin, FALSE, FALSE, FALSE) : n \in {u} \cap DOMAIN users}

\* AuthService::authenticate knows sessions only.
Authenticate(cred) ==
  IF cred.kind = "session" /\ sessions[cred.at].live THEN UserRow(sessions[cred.at].user) ELSE {}

\* resolve_current_user and resolve_public_user
CurrentUser(cred) == IF serverMode THEN Authenticate(cred) ELSE {LocalAdmin}

OauthTokenUser(t) == IF t.revoked \/ ~t.live THEN {} ELSE UserRow(t.user)
ServiceTokenUser(t) ==
  IF t.state = "live" THEN {Caller(t.owner, t.admin, FALSE, t.scope \in {"read_only", "global_read"}, t.scope = "global_read")}
  ELSE {}

\* authenticate_mcp: only a server answers a request with no credential.
McpCaller(cred) ==
  CASE cred.kind = "oauth"   -> OauthTokenUser(tokens[cred.at])
    [] cred.kind = "service" -> ServiceTokenUser(serviceTokens[cred.at])
    [] cred.kind = "session" -> {}
    [] cred.kind = "none"    -> IF serverMode THEN {Anonymous} ELSE {}

(***************************************************************************)
(* Handlers.  row is the row a handler found: the session it keeps, or a   *)
(* consent request, code or token.  on is what it works on, for the        *)
(* history only.                                                           *)
(***************************************************************************)
Busy(c) == handler[c] # NoHandler
Handler(op, pc, u, at, on) ==
  [op |-> op, pc |-> pc, user |-> u, at |-> at, on |-> on, row |-> 0, todo |-> {},
   current |-> NoHandler, admin |-> FALSE, granted |-> FALSE,
   since |-> IF u \in UserNames THEN epoch[u] ELSE 0,
   approved |-> IF u \in UserNames THEN epoch[u] ELSE 0]

Clash(r, s) ==
  (r.on \cap s.on)
  \cup (IF r.user = s.user /\ "password" \in {r.op, s.op} THEN {<<"password", r.user>>} ELSE {})

Await(c, r) ==
  /\ handler' = [handler EXCEPT ![c] = r]
  /\ clashes' = clashes \cup UNION {Clash(r, handler[d]) : d \in {x \in AccountClients \ {c} : Busy(x)}}
  /\ UNCHANGED <<accountRows, epoch>>

At(c, pc)    == Busy(c) /\ handler[c].pc = pc
To(c, pc)    == handler' = [handler EXCEPT ![c].pc = pc]
Answered(c)  == handler' = [handler EXCEPT ![c] = NoHandler]
Quiet        == UNCHANGED <<epoch, clashes>>

(***************************************************************************)
(* register, login, logout, passwords.                                     *)
(***************************************************************************)
Register(c, u, p) ==
  u \notin DOMAIN users /\ Await(c, Handler("register", "count", u, p, {<<"founding", 0>>}))

Login(c, u, p) ==
  u \in DOMAIN users /\ users[u].password = p /\ Await(c, Handler("login", "session", u, 0, {}))

Logout(c, i) ==
  sessions' = [sessions EXCEPT ![i].live = FALSE]
  /\ UNCHANGED <<users, clients, consents, asks, codes, tokens, aged, serviceTokens, handler>> /\ Quiet

\* Only a live login session may, and it is the one that survives.
ChangePassword(c, cred, current, new) ==
  /\ new # current
  /\ \E u \in Authenticate(cred) :
       Await(c, [Handler("password", "verify", u.id, new, {<<"keep", cred.at>>})
                 EXCEPT !.current = current, !.row = cred.at])

ResetPassword(c, cred, target, new) ==
  /\ \E admin \in CurrentUser(cred) : MayAdminister(admin) /\ admin.id # target
  /\ target \in DOMAIN users
  /\ Await(c, Handler("password", "replace", target, new, {}))

\* Mutant: off by one.
CountUsers_OneMore(c) ==
  /\ At(c, "count")
  /\ handler' = [handler EXCEPT ![c] = [@ EXCEPT !.pc = "insert", !.admin = Cardinality(DOMAIN users) <= 1]]
  /\ UNCHANGED accountRows /\ Quiet

CountUsers(c) ==
  /\ At(c, "count")
  /\ handler' = [handler EXCEPT ![c] = [@ EXCEPT !.pc = "insert", !.admin = DOMAIN users = {}]]
  /\ UNCHANGED accountRows /\ Quiet

\* users.username is unique.
InsertUser(c) ==
  LET r == handler[c] IN
  /\ At(c, "insert")
  /\ IF r.user \in DOMAIN users THEN Answered(c) /\ UNCHANGED users
     ELSE /\ users' = [n \in DOMAIN users \cup {r.user} |->
                         IF n = r.user THEN User(r.admin, r.at) ELSE users[n]]
          /\ To(c, "session")
  /\ UNCHANGED <<sessions, clients, consents, asks, codes, tokens, aged, serviceTokens>> /\ Quiet

OpenSession(c) ==
  /\ At(c, "session")
  /\ sessions' = Append(sessions, Session(handler[c].user, handler[c].since))
  /\ Answered(c)
  /\ UNCHANGED <<users, clients, consents, asks, codes, tokens, aged, serviceTokens>> /\ Quiet

VerifyPassword(c) ==
  /\ At(c, "verify")
  /\ IF users[handler[c].user].password = handler[c].current THEN To(c, "replace") ELSE Answered(c)
  /\ UNCHANGED accountRows /\ Quiet

\* Mutant: only the sessions go.
ReplacePassword_KeepsTokens(c) ==
  LET r == handler[c] IN
  /\ At(c, "replace")
  /\ users' = [users EXCEPT ![r.user].password = r.at]
  /\ epoch' = [epoch EXCEPT ![r.user] = @ + 1]
  /\ sessions' = [i \in DOMAIN sessions |->
       IF sessions[i].user # r.user THEN sessions[i]
       ELSE IF i = r.row THEN [sessions[i] EXCEPT !.since = epoch[r.user] + 1]
       ELSE [sessions[i] EXCEPT !.live = FALSE]]
  /\ Answered(c)
  /\ UNCHANGED <<clients, consents, asks, codes, tokens, aged, serviceTokens, clashes>>

\* replace_password: one transaction.  The kept session is as good as new.
ReplacePassword(c) ==
  LET r == handler[c] IN
  /\ At(c, "replace")
  /\ users' = [users EXCEPT ![r.user].password = r.at]
  /\ epoch' = [epoch EXCEPT ![r.user] = @ + 1]
  /\ sessions' = [i \in DOMAIN sessions |->
       IF sessions[i].user # r.user THEN sessions[i]
       ELSE IF i = r.row THEN [sessions[i] EXCEPT !.since = epoch[r.user] + 1]
       ELSE [sessions[i] EXCEPT !.live = FALSE]]
  /\ tokens' = [t \in DOMAIN tokens |->
       IF tokens[t].user = r.user THEN [tokens[t] EXCEPT !.revoked = TRUE] ELSE tokens[t]]
  /\ Answered(c)
  /\ UNCHANGED <<clients, consents, asks, codes, aged, serviceTokens, clashes>>

(***************************************************************************)
(* OAuth: a client registers, a user consents, a code becomes a family.    *)
(***************************************************************************)
RegisterClient(c, cred) ==
  /\ CurrentUser(cred) # {}
  /\ clients' = clients + 1
  /\ UNCHANGED <<users, sessions, consents, asks, codes, tokens, aged, serviceTokens, handler>> /\ Quiet

\* The grant a handler carries on: user and client, from the row it read.
Grant(op, pc, row, on) == Handler(op, pc, row.user, row.client, on)

Authorize(c, cred, client) ==
  \E u \in CurrentUser(cred) :
    Await(c, Grant("authorize", IF <<u.id, client>> \in consents THEN "code" ELSE "park",
                   [user |-> u.id, client |-> client], {}))

ParkRequest(c) ==
  /\ At(c, "park")
  /\ asks' = Append(asks, [user |-> handler[c].user, client |-> handler[c].at, state |-> "live"])
  /\ Answered(c)
  /\ UNCHANGED <<users, sessions, clients, consents, codes, tokens, aged, serviceTokens>> /\ Quiet

\* decide_consent, whoever posts: the row it found, gone or not, goes.
DecideConsent(c, cred, q, approve) ==
  /\ asks[q].state # "gone"
  /\ LET mine == \E u \in CurrentUser(cred) : u.id = asks[q].user
         ok   == asks[q].state = "live" /\ mine /\ approve
     IN Await(c, [Grant("consent", "delete", asks[q], {<<"consent", q>>})
                  EXCEPT !.row = q, !.granted = ok])

\* Mutant: an approval is not remembered.
DeleteRequest_Forgets(c) ==
  /\ At(c, "delete")
  /\ asks' = [asks EXCEPT ![handler[c].row].state = "gone"]
  /\ IF handler[c].granted THEN To(c, "code") ELSE Answered(c)
  /\ UNCHANGED <<users, sessions, clients, consents, codes, tokens, aged, serviceTokens>> /\ Quiet

DeleteRequest(c) ==
  /\ At(c, "delete")
  /\ asks' = [asks EXCEPT ![handler[c].row].state = "gone"]
  /\ IF handler[c].granted THEN To(c, "remember") ELSE Answered(c)
  /\ UNCHANGED <<users, sessions, clients, consents, codes, tokens, aged, serviceTokens>> /\ Quiet

\* The primary key is (user, client): the later of two inserts fails.
RememberConsent(c) ==
  LET pair == <<handler[c].user, handler[c].at>> IN
  /\ \/ At(c, "remember") /\ To(c, IF pair \in consents THEN "code" ELSE "insert_consent") /\ UNCHANGED consents
     \/ At(c, "insert_consent") /\ consents' = consents \cup {pair}
        /\ IF pair \in consents THEN Answered(c) ELSE To(c, "code")
  /\ UNCHANGED <<users, sessions, clients, asks, codes, tokens, aged, serviceTokens>> /\ Quiet

IssueCode(c) ==
  /\ At(c, "code")
  /\ codes' = Append(codes, Code(handler[c].user, handler[c].at,
                                 IF handler[c].op = "consent" THEN handler[c].row ELSE 0, handler[c].since))
  /\ Answered(c)
  /\ UNCHANGED <<users, sessions, clients, consents, asks, tokens, aged, serviceTokens>> /\ Quiet

ExchangeCode(c, k) ==
  /\ ~codes[k].used /\ codes[k].live
  /\ Await(c, [Grant("exchange", "burn", codes[k], {<<"code", k>>})
              EXCEPT !.row = k, !.approved = codes[k].since])

\* Mutant: the code stays good until it expires.
BurnCode_Not(c) == At(c, "burn") /\ To(c, "issue") /\ UNCHANGED accountRows /\ Quiet

BurnCode(c) ==
  /\ At(c, "burn")
  /\ codes' = [codes EXCEPT ![handler[c].row].used = TRUE]
  /\ To(c, "issue")
  /\ UNCHANGED <<users, sessions, clients, consents, asks, tokens, aged, serviceTokens>> /\ Quiet

\* issue_oauth_tokens, or the insert of rotate_oauth_tokens.
InsertToken(c, family, code) ==
  /\ tokens' = Append(tokens, Token(handler[c].user, handler[c].at, family, code,
                                   handler[c].since, handler[c].approved))
  /\ Answered(c)
  /\ UNCHANGED <<users, sessions, clients, consents, asks, codes, aged, serviceTokens>> /\ Quiet

Families == {tokens[t].family : t \in DOMAIN tokens}
IssueTokens(c) == At(c, "issue") /\ InsertToken(c, Cardinality(Families) + 1, handler[c].row)

\* refresh: a revoked row means the whole family goes.
Refresh(c, t) ==
  Await(c, [Grant("refresh", IF tokens[t].revoked THEN "reuse" ELSE "age", tokens[t],
                  {<<"family", tokens[t].family>>}) EXCEPT !.row = t, !.approved = tokens[t].approved])

FamilyOf(t) == {x \in DOMAIN tokens : tokens[x].family = tokens[t].family}

CheckAge(c) ==
  /\ At(c, "age")
  /\ To(c, IF tokens[handler[c].row].family \in aged THEN "reuse" ELSE "rotate")
  /\ UNCHANGED accountRows /\ Quiet

\* Mutant: only the token that was presented is revoked.
ReadFamily_OwnRow(c) ==
  /\ At(c, "reuse")
  /\ handler' = [handler EXCEPT ![c] = [@ EXCEPT !.pc = "revoke", !.todo = {handler[c].row}]]
  /\ UNCHANGED accountRows /\ Quiet

\* revoke_family reads the rows, then updates them one by one.
ReadFamily(c) ==
  /\ At(c, "reuse")
  /\ handler' = [handler EXCEPT ![c] = [@ EXCEPT !.pc = "revoke", !.todo = FamilyOf(handler[c].row)]]
  /\ UNCHANGED accountRows /\ Quiet

RevokeToken(c) ==
  LET r == handler[c]
      t == CHOOSE x \in r.todo : \A y \in r.todo : x <= y
  IN /\ At(c, "revoke")
     /\ IF r.todo = {} THEN Answered(c) /\ UNCHANGED tokens
        ELSE /\ tokens' = [tokens EXCEPT ![t].revoked = TRUE]
             /\ handler' = [handler EXCEPT ![c].todo = @ \ {t}]
     /\ UNCHANGED <<users, sessions, clients, consents, asks, codes, aged, serviceTokens>> /\ Quiet

\* Mutant: the token that is replaced stays good.
RotateToken_KeepsOld(c) == At(c, "rotate") /\ To(c, "renew") /\ UNCHANGED accountRows /\ Quiet

RotateToken(c) ==
  /\ At(c, "rotate")
  /\ tokens' = [tokens EXCEPT ![handler[c].row].revoked = TRUE]
  /\ To(c, "renew")
  /\ UNCHANGED <<users, sessions, clients, consents, asks, codes, aged, serviceTokens>> /\ Quiet

RenewToken(c) == At(c, "renew") /\ InsertToken(c, tokens[handler[c].row].family, 0)

(***************************************************************************)
(* Service tokens: an admin mints and revokes them; a local server makes   *)
(* sure of one of its own when it starts.                                  *)
(***************************************************************************)
LocalLabel == "local"
\* Any label that is not empty will do, the local server's own too.
Labels == {LocalLabel, "claude"}

\* seeded is history: a start of the local server put the row there.
InsertServiceToken(owner, admin, scope, label, seeded) ==
  /\ serviceTokens' = Append(serviceTokens,
       [owner |-> owner, admin |-> admin, scope |-> scope, label |-> label, state |-> "live", seeded |-> seeded])
  /\ UNCHANGED <<users, sessions, clients, consents, asks, codes, tokens, aged>> /\ Quiet

CreateServiceToken(c, cred, owner, label, scope, admin) ==
  /\ \E u \in CurrentUser(cred) : MayAdminister(u)
  /\ scope \in {"full", "read_only", "global_read"}
  /\ InsertServiceToken(owner, admin, scope, label, FALSE) /\ UNCHANGED handler

RevokeServiceToken(c, cred, t) ==
  /\ \E u \in CurrentUser(cred) : MayAdminister(u)
  /\ serviceTokens' = [serviceTokens EXCEPT ![t].state = "gone"]
  /\ UNCHANGED <<users, sessions, clients, consents, asks, codes, tokens, aged, handler>> /\ Quiet

\* What a start looks for: a row with the label, whoever made it and expired or not.
LocalTokens == {t \in DOMAIN serviceTokens : serviceTokens[t].state # "gone" /\ serviceTokens[t].label = LocalLabel}

\* Mutant: every start makes a token.
EnsureLocalServiceToken_Always(c) ==
  ~serverMode /\ Await(c, Handler("local", "seed", NoHandler, 0, {<<"local", 0>>}))

EnsureLocalServiceToken(c) ==
  ~serverMode /\ LocalTokens = {} /\ Await(c, Handler("local", "seed", NoHandler, 0, {<<"local", 0>>}))
SeedLocalToken(c) ==
  At(c, "seed") /\ Answered(c) /\ InsertServiceToken(LocalAdmin.id, TRUE, "full", LocalLabel, TRUE)

\* Time: whatever has a lifetime outlives it, as a minted token may have one.
SecretExpires ==
  /\ \/ \E i \in DOMAIN sessions : sessions[i].live /\ sessions' = [sessions EXCEPT ![i].live = FALSE]
        /\ UNCHANGED <<asks, codes, tokens, aged, serviceTokens>>
     \/ \E q \in DOMAIN asks : asks[q].state = "live" /\ asks' = [asks EXCEPT ![q].state = "expired"]
        /\ UNCHANGED <<sessions, codes, tokens, aged, serviceTokens>>
     \/ \E k \in DOMAIN codes : codes[k].live /\ codes' = [codes EXCEPT ![k].live = FALSE]
        /\ UNCHANGED <<sessions, asks, tokens, aged, serviceTokens>>
     \/ \E t \in DOMAIN tokens : tokens[t].live /\ tokens' = [tokens EXCEPT ![t].live = FALSE]
        /\ UNCHANGED <<sessions, asks, codes, aged, serviceTokens>>
     \/ \E f \in Families \ aged : aged' = aged \cup {f} /\ UNCHANGED <<sessions, asks, codes, tokens, serviceTokens>>
     \/ \E t \in DOMAIN serviceTokens :
          /\ serviceTokens[t].state = "live" /\ ~serviceTokens[t].seeded
          /\ serviceTokens' = [serviceTokens EXCEPT ![t].state = "expired"]
          /\ UNCHANGED <<sessions, asks, codes, tokens, aged>>
  /\ UNCHANGED <<users, clients, consents, handler>> /\ Quiet

\* require_server_mode guards what is about passwords and sessions.
AccountRequest(c) ==
  \/ serverMode /\ \E u \in UserNames, p \in Passwords :
       \/ Register(c, u, p) \/ Login(c, u, p)
       \/ \E cred \in Credentials, q \in Passwords : ChangePassword(c, cred, p, q)
       \/ \E cred \in Credentials : ResetPassword(c, cred, u, p)
  \/ serverMode /\ \E i \in DOMAIN sessions : Logout(c, i)
  \/ \E cred \in Credentials :
       \/ RegisterClient(c, cred)
       \/ \E client \in 1..clients : Authorize(c, cred, client)
       \/ \E q \in DOMAIN asks, approve \in BOOLEAN : DecideConsent(c, cred, q, approve)
       \/ \E owner \in UserNames, label \in Labels, scope \in TokenScopes, admin \in BOOLEAN :
            CreateServiceToken(c, cred, owner, label, scope, admin)
       \/ \E t \in DOMAIN serviceTokens : RevokeServiceToken(c, cred, t)
  \/ \E k \in DOMAIN codes : ExchangeCode(c, k)
  \/ \E t \in DOMAIN tokens : Refresh(c, t)
  \/ EnsureLocalServiceToken(c)

AccountStep(c) ==
  \/ CountUsers(c) \/ InsertUser(c) \/ OpenSession(c) \/ VerifyPassword(c) \/ ReplacePassword(c)
  \/ ParkRequest(c) \/ DeleteRequest(c) \/ RememberConsent(c) \/ IssueCode(c)
  \/ BurnCode(c) \/ IssueTokens(c) \/ CheckAge(c) \/ ReadFamily(c) \/ RevokeToken(c)
  \/ RotateToken(c) \/ RenewToken(c) \/ SeedLocalToken(c)

CountRequest == accountRequests < MaxAccountRequests /\ accountRequests' = accountRequests + 1

AccountsNext ==
  /\ UNCHANGED serverMode
  /\ \/ \E c \in AccountClients : ~Busy(c) /\ CountRequest /\ AccountRequest(c)
     \/ \E c \in AccountClients : AccountStep(c) /\ UNCHANGED accountRequests
     \/ CountRequest /\ SecretExpires
AccountsSpec == AccountsInit /\ [][AccountsNext]_accountVars

(***************************************************************************)
(* Properties.                                                             *)
(***************************************************************************)
Live(f) == {t \in DOMAIN tokens : tokens[t].family = f /\ ~tokens[t].revoked}

\* The first user to register is the admin and everyone after is a plain user
\* (register), unless a second registration began before the first was in.
OneFounder ==
  \/ <<"founding", 0>> \in clashes
  \/ Cardinality({u \in DOMAIN users : users[u].admin}) = IF DOMAIN users = {} THEN 0 ELSE 1

\* A password that is replaced takes along every session and token handed out
\* before (replace_password): what still resolves to somebody was asked for after
\* the last replacement, or by a handler that the replacement met halfway.  What
\* a token asked for since goes back to is the next property's question.
ReplacedPasswordSignsOut ==
  \A cred \in Credentials : \A u \in CurrentUser(cred) \cup McpCaller(cred) :
    \/ cred.kind \notin {"session", "oauth"} \/ ~serverMode \/ <<"password", u.id>> \in clashes
    \/ cred.kind = "session" /\ sessions[cred.at].since = epoch[u.id]
    \/ cred.kind = "oauth" /\ tokens[cred.at].since = epoch[u.id]

\* "a leaked password should not leave a live OAuth grant behind" (ADR-0055): no
\* token that resolves goes back to a grant made under a password since replaced.
ReplacedPasswordLeavesNoGrant ==
  \A t \in DOMAIN tokens : \A u \in OauthTokenUser(tokens[t]) :
    ~serverMode \/ <<"password", u.id>> \in clashes \/ tokens[t].approved = epoch[u.id]

\* Nothing is granted to a client but what its user once approved.
GrantsWereApproved ==
  /\ \A k \in DOMAIN codes : <<codes[k].user, codes[k].client>> \in consents
  /\ \A t \in DOMAIN tokens : <<tokens[t].user, tokens[t].client>> \in consents

\* A consent request is answered once and a code exchanged once, unless two
\* requests for it overlap (decide_consent, exchange_code).
GrantsAreSingleUse ==
  /\ \A q \in DOMAIN asks : <<"consent", q>> \in clashes \/ Cardinality({k \in DOMAIN codes : codes[k].ask = q}) <= 1
  /\ \A k \in DOMAIN codes : <<"code", k>> \in clashes \/ Cardinality({t \in DOMAIN tokens : tokens[t].code = k}) <= 1

\* Unless two refreshes of one family overlap, however often it is rotated,
\* the family has one live refresh token at most.
RotationLeavesOneToken ==
  \A f \in Families : <<"family", f>> \in clashes \/ Cardinality(Live(f)) <= 1

\* A token once revoked is never good again, and reuse or age, once answered,
\* leaves nothing of the family (refresh, revoke_family), unless refreshes overlap.
RevocationIsFinal ==
  /\ \A t \in DOMAIN tokens : tokens[t].revoked => tokens'[t].revoked
  /\ \A c \in AccountClients : \A f \in Families :
       At(c, "revoke") /\ tokens[handler[c].row].family = f /\ handler'[c] = NoHandler
         => <<"family", f>> \in clashes \/ Live(f) = {}
RevocationsAreFinal == [][RevocationIsFinal]_accountVars

\* However often it starts, a local server seeds one token and no second while a
\* row with its label is there, unless two start at the same time.  Whose token a
\* row under that label is, when an admin has minted one, this does not say.
SeededTokens  == {t \in LocalTokens : serviceTokens[t].seeded}
OneLocalToken == <<"local", 0>> \in clashes \/ Cardinality(SeededTokens) <= 1

\* What the first request gets, a second does not: the admin's account, the token
\* a local server seeds.
FirstsAreOnce == OneFounder /\ OneLocalToken

\* A grant is what its user approved, and each of its tickets (consent
\* request, code, refresh token) is spent once.
GrantsAreSpentOnce == GrantsWereApproved /\ GrantsAreSingleUse /\ RotationLeavesOneToken
=============================================================================
