---------------------------- MODULE AccessProofs ----------------------------
(***************************************************************************)
(* Proofs about accounts and about the assistant that acts for them, for   *)
(* every set of handlers, users, passwords, sessions and sockets and any   *)
(* number of requests: what is first is once, what is granted is what was  *)
(* approved and is spent once, a replaced password and a revocation are    *)
(* final; what the assistant may do unasked, what its log tells and what   *)
(* it lists as live, and the providers its models come from. Where two     *)
(* handlers of Accounts overlap, the specification names the overlap in    *)
(* clashes; the proofs say that nothing else can go wrong.                 *)
(***************************************************************************)
EXTENDS Accounts, Assistant, ToolCalls, Providers,
        FiniteSetTheorems, SequenceTheorems, WellFoundedInduction, TLAPS

-----------------------------------------------------------------------------
(***************************************************************************)
(* Tables are sequences that rows are appended to and updated in.          *)
(***************************************************************************)

\* An insert keeps the rows there are and adds one past the last.
LEMMA InsertRow ==
  ASSUME NEW S, NEW s \in Seq(S), NEW e \in S
  PROVE  /\ Append(s, e) \in Seq(S)
         /\ DOMAIN Append(s, e) = DOMAIN s \cup {Len(s) + 1}
         /\ Len(Append(s, e)) = Len(s) + 1
         /\ \A i \in DOMAIN s : Append(s, e)[i] = s[i]
         /\ Append(s, e)[Len(s) + 1] = e
         /\ Len(s) + 1 \notin DOMAIN s
OBVIOUS

\* An update keeps how many rows there are.
LEMMA UpdateRows ==
  ASSUME NEW S, NEW s \in Seq(S), NEW t, t = [i \in DOMAIN s |-> t[i]],
         \A i \in DOMAIN s : t[i] \in S
  PROVE  t \in Seq(S) /\ DOMAIN t = DOMAIN s /\ Len(t) = Len(s)
<1>1. Len(s) \in Nat /\ DOMAIN s = 1 .. Len(s)  OBVIOUS
<1>2. DOMAIN t = 1 .. Len(s)  BY <1>1
<1>3. t \in [1 .. Len(s) -> S]  BY <1>1
<1>4. t \in Seq(S)  BY <1>1, <1>3
<1>5. Len(t) = Len(s)  BY <1>1, <1>2, <1>4
<1> QED  BY <1>1, <1>2, <1>4, <1>5

LEMMA UpdateRow ==
  ASSUME NEW S, NEW s \in Seq(S), NEW i, NEW e, i \in DOMAIN s => e \in S
  PROVE  /\ [s EXCEPT ![i] = e] \in Seq(S)
         /\ DOMAIN [s EXCEPT ![i] = e] = DOMAIN s
         /\ Len([s EXCEPT ![i] = e]) = Len(s)
         /\ \A j \in DOMAIN s : [s EXCEPT ![i] = e][j] = IF j = i THEN e ELSE s[j]
<1> DEFINE t == [s EXCEPT ![i] = e]
<1>1. t = [j \in DOMAIN s |-> t[j]]  OBVIOUS
<1>2. \A j \in DOMAIN s : t[j] = IF j = i THEN e ELSE s[j]  OBVIOUS
<1>3. \A j \in DOMAIN s : s[j] \in S  OBVIOUS
<1>4. \A j \in DOMAIN s : t[j] \in S  BY <1>2, <1>3
<1> HIDE DEF t
<1>5. t \in Seq(S) /\ DOMAIN t = DOMAIN s /\ Len(t) = Len(s)  BY <1>1, <1>4, UpdateRows
<1> QED  BY <1>2, <1>5 DEF t

\* A set any two members of which are equal has one at most.
LEMMA AtMostOne ==
  ASSUME NEW S, \A x, y \in S : x = y
  PROVE  Cardinality(S) <= 1
<1>1. CASE S = {}  BY <1>1, FS_EmptySet
<1>2. CASE S # {}
  <2>1. PICK x \in S : TRUE  BY <1>2
  <2>2. S = {x}  BY <2>1
  <2>3. Cardinality(S) = 1  BY <2>2, FS_Singleton
  <2> QED  BY <2>3
<1> QED  BY <1>1, <1>2

-----------------------------------------------------------------------------
(***************************************************************************)
(* Types.                                                                  *)
(***************************************************************************)
SessionRec == [user : UserNames, live : BOOLEAN, since : Nat]
AskRec     == [user : UserIds, client : Nat, state : {"live", "expired", "gone"}]
CodeRec    == [user : UserIds, client : Nat, used : BOOLEAN, live : BOOLEAN, ask : Nat, since : Nat]
TokenRec   == [user : UserIds, client : Nat, family : Nat \ {0}, revoked : BOOLEAN,
               live : BOOLEAN, code : Nat, since : Nat, approved : Nat]
ServiceRec == [owner : UserIds, admin : BOOLEAN, scope : TokenScopes \cup {"full"},
               label : Labels, state : {"live", "expired", "gone"}, seeded : BOOLEAN]

UsersTypeOK ==
  /\ DOMAIN users \subseteq UserNames
  /\ users \in [DOMAIN users -> [admin : BOOLEAN, password : Passwords]]
  /\ epoch \in [UserNames -> Nat]

RowsTypeOK ==
  /\ serverMode \in BOOLEAN
  /\ UsersTypeOK
  /\ sessions \in Seq(SessionRec)
  /\ clients \in Nat
  /\ asks \in Seq(AskRec)
  /\ codes \in Seq(CodeRec)
  /\ tokens \in Seq(TokenRec)
  /\ serviceTokens \in Seq(ServiceRec)

(***************************************************************************)
(* What a handler r under way relies on.  Each part is about some of the   *)
(* tables only, and holds unless another handler is known to interfere.    *)
(***************************************************************************)
TypedHandler(r) ==
  /\ r \in Handlers
  /\ r.pc \in HandlerPCs[r.op]
  /\ r.op \in {"register", "login", "password"} => r.user \in UserNames
  /\ r.op \in {"register", "password"} => r.at \in Passwords
  /\ r.op \in {"authorize", "consent", "exchange", "refresh"} => r.at \in Nat /\ r.user \in UserIds
  /\ r.op = "register" => <<"founding", 0>> \in r.on
  /\ r.op = "local"    => <<"local", 0>> \in r.on
  /\ r.op = "consent"  => <<"consent", r.row>> \in r.on
  /\ r.op = "exchange" => <<"code", r.row>> \in r.on

\* The rows it found are there: nothing deletes a row.
RowFound(r) ==
  /\ r.op = "consent"  => r.row \in DOMAIN asks
  /\ r.op = "exchange" => r.row \in DOMAIN codes
  /\ r.op = "refresh"  => r.row \in DOMAIN tokens /\ <<"family", tokens[r.row].family>> \in r.on

\* What stands for user u was earned after u's last new password.
Earned(u, since) == <<"password", u>> \in clashes \/ since = epoch[u]
EarnedBy(r) == r.user \in UserNames => Earned(r.user, r.since)

ApprovedFor(r) ==
  r.op \in {"exchange", "refresh"} \/ r.pc = "code" => <<r.user, r.at>> \in consents

FoundingSeen(r) ==
  r.pc = "insert" => <<"founding", 0>> \in clashes \/ r.admin = (DOMAIN users = {})

NoLocalYet(r) == r.pc = "seed" => <<"local", 0>> \in clashes \/ SeededTokens = {}

CodesOf(q) == {k \in DOMAIN codes : codes[k].ask = q}
NoCodeYet(r) ==
  r.op = "consent" =>
    \/ <<"consent", r.row>> \in clashes
    \/ CodesOf(r.row) = {} /\ (r.pc # "delete" => asks[r.row].state = "gone")

TokensOf(k) == {t \in DOMAIN tokens : tokens[t].code = k}
NoTokenYet(r) ==
  r.op = "exchange" =>
    \/ <<"code", r.row>> \in clashes
    \/ TokensOf(r.row) = {} /\ (r.pc # "burn" => codes[r.row].used)

FamilyHeld(r) ==
  r.op = "refresh" =>
    LET f == tokens[r.row].family IN
    \/ <<"family", f>> \in clashes
    \/ /\ r.pc \in {"age", "rotate"} => Live(f) \subseteq {r.row}
       /\ r.pc = "renew" => Live(f) = {}
       /\ r.pc = "revoke" => Live(f) \subseteq r.todo

Promise(r) ==
  /\ TypedHandler(r) /\ RowFound(r) /\ EarnedBy(r) /\ ApprovedFor(r) /\ FoundingSeen(r)
  /\ NoLocalYet(r) /\ NoCodeYet(r) /\ NoTokenYet(r) /\ FamilyHeld(r)

HandlersOK ==
  /\ handler \in [AccountClients -> Handlers \cup {NoHandler}]
  /\ \A c \in AccountClients : Busy(c) => Promise(handler[c])

\* Two handlers at the same time are known for what both work on.
Overlaps ==
  \A c, d \in AccountClients :
    c # d /\ Busy(c) /\ Busy(d) => Clash(handler[c], handler[d]) \subseteq clashes

(***************************************************************************)
(* What the tables agree on.                                               *)
(***************************************************************************)
EarnedRows ==
  /\ \A i \in DOMAIN sessions : sessions[i].live => Earned(sessions[i].user, sessions[i].since)
  /\ \A t \in DOMAIN tokens :
       tokens[t].user \in UserNames /\ ~tokens[t].revoked => Earned(tokens[t].user, tokens[t].since)

Admins == {u \in DOMAIN users : users[u].admin}
FoundingRow ==
  \/ <<"founding", 0>> \in clashes
  \/ IF DOMAIN users = {} THEN Admins = {} ELSE \E u : Admins = {u}

LocalRow == <<"local", 0>> \in clashes \/ \A x, y \in SeededTokens : x = y

AskRows ==
  \A q \in DOMAIN asks :
    \/ <<"consent", q>> \in clashes
    \/ (\A x, y \in CodesOf(q) : x = y) /\ (asks[q].state # "gone" => CodesOf(q) = {})

CodeRows ==
  \A k \in DOMAIN codes :
    \/ <<"code", k>> \in clashes
    \/ (\A x, y \in TokensOf(k) : x = y) /\ (~codes[k].used => TokensOf(k) = {})

FamilyRows ==
  \A f \in Families : <<"family", f>> \in clashes \/ \A x, y \in Live(f) : x = y

\* A code names a consent request there is, a token a code; families are numbered.
TicketRows ==
  /\ \A k \in DOMAIN codes : codes[k].ask <= Len(asks)
  /\ \A t \in DOMAIN tokens : tokens[t].code <= Len(codes)
  /\ \E n \in Nat : Families = 1 .. n

RowsOK ==
  /\ EarnedRows /\ GrantsWereApproved /\ FoundingRow /\ LocalRow
  /\ AskRows /\ CodeRows /\ FamilyRows /\ TicketRows

IInv == RowsTypeOK /\ HandlersOK /\ Overlaps /\ RowsOK

-----------------------------------------------------------------------------
(***************************************************************************)
(* What a handler relied on it still relies on, as long as the tables      *)
(* change no more than each lemma says.                                    *)
(***************************************************************************)

LEMMA TypedKept ==
  ASSUME NEW r, NEW d, handler'[d] = r, TypedHandler(r)
  PROVE  TypedHandler(handler[d])'
BY DEF TypedHandler

LEMMA FoundKept ==
  ASSUME NEW r, NEW d, handler'[d] = r, RowFound(r),
         DOMAIN asks \subseteq DOMAIN asks', DOMAIN codes \subseteq DOMAIN codes',
         \A t \in DOMAIN tokens : t \in DOMAIN tokens' /\ tokens'[t].family = tokens[t].family
  PROVE  RowFound(handler[d])'
BY DEF RowFound

LEMMA EarnedKept ==
  ASSUME NEW r, NEW d, handler'[d] = r, EarnedBy(r),
         clashes \subseteq clashes', UNCHANGED epoch
  PROVE  EarnedBy(handler[d])'
BY DEF EarnedBy, Earned

LEMMA ApprovedKept ==
  ASSUME NEW r, NEW d, handler'[d] = r, ApprovedFor(r), consents \subseteq consents'
  PROVE  ApprovedFor(handler[d])'
BY DEF ApprovedFor

LEMMA FoundingKept ==
  ASSUME NEW r, NEW d, handler'[d] = r, FoundingSeen(r),
         clashes \subseteq clashes', DOMAIN users' = DOMAIN users
  PROVE  FoundingSeen(handler[d])'
BY DEF FoundingSeen

LEMMA LocalKept ==
  ASSUME NEW r, NEW d, handler'[d] = r, NoLocalYet(r),
         clashes \subseteq clashes', SeededTokens' \subseteq SeededTokens
  PROVE  NoLocalYet(handler[d])'
BY DEF NoLocalYet

LEMMA CodeKept ==
  ASSUME NEW r, NEW d, handler'[d] = r, NoCodeYet(r), RowFound(r),
         clashes \subseteq clashes', DOMAIN codes' = DOMAIN codes,
         \A k \in DOMAIN codes : codes'[k].ask = codes[k].ask,
         \A q \in DOMAIN asks : asks[q].state = "gone" => asks'[q].state = "gone"
  PROVE  NoCodeYet(handler[d])'
BY DEF NoCodeYet, RowFound, CodesOf

LEMMA TokenKept ==
  ASSUME NEW r, NEW d, handler'[d] = r, NoTokenYet(r), RowFound(r),
         clashes \subseteq clashes', DOMAIN tokens' = DOMAIN tokens,
         \A t \in DOMAIN tokens : tokens'[t].code = tokens[t].code,
         \A k \in DOMAIN codes : codes[k].used => codes'[k].used
  PROVE  NoTokenYet(handler[d])'
BY DEF NoTokenYet, RowFound, TokensOf

LEMMA FamilyKept ==
  ASSUME NEW r, NEW d, handler'[d] = r, FamilyHeld(r), RowFound(r),
         clashes \subseteq clashes', DOMAIN tokens' = DOMAIN tokens,
         \A t \in DOMAIN tokens : /\ tokens'[t].family = tokens[t].family
                                  /\ tokens[t].revoked => tokens'[t].revoked
  PROVE  FamilyHeld(handler[d])'
<1>1. \A f : {t \in DOMAIN tokens' : tokens'[t].family = f /\ ~tokens'[t].revoked} \subseteq Live(f)
  BY DEF Live
<1> QED  BY <1>1 DEF FamilyHeld, RowFound, Live

\* Nothing anybody relies on goes: rows stay the rows they are, and what is
\* spent, gone or revoked stays so.
NothingUndone ==
  /\ clashes \subseteq clashes' /\ consents \subseteq consents' /\ UNCHANGED epoch
  /\ DOMAIN users' = DOMAIN users /\ SeededTokens' \subseteq SeededTokens
  /\ DOMAIN asks \subseteq DOMAIN asks' /\ DOMAIN codes' = DOMAIN codes /\ DOMAIN tokens' = DOMAIN tokens
  /\ \A q \in DOMAIN asks : asks[q].state = "gone" => asks'[q].state = "gone"
  /\ \A k \in DOMAIN codes : codes'[k].ask = codes[k].ask /\ (codes[k].used => codes'[k].used)
  /\ \A t \in DOMAIN tokens : /\ tokens'[t].family = tokens[t].family
                              /\ tokens'[t].code = tokens[t].code
                              /\ tokens[t].revoked => tokens'[t].revoked

LEMMA PromiseKept ==
  ASSUME NEW r, NEW d, handler'[d] = r, Promise(r), NothingUndone
  PROVE  Promise(handler[d])'
<1>1. /\ TypedHandler(r) /\ RowFound(r) /\ EarnedBy(r) /\ ApprovedFor(r) /\ FoundingSeen(r)
      /\ NoLocalYet(r) /\ NoCodeYet(r) /\ NoTokenYet(r) /\ FamilyHeld(r)
  BY DEF Promise
<1>2. TypedHandler(handler[d])'  BY <1>1, TypedKept
<1>3. RowFound(handler[d])'      BY <1>1, FoundKept DEF NothingUndone
<1>4. EarnedBy(handler[d])'      BY <1>1, EarnedKept DEF NothingUndone
<1>5. ApprovedFor(handler[d])'   BY <1>1, ApprovedKept DEF NothingUndone
<1>6. FoundingSeen(handler[d])'  BY <1>1, FoundingKept DEF NothingUndone
<1>7. NoLocalYet(handler[d])'    BY <1>1, LocalKept DEF NothingUndone
<1>8. NoCodeYet(handler[d])'     BY <1>1, CodeKept DEF NothingUndone
<1>9. NoTokenYet(handler[d])'    BY <1>1, TokenKept DEF NothingUndone
<1>10. FamilyHeld(handler[d])'   BY <1>1, FamilyKept DEF NothingUndone
<1> QED  BY <1>2, <1>3, <1>4, <1>5, <1>6, <1>7, <1>8, <1>9, <1>10 DEF Promise

\* Of a handler that moves on, only what its tickets are is to be looked at.
LEMMA MovedKept ==
  ASSUME NEW r, NEW d, handler'[d] = r, NothingUndone,
         TypedHandler(r), RowFound(r), EarnedBy(r), FoundingSeen(r), NoLocalYet(r),
         ApprovedFor(handler[d])', NoCodeYet(handler[d])', NoTokenYet(handler[d])', FamilyHeld(handler[d])'
  PROVE  Promise(handler[d])'
<1>1. TypedHandler(handler[d])'  BY TypedKept
<1>2. RowFound(handler[d])'      BY FoundKept DEF NothingUndone
<1>3. EarnedBy(handler[d])'      BY EarnedKept DEF NothingUndone
<1>4. FoundingSeen(handler[d])'  BY FoundingKept DEF NothingUndone
<1>5. NoLocalYet(handler[d])'    BY LocalKept DEF NothingUndone
<1> QED  BY <1>1, <1>2, <1>3, <1>4, <1>5 DEF Promise

-----------------------------------------------------------------------------
(***************************************************************************)
(* Steps of the handlers, and requests that begin one.                     *)
(***************************************************************************)

\* A step of one handler keeps the others' promises if it keeps each promise
\* that does not clash with it.
LEMMA OneStep ==
  ASSUME HandlersOK, Overlaps, NEW c \in AccountClients, Busy(c), UNCHANGED clashes,
         handler' \in [AccountClients -> Handlers \cup {NoHandler}],
         \A d \in AccountClients \ {c} : handler'[d] = handler[d],
         Busy(c)' => /\ Promise(handler[c])'
                     /\ handler'[c].op = handler[c].op
                     /\ handler'[c].user = handler[c].user
                     /\ handler'[c].on = handler[c].on,
         \A d \in AccountClients \ {c} :
           Busy(d) /\ Promise(handler[d]) /\ Clash(handler[c], handler[d]) \subseteq clashes
             => Promise(handler[d])'
  PROVE  HandlersOK' /\ Overlaps'
<1>1. ASSUME NEW d \in AccountClients, Busy(d)' PROVE Promise(handler[d])'
  <2>1. CASE d = c  BY <1>1, <2>1
  <2>2. CASE d # c
    <3>1. Busy(d)  BY <1>1, <2>2 DEF Busy
    <3>2. Promise(handler[d]) /\ Clash(handler[c], handler[d]) \subseteq clashes
      BY <2>2, <3>1 DEF HandlersOK, Overlaps
    <3> QED  BY <2>2, <3>1, <3>2
  <2> QED  BY <2>1, <2>2
<1>2. ASSUME NEW d \in AccountClients, NEW e \in AccountClients, d # e, Busy(d)', Busy(e)'
      PROVE  (Clash(handler[d], handler[e]) \subseteq clashes)'
  <2>1. Busy(d) /\ Busy(e)
    BY <1>2 DEF Busy
  <2>2. \A x \in {d, e} : /\ handler'[x].op = handler[x].op /\ handler'[x].user = handler[x].user
                          /\ handler'[x].on = handler[x].on
    BY <1>2
  <2>3. Clash(handler[d], handler[e]) \subseteq clashes
    BY <1>2, <2>1 DEF Overlaps
  <2> QED  BY <2>2, <2>3 DEF Clash
<1>3. HandlersOK'  BY <1>1 DEF HandlersOK
<1>4. Overlaps'    BY <1>2 DEF Overlaps
<1> QED  BY <1>3, <1>4

\* While nothing is undone, only the handler that moves has to be looked at.
LEMMA QuietStep ==
  ASSUME HandlersOK, Overlaps, NEW c \in AccountClients, Busy(c), UNCHANGED clashes, NothingUndone,
         NEW s \in Handlers \cup {NoHandler}, handler' = [handler EXCEPT ![c] = s],
         s # NoHandler => /\ Promise(handler[c])'
                          /\ s.op = handler[c].op /\ s.user = handler[c].user /\ s.on = handler[c].on
  PROVE  HandlersOK' /\ Overlaps'
<1>1. /\ handler'[c] = s
      /\ \A d \in AccountClients \ {c} : handler'[d] = handler[d]
      /\ handler' \in [AccountClients -> Handlers \cup {NoHandler}]
  BY DEF HandlersOK
<1>2. \A d \in AccountClients \ {c} : Promise(handler[d]) => Promise(handler[d])'
  BY <1>1, PromiseKept
<1>3. Busy(c)' => s # NoHandler  BY <1>1 DEF Busy
<1>4. Busy(c)' => /\ Promise(handler[c])'
                  /\ handler'[c].op = handler[c].op
                  /\ handler'[c].user = handler[c].user
                  /\ handler'[c].on = handler[c].on
  BY <1>1, <1>3
<1>5. \A d \in AccountClients \ {c} :
        Busy(d) /\ Promise(handler[d]) /\ Clash(handler[c], handler[d]) \subseteq clashes
          => Promise(handler[d])'
  BY <1>2
<1> QED  BY <1>1, <1>4, <1>5, OneStep

\* A request begins a handler: its clashes are known from the start.
LEMMA AwaitHandlers ==
  ASSUME HandlersOK, Overlaps, NEW c \in AccountClients, ~Busy(c),
         NEW r \in Handlers, Await(c, r), Promise(r)
  PROVE  HandlersOK' /\ Overlaps'
<1>1. /\ handler' = [handler EXCEPT ![c] = r] /\ clashes \subseteq clashes'
      /\ UNCHANGED <<users, sessions, clients, consents, asks, codes, tokens, aged, serviceTokens, epoch>>
      /\ \A d \in AccountClients \ {c} : Busy(d) => Clash(r, handler[d]) \subseteq clashes'
  BY DEF Await, accountRows
<1>2. /\ handler'[c] = r
      /\ \A d \in AccountClients \ {c} : handler'[d] = handler[d]
      /\ handler' \in [AccountClients -> Handlers \cup {NoHandler}]
  BY <1>1 DEF HandlersOK
<1>3. NothingUndone  BY <1>1 DEF NothingUndone, SeededTokens, LocalTokens
<1>4. ASSUME NEW d \in AccountClients, Busy(d)' PROVE Promise(handler[d])'
  <2>1. CASE d = c  BY <1>2, <1>3, <2>1, PromiseKept
  <2>2. CASE d # c
    <3>1. handler'[d] = handler[d] /\ Promise(handler[d])
      BY <1>2, <1>4, <2>2 DEF HandlersOK, Busy
    <3> QED  BY <1>3, <3>1, PromiseKept
  <2> QED  BY <2>1, <2>2
<1>5. ASSUME NEW d \in AccountClients, NEW e \in AccountClients, d # e, Busy(d)', Busy(e)'
      PROVE  (Clash(handler[d], handler[e]) \subseteq clashes)'
  <2>1. CASE d # c /\ e # c
    <3>1. Clash(handler[d], handler[e]) \subseteq clashes
      BY <1>2, <1>5, <2>1 DEF Overlaps, Busy
    <3> QED  BY <1>1, <1>2, <2>1, <3>1 DEF Clash
  <2>2. CASE d = c
    <3>1. Clash(r, handler[e]) \subseteq clashes'
      BY <1>1, <1>2, <1>5, <2>2 DEF Busy
    <3> QED  BY <1>2, <1>5, <2>2, <3>1 DEF Clash
  <2>3. CASE e = c
    <3>1. Clash(r, handler[d]) \subseteq clashes'
      BY <1>1, <1>2, <1>5, <2>3 DEF Busy
    <3> QED  BY <1>2, <1>5, <2>3, <3>1 DEF Clash
  <2> QED  BY <2>1, <2>2, <2>3
<1>6. HandlersOK'  BY <1>2, <1>4 DEF HandlersOK
<1>7. Overlaps'    BY <1>5 DEF Overlaps
<1> QED  BY <1>6, <1>7

-----------------------------------------------------------------------------
(***************************************************************************)
(* While the tables it is about stay, what they agree on stays too.        *)
(***************************************************************************)

LEMMA EarnedStays ==
  ASSUME EarnedRows, UNCHANGED <<sessions, epoch>>, clashes \subseteq clashes', DOMAIN tokens' = DOMAIN tokens,
         \A t \in DOMAIN tokens : /\ tokens'[t].user = tokens[t].user /\ tokens'[t].since = tokens[t].since
                                  /\ tokens[t].revoked => tokens'[t].revoked
  PROVE  EarnedRows'
BY DEF EarnedRows, Earned

LEMMA ApprovedStays ==
  ASSUME GrantsWereApproved, consents \subseteq consents',
         DOMAIN codes' = DOMAIN codes, DOMAIN tokens' = DOMAIN tokens,
         \A k \in DOMAIN codes : codes'[k].user = codes[k].user /\ codes'[k].client = codes[k].client,
         \A t \in DOMAIN tokens : tokens'[t].user = tokens[t].user /\ tokens'[t].client = tokens[t].client
  PROVE  GrantsWereApproved'
BY DEF GrantsWereApproved

LEMMA FoundingStays ==
  ASSUME FoundingRow, UNCHANGED users, clashes \subseteq clashes'
  PROVE  FoundingRow'
BY DEF FoundingRow, Admins

LEMMA LocalStays ==
  ASSUME LocalRow, SeededTokens' \subseteq SeededTokens, clashes \subseteq clashes'
  PROVE  LocalRow'
BY DEF LocalRow

LEMMA AsksStay ==
  ASSUME AskRows, clashes \subseteq clashes', DOMAIN asks' = DOMAIN asks, DOMAIN codes' = DOMAIN codes,
         \A k \in DOMAIN codes : codes'[k].ask = codes[k].ask,
         \A q \in DOMAIN asks : asks[q].state = "gone" => asks'[q].state = "gone"
  PROVE  AskRows'
<1>1. \A q : {k \in DOMAIN codes' : codes'[k].ask = q} = CodesOf(q)  BY DEF CodesOf
<1>2. ASSUME NEW q \in DOMAIN asks
      PROVE  \/ <<"consent", q>> \in clashes'
             \/ /\ \A x, y \in {k \in DOMAIN codes' : codes'[k].ask = q} : x = y
                /\ asks'[q].state # "gone" => {k \in DOMAIN codes' : codes'[k].ask = q} = {}
  BY <1>1 DEF AskRows
<1> QED  BY <1>2 DEF AskRows, CodesOf

LEMMA CodesStay ==
  ASSUME CodeRows, clashes \subseteq clashes', DOMAIN codes' = DOMAIN codes, DOMAIN tokens' = DOMAIN tokens,
         \A k \in DOMAIN codes : codes[k].used => codes'[k].used,
         \A t \in DOMAIN tokens : tokens'[t].code = tokens[t].code
  PROVE  CodeRows'
<1>1. \A k : {t \in DOMAIN tokens' : tokens'[t].code = k} = TokensOf(k)  BY DEF TokensOf
<1>2. ASSUME NEW k \in DOMAIN codes
      PROVE  \/ <<"code", k>> \in clashes'
             \/ /\ \A x, y \in {t \in DOMAIN tokens' : tokens'[t].code = k} : x = y
                /\ ~codes'[k].used => {t \in DOMAIN tokens' : tokens'[t].code = k} = {}
  BY <1>1 DEF CodeRows
<1> QED  BY <1>2 DEF CodeRows, TokensOf

LEMMA FamiliesStay ==
  ASSUME FamilyRows, clashes \subseteq clashes', DOMAIN tokens' = DOMAIN tokens,
         \A t \in DOMAIN tokens : /\ tokens'[t].family = tokens[t].family
                                  /\ tokens[t].revoked => tokens'[t].revoked
  PROVE  FamilyRows' /\ Families' = Families
<1>1. Families' = Families  BY DEF Families
<1>2. \A f : {t \in DOMAIN tokens' : tokens'[t].family = f /\ ~tokens'[t].revoked} \subseteq Live(f)
  BY DEF Live
<1>4. ASSUME NEW f \in Families
      PROVE  \/ <<"family", f>> \in clashes'
             \/ \A x, y \in {t \in DOMAIN tokens' : tokens'[t].family = f /\ ~tokens'[t].revoked} : x = y
  <2>1. <<"family", f>> \in clashes \/ \A x, y \in Live(f) : x = y  BY DEF FamilyRows
  <2> QED  BY <1>2, <2>1
<1>5. FamilyRows'  BY <1>1, <1>4 DEF FamilyRows, Live
<1> QED  BY <1>1, <1>5

LEMMA TicketsStay ==
  ASSUME RowsTypeOK, TicketRows, Len(asks') \in Nat, Len(asks') >= Len(asks), Len(codes') = Len(codes),
         DOMAIN codes' = DOMAIN codes, DOMAIN tokens' = DOMAIN tokens,
         \A k \in DOMAIN codes : codes'[k].ask = codes[k].ask,
         \A t \in DOMAIN tokens : /\ tokens'[t].family = tokens[t].family
                                  /\ tokens'[t].code = tokens[t].code
  PROVE  TicketRows'
<1>1. Families' = Families  BY DEF Families
<1>2. \A k \in DOMAIN codes : codes[k].ask \in Nat
  <2>1. \A k \in DOMAIN codes : codes[k] \in CodeRec  BY DEF RowsTypeOK
  <2> QED  BY <2>1 DEF CodeRec
<1>3. Len(asks) \in Nat  BY DEF RowsTypeOK
<1> QED  BY <1>1, <1>2, <1>3 DEF TicketRows

LEMMA RowsStay ==
  ASSUME RowsTypeOK, RowsOK, UNCHANGED <<serverMode, accountRows, epoch>>, clashes \subseteq clashes'
  PROVE  RowsTypeOK' /\ RowsOK'
<1> USE DEF accountRows
<1>1. RowsTypeOK'  BY DEF RowsTypeOK, UsersTypeOK
<1>2. EarnedRows'  BY EarnedStays DEF RowsOK
<1>3. GrantsWereApproved'  BY ApprovedStays DEF RowsOK
<1>4. FoundingRow'  BY FoundingStays DEF RowsOK
<1>5. LocalRow'  BY LocalStays DEF RowsOK, SeededTokens, LocalTokens
<1>6. AskRows'  BY AsksStay DEF RowsOK
<1>7. CodeRows'  BY CodesStay DEF RowsOK
<1>8. FamilyRows'  BY FamiliesStay DEF RowsOK
<1>9. Len(asks) \in Nat  BY DEF RowsTypeOK
<1>10. TicketRows'  BY <1>9, TicketsStay DEF RowsOK
<1> QED  BY <1>1, <1>2, <1>3, <1>4, <1>5, <1>6, <1>7, <1>8, <1>10 DEF RowsOK

-----------------------------------------------------------------------------
(***************************************************************************)
(* Steps that change no table.                                             *)
(***************************************************************************)

\* A request that is answered later.
LEMMA RequestBegins ==
  ASSUME IInv, NEW c \in AccountClients, ~Busy(c), NEW r \in Handlers, Await(c, r), Promise(r),
         UNCHANGED serverMode
  PROVE  IInv'
<1>1. UNCHANGED <<accountRows, epoch>> /\ clashes \subseteq clashes'  BY DEF Await
<1>2. RowsTypeOK' /\ RowsOK'  BY <1>1, RowsStay DEF IInv
<1>3. HandlersOK' /\ Overlaps'  BY AwaitHandlers DEF IInv
<1> QED  BY <1>2, <1>3 DEF IInv

\* A statement that only reads.
LEMMA ReadStep ==
  ASSUME IInv, NEW c \in AccountClients, Busy(c), UNCHANGED <<serverMode, accountRows, epoch, clashes>>,
         NEW s \in Handlers \cup {NoHandler}, handler' = [handler EXCEPT ![c] = s],
         s # NoHandler => /\ Promise(s)
                          /\ s.op = handler[c].op /\ s.user = handler[c].user /\ s.on = handler[c].on
  PROVE  IInv'
<1>1. RowsTypeOK' /\ RowsOK'  BY RowsStay DEF IInv
<1>2. NothingUndone  BY DEF NothingUndone, SeededTokens, LocalTokens, accountRows
<1>3. handler'[c] = s  BY DEF IInv, HandlersOK
<1>4. s # NoHandler => Promise(handler[c])'  BY <1>2, <1>3, PromiseKept
<1>5. HandlersOK' /\ Overlaps'  BY <1>2, <1>4, QuietStep DEF IInv
<1> QED  BY <1>1, <1>5 DEF IInv

-----------------------------------------------------------------------------
(***************************************************************************)
(* The handlers themselves.                                                *)
(***************************************************************************)

LEMMA StatementsOf ==
  /\ DOMAIN HandlerPCs = {"register", "login", "password", "authorize", "consent", "exchange", "refresh", "local"}
  /\ HandlerPCs["register"] = {"count", "insert", "session"}
  /\ HandlerPCs["login"] = {"session"}
  /\ HandlerPCs["password"] = {"verify", "replace"}
  /\ HandlerPCs["authorize"] = {"park", "code"}
  /\ HandlerPCs["consent"] = {"delete", "remember", "insert_consent", "code"}
  /\ HandlerPCs["exchange"] = {"burn", "issue"}
  /\ HandlerPCs["refresh"] = {"reuse", "age", "rotate", "renew", "revoke"}
  /\ HandlerPCs["local"] = {"seed"}
BY DEF HandlerPCs

\* Which handler a statement belongs to.
LEMMA StatementOf ==
  ASSUME NEW r, r.op \in DOMAIN HandlerPCs, r.pc \in HandlerPCs[r.op]
  PROVE  /\ r.pc \in {"count", "insert"} => r.op = "register"
         /\ r.pc = "session" => r.op \in {"register", "login"}
         /\ r.pc \in {"verify", "replace"} => r.op = "password"
         /\ r.pc = "park" => r.op = "authorize"
         /\ r.pc = "code" => r.op \in {"authorize", "consent"}
         /\ r.pc \in {"delete", "remember", "insert_consent"} => r.op = "consent"
         /\ r.pc \in {"burn", "issue"} => r.op = "exchange"
         /\ r.pc \in {"reuse", "age", "rotate", "renew", "revoke"} => r.op = "refresh"
         /\ r.pc = "seed" => r.op = "local"
<1>1. CASE r.op \in {"register", "login", "password"}  BY <1>1, StatementsOf
<1>2. CASE r.op \in {"authorize", "consent", "exchange"}  BY <1>2, StatementsOf
<1>3. CASE r.op \in {"refresh", "local"}  BY <1>3, StatementsOf
<1> QED  BY <1>1, <1>2, <1>3, StatementsOf

\* What a request begins is a handler, and what it earned it earned now.
LEMMA NewHandler ==
  ASSUME RowsTypeOK, NEW r,
         r = [op |-> r.op, pc |-> r.pc, user |-> r.user, at |-> r.at, on |-> r.on, row |-> r.row, todo |-> {},
              current |-> r.current, admin |-> FALSE, granted |-> r.granted,
              since |-> IF r.user \in UserNames THEN epoch[r.user] ELSE 0, approved |-> r.approved],
         r.approved \in Nat \/ r.approved = r.since,
         r.op \in DOMAIN HandlerPCs, r.pc \in HandlerPCs[r.op], r.user \in UserIds \cup {NoHandler},
         r.at \in Nat \cup Passwords, r.on \in SUBSET WorkedOn, r.row \in Nat,
         r.current \in Passwords \cup {NoHandler}, r.granted \in BOOLEAN
  PROVE  r \in Handlers /\ EarnedBy(r)
<1>1. r.pc \in UNION {HandlerPCs[o] : o \in DOMAIN HandlerPCs}  OBVIOUS
<1>2. (IF r.user \in UserNames THEN epoch[r.user] ELSE 0) \in Nat  BY DEF RowsTypeOK, UsersTypeOK
<1>3. r \in Handlers
  <2>1. \A op, pc, user, at, on, row, current, granted, since, approved :
          /\ op \in DOMAIN HandlerPCs /\ pc \in UNION {HandlerPCs[o] : o \in DOMAIN HandlerPCs}
          /\ user \in UserIds \cup {NoHandler} /\ at \in Nat \cup Passwords /\ on \in SUBSET WorkedOn
          /\ row \in Nat /\ current \in Passwords \cup {NoHandler} /\ granted \in BOOLEAN
          /\ since \in Nat /\ approved \in Nat
          => [op |-> op, pc |-> pc, user |-> user, at |-> at, on |-> on, row |-> row, todo |-> {},
              current |-> current, admin |-> FALSE, granted |-> granted, since |-> since,
              approved |-> approved] \in Handlers
    BY DEF Handlers
  <2>2. r.since \in Nat /\ r.approved \in Nat  BY <1>2
  <2> QED  BY <1>1, <1>2, <2>1, <2>2
<1>4. EarnedBy(r)  BY DEF EarnedBy, Earned
<1> QED  BY <1>3, <1>4

LEMMA OneWorkedOn ==
  ASSUME NEW x \in {"founding", "local", "consent", "code", "family", "keep"}, NEW n \in Nat
  PROVE  {<<x, n>>} \in SUBSET WorkedOn
<1>1. <<x, n>> \in WorkedOn  BY DEF WorkedOn
<1> QED  BY <1>1

LEMMA MovedHandler ==
  ASSUME NEW r \in Handlers, NEW pc \in HandlerPCs[r.op], NEW s, s = [r EXCEPT !.pc = pc]
  PROVE  /\ s \in Handlers /\ s.pc = pc /\ s.op = r.op /\ s.user = r.user /\ s.on = r.on
         /\ s.at = r.at /\ s.row = r.row /\ s.todo = r.todo /\ s.admin = r.admin /\ s.since = r.since
<1>1. r.op \in DOMAIN HandlerPCs  BY DEF Handlers
<1>2. pc \in UNION {HandlerPCs[o] : o \in DOMAIN HandlerPCs}  BY <1>1
<1> QED  BY <1>2 DEF Handlers

\* Who a request may come from.
LEMMA CallerIds ==
  ASSUME RowsTypeOK, NEW cred \in Credentials, NEW u \in CurrentUser(cred)
  PROVE  u.id \in UserIds
<1>1. CASE ~serverMode  BY <1>1 DEF CurrentUser, UserIds
<1>2. CASE serverMode
  <2>1. u \in Authenticate(cred)  BY <1>2 DEF CurrentUser
  <2>2. u.id \in DOMAIN users  BY <2>1 DEF Authenticate, UserRow, Caller
  <2> QED  BY <2>2 DEF RowsTypeOK, UsersTypeOK, UserIds
<1> QED  BY <1>1, <1>2

\* A session credential stands for its session's user.
LEMMA SessionCaller ==
  ASSUME RowsTypeOK, NEW cred \in Credentials, NEW u \in Authenticate(cred)
  PROVE  cred.at \in DOMAIN sessions /\ cred.at \in Nat /\ u.id \in UserNames
<1>1. cred.kind = "session" /\ u \in UserRow(sessions[cred.at].user)  BY DEF Authenticate
<1>2. u.id \in DOMAIN users  BY <1>1 DEF UserRow, Caller
<1>3. cred.at \in DOMAIN sessions  BY <1>1 DEF Credentials, Credential, NoCredential, SessionOf
<1>4. DOMAIN sessions \subseteq Nat  BY DEF RowsTypeOK
<1> QED  BY <1>2, <1>3, <1>4 DEF RowsTypeOK, UsersTypeOK

\* What the rows of the tables are.
LEMMA RowTypes ==
  ASSUME RowsTypeOK
  PROVE  /\ DOMAIN sessions = 1 .. Len(sessions) /\ Len(sessions) \in Nat
         /\ DOMAIN asks = 1 .. Len(asks) /\ Len(asks) \in Nat
         /\ DOMAIN codes = 1 .. Len(codes) /\ Len(codes) \in Nat
         /\ DOMAIN tokens = 1 .. Len(tokens) /\ Len(tokens) \in Nat
         /\ DOMAIN serviceTokens = 1 .. Len(serviceTokens) /\ Len(serviceTokens) \in Nat
         /\ \A i \in DOMAIN sessions : sessions[i] \in SessionRec
         /\ \A q \in DOMAIN asks : asks[q] \in AskRec
         /\ \A k \in DOMAIN codes : codes[k] \in CodeRec
         /\ \A t \in DOMAIN tokens : tokens[t] \in TokenRec
         /\ \A t \in DOMAIN serviceTokens : serviceTokens[t] \in ServiceRec
BY DEF RowsTypeOK

-----------------------------------------------------------------------------
(***************************************************************************)
(* Requests that begin a handler.                                          *)
(***************************************************************************)

\* What a request without a ticket begins relies on next to nothing.
LEMMA PlainPromise ==
  ASSUME NEW r, TypedHandler(r), EarnedBy(r), r.pc \notin {"insert", "seed", "code"},
         r.op \notin {"consent", "exchange", "refresh"}
  PROVE  Promise(r)
<1>1. RowFound(r)      BY DEF RowFound
<1>2. ApprovedFor(r)   BY DEF ApprovedFor
<1>3. FoundingSeen(r)  BY DEF FoundingSeen
<1>4. NoLocalYet(r)    BY DEF NoLocalYet
<1>5. NoCodeYet(r)     BY DEF NoCodeYet
<1>6. NoTokenYet(r)    BY DEF NoTokenYet
<1>7. FamilyHeld(r)    BY DEF FamilyHeld
<1> QED  BY <1>1, <1>2, <1>3, <1>4, <1>5, <1>6, <1>7 DEF Promise

LEMMA RegisterStep ==
  ASSUME IInv, UNCHANGED serverMode, NEW c \in AccountClients, ~Busy(c),
         NEW u \in UserNames, NEW p \in Passwords, Register(c, u, p)
  PROVE  IInv'
<1>0. {<<"founding", 0>>} \in SUBSET WorkedOn  BY OneWorkedOn
<1>1. PICK r : r = Handler("register", "count", u, p, {<<"founding", 0>>})  OBVIOUS
<1>2. r = [op |-> "register", pc |-> "count", user |-> u, at |-> p, on |-> {<<"founding", 0>>}, row |-> 0, todo |-> {},
           current |-> NoHandler, admin |-> FALSE, granted |-> FALSE,
           since |-> IF u \in UserNames THEN epoch[u] ELSE 0,
           approved |-> IF u \in UserNames THEN epoch[u] ELSE 0]
  BY <1>1 DEF Handler
<1>3. /\ r \in Handlers /\ r.op = "register" /\ r.pc = "count" /\ r.user = u /\ r.at = p
      /\ r.on = {<<"founding", 0>>} /\ EarnedBy(r)
  BY <1>2, <1>0, NewHandler, StatementsOf DEF IInv, UserIds
<1>4. TypedHandler(r)  BY <1>3, StatementsOf DEF TypedHandler
<1>5. Promise(r)  BY <1>3, <1>4, PlainPromise
<1>6. Await(c, r)  BY <1>1 DEF Register
<1> QED  BY <1>3, <1>5, <1>6, RequestBegins

LEMMA LoginStep ==
  ASSUME IInv, UNCHANGED serverMode, NEW c \in AccountClients, ~Busy(c),
         NEW u \in UserNames, NEW p \in Passwords, Login(c, u, p)
  PROVE  IInv'
<1>0. {} \in SUBSET WorkedOn  OBVIOUS
<1>1. PICK r : r = Handler("login", "session", u, 0, {})  OBVIOUS
<1>2. r = [op |-> "login", pc |-> "session", user |-> u, at |-> 0, on |-> {}, row |-> 0, todo |-> {},
           current |-> NoHandler, admin |-> FALSE, granted |-> FALSE,
           since |-> IF u \in UserNames THEN epoch[u] ELSE 0,
           approved |-> IF u \in UserNames THEN epoch[u] ELSE 0]
  BY <1>1 DEF Handler
<1>3. r \in Handlers /\ r.op = "login" /\ r.pc = "session" /\ r.user = u /\ EarnedBy(r)
  BY <1>2, <1>0, NewHandler, StatementsOf DEF IInv, UserIds
<1>4. TypedHandler(r)  BY <1>3, StatementsOf DEF TypedHandler
<1>5. Promise(r)  BY <1>3, <1>4, PlainPromise
<1>6. Await(c, r)  BY <1>1 DEF Login
<1> QED  BY <1>3, <1>5, <1>6, RequestBegins

LEMMA ChangePasswordStep ==
  ASSUME IInv, UNCHANGED serverMode, NEW c \in AccountClients, ~Busy(c),
         NEW cred \in Credentials, NEW current \in Passwords, NEW new \in Passwords,
         ChangePassword(c, cred, current, new)
  PROVE  IInv'
<1>1. PICK u \in Authenticate(cred) :
        Await(c, [Handler("password", "verify", u.id, new, {<<"keep", cred.at>>})
                  EXCEPT !.current = current, !.row = cred.at])
  BY DEF ChangePassword
<1>2. PICK r : r = [Handler("password", "verify", u.id, new, {<<"keep", cred.at>>})
                    EXCEPT !.current = current, !.row = cred.at]
  OBVIOUS
<1>3. r = [op |-> "password", pc |-> "verify", user |-> u.id, at |-> new, on |-> {<<"keep", cred.at>>},
           row |-> cred.at, todo |-> {}, current |-> current, admin |-> FALSE, granted |-> FALSE,
           since |-> IF u.id \in UserNames THEN epoch[u.id] ELSE 0,
           approved |-> IF u.id \in UserNames THEN epoch[u.id] ELSE 0]
  BY <1>2 DEF Handler
<1>4. cred.at \in Nat /\ u.id \in UserNames  BY SessionCaller DEF IInv
<1>5. {<<"keep", cred.at>>} \in SUBSET WorkedOn  BY <1>4, OneWorkedOn
<1>6. r \in Handlers /\ r.op = "password" /\ r.pc = "verify" /\ r.user = u.id /\ r.at = new /\ EarnedBy(r)
  BY <1>3, <1>4, <1>5, NewHandler, StatementsOf DEF IInv, UserIds
<1>7. TypedHandler(r)  BY <1>4, <1>6, StatementsOf DEF TypedHandler
<1>8. Promise(r)  BY <1>6, <1>7, PlainPromise
<1> QED  BY <1>1, <1>2, <1>6, <1>8, RequestBegins

LEMMA ResetPasswordStep ==
  ASSUME IInv, UNCHANGED serverMode, NEW c \in AccountClients, ~Busy(c),
         NEW cred \in Credentials, NEW target \in UserNames, NEW new \in Passwords,
         ResetPassword(c, cred, target, new)
  PROVE  IInv'
<1>0. {} \in SUBSET WorkedOn  OBVIOUS
<1>1. PICK r : r = Handler("password", "replace", target, new, {})  OBVIOUS
<1>2. r = [op |-> "password", pc |-> "replace", user |-> target, at |-> new, on |-> {}, row |-> 0, todo |-> {},
           current |-> NoHandler, admin |-> FALSE, granted |-> FALSE,
           since |-> IF target \in UserNames THEN epoch[target] ELSE 0,
           approved |-> IF target \in UserNames THEN epoch[target] ELSE 0]
  BY <1>1 DEF Handler
<1>3. r \in Handlers /\ r.op = "password" /\ r.pc = "replace" /\ r.user = target /\ r.at = new /\ EarnedBy(r)
  BY <1>2, <1>0, NewHandler, StatementsOf DEF IInv, UserIds
<1>4. TypedHandler(r)  BY <1>3, StatementsOf DEF TypedHandler
<1>5. Promise(r)  BY <1>3, <1>4, PlainPromise
<1>6. Await(c, r)  BY <1>1 DEF ResetPassword
<1> QED  BY <1>3, <1>5, <1>6, RequestBegins

LEMMA LocalTokenStep ==
  ASSUME IInv, UNCHANGED serverMode, NEW c \in AccountClients, ~Busy(c), EnsureLocalServiceToken(c)
  PROVE  IInv'
<1>0. {<<"local", 0>>} \in SUBSET WorkedOn  BY OneWorkedOn
<1>1. PICK r : r = Handler("local", "seed", NoHandler, 0, {<<"local", 0>>})  OBVIOUS
<1>2. r = [op |-> "local", pc |-> "seed", user |-> NoHandler, at |-> 0, on |-> {<<"local", 0>>}, row |-> 0, todo |-> {},
           current |-> NoHandler, admin |-> FALSE, granted |-> FALSE,
           since |-> IF NoHandler \in UserNames THEN epoch[NoHandler] ELSE 0,
           approved |-> IF NoHandler \in UserNames THEN epoch[NoHandler] ELSE 0]
  BY <1>1 DEF Handler
<1>3. /\ r \in Handlers /\ r.op = "local" /\ r.pc = "seed" /\ r.on = {<<"local", 0>>} /\ EarnedBy(r)
  BY <1>2, <1>0, NewHandler, StatementsOf DEF IInv
<1>4. TypedHandler(r)  BY <1>3, StatementsOf DEF TypedHandler
<1>5. SeededTokens = {} /\ Await(c, r)  BY <1>1 DEF EnsureLocalServiceToken, SeededTokens
<1>6. NoLocalYet(r)  BY <1>5 DEF NoLocalYet
<1>7. Promise(r)
  BY <1>3, <1>4, <1>6 DEF Promise, RowFound, ApprovedFor, FoundingSeen, NoCodeYet, NoTokenYet, FamilyHeld
<1> QED  BY <1>3, <1>5, <1>7, RequestBegins

LEMMA AuthorizeStep ==
  ASSUME IInv, UNCHANGED serverMode, NEW c \in AccountClients, ~Busy(c),
         NEW cred \in Credentials, NEW client \in 1 .. clients, Authorize(c, cred, client)
  PROVE  IInv'
<1> DEFINE pc(u) == IF <<u.id, client>> \in consents THEN "code" ELSE "park"
<1>1. PICK u \in CurrentUser(cred) :
        Await(c, Grant("authorize", pc(u), [user |-> u.id, client |-> client], {}))
  BY DEF Authorize
<1>2. PICK r : r = Grant("authorize", pc(u), [user |-> u.id, client |-> client], {})  OBVIOUS
<1>3. r = [op |-> "authorize", pc |-> pc(u), user |-> u.id, at |-> client, on |-> {}, row |-> 0, todo |-> {},
           current |-> NoHandler, admin |-> FALSE, granted |-> FALSE,
           since |-> IF u.id \in UserNames THEN epoch[u.id] ELSE 0,
           approved |-> IF u.id \in UserNames THEN epoch[u.id] ELSE 0]
  BY <1>2 DEF Handler, Grant
<1>4. u.id \in UserIds /\ client \in Nat  BY CallerIds DEF IInv
<1>5. pc(u) \in HandlerPCs["authorize"] /\ "authorize" \in DOMAIN HandlerPCs  BY StatementsOf
<1>6. pc(u) = "code" => <<u.id, client>> \in consents  OBVIOUS
<1> HIDE DEF pc
<1>7. r \in Handlers /\ r.op = "authorize" /\ r.pc = pc(u) /\ r.user = u.id /\ r.at = client /\ EarnedBy(r)
  BY <1>3, <1>4, <1>5, NewHandler DEF IInv
<1>8. TypedHandler(r)  BY <1>4, <1>5, <1>7 DEF TypedHandler
<1>9. ApprovedFor(r)  BY <1>6, <1>7 DEF ApprovedFor
<1>10. r.pc \in {"park", "code"}  BY <1>5, <1>7, StatementsOf
<1>11. Promise(r)
  BY <1>7, <1>8, <1>9, <1>10 DEF Promise, RowFound, FoundingSeen, NoLocalYet, NoCodeYet, NoTokenYet, FamilyHeld
<1> QED  BY <1>1, <1>2, <1>7, <1>11, RequestBegins

LEMMA DecideConsentStep ==
  ASSUME IInv, UNCHANGED serverMode, NEW c \in AccountClients, ~Busy(c),
         NEW cred \in Credentials, NEW q \in DOMAIN asks, NEW approve \in BOOLEAN,
         DecideConsent(c, cred, q, approve)
  PROVE  IInv'
<1>1. PICK ok \in BOOLEAN :
        Await(c, [Grant("consent", "delete", asks[q], {<<"consent", q>>}) EXCEPT !.row = q, !.granted = ok])
  BY DEF DecideConsent
<1>2. PICK r : r = [Grant("consent", "delete", asks[q], {<<"consent", q>>}) EXCEPT !.row = q, !.granted = ok]
  OBVIOUS
<1>3. q \in Nat /\ asks[q].user \in UserIds /\ asks[q].client \in Nat  BY RowTypes DEF IInv, AskRec
<1>4. r = [op |-> "consent", pc |-> "delete", user |-> asks[q].user, at |-> asks[q].client,
           on |-> {<<"consent", q>>}, row |-> q, todo |-> {},
           current |-> NoHandler, admin |-> FALSE, granted |-> ok,
           since |-> IF asks[q].user \in UserNames THEN epoch[asks[q].user] ELSE 0,
           approved |-> IF asks[q].user \in UserNames THEN epoch[asks[q].user] ELSE 0]
  BY <1>2 DEF Handler, Grant
<1>5. {<<"consent", q>>} \in SUBSET WorkedOn  BY <1>3, OneWorkedOn
<1>6. /\ r \in Handlers /\ r.op = "consent" /\ r.pc = "delete" /\ r.user = asks[q].user /\ r.at = asks[q].client
      /\ r.on = {<<"consent", q>>} /\ r.row = q /\ EarnedBy(r)
  BY <1>3, <1>4, <1>5, NewHandler, StatementsOf DEF IInv
<1>7. TypedHandler(r)  BY <1>3, <1>6, StatementsOf DEF TypedHandler
<1>8. asks[q].state # "gone"  BY DEF DecideConsent
<1>9. NoCodeYet(r)  BY <1>6, <1>8 DEF NoCodeYet, IInv, RowsOK, AskRows
<1>10. Promise(r)
  BY <1>6, <1>7, <1>9 DEF Promise, RowFound, ApprovedFor, FoundingSeen, NoLocalYet, NoTokenYet, FamilyHeld
<1> QED  BY <1>1, <1>2, <1>6, <1>10, RequestBegins

LEMMA ExchangeCodeStep ==
  ASSUME IInv, UNCHANGED serverMode, NEW c \in AccountClients, ~Busy(c),
         NEW k \in DOMAIN codes, ExchangeCode(c, k)
  PROVE  IInv'
<1>1. PICK r : r = [Grant("exchange", "burn", codes[k], {<<"code", k>>})
                    EXCEPT !.row = k, !.approved = codes[k].since]
  OBVIOUS
<1>2. ~codes[k].used /\ Await(c, r)  BY <1>1 DEF ExchangeCode
<1>3. k \in Nat /\ codes[k].user \in UserIds /\ codes[k].client \in Nat /\ codes[k].since \in Nat  BY RowTypes DEF IInv, CodeRec
<1>4. r = [op |-> "exchange", pc |-> "burn", user |-> codes[k].user, at |-> codes[k].client,
           on |-> {<<"code", k>>}, row |-> k, todo |-> {},
           current |-> NoHandler, admin |-> FALSE, granted |-> FALSE,
           since |-> IF codes[k].user \in UserNames THEN epoch[codes[k].user] ELSE 0,
           approved |-> codes[k].since]
  BY <1>1 DEF Handler, Grant
<1>5. {<<"code", k>>} \in SUBSET WorkedOn  BY <1>3, OneWorkedOn
<1>6. /\ r \in Handlers /\ r.op = "exchange" /\ r.pc = "burn" /\ r.user = codes[k].user /\ r.at = codes[k].client
      /\ r.on = {<<"code", k>>} /\ r.row = k /\ EarnedBy(r)
  BY <1>3, <1>4, <1>5, NewHandler, StatementsOf DEF IInv
<1>7. TypedHandler(r)  BY <1>3, <1>6, StatementsOf DEF TypedHandler
<1>8. NoTokenYet(r)  BY <1>2, <1>6 DEF NoTokenYet, IInv, RowsOK, CodeRows
<1>9. ApprovedFor(r)  BY <1>6 DEF ApprovedFor, IInv, RowsOK, GrantsWereApproved
<1>10. Promise(r)
  BY <1>6, <1>7, <1>8, <1>9 DEF Promise, RowFound, FoundingSeen, NoLocalYet, NoCodeYet, FamilyHeld
<1> QED  BY <1>2, <1>6, <1>10, RequestBegins

LEMMA RefreshStep ==
  ASSUME IInv, UNCHANGED serverMode, NEW c \in AccountClients, ~Busy(c),
         NEW t \in DOMAIN tokens, Refresh(c, t)
  PROVE  IInv'
<1> DEFINE pc == IF tokens[t].revoked THEN "reuse" ELSE "age"
           f  == tokens[t].family
<1>1. PICK r : r = [Grant("refresh", pc, tokens[t], {<<"family", f>>})
                    EXCEPT !.row = t, !.approved = tokens[t].approved]
  OBVIOUS
<1>2. Await(c, r)  BY <1>1 DEF Refresh
<1>3. t \in Nat /\ tokens[t].user \in UserIds /\ tokens[t].client \in Nat /\ f \in Nat
      /\ tokens[t].revoked \in BOOLEAN /\ tokens[t].approved \in Nat
  BY RowTypes DEF IInv, TokenRec
<1>4. r = [op |-> "refresh", pc |-> pc, user |-> tokens[t].user, at |-> tokens[t].client,
           on |-> {<<"family", f>>}, row |-> t, todo |-> {},
           current |-> NoHandler, admin |-> FALSE, granted |-> FALSE,
           since |-> IF tokens[t].user \in UserNames THEN epoch[tokens[t].user] ELSE 0,
           approved |-> tokens[t].approved]
  BY <1>1 DEF Handler, Grant
<1>5. pc \in HandlerPCs["refresh"] /\ "refresh" \in DOMAIN HandlerPCs  BY StatementsOf
<1>6. pc \in {"reuse", "age"} /\ (pc = "age" => ~tokens[t].revoked)  BY <1>3
<1>7. {<<"family", f>>} \in SUBSET WorkedOn  BY <1>3, OneWorkedOn
<1>8. <<"family", f>> \in clashes \/ \A x, y \in Live(f) : x = y
  BY DEF IInv, RowsOK, FamilyRows, Families
<1> HIDE DEF pc
<1>9. /\ r \in Handlers /\ r.op = "refresh" /\ r.pc = pc /\ r.user = tokens[t].user /\ r.at = tokens[t].client
      /\ r.on = {<<"family", f>>} /\ r.row = t /\ EarnedBy(r)
  BY <1>3, <1>4, <1>5, <1>7, NewHandler DEF IInv
<1>10. TypedHandler(r)  BY <1>3, <1>5, <1>9 DEF TypedHandler
<1>11. FamilyHeld(r)
  <2>1. pc = "age" => <<"family", f>> \in clashes \/ Live(f) \subseteq {t}
    BY <1>6, <1>8 DEF Live
  <2> QED  BY <1>6, <1>9, <2>1 DEF FamilyHeld
<1>12. ApprovedFor(r)  BY <1>9 DEF ApprovedFor, IInv, RowsOK, GrantsWereApproved
<1>13. Promise(r)
  BY <1>6, <1>9, <1>10, <1>11, <1>12 DEF Promise, RowFound, FoundingSeen, NoLocalYet, NoCodeYet, NoTokenYet
<1> QED  BY <1>2, <1>9, <1>13, RequestBegins

-----------------------------------------------------------------------------
(***************************************************************************)
(* Statements that only read.                                              *)
(***************************************************************************)

\* What is known of the handler that moves.
LEMMA AtStatement ==
  ASSUME IInv, NEW c \in AccountClients, NEW pc, At(c, pc)
  PROVE  Busy(c) /\ handler[c] \in Handlers /\ Promise(handler[c]) /\ TypedHandler(handler[c])
         /\ handler[c].pc = pc /\ handler[c].op \in DOMAIN HandlerPCs
<1>1. Busy(c) /\ handler[c].pc = pc  BY DEF At
<1>2. Promise(handler[c])  BY <1>1 DEF IInv, HandlersOK
<1>3. TypedHandler(handler[c])  BY <1>2 DEF Promise
<1>4. handler[c] \in Handlers  BY <1>3 DEF TypedHandler
<1>5. handler[c].op \in DOMAIN HandlerPCs  BY <1>4 DEF Handlers
<1> QED  BY <1>1, <1>2, <1>3, <1>4, <1>5

\* A handler that moves on to another statement promises the same of its row
\* and the rest, but what depends on the statement.
LEMMA MovedPromise ==
  ASSUME NEW r, Promise(r), NEW s \in Handlers, s.pc \in HandlerPCs[s.op],
         s.op = r.op, s.user = r.user, s.on = r.on, s.at = r.at, s.row = r.row, s.since = r.since
  PROVE  /\ TypedHandler(s) /\ RowFound(s) /\ EarnedBy(s)
         /\ (s.pc # "code" \/ <<r.user, r.at>> \in consents) => ApprovedFor(s)
         /\ s.pc # "insert" => FoundingSeen(s)
         /\ s.pc # "seed" => NoLocalYet(s)
<1>1. TypedHandler(r)  BY DEF Promise
<1>2. TypedHandler(s)  BY <1>1 DEF TypedHandler
<1>3. RowFound(s)      BY DEF Promise, RowFound
<1>4. EarnedBy(s)      BY DEF Promise, EarnedBy
<1>5. (s.pc # "code" \/ <<r.user, r.at>> \in consents) => ApprovedFor(s)  BY DEF Promise, ApprovedFor
<1>6. s.pc # "insert" => FoundingSeen(s)  BY DEF FoundingSeen
<1>7. s.pc # "seed" => NoLocalYet(s)      BY DEF NoLocalYet
<1> QED  BY <1>2, <1>3, <1>4, <1>5, <1>6, <1>7

LEMMA AnsweredStep ==
  ASSUME IInv, NEW c \in AccountClients, Busy(c), Answered(c),
         UNCHANGED <<serverMode, accountRows, epoch, clashes>>
  PROVE  IInv'
BY ReadStep DEF Answered

LEMMA CountUsersStep ==
  ASSUME IInv, UNCHANGED serverMode, NEW c \in AccountClients, CountUsers(c)
  PROVE  IInv'
<1> DEFINE r == handler[c]
<1>1. /\ Busy(c) /\ r \in Handlers /\ Promise(r) /\ TypedHandler(r) /\ r.pc = "count" /\ r.op = "register"
  BY AtStatement, StatementOf DEF CountUsers, TypedHandler
<1>2. PICK s : s = [r EXCEPT !.pc = "insert", !.admin = DOMAIN users = {}]  OBVIOUS
<1>3. handler' = [handler EXCEPT ![c] = s]  BY <1>2 DEF CountUsers
<1>4. "insert" \in HandlerPCs[r.op]  BY <1>1, StatementsOf
<1> HIDE DEF r
<1>5. PICK m : m = [r EXCEPT !.pc = "insert"]  OBVIOUS
<1>6. /\ m \in Handlers /\ m.pc = "insert" /\ m.op = r.op /\ m.user = r.user /\ m.on = r.on
      /\ m.at = r.at /\ m.since = r.since
  BY <1>1, <1>4, <1>5, MovedHandler
<1>7. /\ s \in Handlers /\ s.pc = "insert" /\ s.op = r.op /\ s.user = r.user /\ s.on = r.on
      /\ s.at = r.at /\ s.since = r.since /\ s.admin = (DOMAIN users = {})
  <2>1. s = [m EXCEPT !.admin = DOMAIN users = {}]  BY <1>1, <1>2, <1>5 DEF Handlers
  <2> QED  BY <1>6, <2>1 DEF Handlers
<1>8. TypedHandler(s)  BY <1>1, <1>4, <1>7 DEF TypedHandler
<1>9. EarnedBy(s)  BY <1>1, <1>7 DEF Promise, EarnedBy
<1>10. FoundingSeen(s)  BY <1>7 DEF FoundingSeen
<1>11. Promise(s)
  BY <1>1, <1>7, <1>8, <1>9, <1>10 DEF Promise, RowFound, ApprovedFor, NoLocalYet, NoCodeYet, NoTokenYet, FamilyHeld
<1> QED  BY <1>1, <1>3, <1>7, <1>11, ReadStep DEF CountUsers, Quiet, r

\* Half of what a handler is: its own row's tickets are another matter.
LEMMA TicketlessPromise ==
  ASSUME NEW s, TypedHandler(s), RowFound(s), EarnedBy(s), ApprovedFor(s), FoundingSeen(s), NoLocalYet(s),
         s.op \notin {"consent", "exchange", "refresh"}
  PROVE  Promise(s)
BY DEF Promise, NoCodeYet, NoTokenYet, FamilyHeld

LEMMA VerifyPasswordStep ==
  ASSUME IInv, UNCHANGED serverMode, NEW c \in AccountClients, VerifyPassword(c)
  PROVE  IInv'
<1>0. PICK r : r = handler[c]  OBVIOUS
<1>1. /\ Busy(c) /\ r \in Handlers /\ Promise(r) /\ r.op = "password"
      /\ UNCHANGED <<accountRows, epoch, clashes>>
  BY <1>0, AtStatement, StatementOf DEF VerifyPassword, TypedHandler, Quiet
<1>2. "replace" \in HandlerPCs[r.op]  BY <1>1, StatementsOf
<1>3. CASE Answered(c)  BY <1>1, <1>3, AnsweredStep
<1>4. CASE To(c, "replace")
  <2>1. PICK s : s = [r EXCEPT !.pc = "replace"]  OBVIOUS
  <2>2. handler' = [handler EXCEPT ![c] = s]  BY <1>0, <1>4, <2>1 DEF To
  <2>3. /\ s \in Handlers /\ s.pc = "replace" /\ s.op = r.op /\ s.user = r.user /\ s.on = r.on
        /\ s.row = r.row /\ s.at = r.at /\ s.since = r.since
    BY <1>1, <1>2, <2>1, MovedHandler
  <2>5. /\ TypedHandler(s) /\ RowFound(s) /\ EarnedBy(s) /\ ApprovedFor(s)
        /\ FoundingSeen(s) /\ NoLocalYet(s)
    BY <1>1, <1>2, <2>3, MovedPromise
  <2>4. Promise(s)  BY <1>1, <2>3, <2>5, TicketlessPromise
  <2> QED  BY <1>1, <2>2, <2>3, <2>4, <1>0, ReadStep
<1> QED  BY <1>3, <1>4 DEF VerifyPassword

LEMMA CheckAgeStep ==
  ASSUME IInv, UNCHANGED serverMode, NEW c \in AccountClients, CheckAge(c)
  PROVE  IInv'
<1>0. PICK r : r = handler[c]  OBVIOUS
<1>1. /\ Busy(c) /\ r \in Handlers /\ Promise(r) /\ r.op = "refresh" /\ r.pc = "age"
      /\ UNCHANGED <<accountRows, epoch, clashes>>
  BY <1>0, AtStatement, StatementOf DEF CheckAge, TypedHandler, Quiet
<1>2. PICK pc \in {"reuse", "rotate"} : To(c, pc)  BY DEF CheckAge
<1>3. pc \in HandlerPCs[r.op]  BY <1>1, StatementsOf
<1>4. PICK s : s = [r EXCEPT !.pc = pc]  OBVIOUS
<1>5. handler' = [handler EXCEPT ![c] = s]  BY <1>0, <1>2, <1>4 DEF To
<1>6. /\ s \in Handlers /\ s.pc = pc /\ s.op = r.op /\ s.user = r.user /\ s.on = r.on
      /\ s.row = r.row /\ s.at = r.at /\ s.since = r.since
  BY <1>1, <1>3, <1>4, MovedHandler
<1>9. TypedHandler(s) /\ RowFound(s) /\ EarnedBy(s) /\ ApprovedFor(s) /\ FoundingSeen(s) /\ NoLocalYet(s)
  BY <1>1, <1>3, <1>6, MovedPromise
<1>7. FamilyHeld(s)  BY <1>1, <1>6 DEF Promise, FamilyHeld
<1>8. Promise(s)  BY <1>1, <1>6, <1>7, <1>9 DEF Promise, NoCodeYet, NoTokenYet
<1> QED  BY <1>1, <1>5, <1>6, <1>8, <1>0, ReadStep

LEMMA ReadFamilyStep ==
  ASSUME IInv, UNCHANGED serverMode, NEW c \in AccountClients, ReadFamily(c)
  PROVE  IInv'
<1>0. PICK r : r = handler[c]  OBVIOUS
<1>1. /\ Busy(c) /\ r \in Handlers /\ Promise(r) /\ r.op = "refresh"
      /\ UNCHANGED <<accountRows, epoch, clashes>>
  BY <1>0, AtStatement, StatementOf DEF ReadFamily, TypedHandler, Quiet
<1>2. "revoke" \in HandlerPCs[r.op]  BY <1>1, StatementsOf
<1>3. PICK m : m = [r EXCEPT !.pc = "revoke"]  OBVIOUS
<1>4. PICK s : s = [r EXCEPT !.pc = "revoke", !.todo = FamilyOf(r.row)]  OBVIOUS
<1>5. handler' = [handler EXCEPT ![c] = s]  BY <1>0, <1>4 DEF ReadFamily
<1>6. /\ m \in Handlers /\ m.pc = "revoke" /\ m.op = r.op /\ m.user = r.user /\ m.on = r.on
      /\ m.row = r.row /\ m.at = r.at /\ m.since = r.since
  BY <1>1, <1>2, <1>3, MovedHandler
<1>7. FamilyOf(r.row) \subseteq Nat  BY RowTypes DEF FamilyOf, IInv
<1>8. s = [m EXCEPT !.todo = FamilyOf(r.row)]  BY <1>1, <1>3, <1>4 DEF Handlers
<1>9. /\ s \in Handlers /\ s.op = m.op /\ s.user = m.user /\ s.on = m.on /\ s.pc = m.pc /\ s.row = m.row
      /\ s.at = m.at /\ s.since = m.since /\ s.todo = FamilyOf(r.row)
  BY <1>6, <1>7, <1>8 DEF Handlers
<1>10. TypedHandler(s) /\ RowFound(s) /\ EarnedBy(s) /\ ApprovedFor(s) /\ FoundingSeen(s) /\ NoLocalYet(s)
  BY <1>1, <1>2, <1>6, <1>9, MovedPromise
<1>12. FamilyHeld(s)  BY <1>6, <1>9 DEF FamilyHeld, FamilyOf, Live
<1>13. Promise(s)
  BY <1>1, <1>6, <1>9, <1>10, <1>12 DEF Promise, NoCodeYet, NoTokenYet
<1> QED  BY <1>1, <1>5, <1>6, <1>9, <1>13, <1>0, ReadStep

-----------------------------------------------------------------------------
(***************************************************************************)
(* Statements that change a table.                                         *)
(***************************************************************************)

LEMMA RememberConsentStep ==
  ASSUME IInv, UNCHANGED serverMode, NEW c \in AccountClients, RememberConsent(c)
  PROVE  IInv'
<1>0. PICK r : r = handler[c]  OBVIOUS
<1> DEFINE pair == <<r.user, r.at>>
<1>1. PICK now \in {"remember", "insert_consent"} : At(c, now)  BY DEF RememberConsent
<1>2. /\ Busy(c) /\ r \in Handlers /\ Promise(r) /\ r.op = "consent" /\ r.pc = now
      /\ UNCHANGED <<users, sessions, clients, asks, codes, tokens, aged, serviceTokens, epoch, clashes>>
  BY <1>0, <1>1, AtStatement, StatementOf DEF RememberConsent, TypedHandler, Quiet
<1>3. consents \subseteq consents'  BY DEF RememberConsent
<1>4. NothingUndone  BY <1>2, <1>3 DEF NothingUndone, SeededTokens, LocalTokens
<1>5. RowsTypeOK' /\ RowsOK'
  <2>1. RowsTypeOK'  BY <1>2 DEF IInv, RowsTypeOK, UsersTypeOK
  <2>2. EarnedRows'  BY <1>2, EarnedStays DEF IInv, RowsOK
  <2>3. GrantsWereApproved'  BY <1>2, <1>3, ApprovedStays DEF IInv, RowsOK
  <2>4. FoundingRow'  BY <1>2, FoundingStays DEF IInv, RowsOK
  <2>5. LocalRow'  BY <1>2, LocalStays DEF IInv, RowsOK, SeededTokens, LocalTokens
  <2>6. AskRows'  BY <1>2, AsksStay DEF IInv, RowsOK
  <2>7. CodeRows'  BY <1>2, CodesStay DEF IInv, RowsOK
  <2>8. FamilyRows'  BY <1>2, FamiliesStay DEF IInv, RowsOK
  <2>10. Len(asks) \in Nat /\ RowsTypeOK /\ TicketRows  BY RowTypes DEF IInv, RowsOK
  <2>11. UNCHANGED <<asks, codes, tokens>>  BY <1>2
  <2>9. TicketRows'  BY <2>10, <2>11 DEF TicketRows, Families
  <2> QED  BY <2>1, <2>2, <2>3, <2>4, <2>5, <2>6, <2>7, <2>8, <2>9 DEF RowsOK
<1>6. HandlersOK' /\ Overlaps'
  <2>1. CASE Answered(c)
    <3>1. handler' = [handler EXCEPT ![c] = NoHandler]  BY <2>1 DEF Answered
    <3> QED  BY <1>2, <1>4, <3>1, QuietStep DEF IInv
  <2>2. ASSUME NEW step \in {"code", "insert_consent"}, To(c, step), step = "code" => pair \in consents'
        PROVE  HandlersOK' /\ Overlaps'
    <3>1. step \in HandlerPCs[r.op]  BY <1>2, StatementsOf
    <3>2. PICK s : s = [r EXCEPT !.pc = step]  OBVIOUS
    <3>3. handler' = [handler EXCEPT ![c] = s] /\ handler'[c] = s  BY <1>0, <2>2, <3>2 DEF To, IInv, HandlersOK
    <3>17. /\ s \in Handlers /\ s.op = r.op /\ s.user = r.user /\ s.on = r.on
           /\ s.pc = step /\ s.row = r.row /\ s.at = r.at /\ s.since = r.since
      <4>1. r \in Handlers  BY <1>2
      <4> QED  BY <3>1, <3>2, <4>1, MovedHandler
    <3>4. /\ TypedHandler(s) /\ RowFound(s) /\ EarnedBy(s) /\ FoundingSeen(s) /\ NoLocalYet(s)
          /\ s \in Handlers /\ s.op = r.op /\ s.user = r.user /\ s.on = r.on
          /\ s.pc = step /\ s.row = r.row /\ s.at = r.at
      BY <1>2, <3>1, <3>17, MovedPromise
    <3>5. NoCodeYet(s)  BY <1>1, <1>2, <3>4 DEF Promise, NoCodeYet
    <3>6. NoTokenYet(s) /\ FamilyHeld(s)  BY <1>2, <3>4 DEF NoTokenYet, FamilyHeld
    <3>7. ApprovedFor(handler[c])'  BY <1>2, <2>2, <3>3, <3>4 DEF ApprovedFor
    <3>13. NoCodeYet(handler[c])'     BY <1>4, <3>3, <3>4, <3>5, CodeKept DEF NothingUndone
    <3>14. NoTokenYet(handler[c])'    BY <1>4, <3>3, <3>4, <3>6, TokenKept DEF NothingUndone
    <3>15. FamilyHeld(handler[c])'    BY <1>4, <3>3, <3>4, <3>6, FamilyKept DEF NothingUndone
    <3>16. Promise(handler[c])'
      BY <1>4, <3>3, <3>4, <3>7, <3>13, <3>14, <3>15, MovedKept
    <3> QED  BY <1>2, <1>4, <3>3, <3>4, <3>16, <1>0, QuietStep DEF IInv
  <2> QED  BY <1>0, <1>1, <2>1, <2>2 DEF RememberConsent
<1> QED  BY <1>5, <1>6 DEF IInv

LEMMA InsertUserStep ==
  ASSUME IInv, UNCHANGED serverMode, NEW c \in AccountClients, InsertUser(c)
  PROVE  IInv'
<1>0. PICK r : r = handler[c]  OBVIOUS
<1>1. /\ Busy(c) /\ r \in Handlers /\ Promise(r) /\ TypedHandler(r) /\ r.op = "register" /\ r.pc = "insert"
      /\ UNCHANGED <<sessions, clients, consents, asks, codes, tokens, aged, serviceTokens, epoch, clashes>>
  <2>1. At(c, "insert") /\ UNCHANGED <<sessions, clients, consents, asks, codes, tokens, aged, serviceTokens, epoch, clashes>>
    BY DEF InsertUser, Quiet
  <2> QED  BY <1>0, <2>1, AtStatement, StatementOf DEF TypedHandler
<1>2. CASE r.user \in DOMAIN users
  <2>1. Answered(c) /\ UNCHANGED <<serverMode, accountRows, epoch, clashes>>
    BY <1>0, <1>1, <1>2 DEF InsertUser, accountRows
  <2> QED  BY <1>1, <2>1, AnsweredStep
<1>3. CASE r.user \notin DOMAIN users
  <2>1. /\ users' = [n \in DOMAIN users \cup {r.user} |-> IF n = r.user THEN User(r.admin, r.at) ELSE users[n]]
        /\ To(c, "session")
    BY <1>0, <1>3 DEF InsertUser
  <2>2. r.user \in UserNames /\ r.at \in Passwords /\ r.admin \in BOOLEAN /\ <<"founding", 0>> \in r.on
    BY <1>1 DEF TypedHandler, Handlers
  <2>3. DOMAIN users' = DOMAIN users \cup {r.user}  BY <2>1
  <2>4. /\ \A n \in DOMAIN users : users'[n] = users[n]
        /\ users'[r.user] = User(r.admin, r.at)
    BY <1>3, <2>1
  <2>5. RowsTypeOK'
    <3>1. DOMAIN users \subseteq UserNames
          /\ \A n \in DOMAIN users : users[n] \in [admin : BOOLEAN, password : Passwords]
      BY DEF IInv, RowsTypeOK, UsersTypeOK
    <3>2. User(r.admin, r.at) \in [admin : BOOLEAN, password : Passwords]  BY <2>2 DEF User
    <3>3. users' \in [DOMAIN users' -> [admin : BOOLEAN, password : Passwords]]  BY <2>1, <3>1, <3>2
    <3>4. DOMAIN users' \subseteq UserNames  BY <2>2, <2>3, <3>1
    <3> QED  BY <1>1, <3>3, <3>4 DEF IInv, RowsTypeOK, UsersTypeOK
  <2>6. FoundingRow'
    <3>1. CASE <<"founding", 0>> \in clashes  BY <1>1, <3>1 DEF FoundingRow
    <3>2. CASE <<"founding", 0>> \notin clashes
      <4>1. r.admin = (DOMAIN users = {})  BY <1>1, <3>2 DEF Promise, FoundingSeen
      <4>2. IF DOMAIN users = {} THEN Admins = {} ELSE \E u : Admins = {u}
        BY <3>2 DEF IInv, RowsOK, FoundingRow
      <4>3. {u \in DOMAIN users' : users'[u].admin} = IF r.admin THEN Admins \cup {r.user} ELSE Admins
        BY <1>3, <2>2, <2>3, <2>4 DEF Admins, User
      <4>4. \E u : {x \in DOMAIN users' : users'[x].admin} = {u}  BY <4>1, <4>2, <4>3
      <4>5. DOMAIN users' # {}  BY <2>3
      <4> QED  BY <4>4, <4>5 DEF FoundingRow, Admins
    <3> QED  BY <3>1, <3>2
  <2>7. RowsOK'
    <3>1. EarnedRows'  BY <1>1, EarnedStays DEF IInv, RowsOK
    <3>2. GrantsWereApproved'  BY <1>1, ApprovedStays DEF IInv, RowsOK
    <3>3. LocalRow'  BY <1>1, LocalStays DEF IInv, RowsOK, SeededTokens, LocalTokens
    <3>4. AskRows'  BY <1>1, AsksStay DEF IInv, RowsOK
    <3>5. CodeRows'  BY <1>1, CodesStay DEF IInv, RowsOK
    <3>6. FamilyRows'  BY <1>1, FamiliesStay DEF IInv, RowsOK
    <3>7. TicketRows'  BY <1>1 DEF IInv, RowsOK, TicketRows, Families
    <3> QED  BY <2>6, <3>1, <3>2, <3>3, <3>4, <3>5, <3>6, <3>7 DEF RowsOK
  <2>8. PICK s : s = [r EXCEPT !.pc = "session"]  OBVIOUS
  <2>9. handler' = [handler EXCEPT ![c] = s]  BY <1>0, <2>1, <2>8 DEF To
  <2>10. "session" \in HandlerPCs[r.op]  BY <1>1, StatementsOf
  <2>11. /\ s \in Handlers /\ s.pc = "session" /\ s.op = r.op /\ s.user = r.user /\ s.on = r.on
         /\ s.row = r.row /\ s.at = r.at /\ s.since = r.since
    BY <1>1, <2>8, <2>10, MovedHandler
  <2>12. TypedHandler(s) /\ RowFound(s) /\ EarnedBy(s) /\ ApprovedFor(s) /\ FoundingSeen(s) /\ NoLocalYet(s)
    BY <1>1, <2>10, <2>11, MovedPromise
  <2>13. Promise(s)  BY <1>1, <2>11, <2>12, TicketlessPromise
  <2>14. SeededTokens' = SeededTokens  BY <1>1 DEF SeededTokens, LocalTokens
  <2>15. ASSUME NEW d \in AccountClients, NEW x, handler'[d] = x, Promise(x), FoundingSeen(handler[d])'
         PROVE  Promise(handler[d])'
    <3>1. /\ TypedHandler(x) /\ RowFound(x) /\ EarnedBy(x) /\ ApprovedFor(x)
          /\ NoLocalYet(x) /\ NoCodeYet(x) /\ NoTokenYet(x) /\ FamilyHeld(x)
      BY <2>15 DEF Promise
    <3>2. TypedHandler(handler[d])'  BY <2>15, <3>1, TypedKept
    <3>3. RowFound(handler[d])'      BY <1>1, <2>15, <3>1, FoundKept
    <3>4. EarnedBy(handler[d])'      BY <1>1, <2>15, <3>1, EarnedKept
    <3>5. ApprovedFor(handler[d])'   BY <1>1, <2>15, <3>1, ApprovedKept
    <3>6. NoLocalYet(handler[d])'    BY <1>1, <2>14, <2>15, <3>1, LocalKept
    <3>7. NoCodeYet(handler[d])'     BY <1>1, <2>15, <3>1, CodeKept
    <3>8. NoTokenYet(handler[d])'    BY <1>1, <2>15, <3>1, TokenKept
    <3>9. FamilyHeld(handler[d])'    BY <1>1, <2>15, <3>1, FamilyKept
    <3> QED  BY <2>15, <3>2, <3>3, <3>4, <3>5, <3>6, <3>7, <3>8, <3>9 DEF Promise
  <2>16. /\ handler'[c] = s
         /\ \A d \in AccountClients \ {c} : handler'[d] = handler[d]
         /\ handler' \in [AccountClients -> Handlers \cup {NoHandler}]
    BY <2>9, <2>11 DEF IInv, HandlersOK
  <2>17. Promise(handler[c])'
    <3>1. FoundingSeen(handler[c])'  BY <2>11, <2>16 DEF FoundingSeen
    <3> QED  BY <2>13, <2>15, <2>16, <3>1
  <2>18. ASSUME NEW d \in AccountClients \ {c}, Promise(handler[d]), Clash(handler[c], handler[d]) \subseteq clashes
         PROVE  Promise(handler[d])'
    <3>1. FoundingSeen(handler[d])'
      <4>1. CASE handler[d].pc = "insert"
        <5>1. TypedHandler(handler[d])  BY <2>18 DEF Promise
        <5>2. handler[d].op = "register"  BY <4>1, <5>1, StatementOf DEF TypedHandler, Handlers
        <5>3. <<"founding", 0>> \in handler[d].on  BY <5>1, <5>2 DEF TypedHandler
        <5>4. <<"founding", 0>> \in clashes  BY <1>0, <2>2, <2>18, <5>3 DEF Clash
        <5> QED  BY <1>1, <5>4 DEF FoundingSeen
      <4>2. CASE handler[d].pc # "insert"  BY <2>16, <4>2 DEF FoundingSeen
      <4> QED  BY <4>1, <4>2
    <3> QED  BY <2>15, <2>16, <2>18, <3>1
  <2>19. HandlersOK' /\ Overlaps'
    BY <1>0, <1>1, <2>11, <2>16, <2>17, <2>18, OneStep DEF IInv
  <2> QED  BY <2>5, <2>7, <2>19 DEF IInv
<1> QED  BY <1>2, <1>3

LEMMA OpenSessionStep ==
  ASSUME IInv, UNCHANGED serverMode, NEW c \in AccountClients, OpenSession(c)
  PROVE  IInv'
<1>0. PICK r : r = handler[c]  OBVIOUS
<1>1. /\ Busy(c) /\ r \in Handlers /\ Promise(r) /\ TypedHandler(r) /\ r.op \in {"register", "login"}
      /\ UNCHANGED <<users, clients, consents, asks, codes, tokens, aged, serviceTokens, epoch, clashes>>
  <2>1. At(c, "session") /\ UNCHANGED <<users, clients, consents, asks, codes, tokens, aged, serviceTokens, epoch, clashes>>
    BY DEF OpenSession, Quiet
  <2> QED  BY <1>0, <2>1, AtStatement, StatementOf DEF TypedHandler
<1>2. PICK e : e = Session(r.user, r.since)  OBVIOUS
<1>3. sessions' = Append(sessions, e) /\ Answered(c)  BY <1>0, <1>2 DEF OpenSession
<1>4. r.user \in UserNames /\ r.since \in Nat /\ Earned(r.user, r.since)
  BY <1>1 DEF TypedHandler, Handlers, Promise, EarnedBy
<1>5. e \in SessionRec /\ e.user = r.user /\ e.since = r.since  BY <1>2, <1>4 DEF Session, SessionRec
<1>6. sessions \in Seq(SessionRec)  BY DEF IInv, RowsTypeOK
<1>7. /\ sessions' \in Seq(SessionRec)
      /\ DOMAIN sessions' = DOMAIN sessions \cup {Len(sessions) + 1}
      /\ \A i \in DOMAIN sessions : sessions'[i] = sessions[i]
      /\ sessions'[Len(sessions) + 1] = e
  BY <1>3, <1>5, <1>6, InsertRow
<1>8. RowsTypeOK'  BY <1>1, <1>7 DEF IInv, RowsTypeOK, UsersTypeOK
<1>9. RowsOK'
  <2>1. EarnedRows'
    <3>1. \A i \in DOMAIN sessions' : sessions'[i].live => Earned(sessions'[i].user, sessions'[i].since)
      BY <1>4, <1>5, <1>7 DEF IInv, RowsOK, EarnedRows
    <3> QED  BY <1>1, <3>1 DEF IInv, RowsOK, EarnedRows, Earned
  <2>2. GrantsWereApproved'  BY <1>1, ApprovedStays DEF IInv, RowsOK
  <2>3. FoundingRow'  BY <1>1, FoundingStays DEF IInv, RowsOK
  <2>4. LocalRow'  BY <1>1, LocalStays DEF IInv, RowsOK, SeededTokens, LocalTokens
  <2>5. AskRows'  BY <1>1, AsksStay DEF IInv, RowsOK
  <2>6. CodeRows'  BY <1>1, CodesStay DEF IInv, RowsOK
  <2>7. FamilyRows'  BY <1>1, FamiliesStay DEF IInv, RowsOK
  <2>8. TicketRows'  BY <1>1 DEF IInv, RowsOK, TicketRows, Families
  <2> QED  BY <2>1, <2>2, <2>3, <2>4, <2>5, <2>6, <2>7, <2>8 DEF RowsOK
<1>10. NothingUndone  BY <1>1 DEF NothingUndone, SeededTokens, LocalTokens
<1>11. HandlersOK' /\ Overlaps'
  <2>1. handler' = [handler EXCEPT ![c] = NoHandler]  BY <1>3 DEF Answered
  <2> QED  BY <1>1, <1>10, <2>1, QuietStep DEF IInv
<1> QED  BY <1>8, <1>9, <1>11 DEF IInv

LEMMA ParkRequestStep ==
  ASSUME IInv, UNCHANGED serverMode, NEW c \in AccountClients, ParkRequest(c)
  PROVE  IInv'
<1>0. PICK r : r = handler[c]  OBVIOUS
<1>1. /\ Busy(c) /\ r \in Handlers /\ TypedHandler(r) /\ r.op = "authorize"
      /\ UNCHANGED <<users, sessions, clients, consents, codes, tokens, aged, serviceTokens, epoch, clashes>>
  <2>1. At(c, "park") /\ UNCHANGED <<users, sessions, clients, consents, codes, tokens, aged, serviceTokens, epoch, clashes>>
    BY DEF ParkRequest, Quiet
  <2> QED  BY <1>0, <2>1, AtStatement, StatementOf DEF TypedHandler
<1>2. PICK e : e = [user |-> r.user, client |-> r.at, state |-> "live"]  OBVIOUS
<1>3. asks' = Append(asks, e) /\ Answered(c)  BY <1>0, <1>2 DEF ParkRequest
<1>4. r.user \in UserIds /\ r.at \in Nat  BY <1>1 DEF TypedHandler
<1>5. e \in AskRec  BY <1>2, <1>4 DEF AskRec
<1>6. asks \in Seq(AskRec)  BY DEF IInv, RowsTypeOK
<1>7. /\ asks' \in Seq(AskRec)
      /\ DOMAIN asks' = DOMAIN asks \cup {Len(asks) + 1}
      /\ Len(asks') = Len(asks) + 1
      /\ \A i \in DOMAIN asks : asks'[i] = asks[i]
  BY <1>3, <1>5, <1>6, InsertRow
<1>8. RowsTypeOK'  BY <1>1, <1>7 DEF IInv, RowsTypeOK, UsersTypeOK
<1>9. RowsOK'
  <2>1. EarnedRows'  BY <1>1, EarnedStays DEF IInv, RowsOK
  <2>2. GrantsWereApproved'  BY <1>1, ApprovedStays DEF IInv, RowsOK
  <2>3. FoundingRow'  BY <1>1, FoundingStays DEF IInv, RowsOK
  <2>4. LocalRow'  BY <1>1, LocalStays DEF IInv, RowsOK, SeededTokens, LocalTokens
  <2>5. Len(asks) \in Nat /\ \A k \in DOMAIN codes : codes[k].ask \in Nat /\ codes[k].ask <= Len(asks)
    <3>1. Len(asks) \in Nat /\ \A k \in DOMAIN codes : codes[k] \in CodeRec  BY RowTypes DEF IInv
    <3> QED  BY <3>1 DEF IInv, RowsOK, TicketRows, CodeRec
  <2>6. AskRows'
    <3>1. CodesOf(Len(asks) + 1) = {}  BY <2>5 DEF CodesOf
    <3>2. \A q : {k \in DOMAIN codes' : codes'[k].ask = q} = CodesOf(q)  BY <1>1 DEF CodesOf
    <3>3. ASSUME NEW q \in DOMAIN asks'
          PROVE  \/ <<"consent", q>> \in clashes'
                 \/ /\ \A x, y \in CodesOf(q) : x = y
                    /\ asks'[q].state # "gone" => CodesOf(q) = {}
      BY <1>1, <1>7, <3>1 DEF IInv, RowsOK, AskRows
    <3>4. \A q \in DOMAIN asks' :
            \/ <<"consent", q>> \in clashes'
            \/ /\ \A x, y \in {k \in DOMAIN codes' : codes'[k].ask = q} : x = y
               /\ asks'[q].state # "gone" => {k \in DOMAIN codes' : codes'[k].ask = q} = {}
      BY <3>2, <3>3
    <3> QED  BY <3>4 DEF AskRows, CodesOf
  <2>7. CodeRows'  BY <1>1, CodesStay DEF IInv, RowsOK
  <2>8. FamilyRows'  BY <1>1, FamiliesStay DEF IInv, RowsOK
  <2>9. TicketRows'  BY <1>1, <1>7, <2>5 DEF IInv, RowsOK, TicketRows, Families
  <2> QED  BY <2>1, <2>2, <2>3, <2>4, <2>6, <2>7, <2>8, <2>9 DEF RowsOK
<1>10. NothingUndone  BY <1>1, <1>7 DEF NothingUndone, SeededTokens, LocalTokens
<1>11. HandlersOK' /\ Overlaps'
  <2>1. handler' = [handler EXCEPT ![c] = NoHandler]  BY <1>3 DEF Answered
  <2> QED  BY <1>1, <1>10, <2>1, QuietStep DEF IInv
<1> QED  BY <1>8, <1>9, <1>11 DEF IInv

LEMMA DeleteRequestStep ==
  ASSUME IInv, UNCHANGED serverMode, NEW c \in AccountClients, DeleteRequest(c)
  PROVE  IInv'
<1>0. PICK r : r = handler[c]  OBVIOUS
<1>1. /\ Busy(c) /\ r \in Handlers /\ Promise(r) /\ r.op = "consent" /\ r.pc = "delete"
      /\ UNCHANGED <<users, sessions, clients, consents, codes, tokens, aged, serviceTokens, epoch, clashes>>
  <2>1. At(c, "delete") /\ UNCHANGED <<users, sessions, clients, consents, codes, tokens, aged, serviceTokens, epoch, clashes>>
    BY DEF DeleteRequest, Quiet
  <2> QED  BY <1>0, <2>1, AtStatement, StatementOf DEF TypedHandler
<1>2. r.row \in DOMAIN asks  BY <1>1 DEF Promise, RowFound
<1>3. PICK e : e = [asks[r.row] EXCEPT !.state = "gone"]  OBVIOUS
<1>4. asks' = [asks EXCEPT ![r.row] = e]  BY <1>0, <1>2, <1>3 DEF DeleteRequest
<1>5. e \in AskRec /\ e.state = "gone"  BY <1>2, <1>3, RowTypes DEF IInv, AskRec
<1>6. asks \in Seq(AskRec)  BY DEF IInv, RowsTypeOK
<1>7. /\ asks' \in Seq(AskRec) /\ DOMAIN asks' = DOMAIN asks /\ Len(asks') = Len(asks)
      /\ \A q \in DOMAIN asks : asks'[q] = IF q = r.row THEN e ELSE asks[q]
  BY <1>4, <1>5, <1>6, UpdateRow
<1>8. RowsTypeOK'  BY <1>1, <1>7 DEF IInv, RowsTypeOK, UsersTypeOK
<1>9. \A q \in DOMAIN asks : asks[q].state = "gone" => asks'[q].state = "gone"  BY <1>5, <1>7
<1>10. RowsOK'
  <2>1. EarnedRows'  BY <1>1, EarnedStays DEF IInv, RowsOK
  <2>2. GrantsWereApproved'  BY <1>1, ApprovedStays DEF IInv, RowsOK
  <2>3. FoundingRow'  BY <1>1, FoundingStays DEF IInv, RowsOK
  <2>4. LocalRow'  BY <1>1, LocalStays DEF IInv, RowsOK, SeededTokens, LocalTokens
  <2>5. AskRows'  BY <1>1, <1>7, <1>9, AsksStay DEF IInv, RowsOK
  <2>6. CodeRows'  BY <1>1, CodesStay DEF IInv, RowsOK
  <2>7. FamilyRows'  BY <1>1, FamiliesStay DEF IInv, RowsOK
  <2>8. TicketRows'  BY <1>1, <1>7 DEF IInv, RowsOK, TicketRows, Families
  <2> QED  BY <2>1, <2>2, <2>3, <2>4, <2>5, <2>6, <2>7, <2>8 DEF RowsOK
<1>11. NothingUndone  BY <1>1, <1>7, <1>9 DEF NothingUndone, SeededTokens, LocalTokens
<1>12. HandlersOK' /\ Overlaps'
  <2>1. CASE Answered(c)
    <3>1. handler' = [handler EXCEPT ![c] = NoHandler]  BY <2>1 DEF Answered
    <3> QED  BY <1>1, <1>11, <3>1, QuietStep DEF IInv
  <2>2. CASE To(c, "remember")
    <3>1. PICK s : s = [r EXCEPT !.pc = "remember"]  OBVIOUS
    <3>2. "remember" \in HandlerPCs[r.op]  BY <1>1, StatementsOf
    <3>3. handler' = [handler EXCEPT ![c] = s] /\ handler'[c] = s
      BY <1>0, <2>2, <3>1 DEF To, IInv, HandlersOK
    <3>4. /\ s \in Handlers /\ s.pc = "remember" /\ s.op = r.op /\ s.user = r.user /\ s.on = r.on
          /\ s.row = r.row /\ s.at = r.at /\ s.since = r.since
      BY <1>1, <3>1, <3>2, MovedHandler
    <3>5. TypedHandler(s) /\ RowFound(s) /\ EarnedBy(s) /\ ApprovedFor(s) /\ FoundingSeen(s) /\ NoLocalYet(s)
      BY <1>1, <3>2, <3>4, MovedPromise
    <3>6. NoTokenYet(s) /\ FamilyHeld(s)  BY <1>1, <3>4 DEF NoTokenYet, FamilyHeld
    <3>10. ApprovedFor(handler[c])'  BY <1>11, <3>3, <3>5, ApprovedKept DEF NothingUndone
    <3>13. NoTokenYet(handler[c])'   BY <1>11, <3>3, <3>5, <3>6, TokenKept DEF NothingUndone
    <3>14. FamilyHeld(handler[c])'   BY <1>11, <3>3, <3>5, <3>6, FamilyKept DEF NothingUndone
    <3>15. NoCodeYet(handler[c])'
      <4>1. <<"consent", r.row>> \in clashes \/ CodesOf(r.row) = {}  BY <1>1 DEF Promise, NoCodeYet
      <4>2. asks'[r.row].state = "gone"  BY <1>2, <1>5, <1>7
      <4> QED  BY <1>1, <3>3, <3>4, <4>1, <4>2 DEF NoCodeYet, CodesOf
    <3>16. Promise(handler[c])'
      BY <1>11, <3>3, <3>5, <3>10, <3>13, <3>14, <3>15, MovedKept
    <3> QED  BY <1>0, <1>1, <1>11, <3>3, <3>4, <3>16, QuietStep DEF IInv
  <2> QED  BY <2>1, <2>2 DEF DeleteRequest
<1> QED  BY <1>8, <1>10, <1>12 DEF IInv

LEMMA BurnCodeStep ==
  ASSUME IInv, UNCHANGED serverMode, NEW c \in AccountClients, BurnCode(c)
  PROVE  IInv'
<1>0. PICK r : r = handler[c]  OBVIOUS
<1>1. /\ Busy(c) /\ r \in Handlers /\ Promise(r) /\ r.op = "exchange"
      /\ UNCHANGED <<users, sessions, clients, consents, asks, tokens, aged, serviceTokens, epoch, clashes>>
  <2>1. At(c, "burn") /\ UNCHANGED <<users, sessions, clients, consents, asks, tokens, aged, serviceTokens, epoch, clashes>>
    BY DEF BurnCode, Quiet
  <2> QED  BY <1>0, <2>1, AtStatement, StatementOf DEF TypedHandler
<1>2. r.row \in DOMAIN codes  BY <1>1 DEF Promise, RowFound
<1>3. PICK e : e = [codes[r.row] EXCEPT !.used = TRUE]  OBVIOUS
<1>4. codes' = [codes EXCEPT ![r.row] = e] /\ To(c, "issue")  BY <1>0, <1>2, <1>3 DEF BurnCode
<1>5. /\ e \in CodeRec /\ e.used /\ e.ask = codes[r.row].ask
      /\ e.user = codes[r.row].user /\ e.client = codes[r.row].client
  BY <1>2, <1>3, RowTypes DEF IInv, CodeRec
<1>6. codes \in Seq(CodeRec)  BY DEF IInv, RowsTypeOK
<1>7. /\ codes' \in Seq(CodeRec) /\ DOMAIN codes' = DOMAIN codes /\ Len(codes') = Len(codes)
      /\ \A k \in DOMAIN codes : codes'[k] = IF k = r.row THEN e ELSE codes[k]
  BY <1>4, <1>5, <1>6, UpdateRow
<1>8. RowsTypeOK'  BY <1>1, <1>7 DEF IInv, RowsTypeOK, UsersTypeOK
<1>9. \A k \in DOMAIN codes : /\ codes'[k].ask = codes[k].ask /\ codes'[k].user = codes[k].user
                              /\ codes'[k].client = codes[k].client /\ (codes[k].used => codes'[k].used)
  BY <1>5, <1>7
<1>10. RowsOK'
  <2>1. EarnedRows'  BY <1>1, EarnedStays DEF IInv, RowsOK
  <2>2. GrantsWereApproved'  BY <1>1, <1>7, <1>9, ApprovedStays DEF IInv, RowsOK
  <2>3. FoundingRow'  BY <1>1, FoundingStays DEF IInv, RowsOK
  <2>4. LocalRow'  BY <1>1, LocalStays DEF IInv, RowsOK, SeededTokens, LocalTokens
  <2>5. AskRows'  BY <1>1, <1>7, <1>9, AsksStay DEF IInv, RowsOK
  <2>6. CodeRows'  BY <1>1, <1>7, <1>9, CodesStay DEF IInv, RowsOK
  <2>7. FamilyRows'  BY <1>1, FamiliesStay DEF IInv, RowsOK
  <2>8. TicketRows'  BY <1>1, <1>7, <1>9 DEF IInv, RowsOK, TicketRows, Families
  <2> QED  BY <2>1, <2>2, <2>3, <2>4, <2>5, <2>6, <2>7, <2>8 DEF RowsOK
<1>11. NothingUndone  BY <1>1, <1>7, <1>9 DEF NothingUndone, SeededTokens, LocalTokens
<1>12. HandlersOK' /\ Overlaps'
  <2>1. PICK s : s = [r EXCEPT !.pc = "issue"]  OBVIOUS
  <2>2. "issue" \in HandlerPCs[r.op]  BY <1>1, StatementsOf
  <2>3. handler' = [handler EXCEPT ![c] = s] /\ handler'[c] = s
    BY <1>0, <1>4, <2>1 DEF To, IInv, HandlersOK
  <2>4. /\ s \in Handlers /\ s.pc = "issue" /\ s.op = r.op /\ s.user = r.user /\ s.on = r.on
        /\ s.row = r.row /\ s.at = r.at /\ s.since = r.since
    BY <1>1, <2>1, <2>2, MovedHandler
  <2>5. TypedHandler(s) /\ RowFound(s) /\ EarnedBy(s) /\ ApprovedFor(s) /\ FoundingSeen(s) /\ NoLocalYet(s)
    BY <1>1, <2>2, <2>4, MovedPromise
  <2>6. NoCodeYet(s) /\ FamilyHeld(s)  BY <1>1, <2>4 DEF NoCodeYet, FamilyHeld
  <2>7. ApprovedFor(handler[c])'  BY <1>11, <2>3, <2>5, ApprovedKept DEF NothingUndone
  <2>8. NoCodeYet(handler[c])'    BY <1>11, <2>3, <2>5, <2>6, CodeKept DEF NothingUndone
  <2>9. FamilyHeld(handler[c])'   BY <1>11, <2>3, <2>5, <2>6, FamilyKept DEF NothingUndone
  <2>10. NoTokenYet(handler[c])'
    <3>1. <<"code", r.row>> \in clashes \/ TokensOf(r.row) = {}  BY <1>1 DEF Promise, NoTokenYet
    <3>2. codes'[r.row].used  BY <1>2, <1>5, <1>7
    <3> QED  BY <1>1, <2>3, <2>4, <3>1, <3>2 DEF NoTokenYet, TokensOf
  <2>11. Promise(handler[c])'  BY <1>11, <2>3, <2>5, <2>7, <2>8, <2>9, <2>10, MovedKept
  <2> QED  BY <1>0, <1>1, <1>11, <2>3, <2>4, <2>11, QuietStep DEF IInv
<1> QED  BY <1>8, <1>10, <1>12 DEF IInv

\* A token is revoked.
LEMMA TokenRevoked ==
  ASSUME IInv, NEW t, tokens' = [tokens EXCEPT ![t].revoked = TRUE],
         UNCHANGED <<serverMode, users, sessions, clients, consents, asks, codes, aged, serviceTokens, epoch, clashes>>
  PROVE  /\ RowsTypeOK' /\ RowsOK' /\ NothingUndone
         /\ DOMAIN tokens' = DOMAIN tokens
         /\ \A x \in DOMAIN tokens : tokens'[x].family = tokens[x].family
         /\ \A f : {x \in DOMAIN tokens' : tokens'[x].family = f /\ ~tokens'[x].revoked} \subseteq Live(f) \ {t}
<1>1. PICK e : e = [tokens[t] EXCEPT !.revoked = TRUE]  OBVIOUS
<1>2. tokens' = [tokens EXCEPT ![t] = e]  BY <1>1
<1>3. t \in DOMAIN tokens =>
        /\ e \in TokenRec /\ e.revoked /\ e.family = tokens[t].family /\ e.code = tokens[t].code
        /\ e.user = tokens[t].user /\ e.client = tokens[t].client /\ e.since = tokens[t].since
  BY <1>1, RowTypes DEF IInv, TokenRec
<1>4. tokens \in Seq(TokenRec)  BY DEF IInv, RowsTypeOK
<1>5. /\ tokens' \in Seq(TokenRec) /\ DOMAIN tokens' = DOMAIN tokens /\ Len(tokens') = Len(tokens)
      /\ \A x \in DOMAIN tokens : tokens'[x] = IF x = t THEN e ELSE tokens[x]
  <2>1. CASE t \in DOMAIN tokens
    <3>1. e \in TokenRec  BY <1>3, <2>1
    <3> QED  BY ONLY <1>2, <1>4, <3>1, UpdateRow
  <2>2. CASE t \notin DOMAIN tokens
    <3>1. tokens' = tokens  BY <1>2, <1>4, <2>2
    <3> QED  BY <1>4, <2>2, <3>1
  <2> QED  BY <2>1, <2>2
<1>6. \A x \in DOMAIN tokens :
        /\ tokens'[x].family = tokens[x].family /\ tokens'[x].code = tokens[x].code
        /\ tokens'[x].user = tokens[x].user /\ tokens'[x].client = tokens[x].client
        /\ tokens'[x].since = tokens[x].since /\ (tokens[x].revoked => tokens'[x].revoked)
        /\ x = t => tokens'[x].revoked
        /\ x # t => tokens'[x].revoked = tokens[x].revoked
  BY <1>3, <1>5
<1>7. RowsTypeOK'  BY <1>5 DEF IInv, RowsTypeOK, UsersTypeOK
<1>8. RowsOK'
  <2>1. EarnedRows'  BY <1>5, <1>6, EarnedStays DEF IInv, RowsOK
  <2>2. GrantsWereApproved'  BY <1>5, <1>6, ApprovedStays DEF IInv, RowsOK
  <2>3. FoundingRow'  BY FoundingStays DEF IInv, RowsOK
  <2>4. LocalRow'  BY LocalStays DEF IInv, RowsOK, SeededTokens, LocalTokens
  <2>5. AskRows'  BY AsksStay DEF IInv, RowsOK
  <2>6. CodeRows'  BY <1>5, <1>6, CodesStay DEF IInv, RowsOK
  <2>7. FamilyRows' /\ Families' = Families  BY <1>5, <1>6, FamiliesStay DEF IInv, RowsOK
  <2>8. TicketRows'  BY <1>5, <1>6, <2>7 DEF IInv, RowsOK, TicketRows
  <2> QED  BY <2>1, <2>2, <2>3, <2>4, <2>5, <2>6, <2>7, <2>8 DEF RowsOK
<1>9. NothingUndone  BY <1>5, <1>6 DEF NothingUndone, SeededTokens, LocalTokens
<1>10. \A f : {x \in DOMAIN tokens' : tokens'[x].family = f /\ ~tokens'[x].revoked} \subseteq Live(f) \ {t}
  BY <1>5, <1>6 DEF Live
<1> QED  BY <1>5, <1>6, <1>7, <1>8, <1>9, <1>10

LEMMA RotateTokenStep ==
  ASSUME IInv, UNCHANGED serverMode, NEW c \in AccountClients, RotateToken(c)
  PROVE  IInv'
<1>0. PICK r : r = handler[c]  OBVIOUS
<1>1. /\ Busy(c) /\ r \in Handlers /\ Promise(r) /\ r.op = "refresh" /\ r.pc = "rotate"
      /\ UNCHANGED <<users, sessions, clients, consents, asks, codes, aged, serviceTokens, epoch, clashes>>
  <2>1. At(c, "rotate") /\ UNCHANGED <<users, sessions, clients, consents, asks, codes, aged, serviceTokens, epoch, clashes>>
    BY DEF RotateToken, Quiet
  <2> QED  BY <1>0, <2>1, AtStatement, StatementOf DEF TypedHandler
<1>2. tokens' = [tokens EXCEPT ![r.row].revoked = TRUE] /\ To(c, "renew")  BY <1>0 DEF RotateToken
<1>3. /\ RowsTypeOK' /\ RowsOK' /\ NothingUndone
      /\ DOMAIN tokens' = DOMAIN tokens
      /\ \A x \in DOMAIN tokens : tokens'[x].family = tokens[x].family
      /\ \A f : {x \in DOMAIN tokens' : tokens'[x].family = f /\ ~tokens'[x].revoked} \subseteq Live(f) \ {r.row}
  BY <1>1, <1>2, TokenRevoked
<1>4. HandlersOK' /\ Overlaps'
  <2>1. PICK s : s = [r EXCEPT !.pc = "renew"]  OBVIOUS
  <2>2. "renew" \in HandlerPCs[r.op]  BY <1>1, StatementsOf
  <2>3. handler' = [handler EXCEPT ![c] = s] /\ handler'[c] = s
    BY <1>0, <1>2, <2>1 DEF To, IInv, HandlersOK
  <2>4. /\ s \in Handlers /\ s.pc = "renew" /\ s.op = r.op /\ s.user = r.user /\ s.on = r.on
        /\ s.row = r.row /\ s.at = r.at /\ s.since = r.since
    BY <1>1, <2>1, <2>2, MovedHandler
  <2>5. TypedHandler(s) /\ RowFound(s) /\ EarnedBy(s) /\ ApprovedFor(s) /\ FoundingSeen(s) /\ NoLocalYet(s)
    BY <1>1, <2>2, <2>4, MovedPromise
  <2>6. NoCodeYet(s) /\ NoTokenYet(s)  BY <1>1, <2>4 DEF NoCodeYet, NoTokenYet
  <2>7. ApprovedFor(handler[c])'  BY <1>3, <2>3, <2>5, ApprovedKept DEF NothingUndone
  <2>8. NoCodeYet(handler[c])'    BY <1>3, <2>3, <2>5, <2>6, CodeKept DEF NothingUndone
  <2>9. NoTokenYet(handler[c])'   BY <1>3, <2>3, <2>5, <2>6, TokenKept DEF NothingUndone
  <2>10. FamilyHeld(handler[c])'
    <3>1. r.row \in DOMAIN tokens  BY <1>1 DEF Promise, RowFound
    <3>2. PICK f : f = tokens[r.row].family  OBVIOUS
    <3>3. tokens'[r.row].family = f  BY <1>3, <3>1, <3>2
    <3>4. <<"family", f>> \in clashes \/ Live(f) \subseteq {r.row}  BY <1>1, <3>2 DEF Promise, FamilyHeld
    <3>5. <<"family", f>> \in clashes' \/ {x \in DOMAIN tokens' : tokens'[x].family = f /\ ~tokens'[x].revoked} = {}
      BY <1>1, <1>3, <3>4
    <3> QED  BY <2>3, <2>4, <3>3, <3>5 DEF FamilyHeld, Live
  <2>11. Promise(handler[c])'  BY <1>3, <2>3, <2>5, <2>7, <2>8, <2>9, <2>10, MovedKept
  <2> QED  BY <1>0, <1>1, <1>3, <2>3, <2>4, <2>11, QuietStep DEF IInv
<1> QED  BY <1>3, <1>4 DEF IInv

LEMMA RevokeTokenStep ==
  ASSUME IInv, UNCHANGED serverMode, NEW c \in AccountClients, RevokeToken(c)
  PROVE  IInv'
<1>0. PICK r : r = handler[c]  OBVIOUS
<1>1. /\ Busy(c) /\ r \in Handlers /\ Promise(r) /\ r.op = "refresh" /\ r.pc = "revoke"
      /\ UNCHANGED <<users, sessions, clients, consents, asks, codes, aged, serviceTokens, epoch, clashes>>
  <2>1. At(c, "revoke") /\ UNCHANGED <<users, sessions, clients, consents, asks, codes, aged, serviceTokens, epoch, clashes>>
    BY DEF RevokeToken, Quiet
  <2> QED  BY <1>0, <2>1, AtStatement, StatementOf DEF TypedHandler
<1>2. CASE r.todo = {}
  <2>1. Answered(c) /\ UNCHANGED <<serverMode, accountRows, epoch, clashes>>
    BY <1>0, <1>1, <1>2 DEF RevokeToken, accountRows
  <2> QED  BY <1>1, <2>1, AnsweredStep
<1>3. CASE r.todo # {}
  <2>1. PICK t : /\ tokens' = [tokens EXCEPT ![t].revoked = TRUE]
                 /\ handler' = [handler EXCEPT ![c].todo = @ \ {t}]
    BY <1>0, <1>3 DEF RevokeToken
  <2>2. /\ RowsTypeOK' /\ RowsOK' /\ NothingUndone
        /\ DOMAIN tokens' = DOMAIN tokens
        /\ \A x \in DOMAIN tokens : tokens'[x].family = tokens[x].family
        /\ \A f : {x \in DOMAIN tokens' : tokens'[x].family = f /\ ~tokens'[x].revoked} \subseteq Live(f) \ {t}
    BY <1>1, <2>1, TokenRevoked
  <2>3. HandlersOK' /\ Overlaps'
    <3>1. PICK s : s = [r EXCEPT !.todo = @ \ {t}]  OBVIOUS
    <3>2. handler' = [handler EXCEPT ![c] = s] /\ handler'[c] = s
      BY <1>0, <2>1, <3>1 DEF IInv, HandlersOK
    <3>3. r.todo \ {t} \in SUBSET Nat  BY <1>1 DEF Handlers
    <3>4. /\ s \in Handlers /\ s.pc = "revoke" /\ s.op = r.op /\ s.user = r.user /\ s.on = r.on
          /\ s.row = r.row /\ s.at = r.at /\ s.since = r.since /\ s.todo = r.todo \ {t}
      BY <1>1, <3>1, <3>3 DEF Handlers
    <3>5. "revoke" \in HandlerPCs[s.op]  BY <1>1, <3>4, StatementsOf
    <3>6. TypedHandler(s) /\ RowFound(s) /\ EarnedBy(s) /\ ApprovedFor(s) /\ FoundingSeen(s) /\ NoLocalYet(s)
      BY <1>1, <3>4, <3>5, MovedPromise
    <3>7. NoCodeYet(s) /\ NoTokenYet(s)  BY <1>1, <3>4 DEF NoCodeYet, NoTokenYet
    <3>8. ApprovedFor(handler[c])'  BY <2>2, <3>2, <3>6, ApprovedKept DEF NothingUndone
    <3>9. NoCodeYet(handler[c])'    BY <2>2, <3>2, <3>6, <3>7, CodeKept DEF NothingUndone
    <3>10. NoTokenYet(handler[c])'  BY <2>2, <3>2, <3>6, <3>7, TokenKept DEF NothingUndone
    <3>11. FamilyHeld(handler[c])'
      <4>1. r.row \in DOMAIN tokens  BY <1>1 DEF Promise, RowFound
      <4>2. PICK f : f = tokens[r.row].family  OBVIOUS
      <4>3. tokens'[r.row].family = f  BY <2>2, <4>1, <4>2
      <4>4. <<"family", f>> \in clashes \/ Live(f) \subseteq r.todo  BY <1>1, <4>2 DEF Promise, FamilyHeld
      <4>5. \/ <<"family", f>> \in clashes'
            \/ {x \in DOMAIN tokens' : tokens'[x].family = f /\ ~tokens'[x].revoked} \subseteq r.todo \ {t}
        BY <1>1, <2>2, <4>4
      <4> QED  BY <3>2, <3>4, <4>3, <4>5 DEF FamilyHeld, Live
    <3>12. Promise(handler[c])'  BY <2>2, <3>2, <3>6, <3>8, <3>9, <3>10, <3>11, MovedKept
    <3> QED  BY <1>0, <1>1, <2>2, <3>2, <3>4, <3>12, QuietStep DEF IInv
  <2> QED  BY <2>2, <2>3 DEF IInv
<1> QED  BY <1>2, <1>3

LEMMA IssueCodeStep ==
  ASSUME IInv, UNCHANGED serverMode, NEW c \in AccountClients, IssueCode(c)
  PROVE  IInv'
<1>0. PICK r : r = handler[c]  OBVIOUS
<1>1. /\ Busy(c) /\ r \in Handlers /\ Promise(r) /\ TypedHandler(r) /\ r.op \in {"authorize", "consent"} /\ r.pc = "code"
      /\ UNCHANGED <<users, sessions, clients, consents, asks, tokens, aged, serviceTokens, epoch, clashes>>
  <2>1. At(c, "code") /\ UNCHANGED <<users, sessions, clients, consents, asks, tokens, aged, serviceTokens, epoch, clashes>>
    BY DEF IssueCode, Quiet
  <2> QED  BY <1>0, <2>1, AtStatement, StatementOf DEF TypedHandler
<1>2. PICK ask : ask = IF r.op = "consent" THEN r.row ELSE 0  OBVIOUS
<1>3. PICK e : e = Code(r.user, r.at, ask, r.since)  OBVIOUS
<1>4. PICK n : n = Len(codes) + 1  OBVIOUS
<1>5. codes' = Append(codes, e) /\ Answered(c)  BY <1>0, <1>2, <1>3 DEF IssueCode
<1>6. /\ r.user \in UserIds /\ r.at \in Nat /\ r.since \in Nat /\ <<r.user, r.at>> \in consents
      /\ r.op = "consent" => r.row \in DOMAIN asks /\ <<"consent", r.row>> \in r.on
      /\ r.op = "consent" => \/ <<"consent", r.row>> \in clashes
                             \/ CodesOf(r.row) = {} /\ asks[r.row].state = "gone"
  BY <1>1 DEF TypedHandler, Handlers, Promise, ApprovedFor, RowFound, NoCodeYet
<1>7. ask \in Nat /\ ask <= Len(asks)  BY <1>2, <1>6, RowTypes DEF IInv
<1>8. e \in CodeRec /\ e.user = r.user /\ e.client = r.at /\ e.ask = ask  BY <1>3, <1>6, <1>7 DEF Code, CodeRec
<1>9. codes \in Seq(CodeRec)  BY DEF IInv, RowsTypeOK
<1>10. /\ codes' \in Seq(CodeRec) /\ DOMAIN codes' = DOMAIN codes \cup {n} /\ Len(codes') = n /\ n \notin DOMAIN codes
       /\ \A k \in DOMAIN codes : codes'[k] = codes[k]
       /\ codes'[n] = e
  BY <1>4, <1>5, <1>8, <1>9, InsertRow
<1>11. RowsTypeOK'  BY <1>1, <1>10 DEF IInv, RowsTypeOK, UsersTypeOK
<1>12. \A q : {k \in DOMAIN codes' : codes'[k].ask = q} = CodesOf(q) \cup IF q = ask THEN {n} ELSE {}
  BY <1>8, <1>10 DEF CodesOf
<1>13. SeededTokens' = SeededTokens  BY <1>1 DEF SeededTokens, LocalTokens
<1>14. RowsOK'
  <2>1. EarnedRows'  BY <1>1, EarnedStays DEF IInv, RowsOK
  <2>2. GrantsWereApproved'
    BY <1>1, <1>6, <1>8, <1>10 DEF IInv, RowsOK, GrantsWereApproved
  <2>3. FoundingRow'  BY <1>1, FoundingStays DEF IInv, RowsOK
  <2>4. LocalRow'  BY <1>1, <1>13, LocalStays DEF IInv, RowsOK
  <2>5. AskRows'
    <3>1. ASSUME NEW q \in DOMAIN asks
          PROVE  \/ <<"consent", q>> \in clashes
                 \/ /\ \A x, y \in CodesOf(q) \cup IF q = ask THEN {n} ELSE {} : x = y
                    /\ asks[q].state # "gone" => CodesOf(q) \cup (IF q = ask THEN {n} ELSE {}) = {}
      <4>1. CASE q = ask
        <5>1. r.op = "consent" /\ r.row = q  BY <1>2, <4>1, RowTypes DEF IInv
        <5> QED  BY <1>6, <4>1, <5>1
      <4>2. CASE q # ask  BY <4>2 DEF IInv, RowsOK, AskRows
      <4> QED  BY <4>1, <4>2
    <3>2. \A q \in DOMAIN asks' :
            \/ <<"consent", q>> \in clashes'
            \/ /\ \A x, y \in {k \in DOMAIN codes' : codes'[k].ask = q} : x = y
               /\ asks'[q].state # "gone" => {k \in DOMAIN codes' : codes'[k].ask = q} = {}
      BY <1>1, <1>12, <3>1
    <3> QED  BY <3>2 DEF AskRows, CodesOf
  <2>6. CodeRows'
    <3>1. \A t \in DOMAIN tokens : tokens[t].code \in Nat /\ tokens[t].code <= Len(codes)
      <4>1. \A t \in DOMAIN tokens : tokens[t] \in TokenRec  BY RowTypes DEF IInv
      <4> QED  BY <4>1 DEF IInv, RowsOK, TicketRows, TokenRec
    <3>2. Len(codes) \in Nat  BY RowTypes DEF IInv
    <3>3. TokensOf(n) = {}  BY <1>4, <3>1, <3>2 DEF TokensOf
    <3>4. \A k : {t \in DOMAIN tokens' : tokens'[t].code = k} = TokensOf(k)  BY <1>1 DEF TokensOf
    <3>5. ASSUME NEW k \in DOMAIN codes'
          PROVE  \/ <<"code", k>> \in clashes'
                 \/ (\A x, y \in TokensOf(k) : x = y) /\ (~codes'[k].used => TokensOf(k) = {})
      BY <1>1, <1>10, <3>3 DEF IInv, RowsOK, CodeRows
    <3>6. \A k \in DOMAIN codes' :
            \/ <<"code", k>> \in clashes'
            \/ /\ \A x, y \in {t \in DOMAIN tokens' : tokens'[t].code = k} : x = y
               /\ ~codes'[k].used => {t \in DOMAIN tokens' : tokens'[t].code = k} = {}
      BY <3>4, <3>5
    <3> QED  BY <3>6 DEF CodeRows, TokensOf
  <2>7. FamilyRows'  BY <1>1, FamiliesStay DEF IInv, RowsOK
  <2>8. TicketRows'
    <3>1. \A k \in DOMAIN codes' : codes'[k].ask <= Len(asks)
      BY <1>7, <1>8, <1>10 DEF IInv, RowsOK, TicketRows
    <3>2. \A t \in DOMAIN tokens : tokens[t].code \in Nat /\ tokens[t].code <= Len(codes)
      <4>1. \A t \in DOMAIN tokens : tokens[t] \in TokenRec  BY RowTypes DEF IInv
      <4> QED  BY <4>1 DEF IInv, RowsOK, TicketRows, TokenRec
    <3>3. Len(codes) \in Nat  BY RowTypes DEF IInv
    <3>4. \A t \in DOMAIN tokens : tokens[t].code <= n  BY <1>4, <3>2, <3>3
    <3> QED  BY <1>1, <1>10, <3>1, <3>4 DEF IInv, RowsOK, TicketRows, Families
  <2> QED  BY <2>1, <2>2, <2>3, <2>4, <2>5, <2>6, <2>7, <2>8 DEF RowsOK
<1>15. /\ handler' = [handler EXCEPT ![c] = NoHandler]
       /\ handler'[c] = NoHandler
       /\ \A d \in AccountClients \ {c} : handler'[d] = handler[d]
       /\ handler' \in [AccountClients -> Handlers \cup {NoHandler}]
  BY <1>5 DEF Answered, IInv, HandlersOK
<1>16. ASSUME NEW d \in AccountClients \ {c}, NEW x, x = handler[d], Promise(x), Clash(r, x) \subseteq clashes
       PROVE  Promise(handler[d])'
  <2>1. /\ TypedHandler(x) /\ RowFound(x) /\ EarnedBy(x) /\ ApprovedFor(x) /\ FoundingSeen(x)
        /\ NoLocalYet(x) /\ NoCodeYet(x) /\ NoTokenYet(x) /\ FamilyHeld(x)
    BY <1>16 DEF Promise
  <2>2. handler'[d] = x  BY <1>15, <1>16
  <2>3. TypedHandler(handler[d])'  BY <2>1, <2>2, TypedKept
  <2>4. RowFound(handler[d])'      BY <1>1, <1>10, <2>1, <2>2, FoundKept
  <2>5. EarnedBy(handler[d])'      BY <1>1, <2>1, <2>2, EarnedKept
  <2>6. ApprovedFor(handler[d])'   BY <1>1, <2>1, <2>2, ApprovedKept
  <2>7. FoundingSeen(handler[d])'  BY <1>1, <2>1, <2>2, FoundingKept
  <2>8. NoLocalYet(handler[d])'    BY <1>1, <1>13, <2>1, <2>2, LocalKept
  <2>9. NoTokenYet(handler[d])'    BY <1>1, <1>10, <2>1, <2>2, TokenKept
  <2>10. FamilyHeld(handler[d])'   BY <1>1, <2>1, <2>2, FamilyKept
  <2>11. NoCodeYet(handler[d])'
    <3>1. CASE x.op = "consent"
      <4>1. x.row \in DOMAIN asks /\ <<"consent", x.row>> \in x.on  BY <2>1, <3>1 DEF TypedHandler, RowFound
      <4>2. x.row = ask => <<"consent", x.row>> \in clashes
        <5>1. ASSUME x.row = ask PROVE r.op = "consent" /\ r.row = x.row
          BY <1>2, <4>1, <5>1, RowTypes DEF IInv
        <5> QED  BY <1>6, <1>16, <4>1, <5>1 DEF Clash
      <4>3. x.row # ask => {k \in DOMAIN codes' : codes'[k].ask = x.row} = CodesOf(x.row)  BY <1>12
      <4> QED  BY <1>1, <2>1, <2>2, <3>1, <4>2, <4>3 DEF NoCodeYet, CodesOf
    <3>2. CASE x.op # "consent"  BY <2>2, <3>2 DEF NoCodeYet
    <3> QED  BY <3>1, <3>2
  <2> QED  BY <2>3, <2>4, <2>5, <2>6, <2>7, <2>8, <2>9, <2>10, <2>11 DEF Promise
<1>17. HandlersOK' /\ Overlaps'
  <2>1. ~Busy(c)'  BY <1>15 DEF Busy
  <2>2. \A d \in AccountClients \ {c} :
          Promise(handler[d]) /\ Clash(handler[c], handler[d]) \subseteq clashes => Promise(handler[d])'
    BY <1>0, <1>16
  <2> QED  BY <1>1, <1>15, <2>1, <2>2, OneStep DEF IInv
<1> QED  BY <1>11, <1>14, <1>17 DEF IInv

\* A token is issued: in a new family, or in one that has none that is good.
LEMMA TokenIssued ==
  ASSUME IInv, NEW c \in AccountClients, NEW r, r = handler[c], Busy(c), Promise(r), r.op \in {"exchange", "refresh"},
         NEW family \in Nat \ {0}, NEW code \in Nat, InsertToken(c, family, code), UNCHANGED serverMode,
         code <= Len(codes), Quiet,
         code \in DOMAIN codes => /\ r.op = "exchange" /\ r.row = code
                                  /\ \/ <<"code", code>> \in clashes
                                     \/ TokensOf(code) = {} /\ codes[code].used,
         family \in Families => /\ <<"family", family>> \in r.on
                                /\ <<"family", family>> \in clashes \/ Live(family) = {},
         \E n \in Nat : Families \cup {family} = 1 .. n
  PROVE  IInv'
<1>1. UNCHANGED <<users, sessions, clients, consents, asks, codes, aged, serviceTokens, epoch, clashes>>
  BY DEF InsertToken, Quiet
<1>2. PICK e : e = Token(r.user, r.at, family, code, r.since, r.approved)  OBVIOUS
<1>3. PICK n : n = Len(tokens) + 1  OBVIOUS
<1>4. tokens' = Append(tokens, e) /\ Answered(c)  BY <1>2 DEF InsertToken
<1>5. /\ r.user \in UserIds /\ r.at \in Nat /\ r.since \in Nat /\ r.approved \in Nat /\ <<r.user, r.at>> \in consents
      /\ r.user \in UserNames => Earned(r.user, r.since)
      /\ r.op = "exchange" => <<"code", r.row>> \in r.on
  BY DEF Promise, TypedHandler, Handlers, ApprovedFor, EarnedBy
<1>6. /\ e \in TokenRec /\ e.user = r.user /\ e.client = r.at /\ e.family = family /\ e.code = code
      /\ e.since = r.since /\ ~e.revoked
  BY <1>2, <1>5 DEF Token, TokenRec
<1>7. tokens \in Seq(TokenRec)  BY DEF IInv, RowsTypeOK
<1>8. /\ tokens' \in Seq(TokenRec) /\ DOMAIN tokens' = DOMAIN tokens \cup {n} /\ n \notin DOMAIN tokens
      /\ \A t \in DOMAIN tokens : tokens'[t] = tokens[t]
      /\ tokens'[n] = e
  BY <1>3, <1>4, <1>6, <1>7, InsertRow
<1>9. RowsTypeOK'  BY <1>1, <1>8 DEF IInv, RowsTypeOK, UsersTypeOK
<1>10. \A k : {t \in DOMAIN tokens' : tokens'[t].code = k} = TokensOf(k) \cup IF k = code THEN {n} ELSE {}
  BY <1>6, <1>8 DEF TokensOf
<1>11. \A f : {t \in DOMAIN tokens' : tokens'[t].family = f /\ ~tokens'[t].revoked}
                = Live(f) \cup IF f = family THEN {n} ELSE {}
  BY <1>6, <1>8 DEF Live
<1>12. {tokens'[t].family : t \in DOMAIN tokens'} = Families \cup {family}
  BY <1>6, <1>8 DEF Families
<1>13. SeededTokens' = SeededTokens  BY <1>1 DEF SeededTokens, LocalTokens
<1>14. RowsOK'
  <2>1. EarnedRows'
    <3>1. \A t \in DOMAIN tokens' :
            tokens'[t].user \in UserNames /\ ~tokens'[t].revoked => Earned(tokens'[t].user, tokens'[t].since)
      BY <1>5, <1>6, <1>8 DEF IInv, RowsOK, EarnedRows
    <3> QED  BY <1>1, <3>1 DEF IInv, RowsOK, EarnedRows, Earned
  <2>2. GrantsWereApproved'
    BY <1>1, <1>5, <1>6, <1>8 DEF IInv, RowsOK, GrantsWereApproved
  <2>3. FoundingRow'  BY <1>1, FoundingStays DEF IInv, RowsOK
  <2>4. LocalRow'  BY <1>1, <1>13, LocalStays DEF IInv, RowsOK
  <2>5. AskRows'  BY <1>1, AsksStay DEF IInv, RowsOK
  <2>6. CodeRows'
    <3>1. ASSUME NEW k \in DOMAIN codes
          PROVE  \/ <<"code", k>> \in clashes
                 \/ /\ \A x, y \in TokensOf(k) \cup IF k = code THEN {n} ELSE {} : x = y
                    /\ ~codes[k].used => TokensOf(k) \cup (IF k = code THEN {n} ELSE {}) = {}
      <4>1. CASE k = code  BY <4>1
      <4>2. CASE k # code  BY <4>2 DEF IInv, RowsOK, CodeRows
      <4> QED  BY <4>1, <4>2
    <3>2. ASSUME NEW k \in DOMAIN codes'
          PROVE  \/ <<"code", k>> \in clashes'
                 \/ /\ \A x, y \in {t \in DOMAIN tokens' : tokens'[t].code = k} : x = y
                    /\ ~codes'[k].used => {t \in DOMAIN tokens' : tokens'[t].code = k} = {}
      <4>1. PICK T : T = TokensOf(k) \cup IF k = code THEN {n} ELSE {}  OBVIOUS
      <4>2. {t \in DOMAIN tokens' : tokens'[t].code = k} = T  BY <1>10, <4>1
      <4>3. <<"code", k>> \in clashes \/ ((\A x, y \in T : x = y) /\ (~codes[k].used => T = {}))
        BY <1>1, <3>1, <4>1
      <4> QED  BY <1>1, <4>2, <4>3
    <3> QED  BY <3>2 DEF CodeRows, TokensOf
  <2>7. FamilyRows'
    <3>1. family \notin Families => Live(family) = {}  BY DEF Families, Live
    <3>2. ASSUME NEW f \in Families \cup {family}
          PROVE  <<"family", f>> \in clashes \/ \A x, y \in Live(f) \cup IF f = family THEN {n} ELSE {} : x = y
      <4>1. CASE f = family  BY <3>1, <4>1
      <4>2. CASE f # family  BY <4>2 DEF IInv, RowsOK, FamilyRows
      <4> QED  BY <4>1, <4>2
    <3>3. ASSUME NEW f \in {tokens'[t].family : t \in DOMAIN tokens'}
          PROVE  \/ <<"family", f>> \in clashes'
                 \/ \A x, y \in {t \in DOMAIN tokens' : tokens'[t].family = f /\ ~tokens'[t].revoked} : x = y
      <4>1. PICK T : T = Live(f) \cup IF f = family THEN {n} ELSE {}  OBVIOUS
      <4>2. {t \in DOMAIN tokens' : tokens'[t].family = f /\ ~tokens'[t].revoked} = T  BY <1>11, <4>1
      <4>3. <<"family", f>> \in clashes \/ \A x, y \in T : x = y  BY <1>12, <3>2, <4>1
      <4> QED  BY <1>1, <4>2, <4>3
    <3> QED  BY <3>3 DEF FamilyRows, Families, Live
  <2>8. TicketRows'
    <3>1. \A t \in DOMAIN tokens' : tokens'[t].code <= Len(codes)
      BY <1>6, <1>8 DEF IInv, RowsOK, TicketRows
    <3> QED  BY <1>1, <1>12, <3>1 DEF IInv, RowsOK, TicketRows, Families
  <2> QED  BY <2>1, <2>2, <2>3, <2>4, <2>5, <2>6, <2>7, <2>8 DEF RowsOK
<1>15. /\ handler'[c] = NoHandler
       /\ \A d \in AccountClients \ {c} : handler'[d] = handler[d]
       /\ handler' \in [AccountClients -> Handlers \cup {NoHandler}]
  BY <1>4 DEF Answered, IInv, HandlersOK
<1>16. ASSUME NEW d \in AccountClients \ {c}, NEW x, x = handler[d], Promise(x), Clash(r, x) \subseteq clashes
       PROVE  Promise(handler[d])'
  <2>1. /\ TypedHandler(x) /\ RowFound(x) /\ EarnedBy(x) /\ ApprovedFor(x) /\ FoundingSeen(x)
        /\ NoLocalYet(x) /\ NoCodeYet(x) /\ NoTokenYet(x) /\ FamilyHeld(x)
    BY <1>16 DEF Promise
  <2>2. handler'[d] = x  BY <1>15, <1>16
  <2>3. TypedHandler(handler[d])'  BY <2>1, <2>2, TypedKept
  <2>4. RowFound(handler[d])'      BY <1>1, <1>8, <2>1, <2>2, FoundKept
  <2>5. EarnedBy(handler[d])'      BY <1>1, <2>1, <2>2, EarnedKept
  <2>6. ApprovedFor(handler[d])'   BY <1>1, <2>1, <2>2, ApprovedKept
  <2>7. FoundingSeen(handler[d])'  BY <1>1, <2>1, <2>2, FoundingKept
  <2>8. NoLocalYet(handler[d])'    BY <1>1, <1>13, <2>1, <2>2, LocalKept
  <2>9. NoCodeYet(handler[d])'     BY <1>1, <2>1, <2>2, CodeKept
  <2>10. NoTokenYet(handler[d])'
    <3>1. CASE x.op = "exchange"
      <4>1. x.row \in DOMAIN codes /\ <<"code", x.row>> \in x.on  BY <2>1, <3>1 DEF TypedHandler, RowFound
      <4>2. x.row = code => <<"code", x.row>> \in clashes  BY <1>5, <1>16, <4>1 DEF Clash
      <4>3. x.row # code => {t \in DOMAIN tokens' : tokens'[t].code = x.row} = TokensOf(x.row)  BY <1>10
      <4> QED  BY <1>1, <2>1, <2>2, <3>1, <4>2, <4>3 DEF NoTokenYet, TokensOf
    <3>2. CASE x.op # "exchange"  BY <2>2, <3>2 DEF NoTokenYet
    <3> QED  BY <3>1, <3>2
  <2>11. FamilyHeld(handler[d])'
    <3>1. CASE x.op = "refresh"
      <4>1. PICK f : f = tokens[x.row].family  OBVIOUS
      <4>2. x.row \in DOMAIN tokens /\ <<"family", f>> \in x.on /\ f \in Families
        BY <2>1, <3>1, <4>1 DEF RowFound, Families
      <4>3. tokens'[x.row].family = f  BY <1>8, <4>1, <4>2
      <4>4. f = family => <<"family", f>> \in clashes  BY <1>16, <4>2 DEF Clash
      <4>5. f # family => {t \in DOMAIN tokens' : tokens'[t].family = f /\ ~tokens'[t].revoked} = Live(f)
        BY <1>11
      <4>6. \/ <<"family", f>> \in clashes
            \/ /\ x.pc \in {"age", "rotate"} => Live(f) \subseteq {x.row}
               /\ x.pc = "renew" => Live(f) = {}
               /\ x.pc = "revoke" => Live(f) \subseteq x.todo
        BY <2>1, <3>1, <4>1 DEF FamilyHeld
      <4> QED  BY <1>1, <2>2, <3>1, <4>3, <4>4, <4>5, <4>6 DEF FamilyHeld, Live
    <3>2. CASE x.op # "refresh"  BY <2>2, <3>2 DEF FamilyHeld
    <3> QED  BY <3>1, <3>2
  <2> QED  BY <2>3, <2>4, <2>5, <2>6, <2>7, <2>8, <2>9, <2>10, <2>11 DEF Promise
<1>17. HandlersOK' /\ Overlaps'
  <2>1. ~Busy(c)'  BY <1>15 DEF Busy
  <2>2. \A d \in AccountClients \ {c} :
          Promise(handler[d]) /\ Clash(handler[c], handler[d]) \subseteq clashes => Promise(handler[d])'
    BY <1>16
  <2> QED  BY <1>1, <1>15, <2>1, <2>2, OneStep DEF IInv
<1> QED  BY <1>9, <1>14, <1>17 DEF IInv

LEMMA IssueTokensStep ==
  ASSUME IInv, UNCHANGED serverMode, NEW c \in AccountClients, IssueTokens(c)
  PROVE  IInv'
<1>0. PICK r : r = handler[c]  OBVIOUS
<1>1. Busy(c) /\ Promise(r) /\ r.op = "exchange" /\ r.pc = "issue"
  BY <1>0, AtStatement, StatementOf DEF IssueTokens, TypedHandler
<1>2. PICK n \in Nat : Families = 1 .. n  BY DEF IInv, RowsOK, TicketRows
<1>3. Cardinality(Families) = n  BY <1>2, FS_Interval
<1>4. InsertToken(c, n + 1, r.row) /\ Quiet  BY <1>0, <1>3 DEF IssueTokens, InsertToken
<1>5. /\ r.row \in DOMAIN codes
      /\ \/ <<"code", r.row>> \in clashes
         \/ TokensOf(r.row) = {} /\ codes[r.row].used
  BY <1>1 DEF Promise, RowFound, NoTokenYet
<1>6. r.row \in Nat /\ r.row <= Len(codes)  BY <1>5, RowTypes DEF IInv
<1>7. n + 1 \in Nat \ {0} /\ n + 1 \notin Families /\ Families \cup {n + 1} = 1 .. (n + 1)  BY <1>2
<1> QED  BY <1>0, <1>1, <1>4, <1>5, <1>6, <1>7, TokenIssued

LEMMA RenewTokenStep ==
  ASSUME IInv, UNCHANGED serverMode, NEW c \in AccountClients, RenewToken(c)
  PROVE  IInv'
<1>0. PICK r : r = handler[c]  OBVIOUS
<1>1. Busy(c) /\ Promise(r) /\ r.op = "refresh" /\ r.pc = "renew"
  BY <1>0, AtStatement, StatementOf DEF RenewToken, TypedHandler
<1>2. PICK f : f = tokens[r.row].family  OBVIOUS
<1>3. InsertToken(c, f, 0) /\ Quiet  BY <1>0, <1>2 DEF RenewToken, InsertToken
<1>4. /\ r.row \in DOMAIN tokens /\ <<"family", f>> \in r.on
      /\ <<"family", f>> \in clashes \/ Live(f) = {}
  BY <1>1, <1>2 DEF Promise, RowFound, FamilyHeld
<1>5. f \in Families  BY <1>2, <1>4 DEF Families
<1>6. Families \cup {f} = Families  BY <1>5
<1>7. \E n \in Nat : Families \cup {f} = 1 .. n  BY <1>6 DEF IInv, RowsOK, TicketRows
<1>8. f \in Nat \ {0}  BY <1>2, <1>4, RowTypes DEF IInv, TokenRec
<1>9. 0 <= Len(codes) /\ 0 \notin DOMAIN codes /\ 0 \in Nat  BY RowTypes DEF IInv
<1> QED  BY <1>0, <1>1, <1>3, <1>4, <1>7, <1>8, <1>9, TokenIssued

LEMMA ReplacePasswordStep ==
  ASSUME IInv, UNCHANGED serverMode, NEW c \in AccountClients, ReplacePassword(c)
  PROVE  IInv'
<1>0. PICK r : r = handler[c]  OBVIOUS
<1>1. /\ Busy(c) /\ Promise(r) /\ r.op = "password" /\ r.user \in UserNames /\ r.at \in Passwords
      /\ UNCHANGED <<clients, consents, asks, codes, aged, serviceTokens, clashes>>
  <2>1. At(c, "replace") /\ UNCHANGED <<clients, consents, asks, codes, aged, serviceTokens, clashes>>
    BY DEF ReplacePassword
  <2> QED  BY <1>0, <2>1, AtStatement, StatementOf DEF TypedHandler
<1>2. /\ users' = [users EXCEPT ![r.user].password = r.at]
      /\ epoch' = [epoch EXCEPT ![r.user] = @ + 1]
      /\ sessions' = [i \in DOMAIN sessions |->
           IF sessions[i].user # r.user THEN sessions[i]
           ELSE IF i = r.row THEN [sessions[i] EXCEPT !.since = epoch[r.user] + 1]
           ELSE [sessions[i] EXCEPT !.live = FALSE]]
      /\ tokens' = [t \in DOMAIN tokens |->
           IF tokens[t].user = r.user THEN [tokens[t] EXCEPT !.revoked = TRUE] ELSE tokens[t]]
      /\ Answered(c)
  BY <1>0 DEF ReplacePassword
<1>3. /\ epoch' \in [UserNames -> Nat] /\ epoch[r.user] \in Nat /\ epoch'[r.user] = epoch[r.user] + 1
      /\ \A u \in UserNames : u # r.user => epoch'[u] = epoch[u]
  BY <1>1, <1>2 DEF IInv, RowsTypeOK, UsersTypeOK
<1>4. /\ DOMAIN users' = DOMAIN users
      /\ users' \in [DOMAIN users' -> [admin : BOOLEAN, password : Passwords]]
      /\ \A n \in DOMAIN users : users'[n].admin = users[n].admin
  <2>1. users \in [DOMAIN users -> [admin : BOOLEAN, password : Passwords]]  BY DEF IInv, RowsTypeOK, UsersTypeOK
  <2>2. \A n \in DOMAIN users : users[n] \in [admin : BOOLEAN, password : Passwords]  BY <2>1
  <2>3. DOMAIN users' = DOMAIN users  BY <1>2
  <2>4. \A n \in DOMAIN users : users'[n] = IF n = r.user THEN [users[n] EXCEPT !.password = r.at] ELSE users[n]
    BY <1>2
  <2>5. \A n \in DOMAIN users : users'[n] \in [admin : BOOLEAN, password : Passwords] /\ users'[n].admin = users[n].admin
    BY <1>1, <2>2, <2>4
  <2>6. users' = [n \in DOMAIN users |-> users'[n]]  BY <1>2
  <2> QED  BY <2>3, <2>5, <2>6
<1>5. /\ DOMAIN sessions' = DOMAIN sessions /\ sessions' \in Seq(SessionRec)
      /\ \A i \in DOMAIN sessions :
           /\ sessions'[i].user = sessions[i].user
           /\ sessions[i].user # r.user => sessions'[i] = sessions[i]
           /\ sessions[i].user = r.user /\ sessions'[i].live => sessions'[i].since = epoch[r.user] + 1
  <2>1. \A i \in DOMAIN sessions : sessions[i] \in SessionRec  BY RowTypes DEF IInv
  <2>2. \A i \in DOMAIN sessions :
           sessions'[i] = IF sessions[i].user # r.user THEN sessions[i]
                          ELSE IF i = r.row THEN [sessions[i] EXCEPT !.since = epoch[r.user] + 1]
                          ELSE [sessions[i] EXCEPT !.live = FALSE]
    BY <1>2
  <2>3. \A i \in DOMAIN sessions :
           /\ sessions'[i] \in SessionRec /\ sessions'[i].user = sessions[i].user
           /\ sessions[i].user # r.user => sessions'[i] = sessions[i]
           /\ sessions[i].user = r.user /\ sessions'[i].live => sessions'[i].since = epoch[r.user] + 1
    <3>1. PICK m \in Nat : m = epoch[r.user] + 1  BY <1>3
    <3>2. ASSUME NEW x \in SessionRec
          PROVE  /\ [x EXCEPT !.since = m] \in SessionRec /\ [x EXCEPT !.live = FALSE] \in SessionRec
                 /\ [x EXCEPT !.since = m].user = x.user /\ [x EXCEPT !.since = m].since = m
                 /\ [x EXCEPT !.live = FALSE].user = x.user /\ ~[x EXCEPT !.live = FALSE].live
      BY DEF SessionRec
    <3>3. ASSUME NEW i \in DOMAIN sessions
          PROVE  /\ sessions'[i] \in SessionRec /\ sessions'[i].user = sessions[i].user
                 /\ sessions[i].user # r.user => sessions'[i] = sessions[i]
                 /\ sessions[i].user = r.user /\ sessions'[i].live => sessions'[i].since = m
      <4>1. PICK x \in SessionRec : x = sessions[i]  BY <2>1
      <4>2. sessions'[i] \in {x, [x EXCEPT !.since = m], [x EXCEPT !.live = FALSE]}
            /\ (sessions[i].user # r.user => sessions'[i] = x)
            /\ (sessions[i].user = r.user => sessions'[i] \in {[x EXCEPT !.since = m], [x EXCEPT !.live = FALSE]})
        BY <2>2, <3>1, <4>1
      <4>3. CASE sessions[i].user # r.user  BY <4>1, <4>2, <4>3
      <4>4. CASE sessions[i].user = r.user  BY <3>2, <4>1, <4>2, <4>4
      <4> QED  BY <4>3, <4>4
    <3> QED  BY <3>1, <3>3
  <2>4. sessions' = [i \in DOMAIN sessions |-> sessions'[i]]  BY <1>2
  <2>5. sessions \in Seq(SessionRec)  BY DEF IInv, RowsTypeOK
  <2>6. sessions' \in Seq(SessionRec) /\ DOMAIN sessions' = DOMAIN sessions
    BY ONLY <2>3, <2>4, <2>5, UpdateRows
  <2> QED  BY <2>3, <2>6
<1>6. /\ DOMAIN tokens' = DOMAIN tokens /\ tokens' \in Seq(TokenRec)
      /\ \A t \in DOMAIN tokens :
           /\ tokens'[t].family = tokens[t].family /\ tokens'[t].code = tokens[t].code
           /\ tokens'[t].user = tokens[t].user /\ tokens'[t].client = tokens[t].client
           /\ tokens[t].revoked => tokens'[t].revoked
           /\ tokens[t].user = r.user => tokens'[t].revoked
           /\ tokens[t].user # r.user => tokens'[t] = tokens[t]
  <2>1. \A t \in DOMAIN tokens : tokens[t] \in TokenRec  BY RowTypes DEF IInv
  <2>2. \A t \in DOMAIN tokens :
          tokens'[t] = IF tokens[t].user = r.user THEN [tokens[t] EXCEPT !.revoked = TRUE] ELSE tokens[t]
    BY <1>2
  <2>3. \A t \in DOMAIN tokens :
           /\ tokens'[t] \in TokenRec
           /\ tokens'[t].family = tokens[t].family /\ tokens'[t].code = tokens[t].code
           /\ tokens'[t].user = tokens[t].user /\ tokens'[t].client = tokens[t].client
           /\ tokens[t].revoked => tokens'[t].revoked
           /\ tokens[t].user = r.user => tokens'[t].revoked
           /\ tokens[t].user # r.user => tokens'[t] = tokens[t]
    BY <2>1, <2>2 DEF TokenRec
  <2>4. tokens' = [t \in DOMAIN tokens |-> tokens'[t]]  BY <1>2
  <2>5. tokens \in Seq(TokenRec)  BY DEF IInv, RowsTypeOK
  <2>6. tokens' \in Seq(TokenRec) /\ DOMAIN tokens' = DOMAIN tokens
    <3>1. \A t \in DOMAIN tokens : tokens'[t] \in TokenRec  BY <2>3
    <3> QED  BY ONLY <2>4, <2>5, <3>1, UpdateRows
  <2> QED  BY <2>3, <2>6
<1>7. RowsTypeOK'
  BY <1>1, <1>3, <1>4, <1>5, <1>6 DEF IInv, RowsTypeOK, UsersTypeOK
<1>8. RowsOK'
  <2>1. EarnedRows'
    <3>1. ASSUME NEW i \in DOMAIN sessions', sessions'[i].live
          PROVE  <<"password", sessions'[i].user>> \in clashes \/ sessions'[i].since = epoch'[sessions'[i].user]
      <4>1. CASE sessions[i].user = r.user  BY <1>3, <1>5, <3>1, <4>1
      <4>2. CASE sessions[i].user # r.user
        <5>1. i \in DOMAIN sessions /\ sessions[i].live /\ sessions'[i] = sessions[i]  BY <1>5, <3>1, <4>2
        <5>2. sessions[i].user \in UserNames  BY <5>1, RowTypes DEF IInv, SessionRec
        <5>3. <<"password", sessions[i].user>> \in clashes \/ sessions[i].since = epoch[sessions[i].user]
          BY <5>1 DEF IInv, RowsOK, EarnedRows, Earned
        <5> QED  BY <1>3, <4>2, <5>1, <5>2, <5>3
      <4> QED  BY <4>1, <4>2
    <3>2. ASSUME NEW t \in DOMAIN tokens', tokens'[t].user \in UserNames, ~tokens'[t].revoked
          PROVE  <<"password", tokens'[t].user>> \in clashes \/ tokens'[t].since = epoch'[tokens'[t].user]
      <4>1. t \in DOMAIN tokens /\ tokens[t].user # r.user /\ tokens'[t] = tokens[t]  BY <1>6, <3>2
      <4>2. <<"password", tokens[t].user>> \in clashes \/ tokens[t].since = epoch[tokens[t].user]
        BY <3>2, <4>1 DEF IInv, RowsOK, EarnedRows, Earned
      <4> QED  BY <1>3, <3>2, <4>1, <4>2
    <3> QED  BY <1>1, <3>1, <3>2 DEF EarnedRows, Earned
  <2>2. GrantsWereApproved'  BY <1>1, <1>6, ApprovedStays DEF IInv, RowsOK
  <2>3. FoundingRow'
    <3>1. {u \in DOMAIN users' : users'[u].admin} = Admins  BY <1>4 DEF Admins
    <3> QED  BY <1>1, <1>4, <3>1 DEF IInv, RowsOK, FoundingRow, Admins
  <2>4. LocalRow'  BY <1>1, LocalStays DEF IInv, RowsOK, SeededTokens, LocalTokens
  <2>5. AskRows'  BY <1>1, AsksStay DEF IInv, RowsOK
  <2>6. CodeRows'  BY <1>1, <1>6, CodesStay DEF IInv, RowsOK
  <2>7. FamilyRows' /\ Families' = Families  BY <1>1, <1>6, FamiliesStay DEF IInv, RowsOK
  <2>8. TicketRows'  BY <1>1, <1>6, <2>7 DEF IInv, RowsOK, TicketRows
  <2> QED  BY <2>1, <2>2, <2>3, <2>4, <2>5, <2>6, <2>7, <2>8 DEF RowsOK
<1>9. /\ handler'[c] = NoHandler
      /\ \A d \in AccountClients \ {c} : handler'[d] = handler[d]
      /\ handler' \in [AccountClients -> Handlers \cup {NoHandler}]
  BY <1>2 DEF Answered, IInv, HandlersOK
<1>10. SeededTokens' = SeededTokens  BY <1>1 DEF SeededTokens, LocalTokens
<1>11. ASSUME NEW d \in AccountClients \ {c}, NEW x, x = handler[d], Promise(x), Clash(r, x) \subseteq clashes
       PROVE  Promise(handler[d])'
  <2>1. /\ TypedHandler(x) /\ RowFound(x) /\ EarnedBy(x) /\ ApprovedFor(x) /\ FoundingSeen(x)
        /\ NoLocalYet(x) /\ NoCodeYet(x) /\ NoTokenYet(x) /\ FamilyHeld(x)
    BY <1>11 DEF Promise
  <2>2. handler'[d] = x  BY <1>9, <1>11
  <2>3. TypedHandler(handler[d])'  BY <2>1, <2>2, TypedKept
  <2>4. RowFound(handler[d])'      BY <1>1, <1>6, <2>1, <2>2, FoundKept
  <2>5. ApprovedFor(handler[d])'   BY <1>1, <2>1, <2>2, ApprovedKept
  <2>6. FoundingSeen(handler[d])'  BY <1>1, <1>4, <2>1, <2>2, FoundingKept
  <2>7. NoLocalYet(handler[d])'    BY <1>1, <1>10, <2>1, <2>2, LocalKept
  <2>8. NoCodeYet(handler[d])'     BY <1>1, <2>1, <2>2, CodeKept
  <2>9. NoTokenYet(handler[d])'    BY <1>1, <1>6, <2>1, <2>2, TokenKept
  <2>10. FamilyHeld(handler[d])'   BY <1>1, <1>6, <2>1, <2>2, FamilyKept
  <2>11. EarnedBy(handler[d])'
    <3>1. x.user = r.user => <<"password", x.user>> \in clashes  BY <1>1, <1>11 DEF Clash
    <3> QED  BY <1>1, <1>3, <2>1, <2>2, <3>1 DEF EarnedBy, Earned
  <2> QED  BY <2>3, <2>4, <2>5, <2>6, <2>7, <2>8, <2>9, <2>10, <2>11 DEF Promise
<1>12. HandlersOK' /\ Overlaps'
  <2>1. ~Busy(c)'  BY <1>9 DEF Busy
  <2>2. \A d \in AccountClients \ {c} :
          Promise(handler[d]) /\ Clash(handler[c], handler[d]) \subseteq clashes => Promise(handler[d])'
    BY <1>0, <1>11
  <2> QED  BY <1>1, <1>9, <2>1, <2>2, OneStep DEF IInv
<1> QED  BY <1>7, <1>8, <1>12 DEF IInv

-----------------------------------------------------------------------------
(***************************************************************************)
(* Requests that are answered at once, service tokens, and time.           *)
(***************************************************************************)

LEMMA NobodyMoves ==
  ASSUME HandlersOK, Overlaps, UNCHANGED <<handler, clashes>>, NothingUndone
  PROVE  HandlersOK' /\ Overlaps'
<1>1. \A d \in AccountClients : handler'[d] = handler[d]  OBVIOUS
<1>2. ASSUME NEW d \in AccountClients, Busy(d)' PROVE Promise(handler[d])'
  <2>1. Promise(handler[d])  BY <1>2 DEF HandlersOK, Busy
  <2> QED  BY <1>1, <2>1, PromiseKept
<1>3. HandlersOK'  BY <1>2 DEF HandlersOK
<1>4. Overlaps'  BY DEF Overlaps, Busy, Clash
<1> QED  BY <1>3, <1>4

\* Only the sessions, or only the service tokens and the like, change.
LEMMA SessionsOnly ==
  ASSUME IInv, UNCHANGED <<serverMode, users, consents, asks, codes, tokens, serviceTokens, handler, epoch, clashes>>,
         clients' \in Nat, sessions' \in Seq(SessionRec), EarnedRows'
  PROVE  IInv'
<1>1. RowsTypeOK'  BY DEF IInv, RowsTypeOK, UsersTypeOK
<1>2. GrantsWereApproved'  BY ApprovedStays DEF IInv, RowsOK
<1>3. FoundingRow'  BY FoundingStays DEF IInv, RowsOK
<1>4. LocalRow'  BY LocalStays DEF IInv, RowsOK, SeededTokens, LocalTokens
<1>5. AskRows'  BY AsksStay DEF IInv, RowsOK
<1>6. CodeRows'  BY CodesStay DEF IInv, RowsOK
<1>7. FamilyRows'  BY FamiliesStay DEF IInv, RowsOK
<1>8. TicketRows'  BY DEF IInv, RowsOK, TicketRows, Families
<1>9. RowsOK'  BY <1>2, <1>3, <1>4, <1>5, <1>6, <1>7, <1>8 DEF RowsOK
<1>10. NothingUndone  BY DEF NothingUndone, SeededTokens, LocalTokens
<1>11. HandlersOK' /\ Overlaps'  BY <1>10, NobodyMoves DEF IInv
<1> QED  BY <1>1, <1>9, <1>11 DEF IInv

LEMMA SessionEnds ==
  ASSUME IInv, NEW i \in DOMAIN sessions, sessions' = [sessions EXCEPT ![i].live = FALSE],
         UNCHANGED <<serverMode, users, clients, consents, asks, codes, tokens, serviceTokens, handler, epoch, clashes>>
  PROVE  IInv'
<1>1. PICK e : e = [sessions[i] EXCEPT !.live = FALSE]  OBVIOUS
<1>2. sessions' = [sessions EXCEPT ![i] = e]  BY <1>1
<1>3. e \in SessionRec /\ ~e.live  BY <1>1, RowTypes DEF IInv, SessionRec
<1>4. sessions \in Seq(SessionRec)  BY DEF IInv, RowsTypeOK
<1>5. /\ sessions' \in Seq(SessionRec) /\ DOMAIN sessions' = DOMAIN sessions
      /\ \A j \in DOMAIN sessions : sessions'[j] = IF j = i THEN e ELSE sessions[j]
  BY ONLY <1>2, <1>3, <1>4, UpdateRow
<1>6. \A j \in DOMAIN sessions' : sessions'[j].live => j \in DOMAIN sessions /\ sessions'[j] = sessions[j]
  BY <1>3, <1>5
<1>7. EarnedRows'  BY <1>6 DEF IInv, RowsOK, EarnedRows, Earned
<1>8. clients' \in Nat  BY DEF IInv, RowsTypeOK
<1> QED  BY <1>5, <1>7, <1>8, SessionsOnly

LEMMA LogoutStep ==
  ASSUME IInv, UNCHANGED serverMode, NEW c \in AccountClients, NEW i \in DOMAIN sessions, Logout(c, i)
  PROVE  IInv'
BY SessionEnds DEF Logout, Quiet

LEMMA RegisterClientStep ==
  ASSUME IInv, UNCHANGED serverMode, NEW c \in AccountClients, NEW cred, RegisterClient(c, cred)
  PROVE  IInv'
<1>1. UNCHANGED <<users, sessions, consents, asks, codes, tokens, aged, serviceTokens, handler, epoch, clashes>>
  BY DEF RegisterClient, Quiet
<1>2. clients' \in Nat /\ sessions' \in Seq(SessionRec)  BY <1>1 DEF RegisterClient, IInv, RowsTypeOK
<1>3. EarnedRows'  BY <1>1, EarnedStays DEF IInv, RowsOK
<1> QED  BY <1>1, <1>2, <1>3, SessionsOnly

\* Only the service tokens change.
LEMMA ServiceTokensOnly ==
  ASSUME IInv, UNCHANGED <<serverMode, users, sessions, clients, consents, asks, codes, tokens, epoch, clashes>>,
         serviceTokens' \in Seq(ServiceRec), LocalRow'
  PROVE  RowsTypeOK' /\ RowsOK'
<1>1. RowsTypeOK'  BY DEF IInv, RowsTypeOK, UsersTypeOK
<1>2. EarnedRows'  BY EarnedStays DEF IInv, RowsOK
<1>3. GrantsWereApproved'  BY ApprovedStays DEF IInv, RowsOK
<1>4. FoundingRow'  BY FoundingStays DEF IInv, RowsOK
<1>5. AskRows'  BY AsksStay DEF IInv, RowsOK
<1>6. CodeRows'  BY CodesStay DEF IInv, RowsOK
<1>7. FamilyRows'  BY FamiliesStay DEF IInv, RowsOK
<1>8. TicketRows'  BY DEF IInv, RowsOK, TicketRows, Families
<1> QED  BY <1>1, <1>2, <1>3, <1>4, <1>5, <1>6, <1>7, <1>8 DEF RowsOK

LEMMA CreateServiceTokenStep ==
  ASSUME IInv, UNCHANGED serverMode, NEW c \in AccountClients, NEW cred, NEW holder \in UserNames,
         NEW label \in Labels, NEW scope \in TokenScopes, NEW admin \in BOOLEAN,
         CreateServiceToken(c, cred, holder, label, scope, admin)
  PROVE  IInv'
<1>1. PICK e : e = [owner |-> holder, admin |-> admin, scope |-> scope, label |-> label, state |-> "live", seeded |-> FALSE]
  OBVIOUS
<1>2. /\ UNCHANGED <<users, sessions, clients, consents, asks, codes, tokens, aged, handler, epoch, clashes>>
      /\ serviceTokens' = Append(serviceTokens, e)
  BY <1>1 DEF CreateServiceToken, InsertServiceToken, Quiet
<1>3. e \in ServiceRec /\ ~e.seeded  BY <1>1 DEF ServiceRec, UserIds
<1>4. serviceTokens \in Seq(ServiceRec)  BY DEF IInv, RowsTypeOK
<1>5. /\ serviceTokens' \in Seq(ServiceRec)
      /\ DOMAIN serviceTokens' = DOMAIN serviceTokens \cup {Len(serviceTokens) + 1}
      /\ \A i \in DOMAIN serviceTokens : serviceTokens'[i] = serviceTokens[i]
      /\ serviceTokens'[Len(serviceTokens) + 1] = e
  BY <1>2, <1>3, <1>4, InsertRow
<1>6. SeededTokens' \subseteq SeededTokens  BY <1>3, <1>5 DEF SeededTokens, LocalTokens
<1>7. LocalRow'  BY <1>2, <1>6, LocalStays DEF IInv, RowsOK
<1>8. RowsTypeOK' /\ RowsOK'  BY <1>2, <1>5, <1>7, ServiceTokensOnly
<1>9. NothingUndone  BY <1>2, <1>6 DEF NothingUndone
<1>10. HandlersOK' /\ Overlaps'  BY <1>2, <1>9, NobodyMoves DEF IInv
<1> QED  BY <1>8, <1>10 DEF IInv

\* A row that expires or goes away is no more seeded than it was.
LEMMA ServiceTokenEnds ==
  ASSUME IInv, NEW t \in DOMAIN serviceTokens, NEW state \in {"expired", "gone"},
         state = "gone" \/ ~serviceTokens[t].seeded,
         UNCHANGED <<serverMode, users, sessions, clients, consents, asks, codes, tokens, aged, handler, epoch, clashes>>,
         serviceTokens' = [serviceTokens EXCEPT ![t].state = state]
  PROVE  IInv'
<1>1. PICK e : e = [serviceTokens[t] EXCEPT !.state = state]  OBVIOUS
<1>2. serviceTokens' = [serviceTokens EXCEPT ![t] = e]  BY <1>1
<1>3. e \in ServiceRec /\ (e.state = "gone" \/ ~e.seeded)  BY <1>1, RowTypes DEF IInv, ServiceRec
<1>4. serviceTokens \in Seq(ServiceRec)  BY DEF IInv, RowsTypeOK
<1>5. /\ serviceTokens' \in Seq(ServiceRec) /\ DOMAIN serviceTokens' = DOMAIN serviceTokens
      /\ \A i \in DOMAIN serviceTokens : serviceTokens'[i] = IF i = t THEN e ELSE serviceTokens[i]
  BY ONLY <1>2, <1>3, <1>4, UpdateRow
<1>6. SeededTokens' \subseteq SeededTokens  BY <1>3, <1>5 DEF SeededTokens, LocalTokens
<1>7. LocalRow'  BY <1>6, LocalStays DEF IInv, RowsOK
<1>8. RowsTypeOK' /\ RowsOK'  BY <1>5, <1>7, ServiceTokensOnly
<1>9. NothingUndone  BY <1>6 DEF NothingUndone
<1>10. HandlersOK' /\ Overlaps'  BY <1>9, NobodyMoves DEF IInv
<1> QED  BY <1>8, <1>10 DEF IInv

LEMMA RevokeServiceTokenStep ==
  ASSUME IInv, UNCHANGED serverMode, NEW c \in AccountClients, NEW cred, NEW t \in DOMAIN serviceTokens,
         RevokeServiceToken(c, cred, t)
  PROVE  IInv'
<1>1. /\ UNCHANGED <<users, sessions, clients, consents, asks, codes, tokens, aged, handler, epoch, clashes>>
      /\ serviceTokens' = [serviceTokens EXCEPT ![t].state = "gone"]
  BY DEF RevokeServiceToken, Quiet
<1> QED  BY <1>1, ServiceTokenEnds

LEMMA SeedLocalTokenStep ==
  ASSUME IInv, UNCHANGED serverMode, NEW c \in AccountClients, SeedLocalToken(c)
  PROVE  IInv'
<1>0. PICK r : r = handler[c]  OBVIOUS
<1>1. /\ Busy(c) /\ Promise(r) /\ TypedHandler(r) /\ r.op = "local" /\ r.pc = "seed"
  BY <1>0, AtStatement, StatementOf DEF SeedLocalToken, TypedHandler
<1>2. PICK e : e = [owner |-> LocalAdmin.id, admin |-> TRUE, scope |-> "full", label |-> LocalLabel,
                     state |-> "live", seeded |-> TRUE]
  OBVIOUS
<1>3. PICK n : n = Len(serviceTokens) + 1  OBVIOUS
<1>4. /\ UNCHANGED <<users, sessions, clients, consents, asks, codes, tokens, aged, epoch, clashes>>
      /\ serviceTokens' = Append(serviceTokens, e) /\ Answered(c)
  BY <1>2 DEF SeedLocalToken, InsertServiceToken, Quiet
<1>5. e \in ServiceRec  BY <1>2 DEF ServiceRec, UserIds, Labels
<1>6. serviceTokens \in Seq(ServiceRec)  BY DEF IInv, RowsTypeOK
<1>7. /\ serviceTokens' \in Seq(ServiceRec)
      /\ DOMAIN serviceTokens' = DOMAIN serviceTokens \cup {n}
      /\ \A i \in DOMAIN serviceTokens : serviceTokens'[i] = serviceTokens[i]
      /\ serviceTokens'[n] = e
  BY <1>3, <1>4, <1>5, <1>6, InsertRow
<1>8. SeededTokens' \subseteq SeededTokens \cup {n}  BY <1>7 DEF SeededTokens, LocalTokens
<1>9. <<"local", 0>> \in clashes \/ SeededTokens = {}  BY <1>1 DEF Promise, NoLocalYet
<1>10. LocalRow'  BY <1>4, <1>8, <1>9 DEF LocalRow
<1>11. RowsTypeOK' /\ RowsOK'  BY <1>4, <1>7, <1>10, ServiceTokensOnly
<1>12. /\ handler'[c] = NoHandler
       /\ \A d \in AccountClients \ {c} : handler'[d] = handler[d]
       /\ handler' \in [AccountClients -> Handlers \cup {NoHandler}]
  BY <1>4 DEF Answered, IInv, HandlersOK
<1>13. ASSUME NEW d \in AccountClients \ {c}, NEW x, x = handler[d], Promise(x), Clash(r, x) \subseteq clashes
       PROVE  Promise(handler[d])'
  <2>1. /\ TypedHandler(x) /\ RowFound(x) /\ EarnedBy(x) /\ ApprovedFor(x) /\ FoundingSeen(x)
        /\ NoCodeYet(x) /\ NoTokenYet(x) /\ FamilyHeld(x)
    BY <1>13 DEF Promise
  <2>2. handler'[d] = x  BY <1>12, <1>13
  <2>3. TypedHandler(handler[d])'  BY <2>1, <2>2, TypedKept
  <2>4. RowFound(handler[d])'      BY <1>4, <2>1, <2>2, FoundKept
  <2>5. EarnedBy(handler[d])'      BY <1>4, <2>1, <2>2, EarnedKept
  <2>6. ApprovedFor(handler[d])'   BY <1>4, <2>1, <2>2, ApprovedKept
  <2>7. FoundingSeen(handler[d])'  BY <1>4, <2>1, <2>2, FoundingKept
  <2>8. NoCodeYet(handler[d])'     BY <1>4, <2>1, <2>2, CodeKept
  <2>9. NoTokenYet(handler[d])'    BY <1>4, <2>1, <2>2, TokenKept
  <2>10. FamilyHeld(handler[d])'   BY <1>4, <2>1, <2>2, FamilyKept
  <2>11. NoLocalYet(handler[d])'
    <3>1. CASE x.pc = "seed"
      <4>1. x.op = "local"  BY <2>1, <3>1, StatementOf DEF TypedHandler, Handlers
      <4>2. <<"local", 0>> \in clashes  BY <1>1, <1>13, <2>1, <4>1 DEF TypedHandler, Clash
      <4> QED  BY <1>4, <4>2 DEF NoLocalYet
    <3>2. CASE x.pc # "seed"  BY <2>2, <3>2 DEF NoLocalYet
    <3> QED  BY <3>1, <3>2
  <2> QED  BY <2>3, <2>4, <2>5, <2>6, <2>7, <2>8, <2>9, <2>10, <2>11 DEF Promise
<1>14. HandlersOK' /\ Overlaps'
  <2>1. ~Busy(c)'  BY <1>12 DEF Busy
  <2>2. \A d \in AccountClients \ {c} :
          Promise(handler[d]) /\ Clash(handler[c], handler[d]) \subseteq clashes => Promise(handler[d])'
    BY <1>0, <1>13
  <2> QED  BY <1>1, <1>4, <1>12, <2>1, <2>2, OneStep DEF IInv
<1> QED  BY <1>11, <1>14 DEF IInv

\* A row whose time is up stays the row it is.
LEMMA NothingOwed ==
  ASSUME IInv, UNCHANGED <<serverMode, users, clients, consents, serviceTokens, handler, epoch, clashes>>,
         sessions' \in Seq(SessionRec), asks' \in Seq(AskRec), codes' \in Seq(CodeRec), tokens' \in Seq(TokenRec),
         EarnedRows', DOMAIN asks' = DOMAIN asks, DOMAIN codes' = DOMAIN codes, DOMAIN tokens' = DOMAIN tokens,
         Len(asks') = Len(asks), Len(codes') = Len(codes),
         \A q \in DOMAIN asks : asks[q].state = "gone" => asks'[q].state = "gone",
         \A k \in DOMAIN codes : /\ codes'[k].ask = codes[k].ask /\ codes'[k].used = codes[k].used
                                 /\ codes'[k].user = codes[k].user /\ codes'[k].client = codes[k].client,
         \A t \in DOMAIN tokens : /\ tokens'[t].family = tokens[t].family /\ tokens'[t].code = tokens[t].code
                                  /\ tokens'[t].user = tokens[t].user /\ tokens'[t].client = tokens[t].client
                                  /\ tokens'[t].revoked = tokens[t].revoked
  PROVE  IInv'
<1>1. RowsTypeOK'  BY DEF IInv, RowsTypeOK, UsersTypeOK
<1>2. GrantsWereApproved'  BY ApprovedStays DEF IInv, RowsOK
<1>3. FoundingRow'  BY FoundingStays DEF IInv, RowsOK
<1>4. LocalRow'  BY LocalStays DEF IInv, RowsOK, SeededTokens, LocalTokens
<1>5. AskRows'  BY AsksStay DEF IInv, RowsOK
<1>6. CodeRows'  BY CodesStay DEF IInv, RowsOK
<1>7. FamilyRows' /\ Families' = Families  BY FamiliesStay DEF IInv, RowsOK
<1>8. TicketRows'  BY <1>7 DEF IInv, RowsOK, TicketRows
<1>9. RowsOK'  BY <1>2, <1>3, <1>4, <1>5, <1>6, <1>7, <1>8 DEF RowsOK
<1>10. NothingUndone  BY DEF NothingUndone, SeededTokens, LocalTokens
<1>11. HandlersOK' /\ Overlaps'  BY <1>10, NobodyMoves DEF IInv
<1> QED  BY <1>1, <1>9, <1>11 DEF IInv

LEMMA SecretExpiresStep ==
  ASSUME IInv, UNCHANGED serverMode, SecretExpires
  PROVE  IInv'
<1>1. UNCHANGED <<users, clients, consents, handler, epoch, clashes>>
  BY DEF SecretExpires, Quiet
<1>2. /\ sessions \in Seq(SessionRec) /\ asks \in Seq(AskRec) /\ codes \in Seq(CodeRec) /\ tokens \in Seq(TokenRec)
      /\ EarnedRows
  BY DEF IInv, RowsTypeOK, RowsOK
<1>3. ASSUME NEW i \in DOMAIN sessions, sessions' = [sessions EXCEPT ![i].live = FALSE],
             UNCHANGED <<asks, codes, tokens, aged, serviceTokens>>
      PROVE  IInv'
  BY <1>1, <1>3, SessionEnds
<1>4. ASSUME NEW q \in DOMAIN asks, asks[q].state = "live", asks' = [asks EXCEPT ![q].state = "expired"],
             UNCHANGED <<sessions, codes, tokens, aged, serviceTokens>>
      PROVE  IInv'
  <2>1. PICK e : e = [asks[q] EXCEPT !.state = "expired"]  OBVIOUS
  <2>2. asks' = [asks EXCEPT ![q] = e]  BY <1>4, <2>1
  <2>3. e \in AskRec  BY <2>1, RowTypes DEF IInv, AskRec
  <2>4. /\ asks' \in Seq(AskRec) /\ DOMAIN asks' = DOMAIN asks /\ Len(asks') = Len(asks)
        /\ \A x \in DOMAIN asks : asks'[x] = IF x = q THEN e ELSE asks[x]
    BY ONLY <1>2, <2>2, <2>3, UpdateRow
  <2>5. \A x \in DOMAIN asks : asks[x].state = "gone" => asks'[x].state = "gone"  BY <1>4, <2>4
  <2>6. EarnedRows'  BY <1>1, <1>2, <1>4, EarnedStays
  <2> QED  BY <1>1, <1>2, <1>4, <2>4, <2>5, <2>6, NothingOwed
<1>5. ASSUME NEW k \in DOMAIN codes, codes' = [codes EXCEPT ![k].live = FALSE],
             UNCHANGED <<sessions, asks, tokens, aged, serviceTokens>>
      PROVE  IInv'
  <2>1. PICK e : e = [codes[k] EXCEPT !.live = FALSE]  OBVIOUS
  <2>2. codes' = [codes EXCEPT ![k] = e]  BY <1>5, <2>1
  <2>3. /\ e \in CodeRec /\ e.ask = codes[k].ask /\ e.used = codes[k].used
        /\ e.user = codes[k].user /\ e.client = codes[k].client
    BY <2>1, RowTypes DEF IInv, CodeRec
  <2>4. /\ codes' \in Seq(CodeRec) /\ DOMAIN codes' = DOMAIN codes /\ Len(codes') = Len(codes)
        /\ \A x \in DOMAIN codes : codes'[x] = IF x = k THEN e ELSE codes[x]
    BY ONLY <1>2, <2>2, <2>3, UpdateRow
  <2>5. \A x \in DOMAIN codes : /\ codes'[x].ask = codes[x].ask /\ codes'[x].used = codes[x].used
                                /\ codes'[x].user = codes[x].user /\ codes'[x].client = codes[x].client
    BY <2>3, <2>4
  <2>6. EarnedRows'  BY <1>1, <1>2, <1>5, EarnedStays
  <2> QED  BY <1>1, <1>2, <1>5, <2>4, <2>5, <2>6, NothingOwed
<1>6. ASSUME NEW t \in DOMAIN tokens, tokens' = [tokens EXCEPT ![t].live = FALSE],
             UNCHANGED <<sessions, asks, codes, aged, serviceTokens>>
      PROVE  IInv'
  <2>1. PICK e : e = [tokens[t] EXCEPT !.live = FALSE]  OBVIOUS
  <2>2. tokens' = [tokens EXCEPT ![t] = e]  BY <1>6, <2>1
  <2>3. /\ e \in TokenRec /\ e.family = tokens[t].family /\ e.code = tokens[t].code
        /\ e.user = tokens[t].user /\ e.client = tokens[t].client /\ e.since = tokens[t].since
        /\ e.revoked = tokens[t].revoked
    BY <2>1, RowTypes DEF IInv, TokenRec
  <2>4. /\ tokens' \in Seq(TokenRec) /\ DOMAIN tokens' = DOMAIN tokens
        /\ \A x \in DOMAIN tokens : tokens'[x] = IF x = t THEN e ELSE tokens[x]
    BY ONLY <1>2, <2>2, <2>3, UpdateRow
  <2>5. \A x \in DOMAIN tokens : /\ tokens'[x].family = tokens[x].family /\ tokens'[x].code = tokens[x].code
                                 /\ tokens'[x].user = tokens[x].user /\ tokens'[x].client = tokens[x].client
                                 /\ tokens'[x].since = tokens[x].since /\ tokens'[x].revoked = tokens[x].revoked
    BY <2>3, <2>4
  <2>6. EarnedRows'  BY <1>1, <1>2, <1>6, <2>4, <2>5, EarnedStays
  <2> QED  BY <1>1, <1>2, <1>6, <2>4, <2>5, <2>6, NothingOwed
<1>7. ASSUME UNCHANGED <<sessions, asks, codes, tokens, serviceTokens>>
      PROVE  IInv'
  <2>1. EarnedRows'  BY <1>1, <1>2, <1>7, EarnedStays
  <2> QED  BY <1>1, <1>2, <1>7, <2>1, NothingOwed
<1>8. ASSUME NEW t \in DOMAIN serviceTokens, ~serviceTokens[t].seeded,
             serviceTokens' = [serviceTokens EXCEPT ![t].state = "expired"],
             UNCHANGED <<sessions, asks, codes, tokens, aged>>
      PROVE  IInv'
  BY <1>1, <1>8, ServiceTokenEnds
<1> QED  BY <1>3, <1>4, <1>5, <1>6, <1>7, <1>8 DEF SecretExpires

-----------------------------------------------------------------------------
(***************************************************************************)
(* The invariant.                                                          *)
(***************************************************************************)

LEMMA EmptyTable ==
  ASSUME NEW S
  PROVE  <<>> \in Seq(S) /\ DOMAIN <<>> = {} /\ Len(<<>>) = 0
OBVIOUS

LEMMA InitInductive ==
  ASSUME AccountsInit
  PROVE  IInv
<1>1. /\ serverMode \in BOOLEAN /\ serviceTokens = <<>> /\ clashes = {}
      /\ handler = [c \in AccountClients |-> NoHandler]
      /\ epoch = [n \in UserNames |-> 0]
  BY DEF AccountsInit
<1>2. HandlersOK /\ Overlaps  BY <1>1 DEF HandlersOK, Overlaps, Busy
<1>3. \A n \in UserNames : epoch[n] = 0  BY <1>1
<1>4. epoch \in [UserNames -> Nat]  BY <1>1
<1>5. serviceTokens \in Seq(ServiceRec) /\ SeededTokens = {}  BY <1>1, EmptyTable DEF SeededTokens, LocalTokens
<1>6. CASE users = <<>> /\ sessions = <<>> /\ clients = 0 /\ consents = {} /\ asks = <<>> /\ codes = <<>> /\ tokens = <<>>
  <2>1. DOMAIN users = {} /\ DOMAIN sessions = {} /\ DOMAIN asks = {} /\ DOMAIN codes = {} /\ DOMAIN tokens = {}
    BY <1>6
  <2>2. RowsTypeOK
    <3>1. users = [n \in DOMAIN users |-> users[n]]  BY <1>6
    <3>2. UsersTypeOK  BY <1>4, <2>1, <3>1 DEF UsersTypeOK
    <3> QED  BY <1>1, <1>5, <1>6, <3>2, EmptyTable DEF RowsTypeOK
  <2>3. EarnedRows /\ GrantsWereApproved  BY <2>1 DEF EarnedRows, GrantsWereApproved
  <2>4. FoundingRow  BY <2>1 DEF FoundingRow, Admins
  <2>5. LocalRow  BY <1>5 DEF LocalRow
  <2>6. AskRows /\ CodeRows  BY <2>1 DEF AskRows, CodeRows
  <2>7. Families = {}  BY <2>1 DEF Families
  <2>8. FamilyRows  BY <2>7 DEF FamilyRows
  <2>9. TicketRows
    <3>1. Families = 1 .. 0  BY <2>7
    <3> QED  BY <2>1, <3>1 DEF TicketRows
  <2> QED  BY <1>2, <2>2, <2>3, <2>4, <2>5, <2>6, <2>8, <2>9 DEF IInv, RowsOK
<1>7. CASE \E a, u \in UserNames, p \in Passwords, granted \in {"ask", "code", "family"} :
          /\ serverMode /\ a # u
          /\ users = [n \in {a, u} |-> User(n = a, p)]
          /\ sessions = <<Session(a, 0), Session(u, 0)>> /\ clients = 1
          /\ consents = IF granted = "ask" THEN {} ELSE {<<u, 1>>}
          /\ asks = IF granted = "ask" THEN <<[user |-> u, client |-> 1, state |-> "live"]>> ELSE <<>>
          /\ codes = IF granted = "code" THEN <<Code(u, 1, 0, 0)>> ELSE <<>>
          /\ tokens = IF granted = "family" THEN <<Token(u, 1, 1, 0, 0, 0)>> ELSE <<>>
  <2>1. PICK a \in UserNames, u \in UserNames, p \in Passwords, granted \in {"ask", "code", "family"} :
          /\ serverMode /\ a # u
          /\ users = [n \in {a, u} |-> User(n = a, p)]
          /\ sessions = <<Session(a, 0), Session(u, 0)>> /\ clients = 1
          /\ consents = IF granted = "ask" THEN {} ELSE {<<u, 1>>}
          /\ asks = IF granted = "ask" THEN <<[user |-> u, client |-> 1, state |-> "live"]>> ELSE <<>>
          /\ codes = IF granted = "code" THEN <<Code(u, 1, 0, 0)>> ELSE <<>>
          /\ tokens = IF granted = "family" THEN <<Token(u, 1, 1, 0, 0, 0)>> ELSE <<>>
    BY <1>7
  <2>2. PICK ask : ask = [user |-> u, client |-> 1, state |-> "live"]  OBVIOUS
  <2>3. PICK code : code = Code(u, 1, 0, 0)  OBVIOUS
  <2>4. PICK token : token = Token(u, 1, 1, 0, 0, 0)  OBVIOUS
  <2>5. PICK sa, su : sa = Session(a, 0) /\ su = Session(u, 0)  OBVIOUS
  <2>6. /\ sa \in SessionRec /\ su \in SessionRec /\ sa.user = a /\ su.user = u /\ sa.since = 0 /\ su.since = 0
        /\ ask \in AskRec
        /\ code \in CodeRec /\ code.user = u /\ code.client = 1 /\ code.ask = 0 /\ ~code.used
        /\ token \in TokenRec /\ token.user = u /\ token.client = 1 /\ token.family = 1 /\ token.code = 0
        /\ token.since = 0 /\ ~token.revoked
    BY <2>2, <2>3, <2>4, <2>5 DEF SessionRec, AskRec, CodeRec, TokenRec, UserIds, Session, Code, Token
  <2>7. /\ sessions \in Seq(SessionRec) /\ DOMAIN sessions = {1, 2} /\ sessions[1] = sa /\ sessions[2] = su
    BY <2>1, <2>5, <2>6
  <2>8. /\ asks \in Seq(AskRec) /\ Len(asks) \in Nat
        /\ codes \in Seq(CodeRec) /\ Len(codes) \in Nat
        /\ tokens \in Seq(TokenRec)
    BY <2>1, <2>2, <2>3, <2>4, <2>6
  <2>9. /\ DOMAIN codes = IF granted = "code" THEN {1} ELSE {}
        /\ \A k \in DOMAIN codes : codes[k] = code
        /\ DOMAIN tokens = IF granted = "family" THEN {1} ELSE {}
        /\ \A t \in DOMAIN tokens : tokens[t] = token
    BY <2>1, <2>3, <2>4
  <2>10. \A n \in {a, u} : users[n] \in [admin : BOOLEAN, password : Passwords] /\ (users[n].admin <=> n = a)
    BY <2>1 DEF User
  <2>11. RowsTypeOK
    <3>1. DOMAIN users = {a, u}  BY <2>1
    <3>2. users \in [DOMAIN users -> [admin : BOOLEAN, password : Passwords]]  BY <2>1, <2>10, <3>1
    <3>3. UsersTypeOK  BY <1>4, <3>1, <3>2 DEF UsersTypeOK
    <3> QED  BY <1>1, <1>5, <2>1, <2>7, <2>8, <3>3 DEF RowsTypeOK
  <2>12. EarnedRows  BY <1>3, <2>6, <2>7, <2>9 DEF EarnedRows, Earned
  <2>13. GrantsWereApproved  BY <2>1, <2>6, <2>9 DEF GrantsWereApproved
  <2>14. FoundingRow
    <3>1. DOMAIN users = {a, u}  BY <2>1
    <3>2. Admins = {a}  BY <2>10, <3>1 DEF Admins
    <3> QED  BY <3>1, <3>2 DEF FoundingRow
  <2>15. LocalRow  BY <1>5 DEF LocalRow
  <2>16. AskRows
    <3>1. DOMAIN asks = IF granted = "ask" THEN {1} ELSE {}  BY <2>1
    <3>2. \A q \in DOMAIN asks : CodesOf(q) = {}  BY <2>9, <3>1 DEF CodesOf
    <3> QED  BY <3>2 DEF AskRows
  <2>17. CodeRows
    <3>1. \A k \in DOMAIN codes : TokensOf(k) = {}  BY <2>9 DEF TokensOf
    <3> QED  BY <3>1 DEF CodeRows
  <2>18. FamilyRows  BY <2>9 DEF FamilyRows, Live
  <2>19. TicketRows
    <3>1. Families = IF granted = "family" THEN {1} ELSE {}  BY <2>6, <2>9 DEF Families
    <3>2. 1 .. 0 = {} /\ 1 .. 1 = {1} /\ 0 \in Nat /\ 1 \in Nat  OBVIOUS
    <3>3. \E n \in Nat : Families = 1 .. n
      <4>1. CASE granted = "family"  BY <3>1, <3>2, <4>1
      <4>2. CASE granted # "family"  BY <3>1, <3>2, <4>2
      <4> QED  BY <4>1, <4>2
    <3> QED  BY <2>6, <2>8, <2>9, <3>3 DEF TicketRows
  <2> QED  BY <1>2, <2>11, <2>12, <2>13, <2>14, <2>15, <2>16, <2>17, <2>18, <2>19 DEF IInv, RowsOK
<1> QED  BY <1>6, <1>7 DEF AccountsInit

LEMMA RequestInductive ==
  ASSUME IInv, UNCHANGED serverMode, NEW c \in AccountClients, ~Busy(c), AccountRequest(c)
  PROVE  IInv'
<1>1. ASSUME NEW u \in UserNames, NEW p \in Passwords,
             \/ Register(c, u, p) \/ Login(c, u, p)
             \/ \E cred \in Credentials, q \in Passwords : ChangePassword(c, cred, p, q)
             \/ \E cred \in Credentials : ResetPassword(c, cred, u, p)
      PROVE  IInv'
  BY <1>1, RegisterStep, LoginStep, ChangePasswordStep, ResetPasswordStep
<1>2. ASSUME NEW i \in DOMAIN sessions, Logout(c, i)
      PROVE  IInv'
  BY <1>2, LogoutStep
<1>3. ASSUME NEW cred \in Credentials,
             \/ RegisterClient(c, cred)
             \/ \E client \in 1..clients : Authorize(c, cred, client)
             \/ \E q \in DOMAIN asks, approve \in BOOLEAN : DecideConsent(c, cred, q, approve)
             \/ \E holder \in UserNames, label \in Labels, scope \in TokenScopes, admin \in BOOLEAN :
                  CreateServiceToken(c, cred, holder, label, scope, admin)
             \/ \E t \in DOMAIN serviceTokens : RevokeServiceToken(c, cred, t)
      PROVE  IInv'
  <2>1. ASSUME RegisterClient(c, cred) PROVE IInv'  BY <2>1, RegisterClientStep
  <2>2. ASSUME NEW client \in 1..clients, Authorize(c, cred, client) PROVE IInv'  BY <2>2, AuthorizeStep
  <2>3. ASSUME NEW q \in DOMAIN asks, NEW approve \in BOOLEAN, DecideConsent(c, cred, q, approve) PROVE IInv'
    BY <2>3, DecideConsentStep
  <2>4. ASSUME NEW holder \in UserNames, NEW label \in Labels, NEW scope \in TokenScopes,
               NEW admin \in BOOLEAN, CreateServiceToken(c, cred, holder, label, scope, admin)
        PROVE  IInv'
    BY <2>4, CreateServiceTokenStep
  <2>5. ASSUME NEW t \in DOMAIN serviceTokens, RevokeServiceToken(c, cred, t) PROVE IInv'
    BY <2>5, RevokeServiceTokenStep
  <2> QED  BY <1>3, <2>1, <2>2, <2>3, <2>4, <2>5
<1>4. ASSUME NEW k \in DOMAIN codes, ExchangeCode(c, k) PROVE IInv'  BY <1>4, ExchangeCodeStep
<1>5. ASSUME NEW t \in DOMAIN tokens, Refresh(c, t) PROVE IInv'  BY <1>5, RefreshStep
<1>6. ASSUME EnsureLocalServiceToken(c) PROVE IInv'  BY <1>6, LocalTokenStep
<1> QED  BY <1>1, <1>2, <1>3, <1>4, <1>5, <1>6 DEF AccountRequest

LEMMA StepInductive ==
  ASSUME IInv, UNCHANGED serverMode, NEW c \in AccountClients, AccountStep(c)
  PROVE  IInv'
<1>1. CASE CountUsers(c) \/ InsertUser(c) \/ OpenSession(c) \/ VerifyPassword(c) \/ ReplacePassword(c)
  BY <1>1, CountUsersStep, InsertUserStep, OpenSessionStep, VerifyPasswordStep, ReplacePasswordStep
<1>2. CASE ParkRequest(c) \/ DeleteRequest(c) \/ RememberConsent(c) \/ IssueCode(c)
  BY <1>2, ParkRequestStep, DeleteRequestStep, RememberConsentStep, IssueCodeStep
<1>3. CASE BurnCode(c) \/ IssueTokens(c) \/ CheckAge(c) \/ ReadFamily(c) \/ RevokeToken(c)
  BY <1>3, BurnCodeStep, IssueTokensStep, CheckAgeStep, ReadFamilyStep, RevokeTokenStep
<1>4. CASE RotateToken(c) \/ RenewToken(c) \/ SeedLocalToken(c)
  BY <1>4, RotateTokenStep, RenewTokenStep, SeedLocalTokenStep
<1> QED  BY <1>1, <1>2, <1>3, <1>4 DEF AccountStep

LEMMA NextInductive ==
  ASSUME IInv, [AccountsNext]_accountVars
  PROVE  IInv'
<1>1. CASE UNCHANGED accountVars
  <2>1. UNCHANGED <<serverMode, accountRows, handler, epoch, clashes>>  BY <1>1 DEF accountVars
  <2>2. RowsTypeOK' /\ RowsOK'  BY <2>1, RowsStay DEF IInv
  <2>3. NothingUndone  BY <2>1 DEF NothingUndone, SeededTokens, LocalTokens, accountRows
  <2>4. HandlersOK' /\ Overlaps'  BY <2>1, <2>3, NobodyMoves DEF IInv
  <2> QED  BY <2>2, <2>4 DEF IInv
<1>2. ASSUME AccountsNext PROVE IInv'
  <2>1. UNCHANGED serverMode  BY <1>2 DEF AccountsNext
  <2>2. ASSUME NEW c \in AccountClients, ~Busy(c), AccountRequest(c) PROVE IInv'
    BY <2>1, <2>2, RequestInductive
  <2>3. ASSUME NEW c \in AccountClients, AccountStep(c) PROVE IInv'
    BY <2>1, <2>3, StepInductive
  <2>4. ASSUME SecretExpires PROVE IInv'
    BY <2>1, <2>4, SecretExpiresStep
  <2> QED  BY <1>2, <2>2, <2>3, <2>4 DEF AccountsNext
<1> QED  BY <1>1, <1>2

\* Whatever is signed up, signed in, granted, rotated or revoked, in whatever
\* order the statements of the handlers come: IInv holds.
THEOREM Inductive == AccountsSpec => []IInv
BY InitInductive, NextInductive, PTL DEF AccountsSpec

\* A fresh deployment has one founder and a local server seeds one token at a time,
\* unless two requests for it overlapped: count and insert of register, and
\* the look and the insert of ensure_local_service_token, are two statements.
THEOREM FirstsOnce == AccountsSpec => []FirstsAreOnce
<1>1. IInv => FirstsAreOnce
  <2> SUFFICES ASSUME IInv PROVE FirstsAreOnce  OBVIOUS
  <2>1. OneFounder
    <3>1. CASE <<"founding", 0>> \in clashes  BY <3>1 DEF OneFounder
    <3>2. CASE <<"founding", 0>> \notin clashes
      <4>1. IF DOMAIN users = {} THEN Admins = {} ELSE \E u : Admins = {u}
        BY <3>2 DEF IInv, RowsOK, FoundingRow
      <4>2. CASE DOMAIN users = {}
        <5>1. Cardinality(Admins) = 0  BY <4>1, <4>2, FS_EmptySet
        <5> QED  BY <4>2, <5>1 DEF OneFounder, Admins
      <4>3. CASE DOMAIN users # {}
        <5>1. PICK u : Admins = {u}  BY <4>1, <4>3
        <5>2. Cardinality(Admins) = 1  BY <5>1, FS_Singleton
        <5> QED  BY <4>3, <5>2 DEF OneFounder, Admins
      <4> QED  BY <4>2, <4>3
    <3> QED  BY <3>1, <3>2
  <2>2. OneLocalToken
    <3>1. <<"local", 0>> \in clashes \/ \A x, y \in SeededTokens : x = y  BY DEF IInv, RowsOK, LocalRow
    <3>2. (\A x, y \in SeededTokens : x = y) => Cardinality(SeededTokens) <= 1  BY AtMostOne
    <3> QED  BY <3>1, <3>2 DEF OneLocalToken
  <2> QED  BY <2>1, <2>2 DEF FirstsAreOnce
<1> QED  BY <1>1, Inductive, PTL

\* No session and no OAuth token that is still good was handed out before its
\* user's password was last replaced, unless the replacement overlapped with it.
THEOREM ReplacedSignsOut == AccountsSpec => []ReplacedPasswordSignsOut
<1>1. IInv => ReplacedPasswordSignsOut
  <2> SUFFICES ASSUME IInv, NEW cred \in Credentials, NEW u \in CurrentUser(cred) \cup McpCaller(cred),
                      cred.kind \in {"session", "oauth"}, serverMode, <<"password", u.id>> \notin clashes
               PROVE  \/ cred.kind = "session" /\ sessions[cred.at].since = epoch[u.id]
                      \/ cred.kind = "oauth" /\ tokens[cred.at].since = epoch[u.id]
    BY DEF ReplacedPasswordSignsOut
  <2>1. EarnedRows /\ DOMAIN users \subseteq UserNames  BY DEF IInv, RowsOK, RowsTypeOK, UsersTypeOK
  <2>2. CASE cred.kind = "session"
    <3>1. u \in Authenticate(cred)  BY <2>2 DEF CurrentUser, McpCaller
    <3>2. sessions[cred.at].live /\ u \in UserRow(sessions[cred.at].user)  BY <2>2, <3>1 DEF Authenticate
    <3>3. u.id = sessions[cred.at].user  BY <3>2 DEF UserRow, Caller
    <3>4. cred.at \in DOMAIN sessions  BY <3>1, SessionCaller DEF IInv
    <3> QED  BY <2>1, <2>2, <3>2, <3>3, <3>4 DEF EarnedRows, Earned
  <2>3. CASE cred.kind = "oauth"
    <3>1. u \in OauthTokenUser(tokens[cred.at])  BY <2>3 DEF CurrentUser, Authenticate, McpCaller
    <3>2. ~tokens[cred.at].revoked /\ u \in UserRow(tokens[cred.at].user)  BY <3>1 DEF OauthTokenUser
    <3>3. u.id = tokens[cred.at].user /\ u.id \in DOMAIN users  BY <3>2 DEF UserRow, Caller
    <3>4. cred.at \in DOMAIN tokens  BY <2>3 DEF Credentials, Credential, NoCredential, SessionOf
    <3> QED  BY <2>1, <2>3, <3>2, <3>3, <3>4 DEF EarnedRows, Earned
  <2> QED  BY <2>2, <2>3
<1> QED  BY <1>1, Inductive, PTL

\* A code and a token stand for a consent that was given; a consent request,
\* a code and a refresh token are spent once, unless two requests spend it at
\* the same time.
THEOREM SpentOnce == AccountsSpec => []GrantsAreSpentOnce
<1>1. IInv => GrantsAreSpentOnce
  <2> SUFFICES ASSUME IInv PROVE GrantsAreSpentOnce  OBVIOUS
  <2>1. ASSUME NEW q \in DOMAIN asks
        PROVE  <<"consent", q>> \in clashes \/ Cardinality({k \in DOMAIN codes : codes[k].ask = q}) <= 1
    <3>1. <<"consent", q>> \in clashes \/ \A x, y \in CodesOf(q) : x = y  BY DEF IInv, RowsOK, AskRows
    <3>2. (\A x, y \in CodesOf(q) : x = y) => Cardinality(CodesOf(q)) <= 1  BY AtMostOne
    <3> QED  BY <3>1, <3>2 DEF CodesOf
  <2>2. ASSUME NEW k \in DOMAIN codes
        PROVE  <<"code", k>> \in clashes \/ Cardinality({t \in DOMAIN tokens : tokens[t].code = k}) <= 1
    <3>1. <<"code", k>> \in clashes \/ \A x, y \in TokensOf(k) : x = y  BY DEF IInv, RowsOK, CodeRows
    <3>2. (\A x, y \in TokensOf(k) : x = y) => Cardinality(TokensOf(k)) <= 1  BY AtMostOne
    <3> QED  BY <3>1, <3>2 DEF TokensOf
  <2>3. ASSUME NEW f \in Families
        PROVE  <<"family", f>> \in clashes \/ Cardinality(Live(f)) <= 1
    <3>1. <<"family", f>> \in clashes \/ \A x, y \in Live(f) : x = y  BY DEF IInv, RowsOK, FamilyRows
    <3>2. (\A x, y \in Live(f) : x = y) => Cardinality(Live(f)) <= 1  BY AtMostOne
    <3> QED  BY <3>1, <3>2
  <2>4. GrantsAreSingleUse  BY <2>1, <2>2 DEF GrantsAreSingleUse
  <2>5. RotationLeavesOneToken  BY <2>3 DEF RotationLeavesOneToken
  <2> QED  BY <2>4, <2>5 DEF GrantsAreSpentOnce, IInv, RowsOK
<1> QED  BY <1>1, Inductive, PTL

-----------------------------------------------------------------------------
(***************************************************************************)
(* Revocation.                                                             *)
(***************************************************************************)

\* What no insert changes: the rows there are.
LEMMA InsertKeeps ==
  ASSUME NEW S, NEW s \in Seq(S), NEW e
  PROVE  \A i \in DOMAIN s : Append(s, e)[i] = s[i]
OBVIOUS

RevokedStay == \A t \in DOMAIN tokens : tokens[t].revoked => tokens'[t].revoked

\* A request revokes nothing and answers nobody else.
LEMMA RequestElsewhere ==
  ASSUME IInv, NEW c \in AccountClients, AccountRequest(c), NEW d \in AccountClients
  PROVE  UNCHANGED tokens /\ (d # c => handler'[d] = handler[d])
<1>1. handler \in [AccountClients -> Handlers \cup {NoHandler}]  BY DEF IInv, HandlersOK
<1>2. ASSUME NEW r, Await(c, r) PROVE UNCHANGED tokens /\ (d # c => handler'[d] = handler[d])
  BY <1>1, <1>2 DEF Await, accountRows
<1>3. ASSUME NEW u \in UserNames, NEW p \in Passwords,
             \/ Register(c, u, p) \/ Login(c, u, p)
             \/ \E cred \in Credentials, q \in Passwords : ChangePassword(c, cred, p, q)
             \/ \E cred \in Credentials : ResetPassword(c, cred, u, p)
      PROVE  UNCHANGED tokens /\ (d # c => handler'[d] = handler[d])
  BY <1>2, <1>3 DEF Register, Login, ChangePassword, ResetPassword
<1>4. ASSUME NEW i \in DOMAIN sessions, Logout(c, i)
      PROVE  UNCHANGED tokens /\ (d # c => handler'[d] = handler[d])
  BY <1>4 DEF Logout
<1>5. ASSUME NEW cred \in Credentials, RegisterClient(c, cred)
      PROVE  UNCHANGED tokens /\ (d # c => handler'[d] = handler[d])
  BY <1>5 DEF RegisterClient
<1>6. ASSUME NEW cred \in Credentials, NEW client \in 1..clients, Authorize(c, cred, client)
      PROVE  UNCHANGED tokens /\ (d # c => handler'[d] = handler[d])
  BY <1>2, <1>6 DEF Authorize
<1>7. ASSUME NEW cred \in Credentials, NEW q \in DOMAIN asks, NEW approve \in BOOLEAN,
             DecideConsent(c, cred, q, approve)
      PROVE  UNCHANGED tokens /\ (d # c => handler'[d] = handler[d])
  BY <1>2, <1>7 DEF DecideConsent
<1>8. ASSUME NEW cred \in Credentials, NEW holder \in UserNames, NEW label \in Labels, NEW scope \in TokenScopes,
             NEW admin \in BOOLEAN, CreateServiceToken(c, cred, holder, label, scope, admin)
      PROVE  UNCHANGED tokens /\ (d # c => handler'[d] = handler[d])
  BY <1>8 DEF CreateServiceToken, InsertServiceToken
<1>9. ASSUME NEW cred \in Credentials, NEW t \in DOMAIN serviceTokens, RevokeServiceToken(c, cred, t)
      PROVE  UNCHANGED tokens /\ (d # c => handler'[d] = handler[d])
  BY <1>9 DEF RevokeServiceToken
<1>10. ASSUME NEW k \in DOMAIN codes, ExchangeCode(c, k)
       PROVE  UNCHANGED tokens /\ (d # c => handler'[d] = handler[d])
  BY <1>2, <1>10 DEF ExchangeCode
<1>11. ASSUME NEW t \in DOMAIN tokens, Refresh(c, t)
       PROVE  UNCHANGED tokens /\ (d # c => handler'[d] = handler[d])
  BY <1>2, <1>11 DEF Refresh
<1>12. ASSUME EnsureLocalServiceToken(c)
       PROVE  UNCHANGED tokens /\ (d # c => handler'[d] = handler[d])
  BY <1>2, <1>12 DEF EnsureLocalServiceToken
<1> QED
  BY <1>3, <1>4, <1>5, <1>6, <1>7, <1>8, <1>9, <1>10, <1>11, <1>12 DEF AccountRequest

\* A statement of one handler answers nobody else.
LEMMA StatementElsewhere ==
  ASSUME IInv, NEW c \in AccountClients, AccountStep(c), NEW d \in AccountClients, d # c
  PROVE  handler'[d] = handler[d]
<1>1. handler \in [AccountClients -> Handlers \cup {NoHandler}]  BY DEF IInv, HandlersOK
<1>2. ASSUME Answered(c) \/ \E pc : To(c, pc) PROVE handler'[d] = handler[d]
  BY <1>1, <1>2 DEF Answered, To
<1>3. CASE CountUsers(c) \/ ReadFamily(c) \/ RevokeToken(c)
  BY <1>1, <1>2, <1>3 DEF CountUsers, ReadFamily, RevokeToken
<1>4. CASE InsertUser(c) \/ OpenSession(c) \/ VerifyPassword(c) \/ ReplacePassword(c)
  BY <1>2, <1>4 DEF InsertUser, OpenSession, VerifyPassword, ReplacePassword
<1>5. CASE ParkRequest(c) \/ DeleteRequest(c) \/ RememberConsent(c) \/ IssueCode(c)
  BY <1>2, <1>5 DEF ParkRequest, DeleteRequest, RememberConsent, IssueCode
<1>6. CASE BurnCode(c) \/ IssueTokens(c) \/ CheckAge(c) \/ RotateToken(c) \/ RenewToken(c) \/ SeedLocalToken(c)
  BY <1>2, <1>6 DEF BurnCode, IssueTokens, CheckAge, RotateToken, RenewToken, SeedLocalToken, InsertToken
<1> QED  BY <1>3, <1>4, <1>5, <1>6 DEF AccountStep

LEMMA StatementRevokes ==
  ASSUME IInv, NEW c \in AccountClients, AccountStep(c)
  PROVE  RevokedStay
<1>0. tokens \in Seq(TokenRec) /\ \A t \in DOMAIN tokens : tokens[t] \in TokenRec
  BY RowTypes DEF IInv, RowsTypeOK
<1>1. CASE UNCHANGED tokens  BY <1>1 DEF RevokedStay
<1>2. CASE \E t : tokens' = [tokens EXCEPT ![t].revoked = TRUE]
  BY <1>0, <1>2 DEF RevokedStay, TokenRec
<1>3. CASE \E e : tokens' = Append(tokens, e)
  BY <1>0, <1>3, InsertKeeps DEF RevokedStay
<1>4. CASE ReplacePassword(c)
  <2>1. PICK u : tokens' = [t \in DOMAIN tokens |->
                   IF tokens[t].user = u THEN [tokens[t] EXCEPT !.revoked = TRUE] ELSE tokens[t]]
    BY <1>4 DEF ReplacePassword
  <2> QED  BY <1>0, <2>1 DEF RevokedStay, TokenRec
<1>5. CASE RevokeToken(c) \/ RotateToken(c)
  BY <1>1, <1>2, <1>5 DEF RevokeToken, RotateToken
<1>6. CASE IssueTokens(c) \/ RenewToken(c)
  BY <1>3, <1>6 DEF IssueTokens, RenewToken, InsertToken
<1>7. CASE CountUsers(c) \/ InsertUser(c) \/ OpenSession(c) \/ VerifyPassword(c)
  BY <1>1, <1>7 DEF CountUsers, InsertUser, OpenSession, VerifyPassword, accountRows
<1>8. CASE ParkRequest(c) \/ DeleteRequest(c) \/ RememberConsent(c) \/ IssueCode(c)
  BY <1>1, <1>8 DEF ParkRequest, DeleteRequest, RememberConsent, IssueCode
<1>9. CASE BurnCode(c) \/ CheckAge(c) \/ ReadFamily(c) \/ SeedLocalToken(c)
  BY <1>1, <1>9 DEF BurnCode, CheckAge, ReadFamily, SeedLocalToken, InsertServiceToken, accountRows
<1> QED  BY <1>4, <1>5, <1>6, <1>7, <1>8, <1>9 DEF AccountStep

\* revoke_family answers when it has nothing left to revoke, and then nothing
\* of the family is left.
LEMMA RevokeAnswers ==
  ASSUME IInv, NEW c \in AccountClients, AccountStep(c), At(c, "revoke"), handler'[c] = NoHandler
  PROVE  LET f == tokens[handler[c].row].family IN <<"family", f>> \in clashes \/ Live(f) = {}
<1>0. PICK r : r = handler[c]  OBVIOUS
<1>1. r \in Handlers /\ Promise(r) /\ r.pc = "revoke" /\ r.op = "refresh"
  BY <1>0, AtStatement, StatementOf DEF TypedHandler
<1>2. RevokeToken(c)
  <2>1. \A pc : At(c, pc) => pc = "revoke"  BY DEF At
  <2>2. ~CountUsers(c) /\ ~InsertUser(c) /\ ~OpenSession(c) /\ ~VerifyPassword(c) /\ ~ReplacePassword(c)
    BY <2>1 DEF CountUsers, InsertUser, OpenSession, VerifyPassword, ReplacePassword
  <2>3. ~ParkRequest(c) /\ ~DeleteRequest(c) /\ ~RememberConsent(c) /\ ~IssueCode(c)
    BY <2>1 DEF ParkRequest, DeleteRequest, RememberConsent, IssueCode
  <2>4. ~BurnCode(c) /\ ~IssueTokens(c) /\ ~CheckAge(c) /\ ~ReadFamily(c)
    BY <2>1 DEF BurnCode, IssueTokens, CheckAge, ReadFamily
  <2>5. ~RotateToken(c) /\ ~RenewToken(c) /\ ~SeedLocalToken(c)
    BY <2>1 DEF RotateToken, RenewToken, SeedLocalToken
  <2> QED  BY <2>2, <2>3, <2>4, <2>5 DEF AccountStep
<1>3. r.todo = {}
  <2>1. SUFFICES ASSUME r.todo # {} PROVE FALSE  OBVIOUS
  <2>2. PICK t : handler' = [handler EXCEPT ![c].todo = @ \ {t}]  BY <1>0, <1>2, <2>1 DEF RevokeToken
  <2>3. handler'[c] = [r EXCEPT !.todo = @ \ {t}]  BY <1>0, <2>2 DEF IInv, HandlersOK
  <2>4. r.todo \ {t} \in SUBSET Nat  BY <1>1 DEF Handlers
  <2>5. [r EXCEPT !.todo = @ \ {t}] \in Handlers  BY <1>1, <2>4 DEF Handlers
  <2> QED  BY <2>3, <2>5, AccountsAssumption
<1>4. \/ <<"family", tokens[r.row].family>> \in clashes
      \/ Live(tokens[r.row].family) \subseteq r.todo
  BY <1>1 DEF Promise, FamilyHeld
<1> QED  BY <1>0, <1>3, <1>4

LEMMA StepRevokes ==
  ASSUME IInv, [AccountsNext]_accountVars
  PROVE  RevocationIsFinal
<1>0. handler \in [AccountClients -> Handlers \cup {NoHandler}]
  BY DEF IInv, HandlersOK
<1>1. RevokedStay
  <2>1. CASE UNCHANGED tokens  BY <2>1 DEF RevokedStay
  <2>2. ASSUME NEW c \in AccountClients, AccountStep(c) PROVE RevokedStay  BY <2>2, StatementRevokes
  <2>3. ASSUME NEW c \in AccountClients, AccountRequest(c) PROVE RevokedStay
    BY <2>1, <2>3, RequestElsewhere
  <2>4. ASSUME SecretExpires PROVE RevokedStay
    <3>1. \A t \in DOMAIN tokens : tokens[t] \in TokenRec  BY RowTypes DEF IInv
    <3>2. UNCHANGED tokens \/ \E t : tokens' = [tokens EXCEPT ![t].live = FALSE]  BY <2>4 DEF SecretExpires
    <3> QED  BY <2>1, <3>1, <3>2 DEF RevokedStay, TokenRec
  <2> QED  BY <2>1, <2>2, <2>3, <2>4 DEF AccountsNext, accountVars, accountRows
<1>2. ASSUME NEW c \in AccountClients, NEW f \in Families,
             At(c, "revoke"), tokens[handler[c].row].family = f, handler'[c] = NoHandler
      PROVE  <<"family", f>> \in clashes \/ Live(f) = {}
  <2>1. handler'[c] # handler[c]  BY <1>2 DEF At, Busy
  <2>2. ASSUME NEW d \in AccountClients, ~Busy(d), AccountRequest(d) PROVE FALSE
    <3>1. d # c  BY <1>2, <2>2 DEF At
    <3> QED  BY <2>1, <2>2, <3>1, RequestElsewhere
  <2>3. ASSUME NEW d \in AccountClients, AccountStep(d) PROVE d = c
    BY <2>1, <2>3, StatementElsewhere
  <2>4. ~SecretExpires /\ ~UNCHANGED accountVars  BY <2>1 DEF SecretExpires, accountVars
  <2>5. AccountStep(c)  BY <2>2, <2>3, <2>4 DEF AccountsNext
  <2> QED  BY <1>2, <2>5, RevokeAnswers
<1> QED  BY <1>1, <1>2 DEF RevocationIsFinal, RevokedStay

\* A revoked refresh token stays revoked whatever else happens, and when
\* refresh answers reuse or age, nothing of the family is good any more, unless
\* another refresh of the family ran at the same time.
THEOREM RevokedForGood == AccountsSpec => RevocationsAreFinal
<1>1. IInv /\ [AccountsNext]_accountVars => [RevocationIsFinal]_accountVars  BY StepRevokes
<1> QED  BY <1>1, Inductive, PTL DEF AccountsSpec, RevocationsAreFinal

-----------------------------------------------------------------------------
(***************************************************************************)
(* Approvals.                                                              *)
(***************************************************************************)

\* What the policy keeps was answered: for the session in the life it is in,
\* or for good by the user; an answer on its way to agent_grants too.
AlwaysAnswered(user, name) ==
  \E a \in answers : a.scope = "always" /\ a.user = user /\ a.tool = name

GrantsTypeOK ==
  /\ session_grants \in [ChatSessions -> SUBSET AgentTools]
  /\ asking \in [ChatSessions -> AgentTools \cup {NoTool}]
  /\ persisting \in [ChatSessions -> AgentTools \cup {NoTool}]
  /\ agent_grants \in Seq({ChatUser[s] : s \in ChatSessions} \X AgentTools)
  /\ life \in [ChatSessions -> Int]

KeptWasAnswered ==
  /\ \A s \in ChatSessions : \A name \in session_grants[s] :
       \E a \in answers : a.tool = name /\ a.scope = "session" /\ a.session = s /\ a.life = life[s]
  /\ \A i \in DOMAIN agent_grants : AlwaysAnswered(agent_grants[i][1], agent_grants[i][2])
  /\ \A s \in ChatSessions : persisting[s] # NoTool => AlwaysAnswered(ChatUser[s], persisting[s])

GrantsIInv == GrantsTypeOK /\ KeptWasAnswered /\ ApprovalsStayInScope

LEMMA EmptyList ==
  ASSUME NEW S
  PROVE  <<>> \in Seq(S) /\ DOMAIN <<>> = {} /\ Len(<<>>) = 0
OBVIOUS

LEMMA GrantsInit == ToolsInit => GrantsIInv
<1> SUFFICES ASSUME ToolsInit PROVE GrantsIInv  OBVIOUS
<1>1. called.grade # "allow"  BY DEF ToolsInit, NotCalled
<1>2. GrantsTypeOK  BY EmptyList DEF ToolsInit, GrantsTypeOK
<1>3. KeptWasAnswered  BY EmptyList DEF ToolsInit, KeptWasAnswered
<1> QED  BY <1>1, <1>2, <1>3 DEF GrantsIInv, ApprovalsStayInScope

\* A call that was not let through unasked needs no approval.
LEMMA AskedCall ==
  ASSUME called'.grade # "allow"
  PROVE  ApprovalsStayInScope'
BY DEF ApprovalsStayInScope

\* What resolve lets through unasked was approved.
LEMMA AllowedCall ==
  ASSUME GrantsIInv, NEW s \in ChatSessions, NEW name, "allow" \in Resolve(s, name), requires_approval(name)
  PROVE  \E a \in answers :
           /\ a.tool = name
           /\ \/ a.scope = "session" /\ a.session = s /\ a.life = life[s]
              \/ a.scope = "always" /\ a.user = ChatUser[s]
<1>1. CASE name \in session_grants[s]  BY <1>1 DEF GrantsIInv, KeptWasAnswered
<1>2. CASE name \notin session_grants[s]
  <2>1. PersistedGranted(ChatUser[s], name)  BY <1>2 DEF Resolve
  <2>2. PICK i \in DOMAIN agent_grants : agent_grants[i] = <<ChatUser[s], name>>
    BY <2>1 DEF PersistedGranted, Persisted
  <2>3. AlwaysAnswered(ChatUser[s], name)  BY <2>2 DEF GrantsIInv, KeptWasAnswered
  <2> QED  BY <2>3 DEF AlwaysAnswered
<1> QED  BY <1>1, <1>2

\* Answers are never taken back, so what they stood for they stand for.
LEMMA AnswersStay ==
  ASSUME GrantsIInv, answers \subseteq answers', UNCHANGED <<life, called>>
  PROVE  ApprovalsStayInScope'
BY DEF GrantsIInv, ApprovalsStayInScope

LEMMA RunCalls ==
  ASSUME NEW s, NEW name, NEW grade, RunForSession(s, name, grade)
  PROVE  called'.by = s /\ called'.tool = name /\ called'.grade = grade
<1>1. \A ends : Handle(s, name, grade, ends) =>
        called'.by = s /\ called'.tool = name /\ called'.grade = grade
  BY DEF Handle
<1>2. \E ends : Handle(s, name, grade, ends)  BY DEF RunForSession
<1> QED  BY <1>1, <1>2

LEMMA AgentCallsStep ==
  ASSUME GrantsIInv, NEW s \in ChatSessions, NEW name \in AgentTools, AgentCalls(s, name)
  PROVE  GrantsIInv'
<1>1. UNCHANGED <<session_grants, agent_grants, persisting, answers, life>>  BY DEF AgentCalls
<1>2. asking' = asking \/ asking' = [asking EXCEPT ![s] = name]  BY DEF AgentCalls
<1>3. GrantsTypeOK'  BY <1>1, <1>2 DEF GrantsIInv, GrantsTypeOK
<1>4. KeptWasAnswered'  BY <1>1 DEF GrantsIInv, KeptWasAnswered, AlwaysAnswered
<1>5. ApprovalsStayInScope'
  <2>1. CASE UNCHANGED called  BY <1>1, <2>1, AnswersStay
  <2>2. CASE "allow" \in Resolve(s, name) /\ RunForSession(s, name, "allow")
    <3>1. called'.by = s /\ called'.tool = name  BY <2>2, RunCalls
    <3> QED  BY <1>1, <2>2, <3>1, AllowedCall DEF ApprovalsStayInScope
  <2> QED  BY <2>1, <2>2 DEF AgentCalls
<1> QED  BY <1>3, <1>4, <1>5 DEF GrantsIInv

LEMMA ApproveStep ==
  ASSUME GrantsIInv, NEW s \in ChatSessions, NEW scope \in {"once", "session", "always"}, Approve(s, scope)
  PROVE  GrantsIInv'
<1>1. PICK n : n = asking[s]  OBVIOUS
<1>2. PICK a : a = [session |-> s, user |-> ChatUser[s], tool |-> n, scope |-> scope, life |-> life[s]]  OBVIOUS
<1>3. n \in AgentTools /\ n # NoTool  BY <1>1 DEF GrantsIInv, GrantsTypeOK, Approve
<1>4. answers' = answers \cup {a} /\ UNCHANGED <<agent_grants, life>>
  BY <1>1, <1>2 DEF Approve, Consent
<1>5. \/ scope = "session" /\ session_grants' = [session_grants EXCEPT ![s] = @ \cup {n}]
      \/ UNCHANGED session_grants
  BY <1>1 DEF Approve, RecordSession
<1>6. \/ scope = "always" /\ persisting' = [persisting EXCEPT ![s] = n]
      \/ UNCHANGED persisting
  BY <1>1 DEF Approve
<1>7. asking' = [asking EXCEPT ![s] = NoTool]  BY DEF Approve
<1>8. a.session = s /\ a.user = ChatUser[s] /\ a.tool = n /\ a.scope = scope /\ a.life = life[s]
  BY <1>2
<1>9. GrantsTypeOK'
  <2>1. session_grants' \in [ChatSessions -> SUBSET AgentTools]  BY <1>3, <1>5 DEF GrantsIInv, GrantsTypeOK
  <2>2. asking' \in [ChatSessions -> AgentTools \cup {NoTool}]  BY <1>7 DEF GrantsIInv, GrantsTypeOK
  <2>3. persisting' \in [ChatSessions -> AgentTools \cup {NoTool}]  BY <1>3, <1>6 DEF GrantsIInv, GrantsTypeOK
  <2> QED  BY <1>4, <2>1, <2>2, <2>3 DEF GrantsIInv, GrantsTypeOK
<1>10. KeptWasAnswered'
  <2>1. \A u, name : AlwaysAnswered(u, name) =>
          \E b \in answers' : b.scope = "always" /\ b.user = u /\ b.tool = name
    BY <1>4 DEF AlwaysAnswered
  <2>2. ASSUME NEW x \in ChatSessions, NEW name \in session_grants'[x]
        PROVE  \E b \in answers' : b.tool = name /\ b.scope = "session" /\ b.session = x /\ b.life = life'[x]
    <3>1. CASE name \in session_grants[x]  BY <1>4, <3>1 DEF GrantsIInv, KeptWasAnswered
    <3>2. CASE name \notin session_grants[x]
      <4>1. scope = "session" /\ x = s /\ name = n  BY <1>5, <2>2, <3>2 DEF GrantsIInv, GrantsTypeOK
      <4> QED  BY <1>4, <1>8, <4>1
    <3> QED  BY <3>1, <3>2
  <2>3. ASSUME NEW x \in ChatSessions, persisting'[x] # NoTool
        PROVE  \E b \in answers' : b.scope = "always" /\ b.user = ChatUser[x] /\ b.tool = persisting'[x]
    <3>1. CASE persisting'[x] = persisting[x]  BY <2>1, <2>3, <3>1 DEF GrantsIInv, KeptWasAnswered
    <3>2. CASE persisting'[x] # persisting[x]
      <4>1. scope = "always" /\ x = s /\ persisting'[x] = n  BY <1>6, <3>2 DEF GrantsIInv, GrantsTypeOK
      <4> QED  BY <1>4, <1>8, <4>1
    <3> QED  BY <3>1, <3>2
  <2>4. \A i \in DOMAIN agent_grants' :
          \E b \in answers' : b.scope = "always" /\ b.user = agent_grants'[i][1] /\ b.tool = agent_grants'[i][2]
    BY <1>4, <2>1 DEF GrantsIInv, KeptWasAnswered
  <2> QED  BY <2>2, <2>3, <2>4 DEF KeptWasAnswered, AlwaysAnswered
<1>11. called'.grade = "asked"  BY RunCalls DEF Approve
<1>12. ApprovalsStayInScope'  BY <1>11, AskedCall
<1> QED  BY <1>9, <1>10, <1>12 DEF GrantsIInv

LEMMA RejectStep ==
  ASSUME GrantsIInv, NEW s \in ChatSessions, Reject(s)
  PROVE  GrantsIInv'
<1>1. UNCHANGED <<session_grants, agent_grants, persisting, answers, life, called>>
      /\ asking' = [asking EXCEPT ![s] = NoTool]
  BY DEF Reject
<1>2. GrantsTypeOK'  BY <1>1 DEF GrantsIInv, GrantsTypeOK
<1>3. KeptWasAnswered'  BY <1>1 DEF GrantsIInv, KeptWasAnswered, AlwaysAnswered
<1> QED  BY <1>1, <1>2, <1>3, AnswersStay DEF GrantsIInv

LEMMA PersistAlwaysStep ==
  ASSUME GrantsIInv, NEW s \in ChatSessions, PersistAlways(s)
  PROVE  GrantsIInv'
<1>1. UNCHANGED <<session_grants, asking, answers, life, called>> /\ persisting[s] # NoTool
      /\ persisting' = [persisting EXCEPT ![s] = NoTool]
  BY DEF PersistAlways
<1>2. PICK p : p = <<ChatUser[s], persisting[s]>>  OBVIOUS
<1>3. p \in {ChatUser[x] : x \in ChatSessions} \X AgentTools /\ AlwaysAnswered(p[1], p[2])
  BY <1>1, <1>2 DEF GrantsIInv, GrantsTypeOK, KeptWasAnswered
<1>4. agent_grants' = agent_grants \/ agent_grants' = Append(agent_grants, p)  BY <1>2 DEF PersistAlways
<1>5. agent_grants \in Seq({ChatUser[x] : x \in ChatSessions} \X AgentTools)  BY DEF GrantsIInv, GrantsTypeOK
<1>6. /\ agent_grants' \in Seq({ChatUser[x] : x \in ChatSessions} \X AgentTools)
      /\ \A i \in DOMAIN agent_grants' : agent_grants'[i] = p \/ (i \in DOMAIN agent_grants /\ agent_grants'[i] = agent_grants[i])
  <2>1. CASE agent_grants' = agent_grants  BY <1>5, <2>1
  <2>2. CASE agent_grants' = Append(agent_grants, p)  BY <1>3, <1>5, <2>2, InsertRow
  <2> QED  BY <1>4, <2>1, <2>2
<1>7. GrantsTypeOK'  BY <1>1, <1>6 DEF GrantsIInv, GrantsTypeOK
<1>8. KeptWasAnswered'
  <2>1. \A i \in DOMAIN agent_grants' : AlwaysAnswered(agent_grants'[i][1], agent_grants'[i][2])
    BY <1>3, <1>6 DEF GrantsIInv, KeptWasAnswered
  <2>2. \A x \in ChatSessions : persisting'[x] # NoTool => persisting'[x] = persisting[x]
    BY <1>1 DEF GrantsIInv, GrantsTypeOK
  <2> QED  BY <1>1, <2>1, <2>2 DEF GrantsIInv, KeptWasAnswered, AlwaysAnswered
<1> QED  BY <1>1, <1>7, <1>8, AnswersStay DEF GrantsIInv

LEMMA EndSessionStep ==
  ASSUME GrantsIInv, NEW s \in ChatSessions, EndSession(s)
  PROVE  GrantsIInv'
<1>1. /\ UNCHANGED <<agent_grants, persisting, answers>>
      /\ session_grants' = [session_grants EXCEPT ![s] = {}]
      /\ asking' = [asking EXCEPT ![s] = NoTool]
      /\ life' = [life EXCEPT ![s] = @ + 1]
      /\ called'.grade # "allow"
  BY DEF EndSession, ForgetSession, NotCalled
<1>2. GrantsTypeOK'  BY <1>1 DEF GrantsIInv, GrantsTypeOK
<1>3. \A x \in ChatSessions : session_grants'[x] # {} => session_grants'[x] = session_grants[x] /\ life'[x] = life[x]
  BY <1>1 DEF GrantsIInv, GrantsTypeOK
<1>4. KeptWasAnswered'  BY <1>1, <1>3 DEF GrantsIInv, KeptWasAnswered, AlwaysAnswered
<1> QED  BY <1>1, <1>2, <1>4, AskedCall DEF GrantsIInv

LEMMA GrantsNext ==
  ASSUME GrantsIInv, [ToolsNext]_tvars
  PROVE  GrantsIInv'
<1>1. CASE UNCHANGED tvars
  BY <1>1 DEF tvars, GrantsIInv, GrantsTypeOK, KeptWasAnswered, AlwaysAnswered, ApprovalsStayInScope
<1>2. ASSUME NEW c \in McpCallers, NEW name \in ToolNames, CallTool(c, name) PROVE GrantsIInv'
  <2>1. UNCHANGED <<session_grants, agent_grants, asking, persisting, answers, life>>  BY <1>2 DEF CallTool
  <2>2. called'.grade = "token"
    <3>1. \A ends : Handle(c, name, "token", ends) => called'.grade = "token"  BY DEF Handle
    <3>2. \E ends : Handle(c, name, "token", ends)  BY <1>2 DEF CallTool
    <3> QED  BY <3>1, <3>2
  <2>3. GrantsTypeOK'  BY <2>1 DEF GrantsIInv, GrantsTypeOK
  <2>4. KeptWasAnswered'  BY <2>1 DEF GrantsIInv, KeptWasAnswered, AlwaysAnswered
  <2> QED  BY <2>2, <2>3, <2>4, AskedCall DEF GrantsIInv
<1> QED
  BY <1>1, <1>2, AgentCallsStep, ApproveStep, RejectStep, PersistAlwaysStep, EndSessionStep DEF ToolsNext

\* Every grant that the policy acts on (ai/agent/), in memory, on its way or
\* stored, goes back to an answer of its user.
THEOREM GrantsInductive == ToolsSpec => []GrantsIInv
BY GrantsInit, GrantsNext, PTL DEF ToolsSpec

\* However answers, lost inserts, ends and resumptions of sessions interleave,
\* a gated tool runs unasked only under an answer that reaches its session.
THEOREM ApprovedInScope == ToolsSpec => []ApprovalsStayInScope
<1>1. GrantsIInv => ApprovalsStayInScope  BY DEF GrantsIInv
<1> QED  BY <1>1, GrantsInductive, PTL

-----------------------------------------------------------------------------
(***************************************************************************)
(* Arguments.  No handler still checks one once it has searched or         *)
(* written, so a call that stops at a check has done neither.              *)
(***************************************************************************)
ChecksFirst(steps) ==
  \A i, k \in DOMAIN steps : k < i /\ steps[i].kind \in {"need", "check"} =>
    steps[k].kind \notin {"write", "search"}

LEMMA HandlersCheckFirst ==
  ASSUME NEW name \in ToolNames
  PROVE  ChecksFirst(default_registry[name])
<1> USE DEF Position, PositionOrStart, Need, Check, Engine, Search, Reads, Writes, If, Step, Always
<1>1. /\ ChecksFirst(echo) /\ ChecksFirst(engine_analyse) /\ ChecksFirst(study_list)
     /\ ChecksFirst(study_create) /\ ChecksFirst(study_get) /\ ChecksFirst(study_import_pgn)
     /\ ChecksFirst(study_add_move) /\ ChecksFirst(study_annotate) /\ ChecksFirst(study_export)
  BY DEF ChecksFirst, echo, engine_analyse, study_list, study_create, study_get, study_import_pgn,
         study_add_move, study_annotate, study_export
<1>2. /\ ChecksFirst(study_set_folder) /\ ChecksFirst(study_set_shapes) /\ ChecksFirst(study_promote_node)
     /\ ChecksFirst(study_reorder_node) /\ ChecksFirst(study_merge_games) /\ ChecksFirst(study_merge_danger)
     /\ ChecksFirst(study_analyse) /\ ChecksFirst(study_clear_shapes) /\ ChecksFirst(list_databases)
  BY DEF ChecksFirst, study_set_folder, study_set_shapes, study_promote_node, study_reorder_node,
         study_merge_games, study_merge_danger, study_analyse, study_clear_shapes, list_databases
<1>3. /\ ChecksFirst(db_list_games) /\ ChecksFirst(db_read_game) /\ ChecksFirst(db_position_report)
     /\ ChecksFirst(db_reference_games) /\ ChecksFirst(db_export_games) /\ ChecksFirst(game_save_as_study)
     /\ ChecksFirst(game_studies) /\ ChecksFirst(game_tree) /\ ChecksFirst(game_delete)
  BY DEF ChecksFirst, db_list_games, db_read_game, db_position_report, db_reference_games,
         db_export_games, game_save_as_study, game_studies, game_tree, game_delete
<1>4. /\ ChecksFirst(analyse_position) /\ ChecksFirst(analyse_game) /\ ChecksFirst(opening_tree)
     /\ ChecksFirst(danger_map) /\ ChecksFirst(position_concepts) /\ ChecksFirst(folder_list)
     /\ ChecksFirst(folder_create) /\ ChecksFirst(folder_update) /\ ChecksFirst(folder_delete)
  BY DEF ChecksFirst, analyse_position, analyse_game, opening_tree, danger_map, position_concepts,
         folder_list, folder_create, folder_update, folder_delete
<1>5. /\ ChecksFirst(search_headers) /\ ChecksFirst(position_threats) /\ ChecksFirst(import_pgn)
     /\ ChecksFirst(import_lichess_game) /\ ChecksFirst(import_sync) /\ ChecksFirst(masters_position_report)
  BY DEF ChecksFirst, search_headers, position_threats, import_pgn, import_lichess_game, import_sync,
         masters_position_report
<1> HIDE DEF Position, PositionOrStart, Need, Check, Engine, Search, Reads, Writes, If, Step, Always
<1> QED  BY <1>1, <1>2, <1>3, <1>4, <1>5 DEF ToolNames, default_registry

LEMMA EndsCheckFirst ==
  ASSUME NEW name \in ToolNames, NEW given, NEW hasEngine \in BOOLEAN, NEW ends \in Ends(name, given, hasEngine),
         ends.outcome = "bad_arguments", NEW s \in ends.did
  PROVE  s.kind \notin {"write", "search"}
<1> DEFINE step == default_registry[name]
           taken == Taken(name, given)
<1>1. PICK i \in taken : /\ ends.outcome = IF step[i].kind \in {"need", "check"} THEN "bad_arguments" ELSE "failed"
                         /\ ends.did = {step[k] : k \in {j \in taken : j < i}}
  BY DEF Ends
<1>2. step[i].kind \in {"need", "check"}
  BY <1>1
<1>3. PICK k \in taken : k < i /\ s = step[k]
  BY <1>1
<1>4. i \in DOMAIN step /\ k \in DOMAIN step
  BY DEF Taken
<1> QED  BY <1>2, <1>3, <1>4, HandlersCheckFirst DEF ChecksFirst

\* Whoever calls a tool, over /mcp or in a conversation, with whatever
\* arguments: a refusal for the arguments has cost no search and changed
\* nothing (server/routes/mcp/).
THEOREM RefusalsAreHarmless == ToolsSpec => []BadArgumentsAreHarmless
<1> DEFINE Harmless(x) == x.outcome = "bad_arguments" => \A s \in x.did : s.kind \notin {"write", "search"}
<1>1. ASSUME NEW c, NEW name, NEW grade, NEW ends, Handle(c, name, grade, ends),
             ends.outcome = "bad_arguments" => \A s \in ends.did : s.kind \notin {"write", "search"}
      PROVE  Harmless(called')
  BY <1>1 DEF Handle
<1>2. ASSUME NEW name \in ToolNames, NEW ends \in Outcomes[name], ends.outcome = "bad_arguments", NEW s \in ends.did
      PROVE  s.kind \notin {"write", "search"}
  BY <1>2, EndsCheckFirst DEF Outcomes
<1>3. Harmless(called) <=> BadArgumentsAreHarmless
  BY DEF BadArgumentsAreHarmless, BadArgumentsAreCheap, BadArgumentsChangeNothing, Wrote, Searched
<1>4. ToolsInit => Harmless(called)
  BY DEF ToolsInit, NotCalled
<1>5. ASSUME GrantsIInv, Harmless(called), [ToolsNext]_tvars
      PROVE  Harmless(called')
  <2>1. ASSUME NEW s, NEW name \in ToolNames, NEW grade, RunForSession(s, name, grade)
        PROVE  Harmless(called')
    BY <1>1, <1>2, <2>1 DEF RunForSession
  <2>2. ASSUME NEW c, NEW name \in ToolNames, CallTool(c, name)
        PROVE  Harmless(called')
    BY <1>1, <1>2, <2>2 DEF CallTool
  <2>3. ASSUME NEW s \in ChatSessions, NEW name \in AgentTools, AgentCalls(s, name)
        PROVE  Harmless(called')
    BY <1>5, <2>1, <2>3, AgentToolsAssumption DEF AgentCalls
  <2>4. ASSUME NEW s \in ChatSessions, NEW scope, Approve(s, scope)
        PROVE  Harmless(called')
    <3>1. asking[s] \in AgentTools /\ RunForSession(s, asking[s], "asked")
      BY <1>5, <2>4 DEF GrantsIInv, GrantsTypeOK, Approve
    <3> QED  BY <2>1, <3>1, AgentToolsAssumption
  <2>5. ASSUME called' = called \/ called' = NotCalled
        PROVE  Harmless(called')
    BY <1>5, <2>5 DEF NotCalled
  <2>6. ASSUME NEW s, Reject(s) \/ PersistAlways(s) \/ EndSession(s)
        PROVE  Harmless(called')
    BY <2>5, <2>6 DEF Reject, PersistAlways, EndSession
  <2>7. CASE UNCHANGED tvars
    BY <2>5, <2>7 DEF tvars
  <2> QED  BY <1>5, <2>2, <2>3, <2>4, <2>6, <2>7 DEF ToolsNext
<1>6. Harmless(called)' <=> Harmless(called')
  OBVIOUS
<1>7. GrantsIInv /\ Harmless(called) /\ [ToolsNext]_tvars => Harmless(called)'
  BY <1>5, <1>6
<1> HIDE DEF Harmless
<1> QED  BY <1>3, <1>4, <1>7, GrantsInductive, PTL DEF ToolsSpec

-----------------------------------------------------------------------------
(***************************************************************************)
(* Conversations: what the tables and the process hold.                    *)
(***************************************************************************)
Message  == [kind : {"spawn", "resume", "prompt", "hibernate"}, root : Nat]
Event    == [kind : {"started", "hibernated", "out"}, root : Nat]
Record   == [root : Nat, upto : Nat, gap : BOOLEAN]
LogRow   == [ord : Nat, upto : Nat, gap : BOOLEAN]

ChatTypeOK ==
  /\ owner \in Seq(ChatUsers)
  /\ log \in Seq(SUBSET LogRow) /\ Len(log) = Len(owner)
  /\ inbox \in Seq(Message)
  /\ stream \in Seq(Event)
  /\ heard \in [tap : Nat, index : Nat] /\ heard.tap <= Len(stream) /\ heard.index <= Len(stream)
  /\ backlog \in Seq(Record) /\ Len(backlog) <= SinkCapacity
  /\ \A root \in DOMAIN nextOrd : nextOrd[root] \in Nat
  /\ chatCall \in [ChatClients -> ChatCalls \cup {NoChatCall}]

\* Everything is about conversations there are, or were.
RootsKnown ==
  /\ index \cup live \cup memory \subseteq Roots
  /\ \A i \in DOMAIN inbox : inbox[i].root \in Roots
  /\ \A n \in DOMAIN stream : stream[n].root \in Roots
  /\ \A i \in DOMAIN backlog : backlog[i].root \in Roots
  /\ \A c \in ChatClients : chatCall[c] # NoChatCall => chatCall[c].root \in Roots

(***************************************************************************)
(* The log.                                                                *)
(***************************************************************************)
\* The rows of a log have numbers of their own, in the order of the events,
\* and the writer's next number is past them all.
Numbered(root) ==
  /\ \A r, s \in log[root] : (r.ord < s.ord => r.upto <= s.upto) /\ (r.ord = s.ord => r = s)
  /\ log[root] # {} => \E r \in log[root] : \A x \in log[root] : x.ord <= r.ord
  /\ root \in DOMAIN nextOrd => \A x \in log[root] : x.ord < nextOrd[root]

\* What is on its way to a log is in order, and comes after what is in it.
Queued ==
  /\ \A i, j \in DOMAIN backlog : i <= j => backlog[i].upto <= backlog[j].upto
  /\ \A i \in DOMAIN backlog : backlog[i].upto <= heard.tap
  /\ \A root \in Roots : \A x \in log[root] :
       x.upto <= heard.tap /\ \A i \in DOMAIN backlog : x.upto <= backlog[i].upto

Told(root, n) ==
  \/ n > heard.tap \/ n \in excused
  \/ \E r \in log[root] : Tells(r, n)
  \/ \E i \in DOMAIN backlog : backlog[i].root = root /\ Tells(backlog[i], n)

LogFaithful ==
  /\ Queued
  /\ \A root \in Roots : Numbered(root) /\ \A n \in OfRoot(root) : Told(root, n)

LogIInv == ChatTypeOK /\ RootsKnown /\ LogFaithful

(***************************************************************************)
(* What is listed as live.                                                 *)
(***************************************************************************)
\* What the index subscriber has yet to hear of a conversation, and what the
\* engine has yet to be told.
News(root)       == {n \in OfRoot(root) : n > heard.index /\ stream[n].kind # "out"}
Starts(root)     == \E i \in DOMAIN inbox : inbox[i].root = root /\ inbox[i].kind # "hibernate"
Hibernates(root) == \E i \in DOMAIN inbox : inbox[i].root = root /\ inbox[i].kind = "hibernate"

\* The last news is how it is.
NewsIsTrue(root) ==
  \A n \in News(root) :
    (\A m \in News(root) : m <= n) => (stream[n].kind = "started" <=> root \in memory)

\* Where there is no news, what is listed is what the engine holds, or will be
\* once it has handled what it was sent.
Listed(root) ==
  News(root) = {} => IF root \in memory THEN root \in live \/ Hibernates(root)
                     ELSE root \notin live \/ Starts(root)

\* The last the engine hears of a conversation being deleted is to put it away.
PutAway(root) ==
  \/ \E i \in DOMAIN inbox :
       /\ inbox[i].root = root /\ inbox[i].kind = "hibernate"
       /\ \A j \in DOMAIN inbox : j > i => inbox[j].root # root
  \/ root \notin memory /\ \A i \in DOMAIN inbox : inbox[i].root # root

Deleting(c) == Waiting(c, "events") \/ Waiting(c, "row")
HandlerSound(c) ==
  LET root == chatCall[c].root IN
  /\ Deleting(c) => PutAway(root)
  /\ ~Deleting(c) => root \in index
  /\ Waiting(c, "mark") => root \in memory \/ Starts(root)
  /\ \A d \in ChatClients \ {c} : ~On(d, root)

\* Only a deletion puts a listed conversation away.
HibernatesAreDeletes(root) ==
  Hibernates(root) => root \notin index \/ \E c \in ChatClients : On(c, root) /\ Deleting(c)

\* What holds as long as nothing happened that the index cannot know of.
Orderly ==
  /\ \A root \in Roots : Listed(root) /\ HibernatesAreDeletes(root)
  /\ \A c \in ChatClients : chatCall[c] # NoChatCall => HandlerSound(c)

LiveFaithful == (\A root \in Roots : NewsIsTrue(root)) /\ (chatRaces = {} => Orderly)

LiveIInv == ChatTypeOK /\ RootsKnown /\ LiveFaithful

-----------------------------------------------------------------------------
(***************************************************************************)
(* Sequences.                                                              *)
(***************************************************************************)
LEMMA TakeHead ==
  ASSUME NEW S, NEW s \in Seq(S), s # <<>>
  PROVE  /\ Head(s) \in S /\ Head(s) = s[1] /\ 1 \in DOMAIN s
         /\ Tail(s) \in Seq(S) /\ Len(Tail(s)) = Len(s) - 1
         /\ \A i \in DOMAIN Tail(s) : i + 1 \in DOMAIN s /\ Tail(s)[i] = s[i + 1]
         /\ \A i \in DOMAIN s : i # 1 => i - 1 \in DOMAIN Tail(s) /\ Tail(s)[i - 1] = s[i]
<1>1. Head(s) \in S /\ Tail(s) \in Seq(S) /\ Len(Tail(s)) = Len(s) - 1
      /\ \A i \in 1 .. Len(Tail(s)) : Tail(s)[i] = s[i + 1]
  BY HeadTailProperties
<1>2. Len(s) \in Nat \ {0} /\ DOMAIN s = 1 .. Len(s)  BY EmptySeq, LenProperties
<1>3. DOMAIN Tail(s) = 1 .. Len(s) - 1  BY <1>1, LenProperties
<1>4. Head(s) = s[1]  BY <1>2
<1> QED  BY <1>1, <1>2, <1>3, <1>4

LEMMA AddLast ==
  ASSUME NEW S, NEW s \in Seq(S), NEW e \in S
  PROVE  /\ Append(s, e) \in Seq(S) /\ Len(Append(s, e)) = Len(s) + 1
         /\ DOMAIN Append(s, e) = (DOMAIN s) \cup {Len(s) + 1}
         /\ \A i \in DOMAIN s : i <= Len(s) /\ Append(s, e)[i] = s[i]
         /\ Append(s, e)[Len(s) + 1] = e
<1>1. /\ Append(s, e) \in Seq(S) /\ Len(Append(s, e)) = Len(s) + 1
      /\ \A i \in 1 .. Len(s) : Append(s, e)[i] = s[i]
      /\ Append(s, e)[Len(s) + 1] = e
  BY AppendProperties
<1>2. Len(s) \in Nat /\ DOMAIN s = 1 .. Len(s)  BY LenProperties
<1>3. DOMAIN Append(s, e) = 1 .. Len(s) + 1  BY <1>1, LenProperties
<1> QED  BY <1>1, <1>2, <1>3

LEMMA AddAll ==
  ASSUME NEW S, NEW s \in Seq(S), NEW t \in Seq(S)
  PROVE  /\ s \o t \in Seq(S) /\ Len(s \o t) = Len(s) + Len(t)
         /\ \A i \in DOMAIN s : i \in DOMAIN (s \o t) /\ i <= Len(s) /\ (s \o t)[i] = s[i]
         /\ \A i \in DOMAIN t : Len(s) + i \in DOMAIN (s \o t) /\ (s \o t)[Len(s) + i] = t[i]
         /\ \A i \in DOMAIN (s \o t) : i \in DOMAIN s \/ i - Len(s) \in DOMAIN t
<1>1. /\ s \o t \in Seq(S) /\ Len(s \o t) = Len(s) + Len(t)
      /\ \A i \in 1 .. Len(s) + Len(t) : (s \o t)[i] = IF i <= Len(s) THEN s[i] ELSE t[i - Len(s)]
  BY ConcatProperties
<1>2. /\ Len(s) \in Nat /\ DOMAIN s = 1 .. Len(s)
      /\ Len(t) \in Nat /\ DOMAIN t = 1 .. Len(t)
      /\ DOMAIN (s \o t) = 1 .. Len(s) + Len(t)
  BY <1>1, LenProperties
<1> QED  BY <1>1, <1>2

\* SetToSeq lists every member of a finite set.
LEMMA AllListed ==
  ASSUME NEW S, IsFiniteSet(S)
  PROVE  /\ SetToSeq(S) \in Seq(S)
         /\ \A x \in S : \E i \in DOMAIN SetToSeq(S) : SetToSeq(S)[i] = x
<1> DEFINE n == Cardinality(S)
<1>1. n \in Nat /\ ExistsBijection(1 .. n, S)  BY FS_CardinalityType
<1>2. PICK b : b \in Bijection(1 .. n, S)  BY <1>1 DEF ExistsBijection
<1>3. b \in [1 .. n -> S] /\ IsInjective(b)
  BY <1>2 DEF Bijection, Injection, Surjection, IsInjective
<1>4. SetToSeq(S) \in [1 .. n -> S] /\ IsInjective(SetToSeq(S))
  BY <1>3 DEF SetToSeq
<1>5. SetToSeq(S) \in Injection(1 .. n, S)
  BY <1>4 DEF Injection, IsInjective
<1>6. IsFiniteSet(1 .. n) /\ Cardinality(1 .. n) = n  BY <1>1, FS_Interval
<1>7. SetToSeq(S) \in Surjection(1 .. n, S)  BY <1>5, <1>6, FS_Injection
<1> HIDE DEF n
<1>8. SetToSeq(S) \in Seq(S)  BY <1>1, <1>4
<1> QED  BY <1>4, <1>7, <1>8 DEF Surjection

-----------------------------------------------------------------------------

(***************************************************************************)
(* What the tables and the process hold is of its type.                    *)
(***************************************************************************)
ChatSound == ChatTypeOK /\ RootsKnown

Kinds == {"started", "hibernated", "out"}

LEMMA KnownRoots ==
  ASSUME ChatTypeOK
  PROVE  Roots \subseteq Nat /\ Roots = 1 .. Len(owner) /\ Roots = DOMAIN log
         /\ Len(owner) \in Nat /\ IsFiniteSet(Roots)
<1>1. Len(owner) \in Nat /\ Roots = 1 .. Len(owner) /\ DOMAIN log = 1 .. Len(log)
  BY LenProperties DEF ChatTypeOK, Roots
<1>2. IsFiniteSet(Roots)  BY <1>1, FS_Interval
<1> QED  BY <1>1, <1>2 DEF ChatTypeOK

\* What the engine says comes after what it said.
LEMMA Emitted ==
  ASSUME ChatTypeOK, NEW root \in Roots, NEW kinds \in Seq(Kinds), Emit(kinds, root)
  PROVE  /\ stream' \in Seq(Event) /\ Len(stream') = Len(stream) + Len(kinds)
         /\ \A n \in DOMAIN stream : n \in DOMAIN stream' /\ n <= Len(stream) /\ stream'[n] = stream[n]
         /\ \A i \in DOMAIN kinds : /\ Len(stream) + i \in DOMAIN stream'
                                    /\ stream'[Len(stream) + i] = [kind |-> kinds[i], root |-> root]
         /\ \A n \in DOMAIN stream' : n \in DOMAIN stream \/ n - Len(stream) \in DOMAIN kinds
<1> DEFINE added == [i \in DOMAIN kinds |-> [kind |-> kinds[i], root |-> root]]
<1>1. root \in Nat  BY KnownRoots
<1>2. Len(kinds) \in Nat /\ DOMAIN kinds = 1 .. Len(kinds) /\ \A i \in DOMAIN kinds : kinds[i] \in Kinds
  BY LenProperties, ElementOfSeq
<1>3. added \in [1 .. Len(kinds) -> Event]  BY <1>1, <1>2 DEF Event, Kinds
<1>4. added \in Seq(Event) /\ DOMAIN added = DOMAIN kinds /\ Len(added) = Len(kinds)
  BY <1>2, <1>3
<1>5. stream \in Seq(Event) /\ stream' = stream \o added  BY DEF ChatTypeOK, Emit
<1>6. \A i \in DOMAIN kinds : added[i] = [kind |-> kinds[i], root |-> root]  OBVIOUS
<1> HIDE DEF added
<1>7. /\ stream \o added \in Seq(Event) /\ Len(stream \o added) = Len(stream) + Len(added)
      /\ \A n \in DOMAIN stream : n \in DOMAIN (stream \o added) /\ n <= Len(stream) /\ (stream \o added)[n] = stream[n]
      /\ \A i \in DOMAIN added : Len(stream) + i \in DOMAIN (stream \o added) /\ (stream \o added)[Len(stream) + i] = added[i]
      /\ \A n \in DOMAIN (stream \o added) : n \in DOMAIN stream \/ n - Len(stream) \in DOMAIN added
  BY <1>4, <1>5, AddAll
<1> QED  BY <1>4, <1>5, <1>6, <1>7

\* An event of the stream, old or new.
LEMMA StreamGrows ==
  ASSUME ChatSound, NEW root \in Roots, NEW kinds \in Seq(Kinds), Emit(kinds, root),
         UNCHANGED <<owner, heard>>
  PROVE  /\ stream' \in Seq(Event)
         /\ Len(stream') \in Nat /\ Len(stream) \in Nat /\ Len(stream) <= Len(stream')
         /\ heard.tap <= Len(stream') /\ heard.index <= Len(stream')
         /\ \A n \in DOMAIN stream' : stream'[n].root \in Roots
<1>1. /\ stream' \in Seq(Event) /\ Len(stream') = Len(stream) + Len(kinds)
      /\ \A n \in DOMAIN stream : n \in DOMAIN stream' /\ stream'[n] = stream[n]
      /\ \A i \in DOMAIN kinds : stream'[Len(stream) + i] = [kind |-> kinds[i], root |-> root]
      /\ \A n \in DOMAIN stream' : n \in DOMAIN stream \/ n - Len(stream) \in DOMAIN kinds
  BY Emitted DEF ChatSound
<1>2. stream \in Seq(Event) /\ heard.tap \in Nat /\ heard.index \in Nat
      /\ heard.tap <= Len(stream) /\ heard.index <= Len(stream)
  BY DEF ChatSound, ChatTypeOK
<1>3. Len(stream) \in Nat /\ Len(kinds) \in Nat /\ DOMAIN stream' = 1 .. Len(stream') /\ DOMAIN kinds = 1 .. Len(kinds)
  BY <1>1, <1>2, LenProperties
<1>4. ASSUME NEW n \in DOMAIN stream' PROVE stream'[n].root \in Roots
  <2>1. CASE n \in DOMAIN stream  BY <1>1, <2>1 DEF ChatSound, RootsKnown
  <2>2. CASE n - Len(stream) \in DOMAIN kinds
    <3>1. PICK i \in DOMAIN kinds : i = n - Len(stream)  BY <2>2
    <3>2. stream'[Len(stream) + i] = [kind |-> kinds[i], root |-> root]  BY <1>1
    <3>3. Len(stream) + i = n  BY <1>3, <3>1
    <3> QED  BY <3>2, <3>3
  <2> QED  BY <1>1, <2>1, <2>2
<1> QED  BY <1>1, <1>2, <1>3, <1>4

\* A message for the engine.
LEMMA Sent ==
  ASSUME ChatSound, NEW root \in Roots, NEW kind \in {"spawn", "resume", "prompt", "hibernate"},
         Send(kind, root), UNCHANGED owner
  PROVE  /\ inbox' \in Seq(Message) /\ Len(inbox') = Len(inbox) + 1
         /\ \A i \in DOMAIN inbox' : inbox'[i].root \in Roots
         /\ DOMAIN inbox' = (DOMAIN inbox) \cup {Len(inbox) + 1}
         /\ \A i \in DOMAIN inbox : i <= Len(inbox) /\ inbox'[i] = inbox[i]
         /\ inbox'[Len(inbox) + 1] = [kind |-> kind, root |-> root]
<1>1. [kind |-> kind, root |-> root] \in Message  BY KnownRoots DEF Message, ChatSound
<1>2. inbox \in Seq(Message)  BY DEF ChatSound, ChatTypeOK
<1>3. inbox' = Append(inbox, [kind |-> kind, root |-> root])  BY DEF Send
<1>4. /\ inbox' \in Seq(Message) /\ Len(inbox') = Len(inbox) + 1
      /\ DOMAIN inbox' = (DOMAIN inbox) \cup {Len(inbox) + 1}
      /\ \A i \in DOMAIN inbox : i <= Len(inbox) /\ inbox'[i] = inbox[i]
      /\ inbox'[Len(inbox) + 1] = [kind |-> kind, root |-> root]
  BY <1>1, <1>2, <1>3, AddLast
<1>5. \A i \in DOMAIN inbox : inbox[i].root \in Roots  BY DEF ChatSound, RootsKnown
<1> QED  BY <1>4, <1>5

\* The engine has taken its first message.
LEMMA MessageTaken ==
  ASSUME ChatSound, inbox # <<>>, inbox' = Tail(inbox), UNCHANGED owner
  PROVE  /\ Head(inbox) \in Message /\ Head(inbox) = inbox[1] /\ Head(inbox).root \in Roots
         /\ inbox' \in Seq(Message)
         /\ \A i \in DOMAIN inbox' : i + 1 \in DOMAIN inbox /\ inbox'[i] = inbox[i + 1]
         /\ \A i \in DOMAIN inbox' : inbox'[i].root \in Roots
         /\ \A i \in DOMAIN inbox : i # 1 => i - 1 \in DOMAIN inbox' /\ inbox'[i - 1] = inbox[i]
         /\ Len(inbox) \in Nat /\ DOMAIN inbox = 1 .. Len(inbox)
<1>1. inbox \in Seq(Message)  BY DEF ChatSound, ChatTypeOK
<1>2. \A i \in DOMAIN inbox : inbox[i].root \in Roots  BY DEF ChatSound, RootsKnown
<1>3. /\ Head(inbox) \in Message /\ Head(inbox) = inbox[1] /\ 1 \in DOMAIN inbox
      /\ Tail(inbox) \in Seq(Message)
      /\ \A i \in DOMAIN Tail(inbox) : i + 1 \in DOMAIN inbox /\ Tail(inbox)[i] = inbox[i + 1]
      /\ \A i \in DOMAIN inbox : i # 1 => i - 1 \in DOMAIN Tail(inbox) /\ Tail(inbox)[i - 1] = inbox[i]
  BY <1>1, TakeHead
<1> QED  BY <1>1, <1>2, <1>3, LenProperties

\* Of the records, the first fit in the channel and the others are excused.
LEMMA FirstFit ==
  ASSUME ChatSound, NEW records \in Seq(Record), Appended(records)
  PROVE  /\ backlog' \in Seq(Record) /\ Len(backlog') <= SinkCapacity
         /\ \A i \in DOMAIN backlog : i \in DOMAIN backlog' /\ i <= Len(backlog) /\ backlog'[i] = backlog[i]
         /\ \A i \in DOMAIN backlog' :
              \/ i \in DOMAIN backlog
              \/ i > Len(backlog) /\ \E j \in DOMAIN records : backlog'[i] = records[j]
         /\ \A j \in DOMAIN records :
              \/ \E i \in DOMAIN backlog' : backlog'[i] = records[j]
              \/ records[j].upto \in excused' /\ ~records[j].gap
              \/ records[j].gap /\ \A n \in OfRoot(records[j].root) : n <= records[j].upto => n \in excused'
         /\ excused \subseteq excused'
<1> DEFINE room == SinkCapacity - Len(backlog)
           k    == IF Len(records) < room THEN Len(records) ELSE room
           sent == SubSeq(records, 1, k)
           shed == (DOMAIN records) \ DOMAIN sent
           lost(i) == EventsOf(records[i])
<1>1. backlog \in Seq(Record) /\ Len(backlog) <= SinkCapacity /\ SinkCapacity \in Nat
  BY AssistantAssumption DEF ChatSound, ChatTypeOK
<1>2. /\ Len(backlog) \in Nat /\ DOMAIN backlog = 1 .. Len(backlog)
      /\ Len(records) \in Nat /\ DOMAIN records = 1 .. Len(records)
      /\ \A j \in DOMAIN records : records[j] \in Record
  BY <1>1, LenProperties, ElementOfSeq
<1>3. k \in Nat /\ k <= Len(records) /\ Len(backlog) + k <= SinkCapacity  BY <1>1, <1>2
<1> HIDE DEF k
<1>4. /\ sent \in Seq(Record) /\ Len(sent) = k /\ \A i \in 1 .. k : sent[i] = records[i]
  <2>1. \A i \in 1 .. k : records[i] \in Record  BY <1>2, <1>3
  <2>2. /\ sent \in Seq(Record) /\ Len(sent) = IF 1 <= k THEN k - 1 + 1 ELSE 0
        /\ \A i \in 1 .. k - 1 + 1 : sent[i] = records[1 + i - 1]
    BY <1>3, <2>1, SubSeqProperties
  <2>3. k - 1 + 1 = k /\ \A i \in 1 .. k : 1 + i - 1 = i  BY <1>3
  <2> QED  BY <1>3, <2>2, <2>3
<1>5. DOMAIN sent = 1 .. k  BY <1>4, LenProperties
<1>6. backlog' = backlog \o sent /\ excused' = excused \cup UNION {lost(i) : i \in shed}
  BY DEF Appended, k
<1> HIDE DEF sent
<1>7. /\ backlog \o sent \in Seq(Record) /\ Len(backlog \o sent) = Len(backlog) + Len(sent)
      /\ \A i \in DOMAIN backlog : i \in DOMAIN (backlog \o sent) /\ i <= Len(backlog) /\ (backlog \o sent)[i] = backlog[i]
      /\ \A i \in DOMAIN sent : Len(backlog) + i \in DOMAIN (backlog \o sent) /\ (backlog \o sent)[Len(backlog) + i] = sent[i]
      /\ \A i \in DOMAIN (backlog \o sent) : i \in DOMAIN backlog \/ i - Len(backlog) \in DOMAIN sent
  BY <1>1, <1>4, AddAll
<1>8. ASSUME NEW i \in DOMAIN backlog', i \notin DOMAIN backlog
      PROVE  i > Len(backlog) /\ \E j \in DOMAIN records : backlog'[i] = records[j]
  <2>1. PICK j \in DOMAIN sent : j = i - Len(backlog)  BY <1>6, <1>7, <1>8
  <2>2. j \in DOMAIN records /\ sent[j] = records[j] /\ j \in 1 .. k  BY <1>2, <1>3, <1>4, <1>5
  <2>3. DOMAIN backlog' = 1 .. Len(backlog')  BY <1>6, <1>7, LenProperties
  <2>4. Len(backlog) + j = i /\ i > Len(backlog)  BY <1>2, <2>1, <2>2, <2>3
  <2> QED  BY <1>6, <1>7, <2>2, <2>4
<1>9. ASSUME NEW j \in DOMAIN records
      PROVE  \/ \E i \in DOMAIN backlog' : backlog'[i] = records[j]
             \/ records[j].upto \in excused' /\ ~records[j].gap
             \/ records[j].gap /\ \A n \in OfRoot(records[j].root) : n <= records[j].upto => n \in excused'
  <2>1. CASE j \in DOMAIN sent  BY <1>4, <1>5, <1>6, <1>7, <2>1
  <2>2. CASE j \notin DOMAIN sent
    <3>1. lost(j) \subseteq excused'  BY <1>6, <2>2
    <3>2. CASE records[j].gap  BY <3>1, <3>2 DEF EventsOf
    <3>3. CASE ~records[j].gap  BY <3>1, <3>3 DEF EventsOf
    <3> QED  BY <3>2, <3>3
  <2> QED  BY <2>1, <2>2
<1> QED  BY <1>2, <1>3, <1>4, <1>6, <1>7, <1>8, <1>9

\* What the tap reads it records, or stands in a tombstone of its conversation.
LEMMA TapSends ==
  ASSUME ChatSound, TapRecords
  PROVE  \E next \in Nat, records \in Seq(Record) :
           /\ heard' = [heard EXCEPT !.tap = next] /\ heard.tap < next /\ next <= Len(stream)
           /\ Appended(records)
           /\ \A j \in DOMAIN records : records[j].root \in Roots /\ records[j].upto = next
           /\ \A n \in DOMAIN stream : heard.tap < n /\ n <= next =>
                \E j \in DOMAIN records : records[j].root = stream[n].root /\ (records[j].gap \/ n = next)
<1> DEFINE lagged == Len(stream) - heard.tap > Broadcast
           next   == IF lagged THEN Len(stream) - Broadcast ELSE heard.tap + 1
           heirs  == {stream[n].root : n \in 1 .. next}
           gaps   == SetToSeq(heirs)
           marks  == [i \in DOMAIN gaps |-> [root |-> gaps[i], upto |-> next, gap |-> TRUE]]
           one    == <<[root |-> stream[next].root, upto |-> next, gap |-> FALSE]>>
<1>1. /\ stream \in Seq(Event) /\ heard.tap \in Nat /\ Len(stream) \in Nat
      /\ DOMAIN stream = 1 .. Len(stream) /\ Broadcast \in Nat \ {0} /\ heard.tap < Len(stream)
  BY AssistantAssumption, LenProperties DEF ChatSound, ChatTypeOK, TapRecords
<1>2. next \in Nat /\ heard.tap < next /\ next <= Len(stream) /\ next \in DOMAIN stream  BY <1>1
<1>3. /\ heard' = [heard EXCEPT !.tap = next]
      /\ Appended(IF lagged THEN marks ELSE one)
  BY DEF TapRecords
<1>4. \A n \in DOMAIN stream : stream[n].root \in Roots  BY DEF ChatSound, RootsKnown
<1>5. Roots \subseteq Nat /\ IsFiniteSet(Roots)  BY KnownRoots DEF ChatSound
<1> HIDE DEF next
<1>6. CASE lagged
  <2>1. heirs \subseteq Roots  BY <1>1, <1>2, <1>4
  <2>2. IsFiniteSet(heirs)  BY <1>5, <2>1, FS_Subset
  <2> HIDE DEF heirs
  <2>3. gaps \in Seq(heirs) /\ \A x \in heirs : \E i \in DOMAIN gaps : gaps[i] = x
    BY <2>2, AllListed
  <2> HIDE DEF gaps
  <2>4. Len(gaps) \in Nat /\ DOMAIN gaps = 1 .. Len(gaps) /\ \A i \in DOMAIN gaps : gaps[i] \in Roots
    BY <2>1, <2>3, LenProperties, ElementOfSeq
  <2>5. marks \in [1 .. Len(gaps) -> Record] /\ DOMAIN marks = DOMAIN gaps
    BY <1>2, <1>5, <2>4 DEF Record
  <2>6. marks \in Seq(Record)  BY <2>4, <2>5
  <2>7. \A j \in DOMAIN marks : marks[j].root = gaps[j] /\ marks[j].upto = next /\ marks[j].gap
    OBVIOUS
  <2>8. ASSUME NEW n \in DOMAIN stream, n <= next
        PROVE  \E j \in DOMAIN marks : marks[j].root = stream[n].root /\ marks[j].gap
    <3>1. stream[n].root \in heirs  BY <1>1, <1>2, <2>8 DEF heirs
    <3>2. PICK j \in DOMAIN gaps : gaps[j] = stream[n].root  BY <2>3, <3>1
    <3> QED  BY <2>5, <2>7, <3>2
  <2>9. Appended(marks)  BY <1>3, <1>6
  <2> HIDE DEF marks, lagged
  <2>10. \A j \in DOMAIN marks : marks[j].root \in Roots /\ marks[j].upto = next
    BY <2>4, <2>5, <2>7
  <2>11. \A n \in DOMAIN stream : heard.tap < n /\ n <= next =>
           \E j \in DOMAIN marks : marks[j].root = stream[n].root /\ (marks[j].gap \/ n = next)
    BY <2>8
  <2> QED  BY <1>2, <1>3, <2>6, <2>9, <2>10, <2>11
<1>7. CASE ~lagged
  <2> DEFINE rec == [root |-> stream[next].root, upto |-> next, gap |-> FALSE]
  <2>1. next = heard.tap + 1  BY <1>7 DEF next
  <2>2. rec \in Record /\ rec.root = stream[next].root /\ rec.root \in Roots /\ rec.upto = next
    BY <1>2, <1>4, <1>5 DEF Record
  <2>3. Appended(<<rec>>)  BY <1>3, <1>7
  <2> HIDE DEF rec, lagged
  <2>4. <<rec>> \in Seq(Record) /\ DOMAIN <<rec>> = {1} /\ <<rec>>[1] = rec  BY <2>2
  <2>5. \A n \in DOMAIN stream : heard.tap < n /\ n <= next => n = next  BY <1>1, <2>1
  <2> QED  BY <1>2, <1>3, <2>2, <2>3, <2>4, <2>5
<1> QED  BY <1>6, <1>7

Steps == {"spawn", "load", "mark", "hibernate", "events", "row"}

\* A handler between its statements, and the others where they were.
CallIs(c, pc, root) ==
  /\ chatCall' \in [ChatClients -> ChatCalls \cup {NoChatCall}]
  /\ chatCall'[c] = [pc |-> pc, root |-> root] /\ chatCall'[c] # NoChatCall
  /\ \A d \in ChatClients \ {c} : chatCall'[d] = chatCall[d]

CallEnds(c) ==
  /\ chatCall' \in [ChatClients -> ChatCalls \cup {NoChatCall}]
  /\ chatCall'[c] = NoChatCall
  /\ \A d \in ChatClients \ {c} : chatCall'[d] = chatCall[d]

LEMMA Proceeded ==
  ASSUME ChatSound, NEW c \in ChatClients, NEW was, Waiting(c, was), NEW pc \in Steps, Proceed(c, pc)
  PROVE  CallIs(c, pc, chatCall[c].root) /\ chatCall[c].root \in Roots
<1> DEFINE next == [pc |-> pc, root |-> chatCall[c].root]
<1>1. chatCall \in [ChatClients -> ChatCalls \cup {NoChatCall}] /\ chatCall[c] # NoChatCall
  BY DEF ChatSound, ChatTypeOK, Waiting
<1>2. chatCall[c] \in ChatCalls  BY <1>1
<1>3. next \in ChatCalls /\ next # NoChatCall
  BY <1>2, AssistantAssumption DEF ChatCalls, Steps
<1>4. [chatCall[c] EXCEPT !.pc = pc] = next  BY <1>2 DEF ChatCalls
<1>5. chatCall' = [chatCall EXCEPT ![c] = next]  BY <1>1, <1>4 DEF Proceed
<1> HIDE DEF next
<1>6. chatCall' \in [ChatClients -> ChatCalls \cup {NoChatCall}] /\ chatCall'[c] = next
      /\ \A d \in ChatClients \ {c} : chatCall'[d] = chatCall[d]
  BY <1>1, <1>3, <1>5
<1>7. chatCall[c].root \in Roots  BY <1>1 DEF ChatSound, RootsKnown
<1> QED  BY <1>3, <1>6, <1>7 DEF CallIs, next

LEMMA Replied ==
  ASSUME ChatSound, NEW c \in ChatClients, Reply(c)
  PROVE  CallEnds(c)
BY DEF ChatSound, ChatTypeOK, Reply, CallEnds

LEMMA Accepted ==
  ASSUME ChatSound, NEW c \in ChatClients, NEW pc \in Steps, NEW root \in Nat, Accept(c, pc, root)
  PROVE  CallIs(c, pc, root) /\ chatCall[c] = NoChatCall
<1> DEFINE next == [pc |-> pc, root |-> root]
<1>1. next \in ChatCalls /\ next # NoChatCall  BY AssistantAssumption DEF ChatCalls, Steps
<1>2. chatCall \in [ChatClients -> ChatCalls \cup {NoChatCall}]  BY DEF ChatSound, ChatTypeOK
<1>3. chatCall' = [chatCall EXCEPT ![c] = next] /\ chatCall[c] = NoChatCall  BY DEF Accept
<1> HIDE DEF next
<1>4. chatCall' \in [ChatClients -> ChatCalls \cup {NoChatCall}] /\ chatCall'[c] = next
      /\ \A d \in ChatClients \ {c} : chatCall'[d] = chatCall[d]
  BY <1>1, <1>2, <1>3
<1> QED  BY <1>1, <1>3, <1>4 DEF CallIs, next

\* The handlers' conversations are known, after a step that goes on or ends one.
LEMMA CallsKnown ==
  ASSUME ChatSound, NEW c \in ChatClients, NEW pc, NEW root, Roots \subseteq Roots',
         (CallIs(c, pc, root) /\ root \in Roots') \/ CallEnds(c)
  PROVE  /\ chatCall' \in [ChatClients -> ChatCalls \cup {NoChatCall}]
         /\ \A d \in ChatClients : chatCall'[d] # NoChatCall => chatCall'[d].root \in Roots'
<1>1. \A d \in ChatClients : chatCall[d] # NoChatCall => chatCall[d].root \in Roots
  BY DEF ChatSound, RootsKnown
<1>2. CASE CallIs(c, pc, root) /\ root \in Roots'
  <2>1. chatCall'[c].root = root  BY <1>2 DEF CallIs
  <2> QED  BY <1>1, <1>2, <2>1 DEF CallIs
<1>3. CASE CallEnds(c)  BY <1>1, <1>3 DEF CallEnds
<1> QED  BY <1>2, <1>3

LEMMA ChatSoundInit == AssistantInit => ChatSound
<1> SUFFICES ASSUME AssistantInit PROVE ChatSound  OBVIOUS
<1> USE DEF AssistantInit
<1>1. <<>> \in Seq(ChatUsers) /\ <<>> \in Seq(SUBSET LogRow) /\ <<>> \in Seq(Message)
      /\ <<>> \in Seq(Event) /\ <<>> \in Seq(Record) /\ Len(<<>>) = 0 /\ DOMAIN <<>> = {}
  BY EmptySeq
<1>2. heard.tap = 0 /\ heard.index = 0 /\ heard \in [tap : Nat, index : Nat]  OBVIOUS
<1>3. ChatTypeOK  BY <1>1, <1>2, AssistantAssumption DEF ChatTypeOK
<1>4. RootsKnown  BY <1>1 DEF RootsKnown
<1> QED  BY <1>3, <1>4 DEF ChatSound

\* What stands if the tables, the stream and the two subscribers do.
Base == <<owner, log, stream, heard, backlog, nextOrd>>

LEMMA BaseStays ==
  ASSUME ChatSound, UNCHANGED Base
  PROVE  /\ Roots' = Roots
         /\ owner' \in Seq(ChatUsers) /\ log' \in Seq(SUBSET LogRow) /\ Len(log') = Len(owner')
         /\ stream' \in Seq(Event)
         /\ heard' \in [tap : Nat, index : Nat] /\ heard'.tap <= Len(stream') /\ heard'.index <= Len(stream')
         /\ backlog' \in Seq(Record) /\ Len(backlog') <= SinkCapacity
         /\ \A root \in DOMAIN nextOrd' : nextOrd'[root] \in Nat
         /\ \A n \in DOMAIN stream' : stream'[n].root \in Roots'
         /\ \A i \in DOMAIN backlog' : backlog'[i].root \in Roots'
BY DEF ChatSound, ChatTypeOK, RootsKnown, Base, Roots

Inbox(box) == box \in Seq(Message) /\ \A i \in DOMAIN box : box[i].root \in Roots
Calls(call) ==
  /\ call \in [ChatClients -> ChatCalls \cup {NoChatCall}]
  /\ \A c \in ChatClients : call[c] # NoChatCall => call[c].root \in Roots

LEMMA SoundNow ==
  ASSUME ChatSound
  PROVE  Inbox(inbox) /\ Calls(chatCall) /\ index \cup live \cup memory \subseteq Roots
BY DEF ChatSound, ChatTypeOK, RootsKnown, Inbox, Calls

LEMMA SoundIf ==
  ASSUME ChatSound, UNCHANGED Base, Inbox(inbox'), Calls(chatCall'),
         index' \cup live' \cup memory' \subseteq Roots
  PROVE  ChatSound'
BY BaseStays DEF ChatSound, ChatTypeOK, RootsKnown, Inbox, Calls

LEMMA SoundHandlers ==
  ASSUME ChatSound, NEW c \in ChatClients, NEW u \in ChatUsers, NEW opened \in Roots,
         \/ SpawnSession(c) \/ LoadRecords(c) \/ MarkLive(c) \/ HibernateSession(c) \/ DeleteRow(c)
         \/ OpenChat(c, u, opened) \/ DeleteChat(c, u, opened) \/ PromptChat(c, u, opened)
  PROVE  ChatSound'
<1> DEFINE root == chatCall[c].root
<1>1. Inbox(inbox) /\ Calls(chatCall) /\ index \cup live \cup memory \subseteq Roots  BY SoundNow
<1>2. Roots \subseteq Nat  BY KnownRoots DEF ChatSound
<1>3. ASSUME NEW r \in Roots, NEW kind \in {"spawn", "resume", "prompt", "hibernate"}, Send(kind, r), UNCHANGED owner
      PROVE  Inbox(inbox')
  BY <1>3, Sent DEF Inbox
<1>4. ASSUME NEW was, Waiting(c, was), NEW pc \in Steps, Proceed(c, pc), UNCHANGED owner
      PROVE  Calls(chatCall')
  <2>1. CallIs(c, pc, root) /\ root \in Roots  BY <1>4, Proceeded
  <2> QED  BY <2>1, <1>4, CallsKnown DEF Calls, Roots
<1>5. ASSUME Reply(c), UNCHANGED owner
      PROVE  Calls(chatCall')
  <2>1. CallEnds(c)  BY <1>5, Replied
  <2> QED  BY <2>1, <1>5, CallsKnown DEF Calls, Roots
<1>6. ASSUME NEW pc \in Steps, Accept(c, pc, opened), UNCHANGED owner
      PROVE  Calls(chatCall')
  <2>1. CallIs(c, pc, opened)  BY <1>2, <1>6, Accepted
  <2> QED  BY <2>1, <1>6, CallsKnown DEF Calls, Roots
<1>7. ASSUME NEW was, Waiting(c, was) PROVE root \in Roots
  BY <1>1, <1>7 DEF Waiting, Calls
<1> HIDE DEF root
<1>8. CASE SpawnSession(c)
  <2>1. /\ Waiting(c, "spawn") /\ Send("spawn", root) /\ Reply(c) /\ UNCHANGED Base
        /\ UNCHANGED <<index, memory>> /\ live' = live \cup {root}
    BY <1>8 DEF SpawnSession, root, EngineAside, tables, Base
  <2>2. UNCHANGED owner  BY <2>1 DEF Base
  <2> QED  BY <1>1, <1>3, <1>5, <1>7, <2>1, <2>2, SoundIf
<1>9. CASE LoadRecords(c)
  <2>1. Waiting(c, "load") /\ UNCHANGED Base /\ UNCHANGED <<owner, index, memory, live>>
    BY <1>9 DEF LoadRecords, EngineAside, tables, Base
  <2>2. CASE Reply(c) /\ UNCHANGED inbox
    BY <1>1, <1>5, <2>1, <2>2, SoundIf
  <2>3. CASE Send("resume", root) /\ Proceed(c, "mark")
    <3>1. Inbox(inbox')  BY <1>3, <1>7, <2>1, <2>3
    <3>2. Calls(chatCall')  BY <1>4, <2>1, <2>3 DEF Steps
    <3> QED  BY <1>1, <2>1, <3>1, <3>2, SoundIf
  <2> QED  BY <1>9, <2>2, <2>3 DEF LoadRecords, root
<1>10. CASE MarkLive(c)
  <2>1. /\ Waiting(c, "mark") /\ Reply(c) /\ UNCHANGED Base
        /\ UNCHANGED <<owner, index, memory, inbox>> /\ live' = live \cup {root}
    BY <1>10 DEF MarkLive, root, EngineAside, tables, Base
  <2> QED  BY <1>1, <1>5, <1>7, <2>1, SoundIf
<1>11. CASE HibernateSession(c)
  <2>1. /\ Waiting(c, "hibernate") /\ Proceed(c, "events") /\ UNCHANGED Base
        /\ UNCHANGED <<owner, index, memory, live>> /\ (Send("hibernate", root) \/ UNCHANGED inbox)
    BY <1>11 DEF HibernateSession, root, tables, Base
  <2>2. Calls(chatCall')  BY <1>4, <2>1 DEF Steps
  <2>3. Inbox(inbox')  BY <1>1, <1>3, <1>7, <2>1
  <2> QED  BY <1>1, <2>1, <2>2, <2>3, SoundIf
<1>12. CASE DeleteRow(c)
  <2>1. /\ Reply(c) /\ UNCHANGED Base /\ UNCHANGED <<owner, memory, inbox>>
        /\ index' \subseteq index /\ live' \subseteq live
    BY <1>12 DEF DeleteRow, EngineAside, Base
  <2> QED  BY <1>1, <1>5, <2>1, SoundIf
<1>13. CASE OpenChat(c, u, opened)
  <2>1. Accept(c, "load", opened) /\ UNCHANGED Base /\ UNCHANGED <<owner, index, memory, live, inbox>>
    BY <1>13 DEF OpenChat, Accept, tables, process, Base
  <2>2. Calls(chatCall')  BY <1>6, <2>1 DEF Steps
  <2> QED  BY <1>1, <2>1, <2>2, SoundIf
<1>14. CASE DeleteChat(c, u, opened)
  <2>1. Accept(c, "hibernate", opened) /\ UNCHANGED Base /\ UNCHANGED <<owner, index, memory, live, inbox>>
    BY <1>14 DEF DeleteChat, Accept, tables, process, Base
  <2>2. Calls(chatCall')  BY <1>6, <2>1 DEF Steps
  <2> QED  BY <1>1, <2>1, <2>2, SoundIf
<1>15. CASE PromptChat(c, u, opened)
  <2>1. Send("prompt", opened) /\ UNCHANGED Base /\ UNCHANGED <<owner, index, memory, live, chatCall>>
    BY <1>15 DEF PromptChat, tables, Base
  <2>2. Inbox(inbox')  BY <1>3, <2>1
  <2> QED  BY <1>1, <2>1, <2>2, SoundIf
<1> QED  BY <1>8, <1>9, <1>10, <1>11, <1>12, <1>13, <1>14, <1>15

\* The kinds of events a message or an idle session makes.
LEMMA SaidKinds ==
  /\ <<"hibernated">> \in Seq(Kinds) /\ Len(<<"hibernated">>) = 1 /\ DOMAIN <<"hibernated">> = {1}
  /\ <<"out">> \in Seq(Kinds) /\ Len(<<"out">>) = 1 /\ DOMAIN <<"out">> = {1}
  /\ <<"started", "out">> \in Seq(Kinds) /\ Len(<<"started", "out">>) = 2 /\ DOMAIN <<"started", "out">> = {1, 2}
  /\ <<>> \in Seq(Kinds) /\ Len(<<>>) = 0 /\ DOMAIN <<>> = {}
BY DEF Kinds

LEMMA EngineSays ==
  ASSUME ChatSound, EngineTakes
  PROVE  \E kinds \in Seq(Kinds) :
           /\ Emit(kinds, Head(inbox).root) /\ Head(inbox).root \in Roots
           /\ memory' \subseteq memory \cup {Head(inbox).root}
           /\ inbox # <<>> /\ inbox' = Tail(inbox)
           /\ UNCHANGED <<tables, registered, live, heard, backlog, nextOrd, chatCall, chatHistory>>
<1>1. inbox # <<>> /\ inbox' = Tail(inbox)
      /\ UNCHANGED <<tables, registered, live, heard, backlog, nextOrd, chatCall, chatHistory>>
  BY DEF EngineTakes
<1>2. UNCHANGED owner  BY <1>1 DEF tables
<1>3. Head(inbox).root \in Roots  BY <1>1, <1>2, MessageTaken
<1>4. \E kinds \in Seq(Kinds) : Emit(kinds, Head(inbox).root)
  BY SaidKinds DEF EngineTakes
<1>5. memory' \subseteq memory \cup {Head(inbox).root}  BY DEF EngineTakes
<1> QED  BY <1>1, <1>3, <1>4, <1>5

LEMMA SoundEngine ==
  ASSUME ChatSound, EngineTakes \/ \E root \in memory : EngineIdles(root)
  PROVE  ChatSound'
<1>1. Inbox(inbox) /\ Calls(chatCall) /\ index \cup live \cup memory \subseteq Roots  BY SoundNow
<1>2. ASSUME NEW root \in Roots, NEW kinds \in Seq(Kinds), Emit(kinds, root),
             Inbox(inbox'), memory' \subseteq memory \cup {root},
             UNCHANGED <<tables, registered, live, heard, backlog, nextOrd, chatCall>>
      PROVE  ChatSound'
  <2>1. UNCHANGED <<owner, index, log, live, heard, backlog, nextOrd, chatCall>>  BY <1>2 DEF tables
  <2>2. /\ stream' \in Seq(Event)
        /\ heard.tap <= Len(stream') /\ heard.index <= Len(stream')
        /\ \A n \in DOMAIN stream' : stream'[n].root \in Roots
    BY <1>2, <2>1, StreamGrows
  <2>3. ChatTypeOK'  BY <1>2, <2>1, <2>2 DEF ChatSound, ChatTypeOK, Inbox
  <2>4. RootsKnown'  BY <1>1, <1>2, <2>1, <2>2 DEF ChatSound, RootsKnown, Inbox, Roots
  <2> QED  BY <2>3, <2>4 DEF ChatSound
<1>3. CASE EngineTakes
  <2>1. UNCHANGED owner  BY EngineSays, <1>3 DEF tables
  <2>2. Inbox(inbox')  BY EngineSays, <1>3, <2>1, MessageTaken DEF Inbox
  <2> QED  BY EngineSays, <1>2, <1>3, <2>2
<1>4. ASSUME NEW root \in memory, EngineIdles(root) PROVE ChatSound'
  <2>1. root \in Roots  BY <1>1
  <2>2. Emit(<<"hibernated">>, root) /\ memory' \subseteq memory /\ UNCHANGED inbox
        /\ UNCHANGED <<tables, registered, live, heard, backlog, nextOrd, chatCall>>
    BY <1>4 DEF EngineIdles
  <2>3. Inbox(inbox')  BY <1>1, <2>2
  <2>4. memory' \subseteq memory \cup {root}  BY <2>2
  <2> QED  BY <1>2, <2>1, <2>2, <2>3, <2>4, SaidKinds
<1> QED  BY <1>3, <1>4

(***************************************************************************)
(* The log.                                                                *)
(***************************************************************************)
\* What the engine's next events and the index subscriber do not touch.
Logged == <<owner, log, backlog, nextOrd, excused>>

\* The tables and the queue stand, the stream only grows, the tap waits.
LEMMA LogStays ==
  ASSUME ChatSound, LogFaithful, UNCHANGED Logged, heard'.tap = heard.tap, stream' \in Seq(Event),
         \A n \in DOMAIN stream' : n > Len(stream) \/ (n \in DOMAIN stream /\ stream'[n] = stream[n])
  PROVE  LogFaithful'
<1>1. UNCHANGED <<owner, log, backlog, nextOrd, excused>> /\ Roots' = Roots
  BY DEF Logged, Roots
<1>2. Queued'  BY <1>1 DEF LogFaithful, Queued
<1>3. ASSUME NEW root \in Roots PROVE Numbered(root)'  BY <1>1 DEF LogFaithful, Numbered
<1>4. ASSUME NEW root \in Roots, NEW n \in DOMAIN stream', stream'[n].root = root
      PROVE  Told(root, n)'
  <2>1. CASE n > Len(stream)
    <3>1. heard.tap \in Nat /\ heard.tap <= Len(stream) /\ Len(stream) \in Nat /\ n \in Int
      <4>1. stream \in Seq(Event) /\ heard.tap \in Nat /\ heard.tap <= Len(stream)
        BY DEF ChatSound, ChatTypeOK
      <4>2. Len(stream) \in Nat /\ DOMAIN stream' = 1 .. Len(stream')  BY <4>1, LenProperties
      <4> QED  BY <4>1, <4>2
    <3> QED  BY <2>1, <3>1 DEF Told
  <2>2. CASE n \in DOMAIN stream /\ stream'[n] = stream[n]
    <3>1. Told(root, n)  BY <1>4, <2>2 DEF LogFaithful, OfRoot
    <3> QED  BY <1>1, <3>1 DEF Told, Tells
  <2> QED  BY <1>4, <2>1, <2>2
<1>5. \A root \in Roots' : Numbered(root)' /\ \A n \in OfRoot(root)' : Told(root, n)'
  BY <1>1, <1>3, <1>4 DEF OfRoot
<1> QED  BY <1>2, <1>5 DEF LogFaithful

LEMMA LogEngine ==
  ASSUME ChatSound, LogFaithful, EngineTakes \/ \E root \in memory : EngineIdles(root)
  PROVE  LogFaithful'
<1>1. ASSUME NEW root \in Roots, NEW kinds \in Seq(Kinds), Emit(kinds, root),
             UNCHANGED Logged, UNCHANGED heard
      PROVE  LogFaithful'
  <2>1. /\ stream' \in Seq(Event)
        /\ \A n \in DOMAIN stream : n \in DOMAIN stream' /\ stream'[n] = stream[n]
        /\ \A n \in DOMAIN stream' : n \in DOMAIN stream \/ n - Len(stream) \in DOMAIN kinds
    BY <1>1, Emitted DEF ChatSound
  <2>2. Len(stream) \in Nat /\ DOMAIN stream' = 1 .. Len(stream') /\ DOMAIN kinds = 1 .. Len(kinds)
    BY <2>1, LenProperties DEF ChatSound, ChatTypeOK
  <2>3. ASSUME NEW n \in DOMAIN stream'
        PROVE  n > Len(stream) \/ (n \in DOMAIN stream /\ stream'[n] = stream[n])
    <3>1. CASE n \in DOMAIN stream  BY <2>1, <3>1
    <3>2. CASE n - Len(stream) \in DOMAIN kinds  BY <2>2, <3>2
    <3> QED  BY <2>1, <3>1, <3>2
  <2> QED  BY <1>1, <2>1, <2>3, LogStays
<1>2. CASE EngineTakes
  <2>1. PICK kinds \in Seq(Kinds) :
           /\ Emit(kinds, Head(inbox).root) /\ Head(inbox).root \in Roots
           /\ UNCHANGED <<tables, registered, live, heard, backlog, nextOrd, chatCall, chatHistory>>
    BY <1>2, EngineSays
  <2> QED  BY <1>1, <2>1 DEF tables, chatHistory, Logged
<1>3. ASSUME NEW root \in memory, EngineIdles(root) PROVE LogFaithful'
  <2>1. root \in Roots  BY SoundNow
  <2>2. Emit(<<"hibernated">>, root) /\ UNCHANGED Logged /\ UNCHANGED heard
    BY <1>3 DEF EngineIdles, tables, Logged
  <2> QED  BY <1>1, <2>1, <2>2, SaidKinds
<1> QED  BY <1>2, <1>3

LEMMA LogHandlers ==
  ASSUME ChatSound, LogFaithful, NEW c \in ChatClients, NEW u \in ChatUsers, NEW opened \in Roots,
         \/ SpawnSession(c) \/ LoadRecords(c) \/ MarkLive(c) \/ HibernateSession(c) \/ DeleteRow(c)
         \/ OpenChat(c, u, opened) \/ DeleteChat(c, u, opened) \/ PromptChat(c, u, opened)
  PROVE  LogFaithful'
<1>1. UNCHANGED Logged /\ UNCHANGED <<heard, stream>>
  BY DEF SpawnSession, LoadRecords, MarkLive, HibernateSession, DeleteRow, OpenChat, DeleteChat, PromptChat,
         Accept, EngineAside, tables, process, chatHistory, Logged
<1> QED  BY <1>1, LogStays DEF ChatSound, ChatTypeOK

LEMMA SoundTap ==
  ASSUME ChatSound, TapRecords
  PROVE  ChatSound'
<1>1. PICK next \in Nat, records \in Seq(Record) :
           /\ heard' = [heard EXCEPT !.tap = next] /\ next <= Len(stream)
           /\ Appended(records)
           /\ \A j \in DOMAIN records : records[j].root \in Roots
  BY TapSends
<1>2. UNCHANGED <<owner, index, log, registered, live, inbox, memory, nextOrd, stream, chatCall>> /\ Roots' = Roots
  BY DEF TapRecords, tables, Roots
<1>3. /\ backlog' \in Seq(Record) /\ Len(backlog') <= SinkCapacity
      /\ \A i \in DOMAIN backlog : backlog'[i] = backlog[i]
      /\ \A i \in DOMAIN backlog' :
           i \in DOMAIN backlog \/ \E j \in DOMAIN records : backlog'[i] = records[j]
  BY <1>1, FirstFit
<1>4. /\ heard' \in [tap : Nat, index : Nat] /\ heard'.tap = next /\ heard'.index = heard.index
  BY <1>1 DEF ChatSound, ChatTypeOK
<1>5. ChatTypeOK'  BY <1>1, <1>2, <1>3, <1>4 DEF ChatSound, ChatTypeOK
<1>6. \A i \in DOMAIN backlog' : backlog'[i].root \in Roots
  BY <1>1, <1>3 DEF ChatSound, RootsKnown
<1>7. RootsKnown'  BY <1>2, <1>6 DEF ChatSound, RootsKnown
<1> QED  BY <1>5, <1>7 DEF ChatSound

\* What the tap has read is on its way, or excused, in the order it was said.
LEMMA LogTap ==
  ASSUME ChatSound, LogFaithful, TapRecords
  PROVE  LogFaithful'
<1>1. PICK next \in Nat, records \in Seq(Record) :
           /\ heard' = [heard EXCEPT !.tap = next] /\ heard.tap < next /\ next <= Len(stream)
           /\ Appended(records)
           /\ \A j \in DOMAIN records : records[j].root \in Roots /\ records[j].upto = next
           /\ \A n \in DOMAIN stream : heard.tap < n /\ n <= next =>
                \E j \in DOMAIN records : records[j].root = stream[n].root /\ (records[j].gap \/ n = next)
  BY TapSends
<1>2. UNCHANGED <<owner, index, log, nextOrd, stream>> /\ Roots' = Roots
  BY DEF TapRecords, tables, Roots
<1>3. /\ backlog' \in Seq(Record)
      /\ \A i \in DOMAIN backlog : i \in DOMAIN backlog' /\ i <= Len(backlog) /\ backlog'[i] = backlog[i]
      /\ \A i \in DOMAIN backlog' :
           i \in DOMAIN backlog \/ (i > Len(backlog) /\ \E j \in DOMAIN records : backlog'[i] = records[j])
      /\ \A j \in DOMAIN records :
              \/ \E i \in DOMAIN backlog' : backlog'[i] = records[j]
              \/ records[j].upto \in excused' /\ ~records[j].gap
              \/ records[j].gap /\ \A n \in OfRoot(records[j].root) : n <= records[j].upto => n \in excused'
      /\ excused \subseteq excused'
  BY <1>1, FirstFit
<1>4. heard'.tap = next /\ heard.tap \in Nat
  BY <1>1 DEF ChatSound, ChatTypeOK
<1>5. /\ backlog \in Seq(Record) /\ Len(backlog) \in Nat /\ DOMAIN backlog = 1 .. Len(backlog)
      /\ DOMAIN backlog' = 1 .. Len(backlog')
      /\ \A i \in DOMAIN backlog : backlog[i].upto \in Nat
  <2>1. backlog \in Seq(Record)  BY DEF ChatSound, ChatTypeOK
  <2>2. /\ Len(backlog) \in Nat /\ DOMAIN backlog = 1 .. Len(backlog)
        /\ \A i \in DOMAIN backlog : backlog[i] \in Record
    BY <2>1, LenProperties, ElementOfSeq
  <2>3. DOMAIN backlog' = 1 .. Len(backlog')  BY <1>3, LenProperties
  <2> QED  BY <2>1, <2>2, <2>3 DEF Record
<1>6. \A root \in Roots : \A x \in log[root] : x.upto \in Nat
  BY LenProperties, ElementOfSeq DEF ChatSound, ChatTypeOK, LogRow, Roots
<1>7. ASSUME NEW i \in DOMAIN backlog'
      PROVE  \/ i \in DOMAIN backlog /\ backlog'[i] = backlog[i] /\ backlog'[i].upto <= heard.tap
             \/ i > Len(backlog) /\ backlog'[i].upto = next
  BY <1>1, <1>3 DEF LogFaithful, Queued
<1>8. Queued'
  <2>1. ASSUME NEW i \in DOMAIN backlog', NEW j \in DOMAIN backlog', i <= j
        PROVE  backlog'[i].upto <= backlog'[j].upto
    <3>1. CASE j \in DOMAIN backlog
      <4>1. i \in DOMAIN backlog  BY <1>5, <2>1, <3>1
      <4> QED  BY <1>3, <2>1, <3>1, <4>1 DEF LogFaithful, Queued
    <3>2. CASE j \notin DOMAIN backlog
      <4>1. backlog'[j].upto = next  BY <1>7, <3>2
      <4>2. backlog'[i].upto <= next  BY <1>1, <1>4, <1>5, <1>7
      <4> QED  BY <4>1, <4>2
    <3> QED  BY <3>1, <3>2
  <2>2. \A i \in DOMAIN backlog' : backlog'[i].upto <= next  BY <1>1, <1>4, <1>5, <1>7
  <2>3. ASSUME NEW root \in Roots, NEW x \in log[root]
        PROVE  x.upto <= next /\ \A i \in DOMAIN backlog' : x.upto <= backlog'[i].upto
    <3>1. x.upto <= heard.tap /\ \A i \in DOMAIN backlog : x.upto <= backlog[i].upto
      BY <2>3 DEF LogFaithful, Queued
    <3>2. x.upto \in Nat /\ x.upto <= next  BY <1>1, <1>4, <1>6, <3>1
    <3> QED  BY <1>7, <3>1, <3>2
  <2> QED  BY <1>2, <1>4, <2>1, <2>2, <2>3 DEF Queued
<1>9. ASSUME NEW root \in Roots PROVE Numbered(root)'  BY <1>2 DEF LogFaithful, Numbered
<1>10. ASSUME NEW root \in Roots, NEW n \in DOMAIN stream, stream[n].root = root
       PROVE  Told(root, n)'
  <2>1. n \in Nat  BY LenProperties DEF ChatSound, ChatTypeOK
  <2>2. CASE n > next  BY <1>4, <2>2 DEF Told
  <2>3. CASE n <= heard.tap
    <3>1. Told(root, n) /\ ~(n > heard.tap)  BY <1>4, <1>10, <2>1, <2>3 DEF LogFaithful, OfRoot
    <3> QED  BY <1>2, <1>3, <3>1 DEF Told, Tells
  <2>4. CASE heard.tap < n /\ n <= next
    <3>1. PICK j \in DOMAIN records : records[j].root = root /\ (records[j].gap \/ n = next)
      BY <1>1, <1>10, <2>4
    <3>2. records[j].upto = next  BY <1>1
    <3>3. CASE \E i \in DOMAIN backlog' : backlog'[i] = records[j]
      BY <2>4, <3>1, <3>2, <3>3 DEF Told, Tells
    <3>4. CASE records[j].upto \in excused' /\ ~records[j].gap  BY <3>1, <3>2, <3>4 DEF Told
    <3>5. CASE \A m \in OfRoot(root) : m <= next => m \in excused'
      BY <1>10, <2>4, <3>5 DEF Told, OfRoot
    <3> QED  BY <1>3, <3>1, <3>2, <3>3, <3>4, <3>5
  <2> QED  BY <1>1, <1>4, <2>1, <2>2, <2>3, <2>4
<1> QED  BY <1>2, <1>8, <1>9, <1>10 DEF LogFaithful, OfRoot

\* A row past the last.
LEMMA NextIsLast ==
  ASSUME ChatSound, LogFaithful, NEW root \in Roots
  PROVE  NextOrd(root) \in Nat /\ \A x \in log[root] : x.ord \in Nat /\ x.ord < NextOrd(root)
<1>1. log[root] \subseteq LogRow
  BY KnownRoots, LenProperties, ElementOfSeq DEF ChatSound, ChatTypeOK
<1>2. \A x \in log[root] : x.ord \in Nat  BY <1>1 DEF LogRow
<1>3. Numbered(root)  BY DEF LogFaithful
<1>4. CASE root \in DOMAIN nextOrd
  <2>1. nextOrd[root] \in Nat  BY <1>4 DEF ChatSound, ChatTypeOK
  <2>2. \A x \in log[root] : x.ord < nextOrd[root]  BY <1>3, <1>4 DEF Numbered
  <2> QED  BY <1>2, <1>4, <2>1, <2>2 DEF NextOrd
<1>5. CASE root \notin DOMAIN nextOrd
  <2>1. NextOrd(root) = SeedOrd(root)  BY <1>5 DEF NextOrd
  <2>2. CASE log[root] = {}  BY <2>1, <2>2 DEF SeedOrd
  <2>3. CASE log[root] # {}
    <3>1. \E r \in log[root] : \A x \in log[root] : x.ord <= r.ord  BY <1>3, <2>3 DEF Numbered
    <3>2. LastRow(log[root]) \in log[root] /\ \A x \in log[root] : x.ord <= LastRow(log[root]).ord
      BY <3>1 DEF LastRow
    <3>3. SeedOrd(root) = LastRow(log[root]).ord + 1  BY <2>3 DEF SeedOrd
    <3> QED  BY <1>2, <2>1, <3>2, <3>3
  <2> QED  BY <2>2, <2>3
<1> QED  BY <1>4, <1>5

\* The writer takes the first record: its number was free.
LEMMA Stored ==
  ASSUME ChatSound, LogFaithful, WriterStores
  PROVE  \E r \in Record, ord \in Nat :
           /\ backlog # <<>> /\ r = Head(backlog) /\ r = backlog[1] /\ 1 \in DOMAIN backlog /\ r.root \in Roots
           /\ \A x \in log[r.root] : x.ord \in Nat /\ x.ord < ord
           /\ log' = [log EXCEPT ![r.root] = @ \cup {[ord |-> ord, upto |-> r.upto, gap |-> r.gap]}]
           /\ nextOrd' = [x \in DOMAIN nextOrd \cup {r.root} |-> IF x = r.root THEN ord + 1 ELSE nextOrd[x]]
           /\ backlog' = Tail(backlog)
           /\ UNCHANGED <<owner, index, registered, live, inbox, memory, heard, stream, chatCall, chatHistory>>
<1> DEFINE r == Head(backlog)
           ord == NextOrd(r.root)
<1>1. /\ backlog # <<>> /\ backlog' = Tail(backlog)
      /\ UNCHANGED <<owner, index, registered, live, inbox, memory, heard, stream, chatCall, chatHistory>>
  BY DEF WriterStores
<1>2. backlog \in Seq(Record)  BY DEF ChatSound, ChatTypeOK
<1>3. r \in Record /\ r = backlog[1] /\ 1 \in DOMAIN backlog  BY <1>1, <1>2, TakeHead
<1>4. r.root \in Roots  BY <1>3 DEF ChatSound, RootsKnown
<1>5. ord \in Nat /\ \A x \in log[r.root] : x.ord \in Nat /\ x.ord < ord  BY <1>4, NextIsLast
<1>6. ~\E x \in log[r.root] : x.ord = ord  BY <1>5
<1>7. Insert(r, ord)  BY <1>6 DEF WriterStores
<1> HIDE DEF r, ord
<1>8. r = Head(backlog)  BY DEF r
<1> QED  BY <1>1, <1>3, <1>4, <1>5, <1>7, <1>8 DEF Insert

\* What the writer drops is no more in the channel, and is excused.
LEMMA Dropped ==
  ASSUME ChatSound, WriterDrops
  PROVE  /\ backlog \in Seq(Record) /\ backlog' \in Seq(Record) /\ Len(backlog') <= SinkCapacity
         /\ \A i \in DOMAIN backlog' : i + 1 \in DOMAIN backlog /\ backlog'[i] = backlog[i + 1]
         /\ \A i \in DOMAIN backlog : i # 1 => i - 1 \in DOMAIN backlog' /\ backlog'[i - 1] = backlog[i]
         /\ Roots' = Roots /\ excused \subseteq excused'
         /\ \A n \in OfRoot(backlog[1].root) : Tells(backlog[1], n) => n \in excused'
<1>1. backlog # <<>> /\ backlog' = Tail(backlog) /\ UNCHANGED owner
      /\ excused' = excused \cup EventsOf(Head(backlog))
  BY DEF WriterDrops, tables
<1>2. backlog \in Seq(Record) /\ Len(backlog) <= SinkCapacity /\ SinkCapacity \in Nat
  BY AssistantAssumption DEF ChatSound, ChatTypeOK
<1>3. /\ Head(backlog) = backlog[1]
      /\ backlog' \in Seq(Record) /\ Len(backlog') = Len(backlog) - 1
      /\ \A i \in DOMAIN backlog' : i + 1 \in DOMAIN backlog /\ backlog'[i] = backlog[i + 1]
      /\ \A i \in DOMAIN backlog : i # 1 => i - 1 \in DOMAIN backlog' /\ backlog'[i - 1] = backlog[i]
  BY <1>1, <1>2, TakeHead
<1>4. Len(backlog') <= SinkCapacity  BY <1>2, <1>3, LenProperties
<1>5. ASSUME NEW n \in OfRoot(backlog[1].root), Tells(backlog[1], n) PROVE n \in excused'
  <2>1. backlog[1] \in Record  BY <1>1, <1>2, TakeHead
  <2>2. backlog[1].upto \in Nat  BY <2>1 DEF Record
  <2>3. n \in Nat  BY <1>2 DEF OfRoot, ChatSound, ChatTypeOK
  <2>4. CASE backlog[1].gap  BY <1>1, <1>3, <1>5, <2>2, <2>3, <2>4 DEF EventsOf, Tells
  <2>5. CASE ~backlog[1].gap  BY <1>1, <1>3, <1>5, <2>5 DEF EventsOf, Tells
  <2> QED  BY <2>4, <2>5
<1> QED  BY <1>1, <1>2, <1>3, <1>4, <1>5 DEF Roots

LEMMA SoundDrops ==
  ASSUME ChatSound, WriterDrops
  PROVE  ChatSound'
<1>1. /\ backlog' \in Seq(Record) /\ Len(backlog') <= SinkCapacity /\ Roots' = Roots
      /\ \A i \in DOMAIN backlog' : i + 1 \in DOMAIN backlog /\ backlog'[i] = backlog[i + 1]
      /\ UNCHANGED <<owner, index, log, registered, live, inbox, memory, heard, nextOrd, stream, chatCall>>
  BY Dropped DEF WriterDrops, tables
<1>2. ChatTypeOK'  BY <1>1 DEF ChatSound, ChatTypeOK
<1>3. \A i \in DOMAIN backlog' : backlog'[i].root \in Roots  BY <1>1 DEF ChatSound, RootsKnown
<1>4. RootsKnown'  BY <1>1, <1>3 DEF ChatSound, RootsKnown
<1> QED  BY <1>2, <1>4 DEF ChatSound

LEMMA LogDrops ==
  ASSUME ChatSound, LogFaithful, WriterDrops
  PROVE  LogFaithful'
<1>1. /\ backlog \in Seq(Record) /\ backlog' \in Seq(Record) /\ Roots' = Roots
      /\ \A i \in DOMAIN backlog' : i + 1 \in DOMAIN backlog /\ backlog'[i] = backlog[i + 1]
      /\ \A i \in DOMAIN backlog : i # 1 => i - 1 \in DOMAIN backlog' /\ backlog'[i - 1] = backlog[i]
      /\ excused \subseteq excused'
      /\ \A n \in OfRoot(backlog[1].root) : Tells(backlog[1], n) => n \in excused'
      /\ UNCHANGED <<log, nextOrd, heard, stream>>
  BY Dropped DEF WriterDrops, tables
<1>2. DOMAIN backlog = 1 .. Len(backlog) /\ DOMAIN backlog' = 1 .. Len(backlog')
      /\ Len(backlog) \in Nat /\ Len(backlog') \in Nat
  BY <1>1, LenProperties
<1>3. Queued'
  <2>1. ASSUME NEW i \in DOMAIN backlog', NEW j \in DOMAIN backlog', i <= j
        PROVE  backlog'[i].upto <= backlog'[j].upto
    <3>1. i + 1 \in DOMAIN backlog /\ j + 1 \in DOMAIN backlog /\ i + 1 <= j + 1  BY <1>1, <1>2, <2>1
    <3> QED  BY <1>1, <3>1 DEF LogFaithful, Queued
  <2> QED  BY <1>1, <2>1 DEF LogFaithful, Queued
<1>4. ASSUME NEW root \in Roots PROVE Numbered(root)'  BY <1>1 DEF LogFaithful, Numbered
<1>5. ASSUME NEW root \in Roots, NEW n \in OfRoot(root) PROVE Told(root, n)'
  <2>1. Told(root, n)  BY DEF LogFaithful
  <2>2. CASE n > heard.tap \/ n \in excused \/ \E x \in log[root] : Tells(x, n)
    BY <1>1, <2>2 DEF Told, Tells
  <2>3. ASSUME NEW i \in DOMAIN backlog, backlog[i].root = root, Tells(backlog[i], n)
        PROVE  Told(root, n)'
    <3>1. CASE i = 1  BY <1>1, <2>3, <3>1 DEF Told
    <3>2. CASE i # 1  BY <1>1, <2>3, <3>2 DEF Told, Tells
    <3> QED  BY <3>1, <3>2
  <2> QED  BY <2>1, <2>2, <2>3 DEF Told
<1>6. \A root : OfRoot(root)' = OfRoot(root)  BY <1>1 DEF OfRoot
<1> QED  BY <1>1, <1>3, <1>4, <1>5, <1>6 DEF LogFaithful

LEMMA SoundWriter ==
  ASSUME ChatSound, LogFaithful, WriterStores
  PROVE  ChatSound'
<1>1. PICK r \in Record, ord \in Nat :
           /\ backlog # <<>> /\ r.root \in Roots
           /\ log' = [log EXCEPT ![r.root] = @ \cup {[ord |-> ord, upto |-> r.upto, gap |-> r.gap]}]
           /\ nextOrd' = [x \in DOMAIN nextOrd \cup {r.root} |-> IF x = r.root THEN ord + 1 ELSE nextOrd[x]]
           /\ backlog' = Tail(backlog)
           /\ UNCHANGED <<owner, index, registered, live, inbox, memory, heard, stream, chatCall, chatHistory>>
  BY Stored
<1>2. /\ backlog \in Seq(Record) /\ Len(backlog) <= SinkCapacity /\ log \in Seq(SUBSET LogRow)
      /\ Len(log) = Len(owner) /\ Roots = 1 .. Len(owner) /\ Roots' = Roots
      /\ SinkCapacity \in Nat
  BY <1>1, KnownRoots, AssistantAssumption DEF ChatSound, ChatTypeOK, Roots
<1>3. /\ backlog' \in Seq(Record) /\ Len(backlog') = Len(backlog) - 1
      /\ \A i \in DOMAIN backlog' : i + 1 \in DOMAIN backlog /\ backlog'[i] = backlog[i + 1]
  BY <1>1, <1>2, TakeHead
<1>4. Len(backlog') <= SinkCapacity  BY <1>2, <1>3, LenProperties
<1>5. log[r.root] \cup {[ord |-> ord, upto |-> r.upto, gap |-> r.gap]} \in SUBSET LogRow
  <2>1. log[r.root] \in SUBSET LogRow  BY <1>1, <1>2, ElementOfSeq
  <2>2. [ord |-> ord, upto |-> r.upto, gap |-> r.gap] \in LogRow  BY DEF Record, LogRow
  <2> QED  BY <2>1, <2>2
<1>6. log' \in Seq(SUBSET LogRow) /\ Len(log') = Len(log)
  BY <1>1, <1>2, <1>5, ExceptSeq
<1>7. \A root \in DOMAIN nextOrd' : nextOrd'[root] \in Nat
  BY <1>1 DEF ChatSound, ChatTypeOK
<1>8. ChatTypeOK'  BY <1>1, <1>2, <1>3, <1>4, <1>6, <1>7 DEF ChatSound, ChatTypeOK
<1>9. \A i \in DOMAIN backlog' : backlog'[i].root \in Roots  BY <1>3 DEF ChatSound, RootsKnown
<1>10. RootsKnown'  BY <1>1, <1>2, <1>9 DEF ChatSound, RootsKnown
<1> QED  BY <1>8, <1>10 DEF ChatSound

LEMMA LogWriter ==
  ASSUME ChatSound, LogFaithful, WriterStores
  PROVE  LogFaithful'
<1>1. PICK r \in Record, ord \in Nat :
           /\ backlog # <<>> /\ r = Head(backlog) /\ r = backlog[1] /\ 1 \in DOMAIN backlog /\ r.root \in Roots
           /\ \A x \in log[r.root] : x.ord \in Nat /\ x.ord < ord
           /\ log' = [log EXCEPT ![r.root] = @ \cup {[ord |-> ord, upto |-> r.upto, gap |-> r.gap]}]
           /\ nextOrd' = [x \in DOMAIN nextOrd \cup {r.root} |-> IF x = r.root THEN ord + 1 ELSE nextOrd[x]]
           /\ backlog' = Tail(backlog)
           /\ UNCHANGED <<owner, index, registered, live, inbox, memory, heard, stream, chatCall, chatHistory>>
  BY Stored
<1> DEFINE row == [ord |-> ord, upto |-> r.upto, gap |-> r.gap]
<1>2. row.ord = ord /\ row.upto = r.upto /\ row.gap = r.gap  OBVIOUS
<1> HIDE DEF row
<1>3. /\ Roots' = Roots /\ Roots = DOMAIN log /\ Roots \subseteq Nat
      /\ backlog \in Seq(Record) /\ UNCHANGED <<heard, stream, excused>>
  BY <1>1, KnownRoots DEF ChatSound, ChatTypeOK, Roots, chatHistory
<1>4. log'[r.root] = log[r.root] \cup {row} /\ \A root \in Roots \ {r.root} : log'[root] = log[root]
  BY <1>1, <1>3 DEF row
<1>5. /\ backlog' \in Seq(Record)
      /\ \A i \in DOMAIN backlog' : i + 1 \in DOMAIN backlog /\ backlog'[i] = backlog[i + 1]
      /\ \A i \in DOMAIN backlog : i # 1 => i - 1 \in DOMAIN backlog' /\ backlog'[i - 1] = backlog[i]
  BY <1>1, <1>3, TakeHead
<1>6. Len(backlog) \in Nat /\ DOMAIN backlog = 1 .. Len(backlog) /\ DOMAIN backlog' = 1 .. Len(backlog')
  BY <1>3, <1>5, LenProperties
<1>7. Queued'
  <2>1. ASSUME NEW i \in DOMAIN backlog', NEW j \in DOMAIN backlog', i <= j
        PROVE  backlog'[i].upto <= backlog'[j].upto
    <3>1. i + 1 \in DOMAIN backlog /\ j + 1 \in DOMAIN backlog /\ i + 1 <= j + 1  BY <1>5, <1>6, <2>1
    <3> QED  BY <1>5, <3>1 DEF LogFaithful, Queued
  <2>2. \A i \in DOMAIN backlog' : backlog'[i].upto <= heard.tap  BY <1>5 DEF LogFaithful, Queued
  <2>3. \A i \in DOMAIN backlog' : r.upto <= backlog'[i].upto
    <3>1. \A i \in DOMAIN backlog' : 1 <= i + 1 /\ i + 1 \in DOMAIN backlog  BY <1>5, <1>6
    <3> QED  BY <1>1, <1>5, <3>1 DEF LogFaithful, Queued
  <2>4. r.upto <= heard.tap  BY <1>1 DEF LogFaithful, Queued
  <2>5. ASSUME NEW root \in Roots, NEW x \in log'[root]
        PROVE  x.upto <= heard.tap /\ \A i \in DOMAIN backlog' : x.upto <= backlog'[i].upto
    <3>1. CASE x \in log[root]  BY <1>5, <3>1 DEF LogFaithful, Queued
    <3>2. CASE x = row  BY <1>2, <2>3, <2>4, <3>2
    <3> QED  BY <1>4, <2>5, <3>1, <3>2
  <2> QED  BY <1>3, <2>1, <2>2, <2>5 DEF Queued
<1>8. ASSUME NEW root \in Roots PROVE Numbered(root)'
  <2>1. Numbered(root)  BY DEF LogFaithful
  <2>2. root \in DOMAIN nextOrd' => root = r.root \/ (root \in DOMAIN nextOrd /\ nextOrd'[root] = nextOrd[root])
    BY <1>1
  <2>3. CASE root # r.root  BY <1>4, <2>1, <2>2, <2>3 DEF Numbered
  <2>4. CASE root = r.root
    <3>1. nextOrd'[root] = ord + 1  BY <1>1, <2>4
    <3>2. \A x \in log[root] : x.ord \in Nat /\ x.ord < ord /\ x.upto <= row.upto
      BY <1>1, <1>2, <2>4 DEF LogFaithful, Queued
    <3>3. log'[root] = log[root] \cup {row} /\ row.ord = ord /\ ord \in Nat /\ row.upto \in Nat
      BY <1>2, <1>4, <2>4 DEF Record
    <3>4. \A a, b \in log'[root] : (a.ord < b.ord => a.upto <= b.upto) /\ (a.ord = b.ord => a = b)
      BY <2>1, <3>2, <3>3 DEF Numbered
    <3>5. \A x \in log'[root] : x.ord <= row.ord /\ x.ord < ord + 1  BY <3>2, <3>3
    <3> QED  BY <3>1, <3>3, <3>4, <3>5 DEF Numbered
  <2> QED  BY <2>3, <2>4
<1>9. ASSUME NEW root \in Roots, NEW n \in DOMAIN stream, stream[n].root = root
      PROVE  Told(root, n)'
  <2>1. Told(root, n)  BY <1>9 DEF LogFaithful, OfRoot
  <2>2. CASE n > heard.tap \/ n \in excused  BY <1>3, <2>2 DEF Told
  <2>3. CASE \E x \in log[root] : Tells(x, n)
    <3>1. log[root] \subseteq log'[root]  BY <1>4
    <3> QED  BY <2>3, <3>1 DEF Told, Tells
  <2>4. ASSUME NEW i \in DOMAIN backlog, backlog[i].root = root, Tells(backlog[i], n)
        PROVE  Told(root, n)'
    <3>1. CASE i = 1
      <4>1. root = r.root /\ row \in log'[root]  BY <1>1, <1>4, <2>4, <3>1
      <4>2. Tells(row, n)  BY <1>1, <1>2, <2>4, <3>1 DEF Tells
      <4> QED  BY <4>1, <4>2 DEF Told, Tells
    <3>2. CASE i # 1  BY <1>5, <2>4, <3>2 DEF Told, Tells
    <3> QED  BY <3>1, <3>2
  <2> QED  BY <2>1, <2>2, <2>3, <2>4 DEF Told
<1> QED  BY <1>3, <1>7, <1>8, <1>9 DEF LogFaithful, OfRoot

\* The index subscriber reads on.
LEMMA IndexReads ==
  ASSUME ChatSound, IndexFolds
  PROVE  /\ heard' \in [tap : Nat, index : Nat] /\ heard'.tap = heard.tap
         /\ heard.index < heard'.index /\ heard'.index <= Len(stream)
         /\ UNCHANGED <<tables, inbox, memory, backlog, nextOrd, stream, chatCall, chatCalls, crashes, excused>>
<1>1. heard \in [tap : Nat, index : Nat] /\ stream \in Seq(Event) /\ heard.index < Len(stream)
      /\ Broadcast \in Nat \ {0}
  BY AssistantAssumption DEF ChatSound, ChatTypeOK, IndexFolds
<1>2. Len(stream) \in Nat  BY <1>1, LenProperties
<1>3. CASE Len(stream) - heard.index > Broadcast
  <2>1. heard' = [heard EXCEPT !.index = Len(stream) - Broadcast]  BY <1>3 DEF IndexFolds
  <2> QED  BY <1>1, <1>2, <1>3, <2>1 DEF IndexFolds
<1>4. CASE ~(Len(stream) - heard.index > Broadcast)
  <2>1. heard' = [heard EXCEPT !.index = @ + 1]  BY <1>4 DEF IndexFolds
  <2> QED  BY <1>1, <1>2, <2>1 DEF IndexFolds
<1> QED  BY <1>3, <1>4

LEMMA SoundFolds ==
  ASSUME ChatSound, IndexFolds
  PROVE  ChatSound'
<1>1. /\ heard' \in [tap : Nat, index : Nat] /\ heard'.tap = heard.tap /\ heard'.index <= Len(stream)
      /\ UNCHANGED <<owner, index, log, inbox, memory, backlog, nextOrd, stream, chatCall>>
  BY IndexReads DEF tables
<1>2. live' \subseteq Roots
  <2>1. heard.index \in Nat /\ heard.index < Len(stream) /\ DOMAIN stream = 1 .. Len(stream) /\ Len(stream) \in Nat
    BY LenProperties DEF ChatSound, ChatTypeOK, IndexFolds
  <2>2. stream[heard.index + 1].root \in Roots  BY <2>1 DEF ChatSound, RootsKnown
  <2>3. live \subseteq Roots  BY SoundNow
  <2>4. CASE Len(stream) - heard.index > Broadcast
    BY <2>3, <2>4 DEF IndexFolds
  <2>5. CASE ~(Len(stream) - heard.index > Broadcast)
    <3>1. live' \subseteq live \cup {stream[heard.index + 1].root}  BY <2>5 DEF IndexFolds
    <3> QED  BY <2>2, <2>3, <3>1
  <2> QED  BY <2>4, <2>5
<1>3. ChatTypeOK'  BY <1>1 DEF ChatSound, ChatTypeOK
<1>4. RootsKnown'  BY <1>1, <1>2 DEF ChatSound, RootsKnown, Roots
<1> QED  BY <1>3, <1>4 DEF ChatSound

LEMMA LogFolds ==
  ASSUME ChatSound, LogFaithful, IndexFolds
  PROVE  LogFaithful'
<1>1. heard'.tap = heard.tap /\ UNCHANGED Logged /\ UNCHANGED stream
  BY IndexReads DEF tables, Logged
<1> QED  BY <1>1, LogStays DEF ChatSound, ChatTypeOK

\* A new conversation has an empty log.
LEMMA Created ==
  ASSUME ChatSound, NEW c \in ChatClients, NEW u \in ChatUsers, NewChat(c, u)
  PROVE  /\ Len(owner) + 1 \in Nat \ Roots /\ Roots' = Roots \cup {Len(owner) + 1}
         /\ owner' \in Seq(ChatUsers) /\ log' \in Seq(SUBSET LogRow) /\ Len(log') = Len(owner')
         /\ log'[Len(owner) + 1] = {} /\ \A root \in Roots : log'[root] = log[root]
         /\ index' = index \cup {Len(owner) + 1}
         /\ CallIs(c, "spawn", Len(owner) + 1)
         /\ UNCHANGED <<process, stream, crashes, excused>>
<1> DEFINE new == Len(owner) + 1
<1>1. /\ owner \in Seq(ChatUsers) /\ log \in Seq(SUBSET LogRow) /\ Len(log) = Len(owner)
      /\ Len(owner) \in Nat /\ Roots = 1 .. Len(owner) /\ Roots = DOMAIN log
  BY KnownRoots DEF ChatSound, ChatTypeOK
<1>2. owner' = Append(owner, u) /\ log' = Append(log, {}) /\ index' = index \cup {new}
      /\ Accept(c, "spawn", new)
  BY DEF NewChat
<1>3. owner' \in Seq(ChatUsers) /\ Len(owner') = new /\ DOMAIN owner' = (DOMAIN owner) \cup {new}
  BY <1>1, <1>2, AddLast
<1>4. {} \in SUBSET LogRow  OBVIOUS
<1>5. log' \in Seq(SUBSET LogRow) /\ Len(log') = new /\ log'[new] = {} /\ \A i \in DOMAIN log : log'[i] = log[i]
  BY <1>1, <1>2, <1>4, AddLast
<1>6. CallIs(c, "spawn", new)  BY <1>1, <1>2, Accepted DEF Steps
<1>7. UNCHANGED <<process, stream, crashes, excused>>  BY <1>2 DEF Accept
<1> QED  BY <1>1, <1>2, <1>3, <1>5, <1>6, <1>7 DEF Roots

LEMMA SoundNewChat ==
  ASSUME ChatSound, NEW c \in ChatClients, NEW u \in ChatUsers, NewChat(c, u)
  PROVE  ChatSound'
<1> DEFINE new == Len(owner) + 1
<1>1. /\ new \in Nat \ Roots /\ Roots' = Roots \cup {new}
      /\ owner' \in Seq(ChatUsers) /\ log' \in Seq(SUBSET LogRow) /\ Len(log') = Len(owner')
      /\ index' = index \cup {new} /\ CallIs(c, "spawn", new)
      /\ UNCHANGED <<live, inbox, memory, heard, backlog, nextOrd, stream>>
  BY Created DEF process
<1> HIDE DEF new
<1>2. /\ chatCall' \in [ChatClients -> ChatCalls \cup {NoChatCall}]
      /\ \A d \in ChatClients : chatCall'[d] # NoChatCall => chatCall'[d].root \in Roots'
  <2>1. Roots \subseteq Roots' /\ new \in Roots'  BY <1>1
  <2> QED  BY <1>1, <2>1, CallsKnown
<1>3. ChatTypeOK'  BY <1>1, <1>2 DEF ChatSound, ChatTypeOK
<1>4. RootsKnown'
  <2>1. RootsKnown  BY DEF ChatSound
  <2>2. index' \cup live' \cup memory' \subseteq Roots'  BY <1>1, <2>1 DEF RootsKnown
  <2>3. \A i \in DOMAIN inbox' : inbox'[i].root \in Roots'  BY <1>1, <2>1 DEF RootsKnown
  <2>4. \A n \in DOMAIN stream' : stream'[n].root \in Roots'  BY <1>1, <2>1 DEF RootsKnown
  <2>5. \A i \in DOMAIN backlog' : backlog'[i].root \in Roots'  BY <1>1, <2>1 DEF RootsKnown
  <2> QED  BY <1>2, <2>2, <2>3, <2>4, <2>5 DEF RootsKnown
<1> QED  BY <1>3, <1>4 DEF ChatSound

LEMMA LogNewChat ==
  ASSUME ChatSound, LogFaithful, NEW c \in ChatClients, NEW u \in ChatUsers, NewChat(c, u)
  PROVE  LogFaithful'
<1>0. PICK new : new = Len(owner) + 1  OBVIOUS
<1>1. /\ new \in Nat \ Roots /\ Roots' = Roots \cup {new}
      /\ log'[new] = {} /\ \A root \in Roots : log'[root] = log[root]
      /\ UNCHANGED <<heard, backlog, nextOrd, stream, excused>>
  BY <1>0, Created DEF process
<1>2. Queued'  BY <1>1 DEF LogFaithful, Queued
<1>3. ASSUME NEW root \in Roots PROVE Numbered(root)'  BY <1>1, <1>3 DEF LogFaithful, Numbered
<1>4. Numbered(new)'  BY <1>1 DEF Numbered
<1>5. ASSUME NEW root \in Roots, NEW n \in OfRoot(root) PROVE Told(root, n)'
  <2>1. Told(root, n)  BY <1>5 DEF LogFaithful
  <2> QED  BY <1>1, <2>1 DEF Told, Tells
<1>6. \A n \in DOMAIN stream : stream[n].root # new  BY <1>1 DEF ChatSound, RootsKnown
<1> QED  BY <1>1, <1>2, <1>3, <1>4, <1>5, <1>6 DEF LogFaithful, OfRoot

\* A deletion empties the log, and excuses what it told.
LEMMA SoundDeleteEvents ==
  ASSUME ChatSound, NEW c \in ChatClients, DeleteEvents(c)
  PROVE  ChatSound'
<1> DEFINE root == chatCall[c].root
<1>1. /\ Waiting(c, "events") /\ Proceed(c, "row") /\ log' = [log EXCEPT ![root] = {}]
      /\ UNCHANGED <<owner, index, live, inbox, memory, heard, backlog, nextOrd, stream>>
  BY DEF DeleteEvents, process
<1>2. CallIs(c, "row", root) /\ root \in Roots  BY <1>1, Proceeded DEF Steps
<1> HIDE DEF root
<1>3. Calls(chatCall')  BY <1>1, <1>2, CallsKnown DEF Calls, Roots
<1>4. log \in Seq(SUBSET LogRow) /\ root \in 1 .. Len(log) /\ {} \in SUBSET LogRow
  BY <1>2, KnownRoots DEF ChatSound, ChatTypeOK
<1>5. log' \in Seq(SUBSET LogRow) /\ Len(log') = Len(log)  BY <1>1, <1>4, ExceptSeq
<1>6. ChatTypeOK'  BY <1>1, <1>3, <1>5 DEF ChatSound, ChatTypeOK, Calls
<1>7. RootsKnown'  BY <1>1, <1>3 DEF ChatSound, RootsKnown, Calls, Roots
<1> QED  BY <1>6, <1>7 DEF ChatSound

LEMMA LogDeleteEvents ==
  ASSUME ChatSound, LogFaithful, NEW c \in ChatClients, DeleteEvents(c)
  PROVE  LogFaithful'
<1> DEFINE root == chatCall[c].root
<1>1. /\ Waiting(c, "events") /\ Proceed(c, "row") /\ log' = [log EXCEPT ![root] = {}]
      /\ excused' = excused \cup OfRoot(root)
      /\ UNCHANGED <<owner, heard, backlog, nextOrd, stream>>
  BY DEF DeleteEvents, process
<1>2. root \in Roots /\ Roots = DOMAIN log /\ Roots' = Roots
  BY <1>1, Proceeded, KnownRoots DEF Steps, ChatSound, Roots
<1> HIDE DEF root
<1>3. log'[root] = {} /\ \A other \in Roots \ {root} : log'[other] = log[other]
  BY <1>1, <1>2
<1>4. Queued'  BY <1>1, <1>2, <1>3 DEF LogFaithful, Queued
<1>5. ASSUME NEW r \in Roots PROVE Numbered(r)'
  BY <1>1, <1>3 DEF LogFaithful, Numbered
<1>6. ASSUME NEW r \in Roots, NEW n \in OfRoot(r) PROVE Told(r, n)'
  <2>1. CASE r = root  BY <1>1, <1>6, <2>1 DEF Told
  <2>2. CASE r # root
    <3>1. Told(r, n)  BY <1>6 DEF LogFaithful
    <3> QED  BY <1>1, <1>3, <2>2, <3>1 DEF Told, Tells
  <2> QED  BY <2>1, <2>2
<1> QED  BY <1>1, <1>2, <1>4, <1>5, <1>6 DEF LogFaithful, OfRoot

\* After a crash nobody has anything under way.
LEMMA SoundCrash ==
  ASSUME ChatSound, CrashProcess
  PROVE  ChatSound'
<1>1. /\ live' = {} /\ inbox' = <<>> /\ memory' = {} /\ backlog' = <<>> /\ nextOrd' = <<>>
      /\ heard' = [tap |-> Len(stream), index |-> Len(stream)]
      /\ chatCall' = [c \in ChatClients |-> NoChatCall]
      /\ UNCHANGED <<owner, index, log, stream>>
  BY DEF CrashProcess, tables
<1>2. <<>> \in Seq(Message) /\ <<>> \in Seq(Record) /\ Len(<<>>) = 0 /\ DOMAIN <<>> = {}
  BY EmptySeq
<1>3. Len(stream) \in Nat /\ SinkCapacity \in Nat
  BY LenProperties, AssistantAssumption DEF ChatSound, ChatTypeOK
<1>4. heard' \in [tap : Nat, index : Nat] /\ heard'.tap <= Len(stream) /\ heard'.index <= Len(stream)
  BY <1>1, <1>3
<1>5. ChatTypeOK'  BY <1>1, <1>2, <1>3, <1>4 DEF ChatSound, ChatTypeOK
<1>6. RootsKnown'  BY <1>1, <1>2 DEF ChatSound, RootsKnown, Roots
<1> QED  BY <1>5, <1>6 DEF ChatSound

LEMMA LogCrash ==
  ASSUME ChatSound, LogFaithful, CrashProcess
  PROVE  LogFaithful'
<1>1. /\ backlog' = <<>> /\ nextOrd' = <<>> /\ heard'.tap = Len(stream)
      /\ UNCHANGED <<owner, log, stream>> /\ Roots' = Roots
      /\ excused' = excused \cup {n \in DOMAIN stream : n > heard.tap}
           \cup UNION {{n \in OfRoot(backlog[i].root) : backlog[i].gap \/ n = backlog[i].upto} : i \in DOMAIN backlog}
  BY DEF CrashProcess, tables, Roots
<1>2. /\ heard.tap \in Nat /\ Len(stream) \in Nat /\ heard.tap <= Len(stream) /\ DOMAIN <<>> = {}
  BY LenProperties DEF ChatSound, ChatTypeOK
<1>3. \A root \in Roots : \A x \in log[root] : x.upto \in Nat
  BY KnownRoots, LenProperties, ElementOfSeq DEF ChatSound, ChatTypeOK, LogRow
<1>4. Queued'
  <2>1. \A root \in Roots : \A x \in log[root] : x.upto <= Len(stream)
    BY <1>2, <1>3 DEF LogFaithful, Queued
  <2> QED  BY <1>1, <1>2, <2>1 DEF Queued
<1>5. ASSUME NEW root \in Roots PROVE Numbered(root)'
  BY <1>1, <1>2 DEF LogFaithful, Numbered
<1>6. ASSUME NEW root \in Roots, NEW n \in OfRoot(root) PROVE Told(root, n)'
  <2>1. Told(root, n)  BY <1>6 DEF LogFaithful
  <2>2. CASE n > heard.tap \/ n \in excused  BY <1>1, <1>6, <2>2 DEF Told, OfRoot
  <2>3. CASE \E x \in log[root] : Tells(x, n)  BY <1>1, <2>3 DEF Told, Tells
  <2>4. ASSUME NEW i \in DOMAIN backlog, backlog[i].root = root, Tells(backlog[i], n)
        PROVE  n \in excused'
    <3>1. n \in {m \in OfRoot(backlog[i].root) : backlog[i].gap \/ m = backlog[i].upto}
      BY <1>6, <2>4 DEF Tells
    <3> QED  BY <1>1, <3>1
  <2> QED  BY <2>1, <2>2, <2>3, <2>4 DEF Told
<1> QED  BY <1>1, <1>4, <1>5, <1>6 DEF LogFaithful, OfRoot

-----------------------------------------------------------------------------
LEMMA LogInit == AssistantInit => LogIInv
<1> SUFFICES ASSUME AssistantInit PROVE LogIInv  OBVIOUS
<1>1. ChatSound  BY ChatSoundInit
<1>2. DOMAIN <<>> = {}  OBVIOUS
<1>3. Roots = {}  BY <1>2 DEF AssistantInit, Roots
<1>4. Queued  BY <1>2, <1>3 DEF AssistantInit, Queued
<1> QED  BY <1>1, <1>3, <1>4 DEF LogIInv, LogFaithful, ChatSound

LEMMA ChatSoundNext == ChatSound /\ LogFaithful /\ [AssistantNext]_assistantVars => ChatSound' /\ LogFaithful'
<1> SUFFICES ASSUME ChatSound, LogFaithful, [AssistantNext]_assistantVars PROVE ChatSound' /\ LogFaithful'
  OBVIOUS
<1>1. CASE UNCHANGED assistantVars
  <2>1. UNCHANGED Base /\ UNCHANGED Logged /\ UNCHANGED <<heard, index, live, memory, inbox, chatCall, stream>>
    BY <1>1 DEF assistantVars, tables, process, chatHistory, Base, Logged
  <2>2. ChatSound'  BY <2>1, SoundNow, SoundIf
  <2>3. LogFaithful'  BY <2>1, LogStays DEF ChatSound, ChatTypeOK
  <2> QED  BY <2>2, <2>3
<1>2. CASE EngineTakes \/ \E root \in memory : EngineIdles(root)
  BY <1>2, SoundEngine, LogEngine
<1>3. CASE TapRecords  BY <1>3, SoundTap, LogTap
<1>4. CASE WriterStores \/ WriterDrops
  BY <1>4, SoundWriter, LogWriter, SoundDrops, LogDrops
<1>5. CASE IndexFolds  BY <1>5, SoundFolds, LogFolds
<1>6. CASE CrashProcess  BY <1>6, SoundCrash, LogCrash
<1>7. ASSUME NEW c \in ChatClients, DeleteEvents(c) PROVE ChatSound' /\ LogFaithful'
  BY <1>7, SoundDeleteEvents, LogDeleteEvents
<1>8. ASSUME NEW c \in ChatClients, NEW u \in ChatUsers, NewChat(c, u) PROVE ChatSound' /\ LogFaithful'
  BY <1>8, SoundNewChat, LogNewChat
<1>9. ASSUME NEW c \in ChatClients,
             \/ SpawnSession(c) \/ LoadRecords(c) \/ MarkLive(c) \/ HibernateSession(c) \/ DeleteRow(c)
      PROVE ChatSound' /\ LogFaithful'
  <2>1. chatCall[c].root \in Roots /\ owner \in Seq(ChatUsers)
    BY <1>9, SoundNow DEF Calls, Waiting, SpawnSession, LoadRecords, MarkLive, HibernateSession, DeleteRow, ChatSound, ChatTypeOK
  <2>2. \E u \in ChatUsers : TRUE  BY <2>1, LenProperties, ElementOfSeq DEF Roots
  <2> QED  BY <1>9, <2>1, <2>2, SoundHandlers, LogHandlers
<1>10. ASSUME NEW c \in ChatClients, NEW u \in ChatUsers, NEW root \in Roots,
              OpenChat(c, u, root) \/ DeleteChat(c, u, root) \/ PromptChat(c, u, root)
       PROVE ChatSound' /\ LogFaithful'
  BY <1>10, SoundHandlers, LogHandlers
<1> QED  BY <1>1, <1>2, <1>3, <1>4, <1>5, <1>6, <1>7, <1>8, <1>9, <1>10 DEF AssistantNext

\* The tables, the writer's queue and its numbers agree, always.
THEOREM LogInductive == AssistantSpec => []LogIInv
<1>1. LogIInv /\ [AssistantNext]_assistantVars => LogIInv'
  BY ChatSoundNext DEF LogIInv, ChatSound
<1> QED  BY <1>1, LogInit, PTL DEF AssistantSpec

\* The log tells a conversation in order, whatever records the channel sheds
\* and the writer fails to store, and what it lacks otherwise, but for crashes
\* and deletions, is marked: for every size of the channel and of the broadcast,
\* and any number of conversations.
THEOREM FaithfulLog == AssistantSpec => []LogIsFaithful
<1>1. LogIInv => LogIsFaithful
  <2> SUFFICES ASSUME LogIInv PROVE LogIsFaithful  OBVIOUS
  <2>1. LogTellsInOrder  BY DEF LogIInv, LogFaithful, Numbered, LogTellsInOrder
  <2>2. ASSUME NEW root \in index, NEW n \in OfRoot(root)
        PROVE  n > heard.tap \/ n \in excused \/ Marked(root, n)
    <3>1. Told(root, n)  BY <2>2 DEF LogIInv, LogFaithful, RootsKnown
    <3> QED  BY <3>1 DEF Told, Marked, Kept
  <2>3. LossIsMarked  BY <2>2 DEF LossIsMarked
  <2> QED  BY <2>1, <2>3 DEF LogIsFaithful
<1> QED  BY <1>1, LogInductive, PTL

-----------------------------------------------------------------------------
(***************************************************************************)
(* What is listed as live.                                                 *)
(***************************************************************************)
\* A conversation's messages, before and after a step.
SameMail(root) ==
  /\ Starts(root)' <=> Starts(root)
  /\ Hibernates(root)' <=> Hibernates(root)
  /\ PutAway(root) => PutAway(root)'

LEMMA MailStays ==
  ASSUME UNCHANGED <<inbox, memory>>, NEW root
  PROVE  SameMail(root)
BY DEF SameMail, Starts, Hibernates, PutAway

LEMMA MailSent ==
  ASSUME ChatSound, NEW root \in Roots, NEW kind \in {"spawn", "resume", "prompt", "hibernate"},
         Send(kind, root), UNCHANGED <<owner, memory>>
  PROVE  /\ \A x \in Roots \ {root} : SameMail(x)
         /\ Starts(root) => Starts(root)'
         /\ Hibernates(root) => Hibernates(root)'
         /\ kind # "hibernate" => Starts(root)' /\ (Hibernates(root)' => Hibernates(root))
         /\ kind = "hibernate" => Hibernates(root)' /\ PutAway(root)' /\ (Starts(root)' => Starts(root))
<1> DEFINE new == Len(inbox) + 1
<1>1. /\ DOMAIN inbox' = (DOMAIN inbox) \cup {new}
      /\ \A i \in DOMAIN inbox : i <= Len(inbox) /\ inbox'[i] = inbox[i]
      /\ inbox'[new] = [kind |-> kind, root |-> root]
  BY Sent
<1>2. Len(inbox) \in Nat /\ DOMAIN inbox = 1 .. Len(inbox)
  BY LenProperties DEF ChatSound, ChatTypeOK
<1>3. new \in Nat /\ \A i \in DOMAIN inbox : i < new /\ i \in Nat  BY <1>2
<1>4. new \in DOMAIN inbox' /\ inbox'[new].kind = kind /\ inbox'[new].root = root  BY <1>1
<1> HIDE DEF new
<1>5. ASSUME NEW x \in Roots \ {root} PROVE SameMail(x)
  <2>1. Starts(x)' <=> Starts(x)  BY <1>1, <1>4, <1>5 DEF Starts
  <2>2. Hibernates(x)' <=> Hibernates(x)  BY <1>1, <1>4, <1>5 DEF Hibernates
  <2>3. ASSUME PutAway(x) PROVE PutAway(x)'
    <3>1. CASE x \notin memory /\ \A i \in DOMAIN inbox : inbox[i].root # x
      <4>1. \A i \in DOMAIN inbox' : inbox'[i].root # x  BY <1>1, <1>4, <1>5, <3>1
      <4> QED  BY <3>1, <4>1 DEF PutAway
    <3>2. ASSUME NEW i \in DOMAIN inbox, inbox[i].root = x, inbox[i].kind = "hibernate",
                 \A j \in DOMAIN inbox : j > i => inbox[j].root # x
          PROVE  PutAway(x)'
      <4>1. i \in DOMAIN inbox' /\ inbox'[i].root = x /\ inbox'[i].kind = "hibernate"  BY <1>1, <3>2
      <4>2. \A j \in DOMAIN inbox' : j > i => inbox'[j].root # x  BY <1>1, <1>4, <1>5, <3>2
      <4> QED  BY <4>1, <4>2 DEF PutAway
    <3> QED  BY <2>3, <3>1, <3>2 DEF PutAway
  <2> QED  BY <2>1, <2>2, <2>3 DEF SameMail
<1>6. (Starts(root) => Starts(root)') /\ (Hibernates(root) => Hibernates(root)')
  BY <1>1 DEF Starts, Hibernates
<1>7. ASSUME kind # "hibernate" PROVE Starts(root)' /\ (Hibernates(root)' => Hibernates(root))
  BY <1>1, <1>4, <1>7 DEF Starts, Hibernates
<1>8. ASSUME kind = "hibernate" PROVE Hibernates(root)' /\ PutAway(root)' /\ (Starts(root)' => Starts(root))
  <2>1. \A j \in DOMAIN inbox' : ~(j > new)  BY <1>1, <1>3
  <2>2. PutAway(root)'  BY <1>4, <1>8, <2>1 DEF PutAway
  <2> QED  BY <1>1, <1>4, <1>8, <2>2 DEF Starts, Hibernates
<1> QED  BY <1>5, <1>6, <1>7, <1>8

\* One message the less.
LEMMA MailTaken ==
  ASSUME ChatSound, inbox # <<>>, inbox' = Tail(inbox), UNCHANGED owner, NEW root, root = Head(inbox).root,
         \A x \in Roots \ {root} : x \in memory' <=> x \in memory
  PROVE  /\ \A x \in Roots \ {root} : SameMail(x)
         /\ Hibernates(root)' => Hibernates(root)
         /\ Head(inbox).kind = "hibernate" => Hibernates(root) /\ (Starts(root) => Starts(root)')
         /\ Head(inbox).kind # "hibernate" => (Hibernates(root) => Hibernates(root)')
         /\ PutAway(root) /\ Head(inbox).kind = "hibernate" => PutAway(root)' \/ root \in memory'
         /\ PutAway(root) /\ Head(inbox).kind # "hibernate" => PutAway(root)'
<1>1. /\ Head(inbox) = inbox[1] /\ root \in Roots
      /\ \A i \in DOMAIN inbox' : i + 1 \in DOMAIN inbox /\ inbox'[i] = inbox[i + 1]
      /\ \A i \in DOMAIN inbox : i # 1 => i - 1 \in DOMAIN inbox' /\ inbox'[i - 1] = inbox[i]
      /\ Len(inbox) \in Nat /\ DOMAIN inbox = 1 .. Len(inbox) /\ inbox' \in Seq(Message)
  BY MessageTaken
<1>2. /\ 1 \in DOMAIN inbox /\ inbox[1].root = root /\ Head(inbox).kind = inbox[1].kind
      /\ \A i \in DOMAIN inbox : i \in Nat
  BY <1>1, TakeHead DEF ChatSound, ChatTypeOK
<1>3. DOMAIN inbox' = 1 .. Len(inbox')  BY <1>1, LenProperties
<1>4. ASSUME NEW x \in Roots \ {root} PROVE (Starts(x)' <=> Starts(x)) /\ (Hibernates(x)' <=> Hibernates(x))
  <2>1. \A i \in DOMAIN inbox : inbox[i].root = x => i # 1  BY <1>2, <1>4
  <2>2. ASSUME Starts(x) PROVE Starts(x)'
    <3>1. PICK i \in DOMAIN inbox : inbox[i].root = x /\ inbox[i].kind # "hibernate"  BY <2>2 DEF Starts
    <3>2. i - 1 \in DOMAIN inbox' /\ inbox'[i - 1] = inbox[i]  BY <1>1, <2>1, <3>1
    <3> QED  BY <3>1, <3>2 DEF Starts
  <2>3. Starts(x)' => Starts(x)  BY <1>1 DEF Starts
  <2>4. Hibernates(x)' <=> Hibernates(x)  BY <1>1, <2>1 DEF Hibernates
  <2> QED  BY <2>2, <2>3, <2>4
\* A hibernate that is not the first message stays the last of its conversation.
<1>5. ASSUME NEW x \in Roots, NEW i \in DOMAIN inbox, i # 1, inbox[i].root = x, inbox[i].kind = "hibernate",
             \A j \in DOMAIN inbox : j > i => inbox[j].root # x
      PROVE  PutAway(x)'
  <2>1. i - 1 \in DOMAIN inbox' /\ inbox'[i - 1] = inbox[i]  BY <1>1, <1>5
  <2>2. ASSUME NEW j \in DOMAIN inbox', j > i - 1 PROVE inbox'[j].root # x
    <3>1. j + 1 \in DOMAIN inbox /\ j + 1 > i /\ inbox'[j] = inbox[j + 1]  BY <1>1, <1>2, <1>3, <2>2
    <3> QED  BY <1>5, <3>1
  <2> QED  BY <1>5, <2>1, <2>2 DEF PutAway
<1>6. ASSUME NEW x \in Roots \ {root}, PutAway(x) PROVE PutAway(x)'
  <2>1. CASE x \notin memory /\ \A i \in DOMAIN inbox : inbox[i].root # x
    <3>1. \A i \in DOMAIN inbox' : inbox'[i].root # x  BY <1>1, <2>1
    <3> QED  BY <2>1, <3>1, <1>6 DEF PutAway
  <2>2. ASSUME NEW i \in DOMAIN inbox, inbox[i].root = x, inbox[i].kind = "hibernate",
               \A j \in DOMAIN inbox : j > i => inbox[j].root # x
        PROVE  PutAway(x)'
    <3>1. i # 1  BY <1>2, <1>6, <2>2
    <3> QED  BY <1>5, <2>2, <3>1
  <2> QED  BY <1>6, <2>1, <2>2 DEF PutAway
<1>7. Hibernates(root)' => Hibernates(root)  BY <1>1 DEF Hibernates
<1>8. ASSUME Head(inbox).kind = "hibernate" PROVE Hibernates(root) /\ (Starts(root) => Starts(root)')
  <2>1. Hibernates(root)  BY <1>2, <1>8 DEF Hibernates
  <2>2. ASSUME NEW i \in DOMAIN inbox, inbox[i].root = root, inbox[i].kind # "hibernate" PROVE Starts(root)'
    <3>1. i - 1 \in DOMAIN inbox' /\ inbox'[i - 1] = inbox[i]  BY <1>1, <1>2, <1>8, <2>2
    <3> QED  BY <2>2, <3>1 DEF Starts
  <2> QED  BY <2>1, <2>2 DEF Starts
<1>9. ASSUME Head(inbox).kind # "hibernate", Hibernates(root) PROVE Hibernates(root)'
  <2>1. PICK i \in DOMAIN inbox : inbox[i].root = root /\ inbox[i].kind = "hibernate"  BY <1>9 DEF Hibernates
  <2>2. i - 1 \in DOMAIN inbox' /\ inbox'[i - 1] = inbox[i]  BY <1>1, <1>2, <1>9, <2>1
  <2> QED  BY <2>1, <2>2 DEF Hibernates
<1>10. ASSUME PutAway(root), root \notin memory' \/ Head(inbox).kind # "hibernate" PROVE PutAway(root)'
  <2>1. PICK i \in DOMAIN inbox :
               /\ inbox[i].root = root /\ inbox[i].kind = "hibernate"
               /\ \A j \in DOMAIN inbox : j > i => inbox[j].root # root
    BY <1>2, <1>10 DEF PutAway
  <2>2. CASE i # 1  BY <1>1, <1>5, <2>1, <2>2
  <2>3. CASE i = 1
    <3>1. root \notin memory'  BY <1>2, <1>10, <2>1, <2>3
    <3>2. ASSUME NEW j \in DOMAIN inbox' PROVE inbox'[j].root # root
      <4>1. j + 1 \in DOMAIN inbox /\ j + 1 > 1 /\ inbox'[j] = inbox[j + 1]  BY <1>1, <1>3
      <4> QED  BY <2>1, <2>3, <4>1
    <3> QED  BY <3>1, <3>2 DEF PutAway
  <2> QED  BY <2>2, <2>3
<1> QED  BY <1>4, <1>6, <1>7, <1>8, <1>9, <1>10 DEF SameMail

\* Nothing new is said of a conversation.
LEMMA NewsStays ==
  ASSUME NEW x, heard'.index = heard.index, x \in memory' <=> x \in memory,
         \A n \in DOMAIN stream : n \in DOMAIN stream' /\ stream'[n] = stream[n],
         \A n \in DOMAIN stream' : n \in DOMAIN stream \/ stream'[n].root # x \/ stream'[n].kind = "out"
  PROVE  News(x)' = News(x) /\ (NewsIsTrue(x) => NewsIsTrue(x)')
<1>1. \A n : n \in News(x)' <=> n \in News(x)  BY DEF News, OfRoot
<1>2. News(x)' = News(x)  BY <1>1
<1>3. \A n \in News(x) : stream'[n] = stream[n]  BY DEF News, OfRoot
<1> QED  BY <1>2, <1>3 DEF NewsIsTrue

\* The last thing said of a conversation is how it is.
LEMMA NewsLast ==
  ASSUME NEW x, stream' \in Seq(Event), NEW n \in DOMAIN stream', n > heard'.index,
         stream'[n].root = x, stream'[n].kind # "out", stream'[n].kind = "started" <=> x \in memory',
         \A m \in DOMAIN stream' : m <= n \/ stream'[m].kind = "out"
  PROVE  News(x)' # {} /\ NewsIsTrue(x)'
<1>1. n \in News(x)' /\ \A m \in News(x)' : m <= n /\ m \in Nat  BY LenProperties DEF News, OfRoot
<1>2. \A m \in News(x)' : n <= m => m = n  BY <1>1
<1> QED  BY <1>1, <1>2 DEF NewsIsTrue

\* What a message does to the engine, and what it says of it.
LEMMA EngineNews ==
  ASSUME ChatSound, EngineTakes, NEW root, root = Head(inbox).root
  PROVE  /\ root \in Roots
         /\ \A x \in Roots \ {root} : News(x)' = News(x) /\ (NewsIsTrue(x) => NewsIsTrue(x)') /\ (x \in memory' <=> x \in memory)
         /\ NewsIsTrue(root) => NewsIsTrue(root)'
         /\ root \in memory' <=> Head(inbox).kind # "hibernate"
         /\ News(root)' = {} => News(root) = {} /\ (root \in memory' <=> root \in memory)
<1> DEFINE m == Head(inbox)
<1>1. /\ inbox # <<>> /\ inbox' = Tail(inbox) /\ UNCHANGED <<owner, heard>>
      /\ m \in Message /\ m.root = root /\ root \in Roots
  BY MessageTaken DEF EngineTakes, tables
<1>2. /\ stream \in Seq(Event) /\ Len(stream) \in Nat /\ DOMAIN stream = 1 .. Len(stream)
      /\ heard.index \in Nat /\ heard.index <= Len(stream)
  BY LenProperties DEF ChatSound, ChatTypeOK
<1> HIDE DEF m
<1>3. ASSUME NEW kinds \in Seq(Kinds), Emit(kinds, root)
      PROVE  /\ stream' \in Seq(Event) /\ DOMAIN stream' = 1 .. Len(stream) + Len(kinds)
             /\ \A n \in DOMAIN stream : n \in DOMAIN stream' /\ stream'[n] = stream[n]
             /\ \A i \in DOMAIN kinds : /\ Len(stream) + i \in DOMAIN stream'
                                        /\ stream'[Len(stream) + i].kind = kinds[i]
                                        /\ stream'[Len(stream) + i].root = root
             /\ \A n \in DOMAIN stream' : n \in DOMAIN stream \/ (stream'[n].root = root /\ n - Len(stream) \in DOMAIN kinds)
  <2>1. /\ stream' \in Seq(Event) /\ Len(stream') = Len(stream) + Len(kinds)
        /\ \A n \in DOMAIN stream : n \in DOMAIN stream' /\ stream'[n] = stream[n]
        /\ \A i \in DOMAIN kinds : /\ Len(stream) + i \in DOMAIN stream'
                                   /\ stream'[Len(stream) + i] = [kind |-> kinds[i], root |-> root]
        /\ \A n \in DOMAIN stream' : n \in DOMAIN stream \/ n - Len(stream) \in DOMAIN kinds
    BY <1>1, <1>3, Emitted DEF ChatSound
  <2>2. DOMAIN stream' = 1 .. Len(stream) + Len(kinds) /\ DOMAIN kinds = 1 .. Len(kinds)
    BY <2>1, LenProperties
  <2>3. ASSUME NEW n \in DOMAIN stream', n \notin DOMAIN stream PROVE stream'[n].root = root
    <3>1. PICK i \in DOMAIN kinds : i = n - Len(stream)  BY <2>1, <2>3
    <3>2. Len(stream) + i = n  BY <1>2, <2>2, <3>1
    <3>3. stream'[Len(stream) + i] = [kind |-> kinds[i], root |-> root]  BY <2>1
    <3> QED  BY <3>2, <3>3
  <2>4. ASSUME NEW i \in DOMAIN kinds
        PROVE  /\ Len(stream) + i \in DOMAIN stream'
               /\ stream'[Len(stream) + i].kind = kinds[i]
               /\ stream'[Len(stream) + i].root = root
    <3>1. PICK e : e = stream'[Len(stream) + i]  OBVIOUS
    <3>2. e = [kind |-> kinds[i], root |-> root]  BY <2>1, <3>1
    <3>3. e.kind = kinds[i] /\ e.root = root  BY <3>2
    <3> QED  BY <2>1, <3>1, <3>3
  <2>5. \A n \in DOMAIN stream' : n \in DOMAIN stream \/ (stream'[n].root = root /\ n - Len(stream) \in DOMAIN kinds)
    BY <2>1, <2>3
  <2> QED  BY <2>1, <2>2, <2>4, <2>5
<1>4. \A x \in Roots \ {root} : x \in memory' <=> x \in memory  BY <1>1 DEF EngineTakes, m
<1>5. ASSUME NEW x \in Roots \ {root}
      PROVE  News(x)' = News(x) /\ (NewsIsTrue(x) => NewsIsTrue(x)')
  <2>1. PICK kinds \in Seq(Kinds) : Emit(kinds, root)  BY <1>1, EngineSays DEF m
  <2> QED  BY <1>1, <1>3, <1>4, <1>5, <2>1, NewsStays
<1>6. root \in memory' <=> m.kind # "hibernate"  BY <1>1 DEF EngineTakes, m
\* One event, and it is how it is.
<1>7. ASSUME NEW kind \in {"started", "hibernated"}, kind = "started" <=> root \in memory',
             Emit(<<kind>>, root) \/ Emit(<<kind, "out">>, root)
      PROVE  News(root)' # {} /\ NewsIsTrue(root)'
  <2>1. <<kind>> \in Seq(Kinds) /\ <<kind, "out">> \in Seq(Kinds)  BY DEF Kinds
  <2>2. Len(<<kind>>) = 1 /\ Len(<<kind, "out">>) = 2 /\ DOMAIN <<kind>> = {1} /\ DOMAIN <<kind, "out">> = {1, 2}
        /\ <<kind>>[1] = kind /\ <<kind, "out">>[1] = kind /\ <<kind, "out">>[2] = "out"
    OBVIOUS
  <2>3. Len(stream) + 1 > heard'.index  BY <1>1, <1>2
  <2>4. CASE Emit(<<kind>>, root)
    <3>1. /\ stream' \in Seq(Event) /\ Len(stream) + 1 \in DOMAIN stream' /\ DOMAIN stream' = 1 .. Len(stream) + 1
          /\ stream'[Len(stream) + 1].kind = kind /\ stream'[Len(stream) + 1].root = root
      BY <1>3, <2>1, <2>2, <2>4
    <3>2. \A n \in DOMAIN stream' : n <= Len(stream) + 1  BY <1>2, <3>1
    <3> QED  BY <1>7, <2>3, <3>1, <3>2, NewsLast
  <2>5. CASE Emit(<<kind, "out">>, root)
    <3>1. /\ stream' \in Seq(Event) /\ Len(stream) + 1 \in DOMAIN stream' /\ DOMAIN stream' = 1 .. Len(stream) + 2
          /\ stream'[Len(stream) + 1].kind = kind /\ stream'[Len(stream) + 1].root = root
          /\ stream'[Len(stream) + 2].kind = "out"
      BY <1>3, <2>1, <2>2, <2>5
    <3>2. \A n \in DOMAIN stream' : n <= Len(stream) + 1 \/ n = Len(stream) + 2  BY <1>2, <3>1
    <3>3. \A n \in DOMAIN stream' : n <= Len(stream) + 1 \/ stream'[n].kind = "out"  BY <3>1, <3>2
    <3> QED  BY <1>7, <2>3, <3>1, <3>3, NewsLast
  <2> QED  BY <1>7, <2>4, <2>5
<1>8. CASE m.kind = "hibernate"
  <2>1. CASE root \in memory
    <3>1. Emit(<<"hibernated">>, root)  BY <1>1, <1>8, <2>1 DEF EngineTakes, m
    <3>2. News(root)' # {} /\ NewsIsTrue(root)'  BY <1>6, <1>7, <1>8, <3>1
    <3> QED  BY <1>1, <1>4, <1>5, <1>6, <3>2 DEF m
  <2>2. CASE root \notin memory
    <3>1. Emit(<<>>, root)  BY <1>1, <1>8, <2>2 DEF EngineTakes, m
    <3>2. /\ \A n \in DOMAIN stream : n \in DOMAIN stream' /\ stream'[n] = stream[n]
          /\ \A n \in DOMAIN stream' : n \in DOMAIN stream
      <4> DEFINE none == <<>>
      <4>1. none \in Seq(Kinds) /\ DOMAIN none = {} /\ Emit(none, root)  BY <3>1, SaidKinds
      <4> HIDE DEF none
      <4> QED  BY <1>3, <4>1
    <3>3. root \in memory' <=> root \in memory  BY <1>6, <1>8, <2>2
    <3>4. News(root)' = News(root) /\ (NewsIsTrue(root) => NewsIsTrue(root)')
      BY <1>1, <3>2, <3>3, NewsStays
    <3> QED  BY <1>1, <1>4, <1>5, <1>6, <3>3, <3>4 DEF m
  <2> QED  BY <2>1, <2>2
<1>9. CASE m.kind # "hibernate"
  <2>1. CASE root \in memory
    <3>1. Emit(<<"out">>, root)  BY <1>1, <1>9, <2>1 DEF EngineTakes, m
    <3>2. /\ \A n \in DOMAIN stream : n \in DOMAIN stream' /\ stream'[n] = stream[n]
          /\ stream'[Len(stream) + 1].kind = "out" /\ DOMAIN stream' = 1 .. Len(stream) + 1
      <4> DEFINE said == <<"out">>
      <4>1. said \in Seq(Kinds) /\ DOMAIN said = {1} /\ Len(said) = 1 /\ said[1] = "out" /\ Emit(said, root)
        BY <3>1, SaidKinds
      <4> HIDE DEF said
      <4> QED  BY <1>3, <4>1
    <3>3. \A n \in DOMAIN stream' : n \in DOMAIN stream \/ stream'[n].kind = "out"
      <4>1. \A n \in DOMAIN stream' : n \in DOMAIN stream \/ n = Len(stream) + 1  BY <1>2, <3>2
      <4> QED  BY <3>2, <4>1
    <3>4. root \in memory' <=> root \in memory  BY <1>6, <1>9, <2>1
    <3>5. News(root)' = News(root) /\ (NewsIsTrue(root) => NewsIsTrue(root)')
      BY <1>1, <3>2, <3>3, <3>4, NewsStays
    <3> QED  BY <1>1, <1>4, <1>5, <1>6, <3>4, <3>5 DEF m
  <2>2. CASE root \notin memory
    <3>1. Emit(<<"started", "out">>, root)  BY <1>1, <1>9, <2>2 DEF EngineTakes, m
    <3>2. News(root)' # {} /\ NewsIsTrue(root)'  BY <1>6, <1>7, <1>9, <3>1
    <3> QED  BY <1>1, <1>4, <1>5, <1>6, <3>2 DEF m
  <2> QED  BY <2>1, <2>2
<1> QED  BY <1>8, <1>9

(***************************************************************************)
(* A handler works on one conversation; the others stay as they are.       *)
(***************************************************************************)
LEMMA OneConversation ==
  ASSUME ChatSound, Orderly, NEW c \in ChatClients, NEW root \in Roots',
         Roots' \subseteq Roots \cup {root}, UNCHANGED <<memory, stream, heard>>,
         \A d \in ChatClients \ {c} : chatCall'[d] = chatCall[d] /\ ~On(d, root),
         chatCall[c] # NoChatCall => chatCall[c].root = root,
         chatCall'[c] # NoChatCall => chatCall'[c].root = root,
         \A x \in Roots \ {root} : SameMail(x) /\ (x \in index' <=> x \in index) /\ (x \in live' <=> x \in live),
         Listed(root)', HibernatesAreDeletes(root)',
         chatCall'[c] # NoChatCall =>
           IF chatCall'[c].pc \in {"events", "row"} THEN PutAway(root)'
           ELSE root \in index' /\ (chatCall'[c].pc = "mark" => root \in memory \/ Starts(root)')
  PROVE  Orderly'
<1>1. ASSUME NEW x \in Roots \ {root} PROVE Listed(x)' /\ HibernatesAreDeletes(x)'
  <2>1. Listed(x) /\ HibernatesAreDeletes(x)  BY DEF Orderly
  <2>2. News(x)' = News(x)  BY DEF News, OfRoot
  <2>3. /\ Starts(x)' <=> Starts(x)
        /\ Hibernates(x)' <=> Hibernates(x)
    BY DEF SameMail
  <2>4. Listed(x)'  BY <2>1, <2>2, <2>3 DEF Listed
  <2>5. ASSUME NEW d \in ChatClients, On(d, x), Deleting(d) PROVE On(d, x)' /\ Deleting(d)'
    <3>1. d # c  BY <2>5 DEF On
    <3> QED  BY <2>5, <3>1 DEF On, Deleting, Waiting
  <2>6. HibernatesAreDeletes(x)'  BY <2>1, <2>3, <2>5 DEF HibernatesAreDeletes
  <2> QED  BY <2>4, <2>6
<1>2. ASSUME NEW d \in ChatClients \ {c}, chatCall'[d] # NoChatCall PROVE HandlerSound(d)'
  <2>1. PICK x : x = chatCall[d].root  OBVIOUS
  <2>2. chatCall'[d] = chatCall[d] /\ chatCall[d] # NoChatCall /\ x # root  BY <1>2, <2>1 DEF On
  <2>3. x \in Roots  BY <2>1, <2>2 DEF ChatSound, RootsKnown
  <2>4. HandlerSound(d)  BY <2>2 DEF Orderly
  <2>5. /\ Starts(x)' <=> Starts(x)
        /\ PutAway(x) => PutAway(x)'
        /\ x \in index' <=> x \in index
    BY <2>2, <2>3 DEF SameMail
  <2>6. \A e \in ChatClients \ {d} : ~On(e, x)'  BY <2>1, <2>2, <2>4 DEF HandlerSound, On
  <2> QED  BY <2>1, <2>2, <2>4, <2>5, <2>6 DEF HandlerSound, Deleting, Waiting
<1>3. ASSUME chatCall'[c] # NoChatCall PROVE HandlerSound(c)'
  <2>1. \A d \in ChatClients \ {c} : ~On(d, root)'  BY DEF On
  <2> QED  BY <1>3, <2>1 DEF HandlerSound, Deleting, Waiting
<1> QED  BY <1>1, <1>2, <1>3 DEF Orderly

\* With no race, a handler is alone on its conversation.
LEMMA Alone ==
  ASSUME Orderly, NEW c \in ChatClients, chatCall[c] # NoChatCall
  PROVE  \A d \in ChatClients \ {c} : ~On(d, chatCall[c].root)
BY DEF Orderly, HandlerSound

LEMMA AcceptedAlone ==
  ASSUME NEW c \in ChatClients, NEW pc, NEW root, Accept(c, pc, root), chatRaces' = {}
  PROVE  chatRaces = {} /\ \A d \in ChatClients : ~On(d, root)
BY DEF Accept

LEMMA NewsTrueStays ==
  ASSUME \A root \in Roots : NewsIsTrue(root), UNCHANGED <<owner, memory, stream, heard>>
  PROVE  \A root \in Roots' : NewsIsTrue(root)'
BY DEF NewsIsTrue, News, OfRoot, Roots

LEMMA LiveSpawn ==
  ASSUME ChatSound, LiveFaithful, NEW c \in ChatClients, SpawnSession(c)
  PROVE  LiveFaithful'
<1>0. PICK root : root = chatCall[c].root  OBVIOUS
<1>1. /\ Waiting(c, "spawn") /\ live' = live \cup {root} /\ Send("spawn", root) /\ Reply(c)
      /\ UNCHANGED <<owner, index, memory, heard, stream, chatRaces>> /\ Roots' = Roots
  BY <1>0 DEF SpawnSession, EngineAside, tables, chatHistory, Roots
<1>2. chatCall[c] # NoChatCall /\ chatCall[c].pc = "spawn" /\ root \in Roots
  BY <1>0, <1>1, SoundNow DEF Waiting, Calls
<1>3. CallEnds(c)  BY <1>1, Replied
<1>4. ASSUME chatRaces = {} PROVE Orderly'
  <2>1. Orderly  BY <1>4 DEF LiveFaithful
  <2>2. \A d \in ChatClients \ {c} : ~On(d, root)  BY <1>0, <1>2, <2>1, Alone
  <2>3. (\A x \in Roots \ {root} : SameMail(x)) /\ Starts(root)' /\ (Hibernates(root)' => Hibernates(root))
    BY <1>1, <1>2, MailSent
  <2>4. Listed(root)'  BY <1>1, <2>3 DEF Listed
  <2>5. HibernatesAreDeletes(root)'
    <3>1. ~\E d \in ChatClients : On(d, root) /\ Deleting(d)
      BY <1>2, <2>2 DEF On, Deleting, Waiting
    <3>2. HibernatesAreDeletes(root)  BY <1>2, <2>1 DEF Orderly
    <3> QED  BY <1>1, <2>3, <3>1, <3>2 DEF HibernatesAreDeletes
  <2> QED  BY <1>0, <1>1, <1>2, <1>3, <2>1, <2>2, <2>3, <2>4, <2>5, OneConversation DEF CallEnds
<1> QED  BY <1>1, <1>4, NewsTrueStays DEF LiveFaithful

LEMMA LiveAccepts ==
  ASSUME ChatSound, LiveFaithful, NEW c \in ChatClients, NEW root \in Roots, root \in index,
         NEW pc \in {"load", "hibernate"}, Accept(c, pc, root), UNCHANGED tables
  PROVE  LiveFaithful'
<1>1. UNCHANGED <<owner, index, live, inbox, memory, heard, stream>> /\ Roots' = Roots
  BY DEF Accept, tables, process, Roots
<1>2. CallIs(c, pc, root) /\ chatCall[c] = NoChatCall  BY Accepted, KnownRoots DEF Steps, ChatSound
<1>3. ASSUME chatRaces' = {} PROVE Orderly'
  <2>1. chatRaces = {} /\ \A d \in ChatClients : ~On(d, root)  BY <1>3, AcceptedAlone
  <2>2. Orderly  BY <2>1 DEF LiveFaithful
  <2>3. \A x \in Roots : SameMail(x)  BY <1>1, MailStays
  <2>4. Listed(root) /\ HibernatesAreDeletes(root)  BY <2>2 DEF Orderly
  <2>5. Listed(root)'  BY <1>1, <2>4 DEF Listed, News, OfRoot, Starts, Hibernates
  <2>6. ~Hibernates(root)  BY <2>1, <2>4 DEF HibernatesAreDeletes
  <2>7. HibernatesAreDeletes(root)'  BY <1>1, <2>6 DEF HibernatesAreDeletes, Hibernates
  <2>8. chatCall'[c] = [pc |-> pc, root |-> root] /\ \A d \in ChatClients \ {c} : chatCall'[d] = chatCall[d]
    BY <1>2 DEF CallIs
  <2>9. chatCall'[c].pc = pc /\ chatCall'[c].root = root  BY <2>8
  <2> QED  BY <1>1, <1>2, <2>1, <2>2, <2>3, <2>5, <2>7, <2>8, <2>9, OneConversation
<1> QED  BY <1>1, <1>3, NewsTrueStays DEF LiveFaithful

LEMMA LiveLoads ==
  ASSUME ChatSound, LiveFaithful, NEW c \in ChatClients, LoadRecords(c)
  PROVE  LiveFaithful'
<1>0. PICK root : root = chatCall[c].root  OBVIOUS
<1>1. /\ Waiting(c, "load")
      /\ UNCHANGED <<owner, index, live, memory, heard, stream, chatRaces>> /\ Roots' = Roots
      /\ (Reply(c) /\ UNCHANGED inbox) \/ (Send("resume", root) /\ Proceed(c, "mark"))
  BY <1>0 DEF LoadRecords, EngineAside, tables, chatHistory, Roots
<1>2. chatCall[c] # NoChatCall /\ chatCall[c].pc = "load" /\ root \in Roots
  BY <1>0, <1>1, SoundNow DEF Waiting, Calls
<1>3. ASSUME chatRaces = {} PROVE Orderly'
  <2>1. Orderly  BY <1>3 DEF LiveFaithful
  <2>2. \A d \in ChatClients \ {c} : ~On(d, root)  BY <1>0, <1>2, <2>1, Alone
  <2>3. Listed(root) /\ HibernatesAreDeletes(root)  BY <1>2, <2>1 DEF Orderly
  <2>4. ~\E d \in ChatClients : On(d, root) /\ Deleting(d)
    BY <1>2, <2>2 DEF On, Deleting, Waiting
  <2>5. root \in index  BY <1>0, <1>2, <2>1 DEF Orderly, HandlerSound, Deleting, Waiting
  <2>6. ~Hibernates(root)  BY <2>3, <2>4, <2>5 DEF HibernatesAreDeletes
  <2>7. News(root)' = News(root)  BY <1>1 DEF News, OfRoot
  <2>8. CASE Reply(c) /\ UNCHANGED inbox
    <3>1. CallEnds(c)  BY <2>8, Replied
    <3>2. \A x \in Roots : SameMail(x)  BY <1>1, <2>8, MailStays
    <3>3. Listed(root)' /\ HibernatesAreDeletes(root)'
      BY <1>1, <2>3, <2>6, <2>7, <2>8 DEF Listed, HibernatesAreDeletes, Starts, Hibernates
    <3> QED  BY <1>0, <1>1, <1>2, <2>1, <2>2, <3>1, <3>2, <3>3, OneConversation DEF CallEnds
  <2>9. CASE Send("resume", root) /\ Proceed(c, "mark")
    <3>1. CallIs(c, "mark", root)  BY <1>0, <1>1, <2>9, Proceeded DEF Steps
    <3>2. (\A x \in Roots \ {root} : SameMail(x)) /\ Starts(root)' /\ (Hibernates(root) => Hibernates(root)')
          /\ (Hibernates(root)' => Hibernates(root))
      BY <1>1, <1>2, <2>9, MailSent
    <3>3. Listed(root)'  BY <1>1, <2>3, <2>7, <3>2 DEF Listed
    <3>4. HibernatesAreDeletes(root)'  BY <2>6, <3>2 DEF HibernatesAreDeletes
    <3>5. chatCall'[c] = [pc |-> "mark", root |-> root] /\ \A d \in ChatClients \ {c} : chatCall'[d] = chatCall[d]
      BY <3>1 DEF CallIs
    <3>6. chatCall'[c].pc = "mark" /\ chatCall'[c].root = root  BY <3>5
    <3> QED  BY <1>0, <1>1, <1>2, <2>1, <2>2, <2>5, <3>2, <3>3, <3>4, <3>5, <3>6, OneConversation
  <2> QED  BY <1>1, <2>8, <2>9
<1> QED  BY <1>1, <1>3, NewsTrueStays DEF LiveFaithful

LEMMA LiveMarks ==
  ASSUME ChatSound, LiveFaithful, NEW c \in ChatClients, MarkLive(c)
  PROVE  LiveFaithful'
<1>0. PICK root : root = chatCall[c].root  OBVIOUS
<1>1. /\ Waiting(c, "mark") /\ live' = live \cup {root} /\ Reply(c)
      /\ UNCHANGED <<owner, index, inbox, memory, heard, stream, chatRaces>> /\ Roots' = Roots
  BY <1>0 DEF MarkLive, EngineAside, tables, chatHistory, Roots
<1>2. chatCall[c] # NoChatCall /\ chatCall[c].pc = "mark" /\ root \in Roots
  BY <1>0, <1>1, SoundNow DEF Waiting, Calls
<1>3. CallEnds(c)  BY <1>1, Replied
<1>4. ASSUME chatRaces = {} PROVE Orderly'
  <2>1. Orderly  BY <1>4 DEF LiveFaithful
  <2>2. \A d \in ChatClients \ {c} : ~On(d, root)  BY <1>0, <1>2, <2>1, Alone
  <2>3. \A x \in Roots : SameMail(x)  BY <1>1, MailStays
  <2>4. root \in index /\ (root \in memory \/ Starts(root))
    BY <1>0, <1>1, <1>2, <2>1 DEF Orderly, HandlerSound, Deleting, Waiting
  <2>5. Listed(root)'  BY <1>1, <1>2, <2>3, <2>4 DEF Listed, SameMail
  <2>6. ~\E d \in ChatClients : On(d, root) /\ Deleting(d)
    BY <1>2, <2>2 DEF On, Deleting, Waiting
  <2>7. HibernatesAreDeletes(root)  BY <1>2, <2>1 DEF Orderly
  <2>8. HibernatesAreDeletes(root)'  BY <1>1, <2>4, <2>6, <2>7 DEF HibernatesAreDeletes, Hibernates
  <2> QED  BY <1>0, <1>1, <1>2, <1>3, <2>1, <2>2, <2>3, <2>5, <2>8, OneConversation DEF CallEnds
<1> QED  BY <1>1, <1>4, NewsTrueStays DEF LiveFaithful

LEMMA LiveHibernates ==
  ASSUME ChatSound, LiveFaithful, NEW c \in ChatClients, HibernateSession(c)
  PROVE  LiveFaithful'
<1>0. PICK root : root = chatCall[c].root  OBVIOUS
<1>1. /\ Waiting(c, "hibernate") /\ Proceed(c, "events")
      /\ UNCHANGED <<owner, index, live, memory, heard, stream>> /\ Roots' = Roots
      /\ \/ Send("hibernate", root) /\ UNCHANGED chatRaces
         \/ /\ root \notin live /\ UNCHANGED inbox
            /\ chatRaces' = chatRaces \cup {"unheard" : x \in {root} \cap (memory \cup {inbox[i].root : i \in DOMAIN inbox})}
  BY <1>0 DEF HibernateSession, tables, Roots
<1>2. chatCall[c] # NoChatCall /\ chatCall[c].pc = "hibernate" /\ root \in Roots
  BY <1>0, <1>1, SoundNow DEF Waiting, Calls
<1>3. CallIs(c, "events", root)  BY <1>0, <1>1, Proceeded DEF Steps
<1>4. /\ chatCall'[c] = [pc |-> "events", root |-> root] /\ chatCall'[c] # NoChatCall
      /\ \A d \in ChatClients \ {c} : chatCall'[d] = chatCall[d]
  BY <1>3 DEF CallIs
<1>5. chatCall'[c].pc = "events" /\ chatCall'[c].root = root /\ chatCall'[c] # NoChatCall  BY <1>4
<1>6. ASSUME chatRaces' = {} PROVE Orderly'
  <2>1. Orderly  BY <1>1, <1>6 DEF LiveFaithful
  <2>2. \A d \in ChatClients \ {c} : ~On(d, root)  BY <1>0, <1>2, <2>1, Alone
  <2>3. Listed(root)  BY <1>2, <2>1 DEF Orderly
  <2>4. HibernatesAreDeletes(root)'
    <3>1. On(c, root)' /\ Deleting(c)'  BY <1>5 DEF On, Deleting, Waiting
    <3> QED  BY <3>1 DEF HibernatesAreDeletes
  <2>5. News(root)' = News(root)  BY <1>1 DEF News, OfRoot
  <2>6. CASE Send("hibernate", root)
    <3>1. /\ \A x \in Roots \ {root} : SameMail(x)
          /\ Hibernates(root)' /\ PutAway(root)' /\ (Starts(root) => Starts(root)')
      BY <1>1, <1>2, <2>6, MailSent
    <3>2. Listed(root)'  BY <1>1, <2>3, <2>5, <3>1 DEF Listed
    <3> QED  BY <1>0, <1>1, <1>2, <1>4, <1>5, <2>1, <2>2, <2>4, <3>1, <3>2, OneConversation
  <2>7. CASE /\ UNCHANGED inbox
             /\ chatRaces' = chatRaces \cup {"unheard" : x \in {root} \cap (memory \cup {inbox[i].root : i \in DOMAIN inbox})}
    <3>1. root \notin memory /\ \A i \in DOMAIN inbox : inbox[i].root # root  BY <1>6, <2>7
    <3>2. PutAway(root)'  BY <1>1, <2>7, <3>1 DEF PutAway
    <3>3. \A x \in Roots : SameMail(x)  BY <1>1, <2>7, MailStays
    <3>4. Listed(root)'  BY <1>1, <1>2, <2>3, <2>5, <3>3 DEF Listed, SameMail
    <3> QED  BY <1>0, <1>1, <1>2, <1>4, <1>5, <2>1, <2>2, <2>4, <3>2, <3>3, <3>4, OneConversation
  <2> QED  BY <1>1, <2>6, <2>7
<1> QED  BY <1>1, <1>6, NewsTrueStays DEF LiveFaithful

LEMMA LiveDeletesEvents ==
  ASSUME ChatSound, LiveFaithful, NEW c \in ChatClients, DeleteEvents(c)
  PROVE  LiveFaithful'
<1>0. PICK root : root = chatCall[c].root  OBVIOUS
<1>1. /\ Waiting(c, "events") /\ Proceed(c, "row")
      /\ UNCHANGED <<owner, index, live, inbox, memory, heard, stream, chatRaces>> /\ Roots' = Roots
  BY DEF DeleteEvents, process, Roots
<1>2. chatCall[c] # NoChatCall /\ chatCall[c].pc = "events" /\ root \in Roots
  BY <1>0, <1>1, SoundNow DEF Waiting, Calls
<1>3. CallIs(c, "row", root)  BY <1>0, <1>1, Proceeded DEF Steps
<1>4. /\ chatCall'[c] = [pc |-> "row", root |-> root] /\ chatCall'[c] # NoChatCall
      /\ \A d \in ChatClients \ {c} : chatCall'[d] = chatCall[d]
  BY <1>3 DEF CallIs
<1>5. chatCall'[c].pc = "row" /\ chatCall'[c].root = root /\ chatCall'[c] # NoChatCall  BY <1>4
<1>6. ASSUME chatRaces = {} PROVE Orderly'
  <2>1. Orderly  BY <1>6 DEF LiveFaithful
  <2>2. \A d \in ChatClients \ {c} : ~On(d, root)  BY <1>0, <1>2, <2>1, Alone
  <2>3. HibernatesAreDeletes(root)'
    <3>1. On(c, root)' /\ Deleting(c)'  BY <1>5 DEF On, Deleting, Waiting
    <3> QED  BY <3>1 DEF HibernatesAreDeletes
  <2>4. \A x \in Roots : SameMail(x)  BY <1>1, MailStays
  <2>5. PutAway(root)  BY <1>0, <1>1, <1>2, <2>1 DEF Orderly, HandlerSound, Deleting
  <2>6. PutAway(root)'  BY <1>2, <2>4, <2>5 DEF SameMail
  <2>7. Listed(root)  BY <1>2, <2>1 DEF Orderly
  <2>8. Listed(root)'  BY <1>1, <2>7 DEF Listed, News, OfRoot, Starts, Hibernates
  <2> QED  BY <1>0, <1>1, <1>2, <1>4, <1>5, <2>1, <2>2, <2>3, <2>4, <2>6, <2>8, OneConversation
<1> QED  BY <1>1, <1>6, NewsTrueStays DEF LiveFaithful

\* The row goes last: the session was put away, and no longer is listed.
LEMMA LiveDeletesRow ==
  ASSUME ChatSound, LiveFaithful, NEW c \in ChatClients, DeleteRow(c)
  PROVE  LiveFaithful'
<1>0. PICK root : root = chatCall[c].root  OBVIOUS
<1>1. /\ Waiting(c, "row") /\ Reply(c) /\ index' = index \ {root} /\ live' = live \ {root}
      /\ UNCHANGED <<owner, inbox, memory, heard, stream, chatRaces>> /\ Roots' = Roots
  BY <1>0 DEF DeleteRow, EngineAside, chatHistory, Roots
<1>2. chatCall[c] # NoChatCall /\ chatCall[c].pc = "row" /\ root \in Roots
  BY <1>0, <1>1, SoundNow DEF Waiting, Calls
<1>3. CallEnds(c)  BY <1>1, Replied
<1>4. ASSUME chatRaces = {} PROVE Orderly'
  <2>1. Orderly  BY <1>4 DEF LiveFaithful
  <2>2. \A d \in ChatClients \ {c} : ~On(d, root)  BY <1>0, <1>2, <2>1, Alone
  <2>3. \A x \in Roots : SameMail(x)  BY <1>1, MailStays
  <2>4. PutAway(root)  BY <1>0, <1>1, <1>2, <2>1 DEF Orderly, HandlerSound, Deleting
  <2>5. root \in memory => Hibernates(root)  BY <2>4 DEF PutAway, Hibernates
  <2>6. Listed(root)'  BY <1>1, <1>2, <2>3, <2>5 DEF Listed, SameMail
  <2>7. HibernatesAreDeletes(root)'  BY <1>1 DEF HibernatesAreDeletes
  <2> QED  BY <1>0, <1>1, <1>2, <1>3, <2>1, <2>2, <2>3, <2>6, <2>7, OneConversation DEF CallEnds
<1> QED  BY <1>1, <1>4, NewsTrueStays DEF LiveFaithful

LEMMA LivePrompts ==
  ASSUME ChatSound, LiveFaithful, NEW c \in ChatClients, NEW u, NEW root \in Roots, PromptChat(c, u, root)
  PROVE  LiveFaithful'
<1>1. /\ chatCall[c] = NoChatCall /\ Send("prompt", root)
      /\ chatRaces' = chatRaces \cup {"handlers" : d \in {x \in ChatClients : On(x, root)}}
      /\ UNCHANGED <<owner, index, live, memory, heard, stream, chatCall>> /\ Roots' = Roots
  BY DEF PromptChat, tables, Roots
<1>2. ASSUME chatRaces' = {} PROVE Orderly'
  <2>1. chatRaces = {} /\ \A d \in ChatClients : ~On(d, root)  BY <1>1, <1>2
  <2>2. Orderly  BY <2>1 DEF LiveFaithful
  <2>3. /\ \A x \in Roots \ {root} : SameMail(x)
        /\ Starts(root)' /\ (Hibernates(root) => Hibernates(root)') /\ (Hibernates(root)' => Hibernates(root))
    BY <1>1, MailSent
  <2>4. Listed(root) /\ HibernatesAreDeletes(root)  BY <2>2 DEF Orderly
  <2>5. News(root)' = News(root)  BY <1>1 DEF News, OfRoot
  <2>6. Listed(root)'  BY <1>1, <2>3, <2>4, <2>5 DEF Listed
  <2>7. HibernatesAreDeletes(root)'
    BY <1>1, <2>1, <2>3, <2>4 DEF HibernatesAreDeletes
  <2> QED  BY <1>1, <2>1, <2>2, <2>3, <2>6, <2>7, OneConversation
<1> QED  BY <1>1, <1>2, NewsTrueStays DEF LiveFaithful

LEMMA LiveNewChat ==
  ASSUME ChatSound, LiveFaithful, NEW c \in ChatClients, NEW u \in ChatUsers, NewChat(c, u)
  PROVE  LiveFaithful'
<1>0. PICK root : root = Len(owner) + 1  OBVIOUS
<1>1. /\ root \in Nat \ Roots /\ Roots' = Roots \cup {root} /\ index' = index \cup {root}
      /\ CallIs(c, "spawn", root) /\ Accept(c, "spawn", root)
      /\ UNCHANGED <<live, inbox, memory, heard, stream>>
  BY <1>0, Created DEF NewChat, process
<1>2. chatCall[c] = NoChatCall  BY <1>1 DEF Accept
<1>3. /\ chatCall'[c] = [pc |-> "spawn", root |-> root] /\ \A d \in ChatClients \ {c} : chatCall'[d] = chatCall[d]
  BY <1>1 DEF CallIs
<1>4. chatCall'[c].pc = "spawn" /\ chatCall'[c].root = root  BY <1>3
<1>5. /\ root \notin live /\ root \notin memory /\ \A i \in DOMAIN inbox : inbox[i].root # root
      /\ \A n \in DOMAIN stream : stream[n].root # root
  BY <1>1 DEF ChatSound, RootsKnown
<1>6. News(root)' = {}  BY <1>1, <1>5 DEF News, OfRoot
<1>7. ASSUME chatRaces' = {} PROVE Orderly'
  <2>1. chatRaces = {} /\ \A d \in ChatClients : ~On(d, root)  BY <1>1, <1>7, AcceptedAlone
  <2>2. Orderly  BY <2>1 DEF LiveFaithful
  <2>3. \A x \in Roots : SameMail(x)  BY <1>1, MailStays
  <2>4. Listed(root)'  BY <1>1, <1>5 DEF Listed
  <2>5. HibernatesAreDeletes(root)'  BY <1>1, <1>5 DEF HibernatesAreDeletes, Hibernates
  <2> QED  BY <1>1, <1>2, <1>3, <1>4, <2>1, <2>2, <2>3, <2>4, <2>5, OneConversation
<1>8. \A x \in Roots' : NewsIsTrue(x)'
  <2>1. NewsIsTrue(root)'  BY <1>6 DEF NewsIsTrue
  <2>2. \A x \in Roots : NewsIsTrue(x)'  BY <1>1 DEF LiveFaithful, NewsIsTrue, News, OfRoot
  <2> QED  BY <1>1, <2>1, <2>2
<1> QED  BY <1>7, <1>8 DEF LiveFaithful

LEMMA LiveCrash ==
  ASSUME ChatSound, CrashProcess
  PROVE  LiveFaithful'
<1>1. /\ live' = {} /\ inbox' = <<>> /\ memory' = {}
      /\ heard'.index = Len(stream) /\ chatCall' = [c \in ChatClients |-> NoChatCall]
      /\ UNCHANGED <<owner, stream>> /\ Roots' = Roots
  BY DEF CrashProcess, tables, Roots
<1>2. DOMAIN stream = 1 .. Len(stream) /\ Len(stream) \in Nat /\ DOMAIN <<>> = {}
  BY LenProperties DEF ChatSound, ChatTypeOK
<1>3. \A root \in Roots : News(root)' = {}  BY <1>1, <1>2 DEF News, OfRoot
<1>4. \A root \in Roots : NewsIsTrue(root)' /\ Listed(root)' /\ HibernatesAreDeletes(root)'
  BY <1>1, <1>2, <1>3 DEF NewsIsTrue, Listed, HibernatesAreDeletes, Hibernates
<1>5. \A c \in ChatClients : chatCall'[c] = NoChatCall  BY <1>1
<1> QED  BY <1>1, <1>4, <1>5 DEF LiveFaithful, Orderly

\* What the index, the engine and the handlers do not see.
LEMMA LiveStays ==
  ASSUME LiveFaithful, UNCHANGED <<owner, index, live, inbox, memory, stream, chatCall, chatRaces>>,
         heard'.index = heard.index
  PROVE  LiveFaithful'
<1>1. Roots' = Roots  BY DEF Roots
<1>2. \A root \in Roots : News(root)' = News(root)  BY DEF News, OfRoot
<1>3. \A root \in Roots : NewsIsTrue(root) => NewsIsTrue(root)'  BY <1>2 DEF NewsIsTrue
<1>4. \A root : SameMail(root)  BY MailStays
<1>5. \A root \in Roots : Listed(root) => Listed(root)'  BY <1>2, <1>4 DEF Listed, SameMail
<1>6. \A root \in Roots : HibernatesAreDeletes(root) => HibernatesAreDeletes(root)'
  BY DEF HibernatesAreDeletes, Hibernates, On, Deleting, Waiting
<1>7. ASSUME NEW c \in ChatClients, HandlerSound(c) PROVE HandlerSound(c)'
  BY <1>7 DEF HandlerSound, On, Deleting, Waiting, PutAway, Starts
<1> QED  BY <1>1, <1>3, <1>5, <1>6, <1>7 DEF LiveFaithful, Orderly

\* The index hears the next event: a conversation with no more news is as it says.
LEMMA LiveFolds ==
  ASSUME ChatSound, LiveFaithful, IndexFolds
  PROVE  LiveFaithful'
<1>1. /\ heard.index < heard'.index
      /\ UNCHANGED <<owner, index, inbox, memory, stream, chatCall>> /\ Roots' = Roots
  BY IndexReads DEF tables, Roots
<1>2. /\ heard.index \in Nat /\ heard'.index \in Nat /\ Len(stream) \in Nat /\ DOMAIN stream = 1 .. Len(stream)
      /\ heard.index < Len(stream) /\ stream \in Seq(Event)
  BY IndexReads, LenProperties DEF ChatSound, ChatTypeOK, IndexFolds
<1>3. ASSUME NEW root PROVE News(root)' = {n \in News(root) : n > heard'.index}
  <2>1. \A n : n \in News(root)' <=> n \in News(root) /\ n > heard'.index  BY <1>1, <1>2 DEF News, OfRoot
  <2> QED  BY <2>1
<1>4. \A root : \A n \in News(root) : n \in Nat  BY <1>2 DEF News, OfRoot
<1>5. ASSUME NEW root \in Roots PROVE NewsIsTrue(root)'
  <2>1. NewsIsTrue(root)  BY DEF LiveFaithful
  <2>2. ASSUME NEW n \in News(root)', \A m \in News(root)' : m <= n
        PROVE  stream[n].kind = "started" <=> root \in memory
    <3>1. n \in News(root) /\ n > heard'.index  BY <1>3, <2>2
    <3>2. ASSUME NEW m \in News(root) PROVE m <= n
      <4>1. CASE m > heard'.index  BY <1>3, <2>2, <4>1
      <4>2. CASE ~(m > heard'.index)  BY <1>2, <1>4, <3>1, <4>2
      <4> QED  BY <4>1, <4>2
    <3> QED  BY <2>1, <3>1, <3>2 DEF NewsIsTrue
  <2> QED  BY <1>1, <2>2 DEF NewsIsTrue
<1>6. ASSUME chatRaces' = {} PROVE Orderly'
  <2> DEFINE at == heard.index + 1
  <2>1. ~(Len(stream) - heard.index > Broadcast)  BY <1>6 DEF IndexFolds
  <2>2. chatRaces = {}  BY <1>6, <2>1 DEF IndexFolds
  <2>3. Orderly  BY <2>2 DEF LiveFaithful
  <2>4. PICK e \in Event : e = stream[at]  BY <1>2, ElementOfSeq
  <2>5. /\ e.kind = "started" => live' = live \cup {e.root}
        /\ e.kind = "hibernated" => live' = live \ {e.root}
        /\ e.kind = "out" => live' = live
    BY <2>1, <2>4 DEF IndexFolds, Event
  <2>6. heard'.index = at /\ at \in DOMAIN stream /\ at > heard.index
    <3>1. heard' = [heard EXCEPT !.index = @ + 1]  BY <2>1 DEF IndexFolds
    <3>2. heard \in [tap : Nat, index : Nat]  BY DEF ChatSound, ChatTypeOK
    <3> QED  BY <1>2, <3>1, <3>2
  <2> HIDE DEF at
  <2>7. ASSUME NEW root \in Roots PROVE Listed(root)'
    <3>1. Listed(root) /\ NewsIsTrue(root)  BY <2>3 DEF Orderly, LiveFaithful
    <3>2. Starts(root)' <=> Starts(root)  BY <1>1 DEF Starts
    <3>3. Hibernates(root)' <=> Hibernates(root)  BY <1>1 DEF Hibernates
    <3>4. CASE e.root # root \/ e.kind = "out"
      <4>1. at \notin News(root)  BY <2>4, <3>4 DEF News, OfRoot
      <4>2. \A n \in News(root) : n > at
        <5>1. \A n \in News(root) : n # at /\ n > heard.index /\ n \in Nat  BY <1>4, <4>1 DEF News
        <5> QED  BY <1>2, <5>1 DEF at
      <4>3. News(root)' = News(root)  BY <1>3, <2>6, <4>2
      <4>4. root \in live' <=> root \in live  BY <2>4, <2>5, <3>4 DEF Event
      <4> QED  BY <1>1, <3>1, <3>2, <3>3, <4>3, <4>4 DEF Listed
    <3>5. CASE e.root = root /\ e.kind # "out"
      <4>1. SUFFICES ASSUME News(root)' = {}
                     PROVE  IF root \in memory THEN root \in live' \/ Hibernates(root)'
                            ELSE root \notin live' \/ Starts(root)'
        BY <1>1 DEF Listed
      <4>2. at \in News(root)  BY <2>4, <2>6, <3>5 DEF News, OfRoot
      <4>3. \A n \in News(root) : n <= at
        <5>1. \A n \in News(root) : ~(n > at)  BY <1>3, <2>6, <4>1
        <5> QED  BY <1>4, <4>2, <5>1
      <4>4. e.kind = "started" <=> root \in memory  BY <2>4, <3>1, <4>2, <4>3 DEF NewsIsTrue
      <4>5. e.kind = "started" \/ e.kind = "hibernated"  BY <2>4, <3>5 DEF Event
      <4> QED  BY <2>5, <3>5, <4>4, <4>5
    <3> QED  BY <3>4, <3>5
  <2>8. ASSUME NEW root \in Roots PROVE HibernatesAreDeletes(root)'
    BY <1>1, <2>3 DEF Orderly, HibernatesAreDeletes, Hibernates, On, Deleting, Waiting
  <2>9. ASSUME NEW c \in ChatClients, chatCall'[c] # NoChatCall PROVE HandlerSound(c)'
    <3>1. HandlerSound(c)  BY <1>1, <2>3, <2>9 DEF Orderly
    <3> QED  BY <1>1, <3>1 DEF HandlerSound, On, Deleting, Waiting, PutAway, Starts
  <2> QED  BY <1>1, <2>7, <2>8, <2>9 DEF Orderly
<1> QED  BY <1>1, <1>5, <1>6 DEF LiveFaithful

\* What the engine does of itself, or of a message, it also says.
LEMMA LiveTakes ==
  ASSUME ChatSound, LiveFaithful, EngineTakes
  PROVE  LiveFaithful'
<1>0. PICK root : root = Head(inbox).root  OBVIOUS
<1>1. /\ inbox # <<>> /\ inbox' = Tail(inbox)
      /\ UNCHANGED <<owner, index, live, chatCall, chatRaces>> /\ Roots' = Roots
  BY DEF EngineTakes, tables, chatHistory, Roots
<1>2. /\ root \in Roots
      /\ \A x \in Roots \ {root} : News(x)' = News(x) /\ (NewsIsTrue(x) => NewsIsTrue(x)') /\ (x \in memory' <=> x \in memory)
      /\ NewsIsTrue(root) => NewsIsTrue(root)'
      /\ root \in memory' <=> Head(inbox).kind # "hibernate"
      /\ News(root)' = {} => News(root) = {} /\ (root \in memory' <=> root \in memory)
  BY <1>0, EngineNews
<1>3. /\ \A x \in Roots \ {root} : SameMail(x)
      /\ Hibernates(root)' => Hibernates(root)
      /\ Head(inbox).kind = "hibernate" => Hibernates(root) /\ (Starts(root) => Starts(root)')
      /\ Head(inbox).kind # "hibernate" => (Hibernates(root) => Hibernates(root)')
      /\ PutAway(root) /\ Head(inbox).kind = "hibernate" => PutAway(root)' \/ root \in memory'
      /\ PutAway(root) /\ Head(inbox).kind # "hibernate" => PutAway(root)'
  BY <1>0, <1>1, <1>2, MailTaken
<1>4. \A x \in Roots : NewsIsTrue(x)'  BY <1>2 DEF LiveFaithful
<1>5. ASSUME chatRaces = {} PROVE Orderly'
  <2>1. Orderly  BY <1>5 DEF LiveFaithful
  <2>2. ASSUME NEW x \in Roots PROVE Listed(x)'
    <3>1. Listed(x)  BY <2>1 DEF Orderly
    <3>2. CASE x # root  BY <1>1, <1>2, <1>3, <3>1, <3>2 DEF Listed, SameMail
    <3>3. CASE x = root
      <4>1. SUFFICES ASSUME News(root)' = {} PROVE Listed(root)'  BY <3>3 DEF Listed
      <4>2. News(root) = {} /\ (root \in memory' <=> root \in memory)  BY <1>2, <4>1
      <4>3. CASE Head(inbox).kind = "hibernate"
        <5>1. root \notin memory /\ root \notin memory'  BY <1>2, <4>2, <4>3
        <5> QED  BY <1>1, <1>3, <3>1, <3>3, <4>2, <4>3, <5>1 DEF Listed
      <4>4. CASE Head(inbox).kind # "hibernate"
        <5>1. root \in memory /\ root \in memory'  BY <1>2, <4>2, <4>4
        <5> QED  BY <1>1, <1>3, <3>1, <3>3, <4>2, <4>4, <5>1 DEF Listed
      <4> QED  BY <4>3, <4>4
    <3> QED  BY <3>2, <3>3
  <2>3. ASSUME NEW x \in Roots PROVE HibernatesAreDeletes(x)'
    <3>1. Hibernates(x)' => Hibernates(x)  BY <1>3 DEF SameMail
    <3>2. HibernatesAreDeletes(x)  BY <2>1 DEF Orderly
    <3> QED  BY <1>1, <3>1, <3>2 DEF HibernatesAreDeletes, On, Deleting, Waiting
  <2>4. ASSUME NEW c \in ChatClients, chatCall'[c] # NoChatCall PROVE HandlerSound(c)'
    <3>0. PICK x : x = chatCall[c].root  OBVIOUS
    <3>1. HandlerSound(c) /\ chatCall[c] # NoChatCall  BY <1>1, <2>1, <2>4 DEF Orderly
    <3>2. x \in Roots  BY <3>0, <3>1, SoundNow DEF Calls
    <3>3. Deleting(c) => PutAway(x)'
      <4>1. Deleting(c) => PutAway(x)  BY <3>0, <3>1 DEF HandlerSound
      <4> QED  BY <1>2, <1>3, <3>2, <4>1 DEF SameMail
    <3>4. Waiting(c, "mark") => x \in memory' \/ Starts(x)'
      <4>1. Waiting(c, "mark") => x \in memory \/ Starts(x)  BY <3>0, <3>1 DEF HandlerSound
      <4>2. CASE x # root  BY <1>2, <1>3, <3>2, <4>1, <4>2 DEF SameMail
      <4>3. CASE x = root /\ Head(inbox).kind # "hibernate"  BY <1>2, <4>3
      <4>4. CASE x = root /\ Head(inbox).kind = "hibernate"
        <5>1. ~Waiting(c, "mark")
          <6>1. SUFFICES ASSUME Waiting(c, "mark") PROVE FALSE  OBVIOUS
          <6>2. ~Deleting(c)  BY <6>1 DEF Deleting, Waiting
          <6>3. x \in index /\ \A d \in ChatClients \ {c} : ~On(d, x)  BY <3>0, <3>1, <6>2 DEF HandlerSound
          <6>4. HibernatesAreDeletes(x) /\ Hibernates(x)  BY <1>3, <2>1, <3>2, <4>4 DEF Orderly
          <6> QED  BY <6>2, <6>3, <6>4 DEF HibernatesAreDeletes
        <5> QED  BY <5>1
      <4> QED  BY <4>2, <4>3, <4>4
    <3> QED  BY <1>1, <3>0, <3>1, <3>3, <3>4 DEF HandlerSound, Deleting, Waiting, On
  <2> QED  BY <1>1, <2>2, <2>3, <2>4 DEF Orderly
<1> QED  BY <1>1, <1>4, <1>5 DEF LiveFaithful

LEMMA LiveIdles ==
  ASSUME ChatSound, LiveFaithful, NEW root \in memory, EngineIdles(root)
  PROVE  LiveFaithful'
<1>1. /\ memory' = memory \ {root} /\ Emit(<<"hibernated">>, root)
      /\ chatRaces' = chatRaces \cup {"unheard" : c \in {x \in ChatClients : Waiting(x, "mark") /\ On(x, root)}}
      /\ UNCHANGED <<owner, index, live, inbox, heard, chatCall>> /\ Roots' = Roots /\ root \in Roots
  BY SoundNow DEF EngineIdles, tables, Roots
<1>2. DOMAIN stream = 1 .. Len(stream) /\ Len(stream) \in Nat /\ heard.index \in Nat /\ heard.index <= Len(stream)
  BY LenProperties DEF ChatSound, ChatTypeOK
<1>3. /\ stream' \in Seq(Event) /\ Len(stream') = Len(stream) + 1
      /\ \A n \in DOMAIN stream : n \in DOMAIN stream' /\ stream'[n] = stream[n]
      /\ Len(stream) + 1 \in DOMAIN stream'
      /\ stream'[Len(stream) + 1] = [kind |-> "hibernated", root |-> root]
  <2> DEFINE said == <<"hibernated">>
  <2>1. said \in Seq(Kinds) /\ Len(said) = 1 /\ 1 \in DOMAIN said /\ said[1] = "hibernated" /\ Emit(said, root)
    BY <1>1, SaidKinds
  <2> HIDE DEF said
  <2>2. /\ stream' \in Seq(Event) /\ Len(stream') = Len(stream) + Len(said)
        /\ \A n \in DOMAIN stream : n \in DOMAIN stream' /\ n <= Len(stream) /\ stream'[n] = stream[n]
        /\ \A i \in DOMAIN said : /\ Len(stream) + i \in DOMAIN stream'
                                  /\ stream'[Len(stream) + i] = [kind |-> said[i], root |-> root]
    <3>1. root \in Roots /\ said \in Seq(Kinds) /\ Emit(said, root) /\ ChatTypeOK
      BY <1>1, <2>1 DEF ChatSound
    <3> QED  BY ONLY <3>1, Emitted
  <2> QED  BY ONLY <2>1, <2>2
<1>4. DOMAIN stream' = 1 .. Len(stream) + 1  BY <1>3, LenProperties
<1>5. PICK last : last = Len(stream) + 1  OBVIOUS
<1>6. stream'[last].kind = "hibernated" /\ stream'[last].root = root /\ last \in DOMAIN stream'
  BY <1>3, <1>5
<1>7. ASSUME NEW x \in Roots \ {root}
      PROVE  News(x)' = News(x) /\ (NewsIsTrue(x) => NewsIsTrue(x)') /\ (x \in memory' <=> x \in memory)
  <2>1. \A n \in DOMAIN stream' : n \in DOMAIN stream \/ stream'[n].root # x
    BY <1>2, <1>4, <1>5, <1>6, <1>7
  <2>2. x \in memory' <=> x \in memory  BY <1>1, <1>7
  <2> QED  BY <1>1, <1>3, <2>1, <2>2, NewsStays
<1>8. News(root)' # {} /\ NewsIsTrue(root)'
  <2>1. \A n \in DOMAIN stream' : n <= last  BY <1>2, <1>4, <1>5
  <2>2. last > heard'.index /\ root \notin memory'  BY <1>1, <1>2, <1>5
  <2> QED  BY <1>3, <1>6, <2>1, <2>2, NewsLast
<1>9. \A x \in Roots : NewsIsTrue(x)'  BY <1>7, <1>8 DEF LiveFaithful
<1>10. ASSUME chatRaces' = {} PROVE Orderly'
  <2>1. chatRaces = {} /\ \A c \in ChatClients : ~(Waiting(c, "mark") /\ On(c, root))  BY <1>1, <1>10
  <2>2. Orderly  BY <2>1 DEF LiveFaithful
  <2>3. \A x : (Starts(x)' <=> Starts(x)) /\ (Hibernates(x)' <=> Hibernates(x))  BY <1>1 DEF Starts, Hibernates
  <2>4. ASSUME NEW x \in Roots PROVE Listed(x)'
    <3>1. Listed(x)  BY <2>2 DEF Orderly
    <3>2. CASE x # root  BY <1>1, <1>7, <2>3, <3>1, <3>2 DEF Listed
    <3>3. CASE x = root  BY <1>8, <3>3 DEF Listed
    <3> QED  BY <3>2, <3>3
  <2>5. ASSUME NEW x \in Roots PROVE HibernatesAreDeletes(x)'
    BY <1>1, <2>2, <2>3 DEF Orderly, HibernatesAreDeletes, On, Deleting, Waiting
  <2>6. ASSUME NEW c \in ChatClients, chatCall'[c] # NoChatCall PROVE HandlerSound(c)'
    <3>0. PICK x : x = chatCall[c].root  OBVIOUS
    <3>1. HandlerSound(c) /\ chatCall[c] # NoChatCall  BY <1>1, <2>2, <2>6 DEF Orderly
    <3>2. x \in Roots  BY <3>0, <3>1, SoundNow DEF Calls
    <3>3. PutAway(x) => PutAway(x)'  BY <1>1 DEF PutAway
    <3>4. Waiting(c, "mark") => x \in memory' \/ Starts(x)'
      <4>1. Waiting(c, "mark") => x # root  BY <2>1, <3>0, <3>1 DEF On
      <4>2. Waiting(c, "mark") => x \in memory \/ Starts(x)  BY <3>0, <3>1 DEF HandlerSound
      <4> QED  BY <1>7, <2>3, <3>2, <4>1, <4>2
    <3> QED  BY <1>1, <3>0, <3>1, <3>3, <3>4 DEF HandlerSound, Deleting, Waiting, On
  <2> QED  BY <1>1, <2>4, <2>5, <2>6 DEF Orderly
<1> QED  BY <1>1, <1>9, <1>10 DEF LiveFaithful

-----------------------------------------------------------------------------
LEMMA LiveInit == AssistantInit => LiveFaithful
<1> SUFFICES ASSUME AssistantInit PROVE LiveFaithful  OBVIOUS
<1>1. DOMAIN <<>> = {}  OBVIOUS
<1>2. Roots = {}  BY <1>1 DEF AssistantInit, Roots
<1>3. \A c \in ChatClients : chatCall[c] = NoChatCall  BY DEF AssistantInit
<1> QED  BY <1>2, <1>3 DEF LiveFaithful, Orderly

LEMMA LiveNext ==
  ASSUME ChatSound, LiveFaithful, [AssistantNext]_assistantVars
  PROVE  LiveFaithful'
<1>1. CASE \/ UNCHANGED assistantVars \/ TapRecords \/ WriterStores \/ WriterDrops
  <2>1. UNCHANGED <<owner, index, live, inbox, memory, stream, chatCall, chatRaces>>
    BY <1>1 DEF assistantVars, tables, process, chatHistory, TapRecords, WriterStores, WriterDrops
  <2>2. heard'.index = heard.index
    <3>1. CASE TapRecords
      <4>1. \E next \in Nat : heard' = [heard EXCEPT !.tap = next]  BY <3>1, TapSends
      <4> QED  BY <4>1 DEF ChatSound, ChatTypeOK
    <3>2. CASE UNCHANGED assistantVars \/ WriterStores \/ WriterDrops
      BY <3>2 DEF assistantVars, process, WriterStores, WriterDrops
    <3> QED  BY <1>1, <3>1, <3>2
  <2> QED  BY <2>1, <2>2, LiveStays
<1>2. CASE EngineTakes  BY <1>2, LiveTakes
<1>3. ASSUME NEW root \in memory, EngineIdles(root) PROVE LiveFaithful'  BY <1>3, LiveIdles
<1>4. CASE IndexFolds  BY <1>4, LiveFolds
<1>5. CASE CrashProcess  BY <1>5, LiveCrash
<1>6. ASSUME NEW c \in ChatClients,
             \/ SpawnSession(c) \/ LoadRecords(c) \/ MarkLive(c)
             \/ HibernateSession(c) \/ DeleteEvents(c) \/ DeleteRow(c)
      PROVE  LiveFaithful'
  BY <1>6, LiveSpawn, LiveLoads, LiveMarks, LiveHibernates, LiveDeletesEvents, LiveDeletesRow
<1>7. ASSUME NEW c \in ChatClients, NEW u \in ChatUsers, NewChat(c, u) PROVE LiveFaithful'
  BY <1>7, LiveNewChat
<1>8. ASSUME NEW c \in ChatClients, NEW u \in ChatUsers, NEW root \in Roots,
             OpenChat(c, u, root) \/ DeleteChat(c, u, root)
      PROVE  LiveFaithful'
  <2>1. root \in index /\ UNCHANGED tables /\ \E pc \in {"load", "hibernate"} : Accept(c, pc, root)
    BY <1>8 DEF OpenChat, DeleteChat, OwnedRow
  <2> QED  BY <2>1, LiveAccepts
<1>9. ASSUME NEW c \in ChatClients, NEW u \in ChatUsers, NEW root \in Roots, PromptChat(c, u, root)
      PROVE  LiveFaithful'
  BY <1>9, LivePrompts
<1> QED  BY <1>1, <1>2, <1>3, <1>4, <1>5, <1>6, <1>7, <1>8, <1>9 DEF AssistantNext

\* The index, its news and the engine's mail agree, always.
THEOREM LiveInductive == AssistantSpec => []LiveIInv
<1>1. AssistantInit => LogIInv /\ LiveIInv
  BY LogInit, LiveInit, ChatSoundInit DEF LiveIInv, ChatSound
<1>2. LogIInv /\ LiveIInv /\ [AssistantNext]_assistantVars => LogIInv' /\ LiveIInv'
  BY ChatSoundNext, LiveNext DEF LogIInv, LiveIInv, ChatSound
<1> QED  BY <1>1, <1>2, PTL DEF AssistantSpec

\* With nothing under way and no race, the sessions listed as live are those
\* the engine holds, for any number of clients and conversations.
THEOREM HeldIsLive == AssistantSpec => []LiveIsHeld
<1>1. LiveIInv => LiveIsHeld
  <2> SUFFICES ASSUME LiveIInv, inbox = <<>>, heard.index = Len(stream), chatRaces = {}
               PROVE  live = memory
    BY DEF LiveIsHeld
  <2>1. DOMAIN stream = 1 .. Len(stream) /\ Len(stream) \in Nat /\ DOMAIN <<>> = {}
    BY LenProperties DEF LiveIInv, ChatTypeOK
  <2>2. ASSUME NEW root \in Roots PROVE root \in live <=> root \in memory
    <3>1. News(root) = {}  BY <2>1 DEF News, OfRoot
    <3>2. ~Starts(root) /\ ~Hibernates(root)  BY <2>1 DEF Starts, Hibernates
    <3>3. Listed(root)  BY DEF LiveIInv, LiveFaithful, Orderly
    <3> QED  BY <3>1, <3>2, <3>3 DEF Listed
  <2> QED  BY <2>2 DEF LiveIInv, RootsKnown
<1> QED  BY <1>1, LiveInductive, PTL

-----------------------------------------------------------------------------
(***************************************************************************)
(* Providers, for every set of clients, callers and names.                 *)
(***************************************************************************)
Handled(c) == providerCall[c] # NoProviderCall

ProvidersTypeOK ==
  /\ providers \in Seq(ProviderRows)
  /\ providerCall \in [ProviderClients -> ProviderHandlers \cup {NoProviderCall}]

(***************************************************************************)
(* The cache.  A table the cache does not follow is one that a handler has *)
(* changed and is still to read, or has read and is still to swap in.      *)
(***************************************************************************)
Unread(c) ==
  /\ Handled(c)
  /\ \/ providerCall[c].pc = "reload"
     \/ providerCall[c].pc \in {"defaults", "clear", "find", "write"} /\ providerCall[c].changed
Swapping(c) == Handled(c) /\ providerCall[c].pc = "swap"

CacheBehind ==
  providerRaces \cap {"rebuild", "halfway"} = {} =>
    /\ \A c, d \in ProviderClients : Swapping(c) /\ Swapping(d) => c = d
    /\ \/ \E c \in ProviderClients : Unread(c)
       \/ /\ \A c \in ProviderClients : Swapping(c) => providerCall[c].read = providers
          /\ providerCache = Caches(providers) \/ \E c \in ProviderClients : Swapping(c)

(***************************************************************************)
(* The defaults.  A handler that is to write a default has the others of   *)
(* its owner before it, in ids, or behind it.                              *)
(***************************************************************************)
DefaultRows(o) == Defaults(providers, OwnedBy(providers, o))
WritesDefault(c) == Handled(c) /\ providerCall[c].op = "upsert" /\ providerCall[c].row.default

HandlerOwns(c) ==
  LET r == providerCall[c] IN
  /\ r.op = "upsert" => r.row.owner = r.owner
  /\ r.pc \in {"defaults", "clear", "find", "write"} => r.op = "upsert"
  /\ r.pc = "defaults" => r.row.default
  /\ r.pc \in {"delete", "clear", "write"} => r.ids \subseteq DOMAIN providers
  /\ r.pc = "delete" => r.ids # {}
  /\ r.pc = "write" => \A i, j \in r.ids : i = j /\ providers[i].owner = r.owner

DefaultsCleared ==
  "defaults" \notin providerRaces =>
    /\ \A c, d \in ProviderClients :
         WritesDefault(c) /\ WritesDefault(d) /\ providerCall[c].owner = providerCall[d].owner => c = d
    /\ \A c \in ProviderClients : WritesDefault(c) =>
         /\ providerCall[c].pc = "clear" => DefaultRows(providerCall[c].owner) \subseteq providerCall[c].ids
         /\ providerCall[c].pc \in {"find", "write"} => DefaultRows(providerCall[c].owner) = {}

(***************************************************************************)
(* The pins.  What is pending for a user is what its one conversation yet  *)
(* to start has chosen.                                                    *)
(***************************************************************************)
ChatsTypeOK == chats \in Seq(ToSet(chats))
NamesKnown == \A o \in DOMAIN providerCache.contexts : Unknown \notin providerCache.contexts[o]

PinsPending ==
  "pins" \notin providerRaces =>
    /\ \A s, t \in DOMAIN chats :
         chats[s].model = Unknown /\ chats[t].model = Unknown /\ chats[s].user = chats[t].user => s = t
    /\ \A s \in DOMAIN chats : chats[s].model = Unknown =>
         IF chats[s].choice = None THEN chats[s].user \notin DOMAIN pendingPins
         ELSE chats[s].user \in DOMAIN pendingPins /\ pendingPins[chats[s].user] = chats[s].choice
    /\ \A u \in DOMAIN pendingPins : \E s \in DOMAIN chats : chats[s].user = u /\ chats[s].model = Unknown

TableIInv == /\ \A c \in ProviderClients : Handled(c) => HandlerOwns(c)
             /\ DefaultsCleared /\ OneDefault
CacheIInv == CacheBehind /\ NamesKnown
PinsIInv  == ChatsTypeOK /\ PinsPending /\ PinsReachTheirChat
ProvidersIInv == ProvidersTypeOK /\ TableIInv /\ CacheIInv /\ PinsIInv

(***************************************************************************)
(* One handler moves on.                                                   *)
(***************************************************************************)
LEMMA CallMoved ==
  ASSUME ProvidersTypeOK, NEW c \in ProviderClients, NEW r \in ProviderHandlers \cup {NoProviderCall},
         providerCall' = [providerCall EXCEPT ![c] = r]
  PROVE  /\ providerCall' \in [ProviderClients -> ProviderHandlers \cup {NoProviderCall}]
         /\ providerCall'[c] = r /\ (Handled(c)' <=> r # NoProviderCall)
         /\ \A d \in ProviderClients \ {c} :
              /\ providerCall'[d] = providerCall[d]
              /\ Handled(d)' <=> Handled(d)
              /\ Unread(d)' <=> Unread(d)
              /\ Swapping(d)' <=> Swapping(d)
              /\ WritesDefault(d)' <=> WritesDefault(d)
BY DEF ProvidersTypeOK, Handled, Unread, Swapping, WritesDefault

\* A handler that is waiting at a statement is a handler.
LEMMA CallAt ==
  ASSUME ProvidersTypeOK, NEW c \in ProviderClients, NEW pc, Waits(c, pc)
  PROVE  /\ providerCall[c] \in ProviderHandlers /\ Handled(c)
         /\ providerCall[c].pc = pc
BY DEF ProvidersTypeOK, Waits, Handled

\* The least id of some is one of them.
LEMMA MinOfIds ==
  ASSUME NEW S \in SUBSET Nat, S # {}
  PROVE  Min(S) \in S
<1>1. PICK m \in S : \A n \in S : ~(<<n, m>> \in OpToRel(<, Nat))
  BY NatLessThanWellFounded, WFMin
<1>2. ASSUME NEW n \in S PROVE m <= n
  <2>1. <<n, m>> \in Nat \X Nat  OBVIOUS
  <2>2. ~(<<n, m>> \in OpToRel(<, Nat))  BY <1>1
  <2>3. ~(n < m)  BY <2>1, <2>2 DEF OpToRel
  <2> QED  BY <2>3
<1> QED  BY <1>2 DEF Min

(***************************************************************************)
(* The cache and the table.                                                *)
(***************************************************************************)

\* A handler's step that neither changes the table nor reads it for the cache.
LEMMA CacheStays ==
  ASSUME ProvidersTypeOK, CacheBehind, NEW c \in ProviderClients, NEW r \in ProviderHandlers \cup {NoProviderCall},
         providerCall' = [providerCall EXCEPT ![c] = r], providerRaces \subseteq providerRaces',
         UNCHANGED <<providers, providerCache>>,
         ~Swapping(c), ~Swapping(c)',
         Unread(c) => Unread(c)' \/ "halfway" \in providerRaces'
  PROVE  CacheBehind'
<1>1. SUFFICES ASSUME providerRaces' \cap {"rebuild", "halfway"} = {} PROVE CacheBehind'
  BY DEF CacheBehind
<1>2. providerRaces \cap {"rebuild", "halfway"} = {} /\ "halfway" \notin providerRaces'  BY <1>1
<1>3. /\ \A d \in ProviderClients : Swapping(d)' <=> Swapping(d)
      /\ \A d \in ProviderClients : Swapping(d) => providerCall'[d] = providerCall[d]
      /\ \A d \in ProviderClients : Unread(d) => Unread(d)'
  BY <1>2, CallMoved
<1> QED  BY <1>2, <1>3 DEF CacheBehind

\* A handler that has changed the table is to read it.
LEMMA CacheFallsBehind ==
  ASSUME ProvidersTypeOK, CacheBehind, NEW c \in ProviderClients, NEW r \in ProviderHandlers \cup {NoProviderCall},
         providerCall' = [providerCall EXCEPT ![c] = r], providerRaces \subseteq providerRaces',
         Unread(c)'
  PROVE  CacheBehind'
<1>1. SUFFICES ASSUME providerRaces' \cap {"rebuild", "halfway"} = {} PROVE CacheBehind'
  BY DEF CacheBehind
<1>2. providerRaces \cap {"rebuild", "halfway"} = {}  BY <1>1
<1>3. ~Swapping(c)'  BY DEF Unread, Swapping
<1>4. \A d \in ProviderClients \ {c} : Swapping(d)' <=> Swapping(d)  BY CallMoved
<1> QED  BY <1>2, <1>3, <1>4 DEF CacheBehind

LEMMA ReadProvidersCache ==
  ASSUME ProvidersTypeOK, CacheBehind, NEW c \in ProviderClients, ReadProviders(c)
  PROVE  CacheBehind' /\ ProvidersTypeOK'
<1>1. PICK r \in ProviderHandlers : r = providerCall[c]  BY CallAt DEF ReadProviders
<1>2. PICK s : s = [r EXCEPT !.pc = "swap", !.read = providers]  OBVIOUS
<1>3. s \in ProviderHandlers /\ s.pc = "swap" /\ s.read = providers
  BY <1>1, <1>2 DEF ProviderHandlers, ProvidersTypeOK
<1>4. /\ providerCall' = [providerCall EXCEPT ![c] = s]
      /\ providerRaces' = (providerRaces \ {"rebuild", "halfway"}) \cup Races(c, s)
      /\ UNCHANGED <<providers, providerCache>>
  BY <1>1, <1>2 DEF ReadProviders, OtherThan
<1>5. /\ providerCall' \in [ProviderClients -> ProviderHandlers \cup {NoProviderCall}]
      /\ providerCall'[c] = s
      /\ \A d \in ProviderClients \ {c} : Swapping(d)' <=> Swapping(d)
  BY <1>3, <1>4, CallMoved
<1>6. ProvidersTypeOK'  BY <1>4, <1>5 DEF ProvidersTypeOK
<1>7. CacheBehind'
  <2>1. SUFFICES ASSUME providerRaces' \cap {"rebuild", "halfway"} = {} PROVE CacheBehind'
    BY DEF CacheBehind
  <2>2. "rebuild" \notin Races(c, s)  BY <1>4, <2>1
  <2>3. \A d \in ProviderClients \ {c} : ~Swapping(d)
    BY <1>3, <2>2 DEF Races, Swapping, Handled
  <2>4. Swapping(c)'  BY <1>3, <1>5, ProvidersAssumption DEF Swapping, Handled
  <2> QED  BY <1>3, <1>4, <1>5, <2>3, <2>4 DEF CacheBehind
<1> QED  BY <1>6, <1>7

\* No catalog offers a provider of a name that is not one.
LEMMA CachedNames ==
  ASSUME NEW rows \in Seq(ProviderRows), NEW o \in DOMAIN Caches(rows).contexts
  PROVE  Unknown \notin Caches(rows).contexts[o]
<1>1. \A i \in DOMAIN rows : rows[i].name # Unknown
  <2>0. \A i \in DOMAIN rows : rows[i] \in ProviderRows  OBVIOUS
  <2>1. \A i \in DOMAIN rows : rows[i].name \in ProviderNames \cup {None}  BY <2>0 DEF ProviderRows
  <2>2. Unknown \notin ProviderNames \cup {None}
    <3>1. Unknown \notin ProviderNames  BY ProvidersAssumption
    <3>2. Unknown # None  BY DEF Unknown, None
    <3> QED  BY <3>1, <3>2
  <2> QED  BY <2>1, <2>2
<1>2. \A own, globals \in SUBSET DOMAIN rows : Unknown \notin ComposeContext(rows, own, globals)
  BY <1>1 DEF ComposeContext
<1>3. \A x : OwnedBy(rows, x) \in SUBSET DOMAIN rows  BY DEF OwnedBy
<1>4. \A globals \in SUBSET DOMAIN rows : Unknown \notin HouseContext(rows, globals)
  BY <1>2 DEF HouseContext, Unknown
<1> QED  BY <1>2, <1>3, <1>4 DEF Caches

LEMMA SwapCacheStep ==
  ASSUME ProvidersTypeOK, CacheIInv, NEW c \in ProviderClients, SwapCache(c)
  PROVE  CacheIInv' /\ ProvidersTypeOK'
<1>1. PICK r \in ProviderHandlers : r = providerCall[c] /\ r.pc = "swap"
  BY CallAt DEF SwapCache
<1>2. /\ providerCall' = [providerCall EXCEPT ![c] = NoProviderCall]
      /\ providerRaces \subseteq providerRaces'
      /\ providerCache' = Caches(r.read) /\ providers' = providers
  BY <1>1 DEF SwapCache, Finish, OtherThan
<1>3. /\ providerCall' \in [ProviderClients -> ProviderHandlers \cup {NoProviderCall}]
      /\ ~Handled(c)'
      /\ \A d \in ProviderClients \ {c} :
           (Unread(d)' <=> Unread(d)) /\ (Swapping(d)' <=> Swapping(d))
  BY <1>2, CallMoved
<1>4. ProvidersTypeOK'  BY <1>2, <1>3 DEF ProvidersTypeOK
<1>5. NamesKnown'
  <2>1. r.read \in Seq(ProviderRows)  BY DEF ProviderHandlers
  <2> QED  BY <1>2, <2>1, CachedNames DEF NamesKnown
<1>6. CacheBehind'
  <2>1. SUFFICES ASSUME providerRaces' \cap {"rebuild", "halfway"} = {} PROVE CacheBehind'
    BY DEF CacheBehind
  <2>2. providerRaces \cap {"rebuild", "halfway"} = {}  BY <1>2, <2>1
  <2>3. Swapping(c) /\ ~Unread(c)
    BY <1>1, ProvidersAssumption DEF Swapping, Unread, Handled
  <2>4. \A d \in ProviderClients \ {c} : ~Swapping(d)  BY <2>2, <2>3 DEF CacheIInv, CacheBehind
  <2>5. \A d \in ProviderClients : ~Swapping(d)'
    BY <1>3, <2>4 DEF Swapping
  <2>6. CASE \E d \in ProviderClients : Unread(d)
    <3>1. PICK d \in ProviderClients : Unread(d)  BY <2>6
    <3>2. Unread(d)'  BY <1>3, <2>3, <3>1
    <3> QED  BY <2>5, <3>2 DEF CacheBehind
  <2>7. CASE ~ \E d \in ProviderClients : Unread(d)
    <3>1. r.read = providers  BY <1>1, <2>2, <2>3, <2>7 DEF CacheIInv, CacheBehind
    <3> QED  BY <1>2, <2>5, <3>1 DEF CacheBehind
  <2> QED  BY <2>6, <2>7
<1> QED  BY <1>4, <1>5, <1>6 DEF CacheIInv

(***************************************************************************)
(* The defaults.                                                           *)
(***************************************************************************)

\* A row is overwritten, or added past the last.
LEMMA RowWritten ==
  ASSUME ProvidersTypeOK, NEW row \in ProviderRows, NEW i,
         \/ i \in DOMAIN providers /\ providers' = [providers EXCEPT ![i] = row]
         \/ i = Len(providers) + 1 /\ providers' = Append(providers, row)
  PROVE  /\ providers' \in Seq(ProviderRows)
         /\ DOMAIN providers \subseteq DOMAIN providers' /\ i \in DOMAIN providers'
         /\ providers'[i] = row
         /\ \A j \in DOMAIN providers' : j # i => j \in DOMAIN providers /\ providers'[j] = providers[j]
<1>1. CASE i \in DOMAIN providers /\ providers' = [providers EXCEPT ![i] = row]
  BY <1>1 DEF ProvidersTypeOK
<1>2. CASE i = Len(providers) + 1 /\ providers' = Append(providers, row)
  BY <1>2 DEF ProvidersTypeOK
<1> QED  BY <1>1, <1>2

LEMMA DefaultRowIs ==
  ASSUME NEW o, NEW i
  PROVE  i \in DefaultRows(o) <=> /\ i \in DOMAIN providers /\ providers[i].live
                                  /\ providers[i].owner = o /\ providers[i].default
BY DEF DefaultRows, Defaults, OwnedBy

LEMMA OneDefaultIs ==
  OneDefault <=> ("defaults" \notin providerRaces => \A o : \A i, j \in DefaultRows(o) : i = j)
<1>1. ASSUME NEW i \in DOMAIN providers, NEW j \in DOMAIN providers
      PROVE  providers[i].owner = providers[j].owner /\
               {i, j} \subseteq Defaults(providers, OwnedBy(providers, providers[i].owner))
             <=> i \in DefaultRows(providers[i].owner) /\ j \in DefaultRows(providers[i].owner)
  BY DEF DefaultRows, Defaults, OwnedBy
<1>2. \A o : \A i \in DefaultRows(o) : i \in DOMAIN providers /\ o = providers[i].owner  BY DefaultRowIs
<1> QED  BY <1>1, <1>2 DEF OneDefault

\* No row changes hands, and only a handler with a default in its hands adds one.
LEMMA TableStep ==
  ASSUME ProvidersTypeOK, TableIInv, NEW c \in ProviderClients,
         NEW r \in ProviderHandlers \cup {NoProviderCall},
         providerCall' = [providerCall EXCEPT ![c] = r],
         "defaults" \in providerRaces => "defaults" \in providerRaces',
         r # NoProviderCall => HandlerOwns(c)',
         DOMAIN providers \subseteq DOMAIN providers',
         \A j \in DOMAIN providers : providers'[j].owner = providers[j].owner,
         \A o : \/ DefaultRows(o)' \subseteq DefaultRows(o)
                \/ WritesDefault(c) /\ o = providerCall[c].owner,
         WritesDefault(c) /\ "defaults" \notin providerRaces' =>
           \A o : o = providerCall[c].owner => \A i, j \in DefaultRows(o)' : i = j,
         "defaults" \notin providerRaces' /\ WritesDefault(c)' =>
           /\ \A d \in ProviderClients \ {c} : WritesDefault(d) => providerCall[d].owner # r.owner
           /\ \A o : o = r.owner => /\ r.pc = "clear" => DefaultRows(o)' \subseteq r.ids
                                    /\ r.pc \in {"find", "write"} => DefaultRows(o)' = {}
  PROVE  TableIInv'
<1>1. /\ providerCall'[c] = r /\ (Handled(c)' <=> r # NoProviderCall)
      /\ \A d \in ProviderClients \ {c} :
           /\ providerCall'[d] = providerCall[d]
           /\ Handled(d)' <=> Handled(d)
           /\ WritesDefault(d)' <=> WritesDefault(d)
  BY CallMoved
<1>2. ASSUME NEW d \in ProviderClients, Handled(d)' PROVE HandlerOwns(d)'
  <2>1. CASE d = c  BY <1>1, <1>2, <2>1
  <2>2. CASE d # c
    <3>1. HandlerOwns(d) /\ providerCall'[d] = providerCall[d]  BY <1>1, <1>2, <2>2 DEF TableIInv
    <3> QED  BY <3>1 DEF HandlerOwns
  <2> QED  BY <2>1, <2>2
<1>3. ASSUME "defaults" \notin providerRaces' PROVE DefaultsCleared' /\ OneDefault'
  <2>0. "defaults" \notin providerRaces  BY <1>3
  <2>1. \A d, e \in ProviderClients :
          WritesDefault(d) /\ WritesDefault(e) /\ providerCall[d].owner = providerCall[e].owner => d = e
    BY <2>0 DEF TableIInv, DefaultsCleared
  <2>2. ASSUME NEW d \in ProviderClients, NEW e \in ProviderClients, WritesDefault(d)', WritesDefault(e)',
               providerCall'[d].owner = providerCall'[e].owner
        PROVE  d = e
    BY <1>1, <1>3, <2>1, <2>2
  <2>3. ASSUME NEW d \in ProviderClients, WritesDefault(d)', NEW o, o = providerCall'[d].owner
        PROVE  /\ providerCall'[d].pc = "clear" => DefaultRows(o)' \subseteq providerCall'[d].ids
               /\ providerCall'[d].pc \in {"find", "write"} => DefaultRows(o)' = {}
    <3>1. CASE d = c  BY <1>1, <1>3, <2>3, <3>1
    <3>2. CASE d # c
      <4>1. WritesDefault(d) /\ providerCall'[d] = providerCall[d]  BY <1>1, <2>3, <3>2
      <4>2. DefaultRows(o)' \subseteq DefaultRows(o)  BY <2>1, <2>3, <3>2, <4>1
      <4>3. /\ providerCall[d].pc = "clear" => DefaultRows(o) \subseteq providerCall[d].ids
            /\ providerCall[d].pc \in {"find", "write"} => DefaultRows(o) = {}
        BY <2>0, <2>3, <4>1 DEF TableIInv, DefaultsCleared
      <4> QED  BY <4>1, <4>2, <4>3
    <3> QED  BY <3>1, <3>2
  <2>4. ASSUME NEW o PROVE \A i, j \in DefaultRows(o)' : i = j
    <3>1. \A i, j \in DefaultRows(o) : i = j  BY <2>0, OneDefaultIs DEF TableIInv
    <3> QED  BY <1>3, <3>1
  <2>5. OneDefault'
    <3> SUFFICES ASSUME NEW i \in DOMAIN providers', NEW j \in DOMAIN providers',
                        providers'[i].owner = providers'[j].owner,
                        {i, j} \subseteq Defaults(providers', OwnedBy(providers', providers'[i].owner))
                 PROVE  i = j
      BY DEF OneDefault
    <3>1. PICK o : o = providers'[i].owner  OBVIOUS
    <3>2. {i, j} \subseteq DefaultRows(o)'  BY <3>1 DEF DefaultRows
    <3> QED  BY <3>2, <2>4
  <2>6. DefaultsCleared'  BY <2>2, <2>3 DEF DefaultsCleared
  <2> QED  BY <2>5, <2>6
<1> QED  BY <1>2, <1>3 DEF TableIInv, DefaultsCleared, OneDefault

\* The table is only read.
LEMMA TableStays ==
  ASSUME ProvidersTypeOK, TableIInv, NEW c \in ProviderClients,
         NEW r \in ProviderHandlers \cup {NoProviderCall},
         providerCall' = [providerCall EXCEPT ![c] = r],
         "defaults" \in providerRaces => "defaults" \in providerRaces',
         UNCHANGED providers,
         r # NoProviderCall => HandlerOwns(c)',
         "defaults" \notin providerRaces' /\ WritesDefault(c)' =>
           /\ \A d \in ProviderClients \ {c} : WritesDefault(d) => providerCall[d].owner # r.owner
           /\ r.pc = "clear" => DefaultRows(r.owner) \subseteq r.ids
           /\ r.pc \in {"find", "write"} => DefaultRows(r.owner) = {}
  PROVE  TableIInv' /\ ProvidersTypeOK'
<1>1. \A o : DefaultRows(o)' = DefaultRows(o)  BY DEF DefaultRows
<1>2. "defaults" \notin providerRaces' => \A o : \A i, j \in DefaultRows(o)' : i = j
  BY <1>1, OneDefaultIs DEF TableIInv
<1>3. "defaults" \notin providerRaces' /\ WritesDefault(c)' =>
        /\ \A d \in ProviderClients \ {c} : WritesDefault(d) => providerCall[d].owner # r.owner
        /\ \A o : o = r.owner => /\ r.pc = "clear" => DefaultRows(o)' \subseteq r.ids
                                 /\ r.pc \in {"find", "write"} => DefaultRows(o)' = {}
  BY <1>1
<1>4. TableIInv'  BY <1>1, <1>2, <1>3, TableStep
<1>5. ProvidersTypeOK'  BY CallMoved DEF ProvidersTypeOK
<1> QED  BY <1>4, <1>5

\* What a handler has in hand stays with it from statement to statement.
LEMMA StillAlone ==
  ASSUME TableIInv, NEW c \in ProviderClients, WritesDefault(c), "defaults" \notin providerRaces,
         NEW d \in ProviderClients \ {c}, WritesDefault(d)
  PROVE  providerCall[d].owner # providerCall[c].owner
BY DEF TableIInv, DefaultsCleared

LEMMA BeginStep ==
  ASSUME ProvidersTypeOK, TableIInv, CacheBehind, NEW c \in ProviderClients,
         NEW op \in {"upsert", "delete", "chat"}, NEW pc \in {"defaults", "find", "delete", "spawn"},
         NEW row \in ProviderRows, NEW ids \in SUBSET DOMAIN providers,
         Begin(c, Handling(op, pc, row, ids)),
         pc \in {"defaults", "find"} => op = "upsert" /\ (row.default <=> pc = "defaults"),
         op = "upsert" => pc \in {"defaults", "find"},
         pc = "delete" => ids # {}
  PROVE  ProvidersTypeOK' /\ TableIInv' /\ CacheBehind'
<1>1. PICK r : r = Handling(op, pc, row, ids)  OBVIOUS
<1>2. /\ r.op = op /\ r.pc = pc /\ r.row = row /\ r.owner = row.owner /\ r.ids = ids /\ ~r.changed
      /\ r \in ProviderHandlers
  <2>1. ids \in SUBSET Nat  BY DEF ProvidersTypeOK
  <2>2. row.owner \in ProviderOwners  BY DEF ProviderRows
  <2>3. <<>> \in Seq(ProviderRows)  OBVIOUS
  <2> QED  BY <1>1, <2>1, <2>2, <2>3 DEF Handling, ProviderHandlers
<1>3. /\ providerCall[c] = NoProviderCall
      /\ providerCall' = [providerCall EXCEPT ![c] = r]
      /\ providerRaces' = providerRaces \cup Races(c, r)
      /\ UNCHANGED <<providers, providerCache>>
  BY <1>1 DEF Begin, Continue
<1>4. providerCall'[c] = r /\ r # NoProviderCall  BY <1>2, <1>3, CallMoved, ProvidersAssumption
<1>5. ~Unread(c) /\ ~Swapping(c) /\ ~Swapping(c)'
  BY <1>2, <1>3, <1>4 DEF Unread, Swapping, Handled
<1>6. CacheBehind'  BY <1>2, <1>3, <1>5, CacheStays
<1>7. HandlerOwns(c)'  BY <1>2, <1>3, <1>4 DEF HandlerOwns
<1>8. ASSUME "defaults" \notin providerRaces', WritesDefault(c)',
             NEW d \in ProviderClients \ {c}, WritesDefault(d)
      PROVE  providerCall[d].owner # r.owner
  <2>1. r.op = "upsert" /\ r.row.default  BY <1>4, <1>8 DEF WritesDefault
  <2>2. "defaults" \notin Races(c, r)  BY <1>3, <1>8
  <2> QED  BY <1>8, <2>1, <2>2 DEF Races, WritesDefault, Handled
<1>9. WritesDefault(c)' => r.pc \notin {"clear", "find", "write"}
  BY <1>2, <1>4 DEF WritesDefault
<1> QED  BY <1>2, <1>3, <1>6, <1>7, <1>8, <1>9, TableStays

LEMMA ReadDefaultsStep ==
  ASSUME ProvidersTypeOK, TableIInv, CacheBehind, NEW c \in ProviderClients, ReadDefaults(c)
  PROVE  ProvidersTypeOK' /\ TableIInv' /\ CacheBehind'
<1>1. PICK r \in ProviderHandlers : r = providerCall[c] /\ r.pc = "defaults" /\ Handled(c)
  BY CallAt DEF ReadDefaults
<1>2. PICK s : s = [r EXCEPT !.pc = "clear", !.ids = DefaultRows(r.owner)]  OBVIOUS
<1>3. DefaultRows(r.owner) \in SUBSET DOMAIN providers  BY DefaultRowIs
<1>4. DOMAIN providers \subseteq Nat  BY DEF ProvidersTypeOK
<1>5. /\ s \in ProviderHandlers /\ s # NoProviderCall
      /\ s.op = r.op /\ s.row = r.row /\ s.owner = r.owner /\ s.pc = "clear"
      /\ s.ids = DefaultRows(r.owner) /\ s.changed = r.changed
  BY <1>2, <1>3, <1>4, ProvidersAssumption DEF ProviderHandlers
<1>6. /\ providerCall' = [providerCall EXCEPT ![c] = s] /\ providerRaces \subseteq providerRaces'
      /\ UNCHANGED <<providers, providerCache>>
  BY <1>1, <1>2 DEF ReadDefaults, Continue, OtherThan, DefaultRows
<1>7. providerCall'[c] = s /\ Handled(c)'  BY <1>5, <1>6, CallMoved
<1>8. /\ Unread(c) => Unread(c)'
      /\ ~Swapping(c) /\ ~Swapping(c)'
      /\ WritesDefault(c)' <=> WritesDefault(c)
  BY <1>1, <1>5, <1>7 DEF Unread, Swapping, WritesDefault
<1>9. CacheBehind'  BY <1>5, <1>6, <1>8, CacheStays
<1>10. HandlerOwns(c)  BY <1>1 DEF TableIInv
<1>11. HandlerOwns(c)'  BY <1>1, <1>3, <1>5, <1>6, <1>7, <1>10 DEF HandlerOwns
<1>12. ASSUME "defaults" \notin providerRaces', WritesDefault(c)', NEW d \in ProviderClients \ {c}, WritesDefault(d)
       PROVE  providerCall[d].owner # s.owner
  BY <1>1, <1>5, <1>6, <1>8, <1>12, StillAlone
<1> QED  BY <1>5, <1>6, <1>9, <1>11, <1>12, TableStays

LEMMA FindProviderStep ==
  ASSUME ProvidersTypeOK, TableIInv, CacheBehind, NEW c \in ProviderClients, FindProvider(c)
  PROVE  ProvidersTypeOK' /\ TableIInv' /\ CacheBehind'
<1>1. PICK r \in ProviderHandlers : r = providerCall[c] /\ r.pc = "find" /\ Handled(c)
  BY CallAt DEF FindProvider
<1>2. PICK found : found = IF SameName(providers, r.row) = {} THEN {} ELSE {Min(SameName(providers, r.row))}
  OBVIOUS
<1>3. PICK s : s = [r EXCEPT !.pc = "write", !.ids = found]  OBVIOUS
<1>4. DOMAIN providers \subseteq Nat  BY DEF ProvidersTypeOK
<1>5. /\ found \in SUBSET DOMAIN providers
      /\ \A i, j \in found : i = j /\ providers[i].owner = r.row.owner
  <2>1. SameName(providers, r.row) \in SUBSET DOMAIN providers  BY DEF SameName, OwnedBy
  <2>2. SameName(providers, r.row) # {} => Min(SameName(providers, r.row)) \in SameName(providers, r.row)
    BY <1>4, <2>1, MinOfIds
  <2>3. \A i \in SameName(providers, r.row) : providers[i].owner = r.row.owner  BY DEF SameName, OwnedBy
  <2> QED  BY <1>2, <2>1, <2>2, <2>3
<1>6. /\ s \in ProviderHandlers /\ s # NoProviderCall
      /\ s.op = r.op /\ s.row = r.row /\ s.owner = r.owner /\ s.pc = "write"
      /\ s.ids = found /\ s.changed = r.changed
  BY <1>3, <1>4, <1>5, ProvidersAssumption DEF ProviderHandlers
<1>7. /\ providerCall' = [providerCall EXCEPT ![c] = s] /\ providerRaces \subseteq providerRaces'
      /\ UNCHANGED <<providers, providerCache>>
  BY <1>1, <1>2, <1>3 DEF FindProvider, Continue, OtherThan
<1>8. providerCall'[c] = s /\ Handled(c)'  BY <1>6, <1>7, CallMoved
<1>9. /\ Unread(c) => Unread(c)'
      /\ ~Swapping(c) /\ ~Swapping(c)'
      /\ WritesDefault(c)' <=> WritesDefault(c)
  BY <1>1, <1>6, <1>8 DEF Unread, Swapping, WritesDefault
<1>10. CacheBehind'  BY <1>6, <1>7, <1>9, CacheStays
<1>11. HandlerOwns(c)  BY <1>1 DEF TableIInv
<1>12. HandlerOwns(c)'  BY <1>1, <1>5, <1>6, <1>7, <1>8, <1>11 DEF HandlerOwns
<1>13. ASSUME "defaults" \notin providerRaces', WritesDefault(c)'
       PROVE  /\ DefaultRows(s.owner) = {}
              /\ \A d \in ProviderClients \ {c} : WritesDefault(d) => providerCall[d].owner # s.owner
  <2>1. "defaults" \notin providerRaces /\ WritesDefault(c)  BY <1>7, <1>9, <1>13
  <2>2. DefaultRows(s.owner) = {}  BY <2>1, <1>1, <1>6 DEF TableIInv, DefaultsCleared
  <2> QED  BY <2>1, <2>2, <1>1, <1>6, StillAlone
<1> QED  BY <1>6, <1>7, <1>10, <1>12, <1>13, TableStays

\* A handler that answers leaves the table as it is.
LEMMA FinishStep ==
  ASSUME ProvidersTypeOK, TableIInv, CacheBehind, NEW c \in ProviderClients, NEW changed \in BOOLEAN,
         Finish(c, changed), UNCHANGED <<providers, providerCache>>,
         ~Swapping(c), Unread(c) => changed
  PROVE  ProvidersTypeOK' /\ TableIInv' /\ CacheBehind'
<1>1. /\ providerCall' = [providerCall EXCEPT ![c] = NoProviderCall]
      /\ providerRaces \subseteq providerRaces' /\ (changed => "halfway" \in providerRaces')
  BY DEF Finish
<1>2. ~Handled(c)'  BY <1>1, CallMoved
<1>3. ~Swapping(c)' /\ ~WritesDefault(c)'  BY <1>2 DEF Swapping, WritesDefault
<1>4. CacheBehind'  BY <1>1, <1>3, CacheStays
<1> QED  BY <1>1, <1>3, <1>4, TableStays

LEMMA ClearDefaultStep ==
  ASSUME ProvidersTypeOK, TableIInv, CacheBehind, NEW c \in ProviderClients, ClearDefault(c)
  PROVE  ProvidersTypeOK' /\ TableIInv' /\ CacheBehind'
<1>1. PICK r \in ProviderHandlers : r = providerCall[c] /\ r.pc = "clear" /\ Handled(c)
  BY CallAt DEF ClearDefault
<1>2. HandlerOwns(c)  BY <1>1 DEF TableIInv
<1>3. DOMAIN providers \subseteq Nat  BY DEF ProvidersTypeOK
<1>4. UNCHANGED providerCache  BY DEF ClearDefault, OtherThan
<1>5. ~Swapping(c) /\ (Unread(c) => r.changed)  BY <1>1 DEF Swapping, Unread
<1>6. CASE r.ids = {}
  <2>1. PICK s : s = [r EXCEPT !.pc = "find"]  OBVIOUS
  <2>2. /\ s \in ProviderHandlers /\ s # NoProviderCall
        /\ s.op = r.op /\ s.row = r.row /\ s.owner = r.owner /\ s.pc = "find"
        /\ s.ids = r.ids /\ s.changed = r.changed
    BY <2>1, ProvidersAssumption DEF ProviderHandlers
  <2>3. /\ providerCall' = [providerCall EXCEPT ![c] = s] /\ providerRaces \subseteq providerRaces'
        /\ UNCHANGED providers
    BY <1>1, <1>6, <2>1 DEF ClearDefault, Continue
  <2>4. providerCall'[c] = s /\ Handled(c)'  BY <2>2, <2>3, CallMoved
  <2>5. /\ Unread(c) => Unread(c)'
        /\ ~Swapping(c)'
        /\ WritesDefault(c)' <=> WritesDefault(c)
    BY <1>1, <2>2, <2>4 DEF Unread, Swapping, WritesDefault
  <2>6. CacheBehind'  BY <1>4, <1>5, <2>2, <2>3, <2>5, CacheStays
  <2>7. HandlerOwns(c)'  BY <1>1, <1>2, <2>2, <2>3, <2>4 DEF HandlerOwns
  <2>8. ASSUME "defaults" \notin providerRaces', WritesDefault(c)'
        PROVE  /\ DefaultRows(s.owner) = {}
               /\ \A d \in ProviderClients \ {c} : WritesDefault(d) => providerCall[d].owner # s.owner
    <3>1. "defaults" \notin providerRaces /\ WritesDefault(c)  BY <2>3, <2>5, <2>8
    <3>2. DefaultRows(s.owner) \subseteq r.ids  BY <3>1, <1>1, <2>2 DEF TableIInv, DefaultsCleared
    <3> QED  BY <3>1, <3>2, <1>1, <1>6, <2>2, StillAlone
  <2> QED  BY <2>2, <2>3, <2>6, <2>7, <2>8, TableStays
<1>7. CASE r.ids # {}
  <2>1. PICK i : i = Min(r.ids)  OBVIOUS
  <2>2. i \in r.ids /\ i \in DOMAIN providers  BY <1>1, <1>2, <1>3, <1>7, <2>1, MinOfIds DEF HandlerOwns
  <2>3. CASE providers[i].live
    <3>1. PICK s : s = [r EXCEPT !.ids = r.ids \ {i}, !.changed = TRUE]  OBVIOUS
    <3>2. /\ s \in ProviderHandlers /\ s # NoProviderCall
          /\ s.op = r.op /\ s.row = r.row /\ s.owner = r.owner /\ s.pc = "clear"
          /\ s.ids = r.ids \ {i} /\ s.changed
      <4>1. r.ids \ {i} \in SUBSET Nat  BY DEF ProviderHandlers
      <4>2. s \in ProviderHandlers /\ s.ids = r.ids \ {i} /\ s.changed = TRUE
        BY <3>1, <4>1 DEF ProviderHandlers
      <4>3. s.op = r.op /\ s.row = r.row /\ s.owner = r.owner /\ s.pc = r.pc
        BY <3>1 DEF ProviderHandlers
      <4> QED  BY <1>1, <4>2, <4>3, ProvidersAssumption
    <3>3. /\ providerCall' = [providerCall EXCEPT ![c] = s] /\ providerRaces \subseteq providerRaces'
          /\ providers' = [providers EXCEPT ![i].default = FALSE]
      BY <1>1, <1>7, <2>1, <2>3, <3>1 DEF ClearDefault, Continue, ProviderHandlers
    <3>4. PICK row : row = [providers[i] EXCEPT !.default = FALSE]  OBVIOUS
    <3>5. row \in ProviderRows /\ row.owner = providers[i].owner /\ ~row.default
      <4>1. providers[i] \in ProviderRows  BY <2>2 DEF ProvidersTypeOK
      <4> QED  BY <3>4, <4>1 DEF ProviderRows
    <3>6. providers' = [providers EXCEPT ![i] = row]  BY <2>2, <3>3, <3>4 DEF ProvidersTypeOK
    <3>7. /\ providers' \in Seq(ProviderRows)
          /\ DOMAIN providers \subseteq DOMAIN providers' /\ providers'[i] = row
          /\ \A j \in DOMAIN providers' : j # i => j \in DOMAIN providers /\ providers'[j] = providers[j]
      BY <2>2, <3>5, <3>6, RowWritten
    <3>8. \A o : DefaultRows(o)' \subseteq DefaultRows(o) \ {i}
      <4> SUFFICES ASSUME NEW o, NEW j \in DefaultRows(o)' PROVE j \in DefaultRows(o) \ {i}
        OBVIOUS
      <4>1. /\ j \in DOMAIN providers' /\ providers'[j].live
            /\ providers'[j].owner = o /\ providers'[j].default
        BY DEF DefaultRows, Defaults, OwnedBy
      <4>2. j # i  BY <3>5, <3>7, <4>1
      <4> QED  BY <4>1, <4>2, <3>7, DefaultRowIs
    <3>9. \A j \in DOMAIN providers : providers'[j].owner = providers[j].owner  BY <3>5, <3>7
    <3>10. providerCall'[c] = s /\ Handled(c)'  BY <3>2, <3>3, CallMoved
    <3>11. Unread(c)' /\ (WritesDefault(c)' <=> WritesDefault(c))
      BY <1>1, <3>2, <3>10 DEF Unread, WritesDefault
    <3>12. CacheBehind'  BY <3>2, <3>3, <3>11, CacheFallsBehind
    <3>13. HandlerOwns(c)'  BY <1>1, <1>2, <3>2, <3>7, <3>10 DEF HandlerOwns
    <3>14. ASSUME "defaults" \notin providerRaces', WritesDefault(c)'
           PROVE  /\ \A d \in ProviderClients \ {c} : WritesDefault(d) => providerCall[d].owner # s.owner
                  /\ \A o : o = s.owner => DefaultRows(o)' \subseteq s.ids
      <4>1. "defaults" \notin providerRaces /\ WritesDefault(c)  BY <3>3, <3>11, <3>14
      <4>2. DefaultRows(r.owner) \subseteq r.ids  BY <4>1, <1>1 DEF TableIInv, DefaultsCleared
      <4> QED  BY <4>1, <4>2, <1>1, <3>2, <3>8, StillAlone
    <3>15. "defaults" \notin providerRaces' => \A o : \A j, k \in DefaultRows(o)' : j = k
      BY <3>3, <3>8, OneDefaultIs DEF TableIInv
    <3>16. TableIInv'
      BY <3>2, <3>3, <3>7, <3>8, <3>9, <3>13, <3>14, <3>15, TableStep
    <3>17. ProvidersTypeOK'  BY <3>2, <3>3, <3>7, CallMoved DEF ProvidersTypeOK
    <3> QED  BY <3>12, <3>16, <3>17
  <2>4. CASE ~providers[i].live
    <3>1. Finish(c, r.changed) /\ UNCHANGED providers  BY <1>1, <1>7, <2>1, <2>4 DEF ClearDefault
    <3>2. r.changed \in BOOLEAN  BY DEF ProviderHandlers
    <3> QED  BY <1>4, <1>5, <3>1, <3>2, FinishStep
  <2> QED  BY <2>3, <2>4
<1> QED  BY <1>6, <1>7

\* The found row is overwritten or a new one added, of the owner whose other
\* defaults are cleared.
LEMMA WriteProviderStep ==
  ASSUME ProvidersTypeOK, TableIInv, CacheBehind, NEW c \in ProviderClients, WriteProvider(c)
  PROVE  ProvidersTypeOK' /\ TableIInv' /\ CacheBehind'
<1>1. PICK r \in ProviderHandlers : r = providerCall[c] /\ r.pc = "write" /\ Handled(c)
  BY CallAt DEF WriteProvider
<1>2. HandlerOwns(c)  BY <1>1 DEF TableIInv
<1>3. UNCHANGED providerCache  BY DEF WriteProvider, OtherThan
<1>4. ~Swapping(c) /\ (Unread(c) => r.changed)  BY <1>1 DEF Swapping, Unread
<1>5. CASE Finish(c, r.changed) /\ UNCHANGED providers
  <2>1. r.changed \in BOOLEAN  BY DEF ProviderHandlers
  <2> QED  BY <1>3, <1>4, <1>5, <2>1, FinishStep
<1>6. CASE /\ providers' = IF r.ids = {} THEN Append(providers, r.row)
                           ELSE [providers EXCEPT ![Min(r.ids)] = r.row]
           /\ Continue(c, [r EXCEPT !.pc = "reload"])
  <2>1. PICK s : s = [r EXCEPT !.pc = "reload"]  OBVIOUS
  <2>2. /\ s \in ProviderHandlers /\ s # NoProviderCall
        /\ s.op = r.op /\ s.row = r.row /\ s.owner = r.owner /\ s.pc = "reload"
    BY <2>1, ProvidersAssumption DEF ProviderHandlers
  <2>3. providerCall' = [providerCall EXCEPT ![c] = s] /\ providerRaces \subseteq providerRaces'
    BY <1>6, <2>1 DEF Continue
  <2>4. providerCall'[c] = s /\ Handled(c)'  BY <2>2, <2>3, CallMoved
  <2>5. Unread(c)' /\ (WritesDefault(c)' <=> WritesDefault(c))
    BY <1>1, <2>2, <2>4 DEF Unread, WritesDefault
  <2>6. CacheBehind'  BY <2>2, <2>3, <2>5, CacheFallsBehind
  <2>7. r.op = "upsert" /\ r.row.owner = r.owner /\ r.row \in ProviderRows
    BY <1>1, <1>2 DEF HandlerOwns, ProviderHandlers
  <2>8. PICK i : /\ \/ i \in DOMAIN providers /\ providers' = [providers EXCEPT ![i] = r.row]
                    \/ i = Len(providers) + 1 /\ providers' = Append(providers, r.row)
                 /\ i \in DOMAIN providers => providers[i].owner = r.owner
    <3>0. DOMAIN providers = 1 .. Len(providers) /\ Len(providers) \in Nat  BY DEF ProvidersTypeOK
    <3>1. CASE r.ids = {}
      <4>1. Len(providers) + 1 \notin DOMAIN providers  BY <3>0
      <4> QED  BY <1>6, <3>1, <4>1
    <3>2. CASE r.ids # {}
      <4>1. r.ids \in SUBSET Nat  BY DEF ProviderHandlers
      <4>2. Min(r.ids) \in r.ids  BY <3>2, <4>1, MinOfIds
      <4>3. Min(r.ids) \in DOMAIN providers /\ providers[Min(r.ids)].owner = r.owner
        BY <1>1, <1>2, <4>2 DEF HandlerOwns
      <4> QED  BY <1>6, <3>2, <4>3
    <3> QED  BY <3>1, <3>2
  <2>9. /\ providers' \in Seq(ProviderRows)
        /\ DOMAIN providers \subseteq DOMAIN providers' /\ providers'[i] = r.row
        /\ \A j \in DOMAIN providers' : j # i => j \in DOMAIN providers /\ providers'[j] = providers[j]
    BY <2>7, <2>8, RowWritten
  <2>10. \A j \in DOMAIN providers : providers'[j].owner = providers[j].owner
    BY <2>7, <2>8, <2>9
  <2>11. ASSUME NEW o, NEW j \in DefaultRows(o)'
         PROVE  j \in DefaultRows(o) \/ (j = i /\ o = r.owner /\ WritesDefault(c))
    <3>1. /\ j \in DOMAIN providers' /\ providers'[j].live
          /\ providers'[j].owner = o /\ providers'[j].default
      BY DEF DefaultRows, Defaults, OwnedBy
    <3>2. CASE j = i  BY <1>1, <2>7, <2>9, <3>1, <3>2 DEF WritesDefault
    <3>3. CASE j # i  BY <2>9, <3>1, <3>3, DefaultRowIs
    <3> QED  BY <3>2, <3>3
  <2>12. WritesDefault(c) /\ "defaults" \notin providerRaces' =>
           \A o : o = r.owner => \A j, k \in DefaultRows(o)' : j = k
    <3>1. WritesDefault(c) /\ "defaults" \notin providerRaces' => DefaultRows(r.owner) = {}
      BY <1>1, <2>3 DEF TableIInv, DefaultsCleared
    <3> QED  BY <2>11, <3>1
  <2>13. HandlerOwns(c)'  BY <2>2, <2>4, <2>7 DEF HandlerOwns
  <2>14. ASSUME "defaults" \notin providerRaces', WritesDefault(c)', NEW d \in ProviderClients \ {c}, WritesDefault(d)
         PROVE  providerCall[d].owner # s.owner
    BY <1>1, <2>2, <2>3, <2>5, <2>14, StillAlone
  <2>15. \A o : \/ DefaultRows(o)' \subseteq DefaultRows(o)
                \/ WritesDefault(c) /\ o = providerCall[c].owner
    BY <1>1, <2>11
  <2>16. TableIInv'
    BY <1>1, <2>2, <2>3, <2>9, <2>10, <2>12, <2>13, <2>14, <2>15, TableStep
  <2>17. ProvidersTypeOK'  BY <2>2, <2>3, <2>9, CallMoved DEF ProvidersTypeOK
  <2> QED  BY <2>6, <2>16, <2>17
<1> QED  BY <1>1, <1>5, <1>6 DEF WriteProvider

LEMMA DropProviderStep ==
  ASSUME ProvidersTypeOK, TableIInv, CacheBehind, NEW c \in ProviderClients, DropProvider(c)
  PROVE  ProvidersTypeOK' /\ TableIInv' /\ CacheBehind'
<1>1. PICK r \in ProviderHandlers : r = providerCall[c] /\ r.pc = "delete" /\ Handled(c)
  BY CallAt DEF DropProvider
<1>2. HandlerOwns(c)  BY <1>1 DEF TableIInv
<1>3. PICK i : i = Min(r.ids)  OBVIOUS
<1>4. i \in DOMAIN providers
  <2>1. r.ids \in SUBSET Nat /\ r.ids # {}  BY <1>1, <1>2 DEF ProviderHandlers, HandlerOwns
  <2>2. i \in r.ids  BY <1>3, <2>1, MinOfIds
  <2> QED  BY <1>1, <1>2, <2>2 DEF HandlerOwns
<1>5. PICK s : s = [r EXCEPT !.pc = "reload"]  OBVIOUS
<1>6. /\ s \in ProviderHandlers /\ s # NoProviderCall
      /\ s.op = r.op /\ s.row = r.row /\ s.owner = r.owner /\ s.pc = "reload"
  BY <1>5, ProvidersAssumption DEF ProviderHandlers
<1>7. /\ providerCall' = [providerCall EXCEPT ![c] = s] /\ providerRaces \subseteq providerRaces'
      /\ providers' = [providers EXCEPT ![i].live = FALSE]
  BY <1>1, <1>3, <1>5 DEF DropProvider, Continue
<1>8. providerCall'[c] = s /\ Handled(c)'  BY <1>6, <1>7, CallMoved
<1>9. Unread(c)' /\ (WritesDefault(c)' <=> WritesDefault(c))
  BY <1>1, <1>6, <1>8 DEF Unread, WritesDefault
<1>10. CacheBehind'  BY <1>6, <1>7, <1>9, CacheFallsBehind
<1>11. PICK row : row = [providers[i] EXCEPT !.live = FALSE]  OBVIOUS
<1>12. row \in ProviderRows /\ row.owner = providers[i].owner /\ ~row.live
  <2>1. providers[i] \in ProviderRows  BY <1>4 DEF ProvidersTypeOK
  <2> QED  BY <1>11, <2>1 DEF ProviderRows
<1>13. providers' = [providers EXCEPT ![i] = row]  BY <1>4, <1>7, <1>11 DEF ProvidersTypeOK
<1>14. /\ providers' \in Seq(ProviderRows)
       /\ DOMAIN providers \subseteq DOMAIN providers' /\ providers'[i] = row
       /\ \A j \in DOMAIN providers' : j # i => j \in DOMAIN providers /\ providers'[j] = providers[j]
  BY <1>4, <1>12, <1>13, RowWritten
<1>15. \A o : DefaultRows(o)' \subseteq DefaultRows(o)
  <2> SUFFICES ASSUME NEW o, NEW j \in DefaultRows(o)' PROVE j \in DefaultRows(o)
    OBVIOUS
  <2>1. /\ j \in DOMAIN providers' /\ providers'[j].live
        /\ providers'[j].owner = o /\ providers'[j].default
    BY DEF DefaultRows, Defaults, OwnedBy
  <2>2. j # i  BY <1>12, <1>14, <2>1
  <2> QED  BY <1>14, <2>1, <2>2, DefaultRowIs
<1>16. \A j \in DOMAIN providers : providers'[j].owner = providers[j].owner  BY <1>12, <1>14
<1>17. HandlerOwns(c)'  BY <1>1, <1>2, <1>6, <1>8 DEF HandlerOwns
<1>18. ASSUME "defaults" \notin providerRaces', WritesDefault(c)', NEW d \in ProviderClients \ {c}, WritesDefault(d)
       PROVE  providerCall[d].owner # s.owner
  BY <1>1, <1>6, <1>7, <1>9, <1>18, StillAlone
<1>19. "defaults" \notin providerRaces' => \A o : \A j, k \in DefaultRows(o)' : j = k
  BY <1>7, <1>15, OneDefaultIs DEF TableIInv
<1>20. TableIInv'
  BY <1>6, <1>7, <1>14, <1>15, <1>16, <1>17, <1>18, <1>19, TableStep
<1>21. ProvidersTypeOK'  BY <1>6, <1>7, <1>14, CallMoved DEF ProvidersTypeOK
<1> QED  BY <1>10, <1>20, <1>21

LEMMA ReadProvidersTable ==
  ASSUME ProvidersTypeOK, TableIInv, NEW c \in ProviderClients, ReadProviders(c)
  PROVE  TableIInv'
<1>1. PICK r \in ProviderHandlers : r = providerCall[c] /\ r.pc = "reload" /\ Handled(c)
  BY CallAt DEF ReadProviders
<1>2. PICK s : s = [r EXCEPT !.pc = "swap", !.read = providers]  OBVIOUS
<1>3. /\ s \in ProviderHandlers /\ s # NoProviderCall
      /\ s.op = r.op /\ s.row = r.row /\ s.owner = r.owner /\ s.pc = "swap"
  BY <1>2, ProvidersAssumption DEF ProviderHandlers, ProvidersTypeOK
<1>4. /\ providerCall' = [providerCall EXCEPT ![c] = s]
      /\ "defaults" \in providerRaces => "defaults" \in providerRaces'
      /\ UNCHANGED providers
  BY <1>1, <1>2 DEF ReadProviders, OtherThan
<1>5. providerCall'[c] = s /\ Handled(c)'  BY <1>3, <1>4, CallMoved
<1>6. WritesDefault(c)' <=> WritesDefault(c)  BY <1>1, <1>3, <1>5 DEF WritesDefault
<1>7. HandlerOwns(c)  BY <1>1 DEF TableIInv
<1>8. HandlerOwns(c)'  BY <1>1, <1>3, <1>5, <1>7 DEF HandlerOwns
<1>9. ASSUME "defaults" \notin providerRaces', WritesDefault(c)', NEW d \in ProviderClients \ {c}, WritesDefault(d)
      PROVE  providerCall[d].owner # s.owner
  BY <1>1, <1>3, <1>4, <1>6, <1>9, StillAlone
<1> QED  BY <1>3, <1>4, <1>8, <1>9, TableStays

\* A handler that ends early leaves a change of its own unread.
LEMMA AbandonProviderStep ==
  ASSUME ProvidersTypeOK, TableIInv, CacheBehind, NEW c \in ProviderClients, AbandonProvider(c)
  PROVE  ProvidersTypeOK' /\ TableIInv' /\ CacheBehind'
<1>1. PICK changed : changed = (providerCall[c].changed \/ providerCall[c].pc = "reload")  OBVIOUS
<1>2. /\ Finish(c, changed) /\ UNCHANGED <<providers, providerCache>>
      /\ Handled(c) /\ ~Swapping(c)
  BY <1>1 DEF AbandonProvider, OtherThan, Handled, Swapping
<1>3. changed \in BOOLEAN  BY <1>1
<1>4. Unread(c) => changed  BY <1>1 DEF Unread
<1> QED  BY <1>2, <1>3, <1>4, FinishStep

LEMMA SwapCacheTable ==
  ASSUME ProvidersTypeOK, TableIInv, NEW c \in ProviderClients, SwapCache(c)
  PROVE  TableIInv'
<1>1. /\ providerCall' = [providerCall EXCEPT ![c] = NoProviderCall]
      /\ providerRaces \subseteq providerRaces' /\ UNCHANGED providers
  BY DEF SwapCache, Finish, OtherThan
<1>2. ~WritesDefault(c)'  BY <1>1, CallMoved DEF WritesDefault
<1> QED  BY <1>1, <1>2, TableStays

(***************************************************************************)
(* Conversations and what is pinned for them.                              *)
(***************************************************************************)
LEMMA PinsStay ==
  ASSUME PinsIInv, UNCHANGED <<pendingPins, chats>>,
         "pins" \in providerRaces => "pins" \in providerRaces'
  PROVE  PinsIInv'
<1>1. "pins" \notin providerRaces' => "pins" \notin providerRaces  OBVIOUS
<1>2. ChatsTypeOK'  BY DEF PinsIInv, ChatsTypeOK
<1>3. PinsPending'  BY <1>1 DEF PinsIInv, PinsPending
<1>4. PinsReachTheirChat'  BY <1>1 DEF PinsIInv, PinsReachTheirChat
<1> QED  BY <1>2, <1>3, <1>4 DEF PinsIInv

\* A sequence is one of what is in it.
LEMMA SeqOfItself ==
  ASSUME NEW S, NEW s \in Seq(S)
  PROVE  s \in Seq(ToSet(s))
<1>1. \A i \in 1 .. Len(s) : s[i] \in ToSet(s)  BY DEF ToSet
<1> QED  BY <1>1

LEMMA SpawnChatStep ==
  ASSUME ProvidersIInv, NEW c \in ProviderClients, SpawnChat(c)
  PROVE  ProvidersIInv'
<1> USE DEF ProvidersIInv, CacheIInv
<1>1. PICK r \in ProviderHandlers : r = providerCall[c] /\ r.pc = "spawn" /\ Handled(c)
  BY CallAt DEF SpawnChat
<1>2. PICK chat : chat = [user |-> r.owner, choice |-> r.row.name, wanted |-> r.row.name, model |-> Unknown]
  OBVIOUS
<1>3. /\ chat.user = r.owner /\ chat.choice = r.row.name /\ chat.model = Unknown
  BY <1>2
<1>4. /\ providerCall' = [providerCall EXCEPT ![c] = NoProviderCall]
      /\ providerRaces' = providerRaces \cup (IF Unstarted(r.owner) = {} THEN {} ELSE {"pins"})
      /\ chats' = Append(chats, chat)
      /\ UNCHANGED <<providers, providerCache>>
  BY <1>1, <1>2 DEF SpawnChat
<1>5. ~Handled(c)'  BY <1>4, CallMoved
<1>6. ~Swapping(c) /\ ~Unread(c) /\ ~Swapping(c)' /\ ~WritesDefault(c)'
  BY <1>1, <1>5 DEF Swapping, Unread, WritesDefault
<1>7. providerRaces \subseteq providerRaces'  BY <1>4
<1>8. CacheBehind'  BY <1>4, <1>6, <1>7, CacheStays
<1>9. TableIInv' /\ ProvidersTypeOK'  BY <1>4, <1>6, <1>7, TableStays
<1>10. NamesKnown'  BY <1>4 DEF NamesKnown
<1>11. chats \in Seq(ToSet(chats) \cup {chat}) /\ Len(chats) \in Nat /\ DOMAIN chats = 1 .. Len(chats)
  BY DEF PinsIInv, ChatsTypeOK
<1>12. PICK n : n = Len(chats) + 1  OBVIOUS
<1>13. /\ chats' \in Seq(ToSet(chats) \cup {chat})
       /\ DOMAIN chats' = DOMAIN chats \cup {n} /\ n \notin DOMAIN chats
       /\ chats'[n] = chat
       /\ \A s \in DOMAIN chats : chats'[s] = chats[s]
  BY <1>4, <1>11, <1>12
<1>14. ChatsTypeOK'  BY <1>13, SeqOfItself DEF ChatsTypeOK
<1>15. ASSUME "pins" \notin providerRaces' PROVE PinsPending' /\ PinsReachTheirChat'
  <2>0. "pins" \notin providerRaces /\ Unstarted(r.owner) = {}  BY <1>4, <1>15
  <2>1. \A s \in DOMAIN chats : chats[s].model = Unknown => chats[s].user # r.owner
    BY <2>0 DEF Unstarted
  <2>2. /\ \A s, t \in DOMAIN chats :
             chats[s].model = Unknown /\ chats[t].model = Unknown /\ chats[s].user = chats[t].user => s = t
        /\ \A s \in DOMAIN chats : chats[s].model = Unknown =>
             IF chats[s].choice = None THEN chats[s].user \notin DOMAIN pendingPins
             ELSE chats[s].user \in DOMAIN pendingPins /\ pendingPins[chats[s].user] = chats[s].choice
        /\ \A u \in DOMAIN pendingPins : \E s \in DOMAIN chats : chats[s].user = u /\ chats[s].model = Unknown
    BY <2>0 DEF PinsIInv, PinsPending
  <2>3. r.owner \notin DOMAIN pendingPins  BY <2>1, <2>2
  <2>4. /\ DOMAIN pendingPins' = IF r.row.name = None THEN DOMAIN pendingPins ELSE DOMAIN pendingPins \cup {r.owner}
        /\ r.row.name # None => pendingPins'[r.owner] = r.row.name
        /\ \A u \in DOMAIN pendingPins : pendingPins'[u] = pendingPins[u]
    BY <1>1, <2>3 DEF SpawnChat
  <2>5. \A s, t \in DOMAIN chats' :
          chats'[s].model = Unknown /\ chats'[t].model = Unknown /\ chats'[s].user = chats'[t].user => s = t
    BY <1>3, <1>13, <2>1, <2>2
  <2>6. ASSUME NEW s \in DOMAIN chats', chats'[s].model = Unknown
        PROVE  IF chats'[s].choice = None THEN chats'[s].user \notin DOMAIN pendingPins'
               ELSE chats'[s].user \in DOMAIN pendingPins' /\ pendingPins'[chats'[s].user] = chats'[s].choice
    <3>1. CASE s = n  BY <1>3, <1>13, <2>3, <2>4, <3>1
    <3>2. CASE s # n
      <4>1. s \in DOMAIN chats /\ chats'[s] = chats[s]  BY <1>13, <2>6, <3>2
      <4>2. chats[s].user # r.owner  BY <2>1, <2>6, <4>1
      <4> QED  BY <2>2, <2>4, <2>6, <4>1, <4>2
    <3> QED  BY <3>1, <3>2
  <2>7. ASSUME NEW u \in DOMAIN pendingPins'
        PROVE  \E s \in DOMAIN chats' : chats'[s].user = u /\ chats'[s].model = Unknown
    <3>1. CASE u \in DOMAIN pendingPins  BY <1>13, <2>2, <3>1
    <3>2. CASE u = r.owner  BY <1>3, <1>13, <3>2
    <3> QED  BY <2>4, <3>1, <3>2
  <2>8. PinsPending'  BY <2>5, <2>6, <2>7 DEF PinsPending
  <2>9. \A s \in DOMAIN chats : chats[s].model \in {Unknown, Stub, chats[s].wanted}
    BY <2>0 DEF PinsIInv, PinsReachTheirChat
  <2>10. \A s \in DOMAIN chats' : chats'[s].model \in {Unknown, Stub, chats'[s].wanted}
    BY <1>3, <1>13, <2>9
  <2> QED  BY <2>8, <2>10 DEF PinsReachTheirChat
<1>16. PinsIInv'  BY <1>14, <1>15 DEF PinsIInv, PinsPending, PinsReachTheirChat
<1> QED  BY <1>8, <1>9, <1>10, <1>16

LEMMA StartChatStep ==
  ASSUME ProvidersIInv, NEW s \in DOMAIN chats, StartChat(s)
  PROVE  ProvidersIInv'
<1> USE DEF ProvidersIInv, CacheIInv
<1>1. UNCHANGED <<providers, providerCache, providerCall, providerRaces>>  BY DEF StartChat
<1>2. /\ ProvidersTypeOK' /\ CacheBehind' /\ NamesKnown'
  BY <1>1 DEF ProvidersTypeOK, CacheBehind, NamesKnown, Unread, Swapping, Handled
<1>3. TableIInv'
  BY <1>1 DEF TableIInv, Handled, HandlerOwns, DefaultsCleared, WritesDefault, DefaultRows, OneDefault
<1>4. PICK u : u = chats[s].user  OBVIOUS
<1>5. PICK choice : choice = IF u \in DOMAIN pendingPins THEN pendingPins[u] ELSE DefaultFor(u)  OBVIOUS
<1>6. PICK model : model = IF Resolves(u, choice) THEN choice ELSE Stub  OBVIOUS
<1>7. PICK wanted : wanted = IF chats[s].choice = None THEN DefaultFor(u) ELSE chats[s].choice  OBVIOUS
<1>8. PICK chat : chat = [user |-> u, choice |-> chats[s].choice, wanted |-> wanted, model |-> model]  OBVIOUS
<1>9. /\ chats[s].model = Unknown
      /\ pendingPins' = [x \in DOMAIN pendingPins \ {u} |-> pendingPins[x]]
      /\ chats' = [chats EXCEPT ![s] = chat]
  BY <1>4, <1>5, <1>6, <1>7, <1>8 DEF StartChat
<1>10. model # Unknown
  <2>1. CASE Resolves(u, choice)
    <3>1. PICK o \in DOMAIN providerCache.contexts : choice \in providerCache.contexts[o]
      BY <2>1 DEF Resolves, ServedBy
    <3> QED  BY <2>1, <3>1, <1>6 DEF NamesKnown
  <2>2. CASE ~Resolves(u, choice)  BY <2>2, <1>6 DEF Stub, Unknown
  <2> QED  BY <2>1, <2>2
<1>11. /\ chat.user = u /\ chat.choice = chats[s].choice /\ chat.wanted = wanted /\ chat.model = model
  BY <1>8
<1>12. /\ chats' \in Seq(ToSet(chats) \cup {chat}) /\ DOMAIN chats' = DOMAIN chats
       /\ chats'[s] = chat /\ \A t \in DOMAIN chats : t # s => chats'[t] = chats[t]
  <2>1. chats \in Seq(ToSet(chats) \cup {chat})  BY DEF PinsIInv, ChatsTypeOK
  <2> QED  BY <2>1, <1>9
<1>13. ChatsTypeOK'  BY <1>12, SeqOfItself DEF ChatsTypeOK
<1>14. ASSUME "pins" \notin providerRaces' PROVE PinsPending' /\ PinsReachTheirChat'
  <2>1. /\ \A t, x \in DOMAIN chats :
             chats[t].model = Unknown /\ chats[x].model = Unknown /\ chats[t].user = chats[x].user => t = x
        /\ \A t \in DOMAIN chats : chats[t].model = Unknown =>
             IF chats[t].choice = None THEN chats[t].user \notin DOMAIN pendingPins
             ELSE chats[t].user \in DOMAIN pendingPins /\ pendingPins[chats[t].user] = chats[t].choice
        /\ \A x \in DOMAIN pendingPins : \E t \in DOMAIN chats : chats[t].user = x /\ chats[t].model = Unknown
    BY <1>1, <1>14 DEF PinsIInv, PinsPending
  <2>2. model \in {Stub, wanted}
    <3>1. choice = wanted  BY <1>4, <1>5, <1>7, <1>9, <2>1
    <3> QED  BY <3>1, <1>6
  <2>3. \A t \in DOMAIN chats : chats'[t].model = Unknown => t # s /\ chats[t].model = Unknown /\ chats[t].user # u
    BY <1>4, <1>9, <1>10, <1>11, <1>12, <2>1
  <2>4. PinsPending'
    <3>1. \A t, x \in DOMAIN chats' :
            chats'[t].model = Unknown /\ chats'[x].model = Unknown /\ chats'[t].user = chats'[x].user => t = x
      BY <1>12, <2>1, <2>3
    <3>2. ASSUME NEW t \in DOMAIN chats', chats'[t].model = Unknown
          PROVE  IF chats'[t].choice = None THEN chats'[t].user \notin DOMAIN pendingPins'
                 ELSE chats'[t].user \in DOMAIN pendingPins' /\ pendingPins'[chats'[t].user] = chats'[t].choice
      <4>1. t \in DOMAIN chats /\ chats'[t] = chats[t] /\ chats[t].model = Unknown /\ chats[t].user # u
        BY <1>12, <2>3, <3>2
      <4> QED  BY <4>1, <2>1, <1>9
    <3>3. ASSUME NEW x \in DOMAIN pendingPins'
          PROVE  \E t \in DOMAIN chats' : chats'[t].user = x /\ chats'[t].model = Unknown
      <4>1. x \in DOMAIN pendingPins /\ x # u  BY <1>9
      <4>2. PICK t \in DOMAIN chats : chats[t].user = x /\ chats[t].model = Unknown  BY <2>1, <4>1
      <4>3. t # s  BY <1>4, <4>1, <4>2
      <4> QED  BY <1>12, <4>2, <4>3
    <3> QED  BY <3>1, <3>2, <3>3 DEF PinsPending
  <2>5. \A t \in DOMAIN chats : chats[t].model \in {Unknown, Stub, chats[t].wanted}
    BY <1>1, <1>14 DEF PinsIInv, PinsReachTheirChat
  <2>6. \A t \in DOMAIN chats' : chats'[t].model \in {Unknown, Stub, chats'[t].wanted}
    BY <1>11, <1>12, <2>2, <2>5
  <2> QED  BY <2>4, <2>6 DEF PinsReachTheirChat
<1>15. PinsIInv'  BY <1>13, <1>14 DEF PinsIInv, PinsPending, PinsReachTheirChat
<1> QED  BY <1>2, <1>3, <1>15

(***************************************************************************)
(* Together.                                                               *)
(***************************************************************************)
LEMMA InitProviders ==
  ASSUME ProvidersInit
  PROVE  ProvidersIInv
<1> USE DEF ProvidersInit
<1>0. \A o \in ProviderOwners, n \in ProviderNames, isDefault, usable \in BOOLEAN :
        /\ ProviderRow(o, n, isDefault, usable) \in ProviderRows
        /\ ProviderRow(o, n, isDefault, usable).owner = o
        /\ ProviderRow(o, n, isDefault, usable).default = isDefault
  BY DEF ProviderRow, ProviderRows
<1>1. Global \in ProviderOwners /\ \A u \in ProviderUsers : u.id \in ProviderOwners
  BY DEF ProviderOwners
<1>2. /\ providers \in Seq(ProviderRows)
      /\ \A i, j \in DOMAIN providers : providers[i].default /\ providers[j].default
                                        /\ providers[i].owner = providers[j].owner => i = j
  <2>1. CASE providers = <<>>  BY <2>1
  <2>2. CASE \E a, b \in ProviderRows : /\ providers = <<a, b>>
                                        /\ ~(a.default /\ b.default /\ a.owner = b.owner)
    <3>1. PICK a \in ProviderRows, b \in ProviderRows :
            providers = <<a, b>> /\ ~(a.default /\ b.default /\ a.owner = b.owner)
      BY <2>2
    <3>2. DOMAIN providers = {1, 2} /\ providers[1] = a /\ providers[2] = b  BY <3>1
    <3> QED  BY <3>1, <3>2
  <2>3. ASSUME NEW n \in ProviderNames, NEW m \in ProviderNames,
               providers = <<ProviderRow(Global, n, TRUE, TRUE), ProviderRow(Global, m, FALSE, TRUE)>>
        PROVE  \E a, b \in ProviderRows : /\ providers = <<a, b>>
                                          /\ ~(a.default /\ b.default /\ a.owner = b.owner)
    BY <1>0, <1>1, <2>3
  <2>4. ASSUME NEW n \in ProviderNames, NEW u \in ProviderUsers, u.id # Global,
               providers = <<ProviderRow(Global, n, TRUE, TRUE), ProviderRow(u.id, n, TRUE, TRUE)>>
        PROVE  \E a, b \in ProviderRows : /\ providers = <<a, b>>
                                          /\ ~(a.default /\ b.default /\ a.owner = b.owner)
    <3>1. PICK o \in ProviderOwners : o = u.id  BY <1>1
    <3>2. PICK a \in ProviderRows : a = ProviderRow(Global, n, TRUE, TRUE) /\ a.owner = Global
      BY <1>0, <1>1
    <3>3. PICK b \in ProviderRows : b = ProviderRow(o, n, TRUE, TRUE) /\ b.owner = o  BY <1>0
    <3> QED  BY <2>4, <3>1, <3>2, <3>3
  <2>5. \A u \in ProviderUsers : u.id # Global  BY ProvidersAssumption
  <2> QED  BY <2>1, <2>2, <2>3, <2>4, <2>5
<1>3. \A c \in ProviderClients : ~Handled(c)  BY DEF Handled
<1>4. ProvidersTypeOK  BY <1>2 DEF ProvidersTypeOK
<1>5. OneDefault  BY <1>2 DEF OneDefault, Defaults, OwnedBy
<1>6. TableIInv  BY <1>3, <1>5 DEF TableIInv, DefaultsCleared, WritesDefault
<1>7. CacheBehind  BY <1>3 DEF CacheBehind, Swapping
<1>8. NamesKnown  BY <1>2, CachedNames DEF NamesKnown
<1>9. chats = <<>> /\ DOMAIN chats = {} /\ DOMAIN pendingPins = {}  OBVIOUS
<1>10. ChatsTypeOK  BY <1>9 DEF ChatsTypeOK
<1>11. PinsPending /\ PinsReachTheirChat  BY <1>9 DEF PinsPending, PinsReachTheirChat
<1> QED  BY <1>4, <1>6, <1>7, <1>8, <1>10, <1>11 DEF ProvidersIInv, CacheIInv, PinsIInv

LEMMA UpsertStep ==
  ASSUME ProvidersTypeOK, TableIInv, CacheBehind, NEW c \in ProviderClients, NEW u \in ProviderUsers,
         NEW n \in ProviderNames, NEW isDefault \in BOOLEAN, NEW usable \in BOOLEAN, NEW global \in BOOLEAN,
         UpsertProvider(c, u, ProviderRow(IF global THEN Global ELSE u.id, n, isDefault, usable))
  PROVE  ProvidersTypeOK' /\ TableIInv' /\ CacheBehind'
<1>1. PICK row : row = ProviderRow(IF global THEN Global ELSE u.id, n, isDefault, usable)  OBVIOUS
<1>2. row \in ProviderRows
  <2>1. (IF global THEN Global ELSE u.id) \in ProviderOwners  BY DEF ProviderOwners
  <2> QED  BY <1>1, <2>1 DEF ProviderRow, ProviderRows
<1>3. row.default \in BOOLEAN  BY <1>2 DEF ProviderRows
<1>4. PICK pc \in {"defaults", "find"} : pc = IF row.default THEN "defaults" ELSE "find"  BY <1>3
<1>5. Begin(c, Handling("upsert", pc, row, {}))  BY <1>1, <1>4 DEF UpsertProvider
<1> QED  BY <1>2, <1>3, <1>4, <1>5, BeginStep

LEMMA NextProviders ==
  ASSUME ProvidersIInv, [ProvidersNext]_providerVars
  PROVE  ProvidersIInv'
<1> USE DEF ProvidersIInv, CacheIInv
<1>1. CASE UNCHANGED providerVars
  <2>1. /\ UNCHANGED <<providers, providerCache, providerCall, providerRaces>>
        /\ UNCHANGED <<pendingPins, chats>>
    BY <1>1 DEF providerVars
  <2>2. /\ ProvidersTypeOK' /\ CacheBehind' /\ NamesKnown'
    BY <2>1 DEF ProvidersTypeOK, CacheBehind, NamesKnown, Unread, Swapping, Handled
  <2>3. TableIInv'
    BY <2>1 DEF TableIInv, Handled, HandlerOwns, DefaultsCleared, WritesDefault, DefaultRows, OneDefault
  <2> QED  BY <2>1, <2>2, <2>3, PinsStay
<1>2. ASSUME ProvidersTypeOK', TableIInv', CacheBehind',
             UNCHANGED <<providerCache, pendingPins, chats>>,
             "pins" \in providerRaces => "pins" \in providerRaces'
      PROVE  ProvidersIInv'
  <2>1. NamesKnown'  BY <1>2 DEF NamesKnown
  <2> QED  BY <1>2, <2>1, PinsStay
<1>3. ASSUME NEW c, NEW r, Begin(c, r)
      PROVE  UNCHANGED <<providerCache, pendingPins, chats>> /\ providerRaces \subseteq providerRaces'
  BY <1>3 DEF Begin, Continue
<1>4. ASSUME NEW c \in ProviderClients, NEW u \in ProviderUsers, NEW n \in ProviderNames,
             NEW isDefault \in BOOLEAN, NEW usable \in BOOLEAN, NEW global \in BOOLEAN,
             UpsertProvider(c, u, ProviderRow(IF global THEN Global ELSE u.id, n, isDefault, usable))
      PROVE  ProvidersIInv'
  BY <1>2, <1>3, <1>4, UpsertStep DEF UpsertProvider
<1>5. ASSUME NEW c \in ProviderClients, NEW u \in ProviderUsers, NEW i \in DOMAIN providers,
             DeleteProvider(c, u, i)
      PROVE  ProvidersIInv'
  <2>1. PICK row \in ProviderRows : row = providers[i]  BY DEF ProvidersTypeOK
  <2>2. Begin(c, Handling("delete", "delete", row, {i}))  BY <1>5, <2>1 DEF DeleteProvider
  <2>3. ProvidersTypeOK' /\ TableIInv' /\ CacheBehind'  BY <2>2, BeginStep
  <2> QED  BY <1>2, <1>3, <2>2, <2>3
<1>6. ASSUME NEW c \in ProviderClients, NEW u \in ProviderUsers, NEW choice \in ProviderNames \cup {None},
             CreateChat(c, u, choice)
      PROVE  ProvidersIInv'
  <2>1. PICK row \in ProviderRows : row = ProviderRow(u.id, choice, FALSE, TRUE)
    BY DEF ProviderRow, ProviderRows, ProviderOwners
  <2>2. Begin(c, Handling("chat", "spawn", row, {}))  BY <1>6, <2>1 DEF CreateChat
  <2>3. ProvidersTypeOK' /\ TableIInv' /\ CacheBehind'  BY <2>2, BeginStep
  <2> QED  BY <1>2, <1>3, <2>2, <2>3
<1>7. ASSUME NEW c \in ProviderClients, ProviderStep(c) PROVE ProvidersIInv'
  <2>1. CASE SpawnChat(c)  BY <2>1, SpawnChatStep
  <2>2. CASE SwapCache(c)
    <3>1. UNCHANGED <<pendingPins, chats>> /\ providerRaces \subseteq providerRaces'
      BY <2>2 DEF SwapCache, Finish, OtherThan
    <3> QED  BY <2>2, <3>1, SwapCacheStep, SwapCacheTable, PinsStay
  <2>3. ASSUME ReadDefaults(c) \/ ClearDefault(c) \/ FindProvider(c) \/ WriteProvider(c)
               \/ DropProvider(c) \/ ReadProviders(c) \/ AbandonProvider(c)
        PROVE  ProvidersIInv'
    <3>1. /\ UNCHANGED <<providerCache, pendingPins, chats>>
          /\ "pins" \in providerRaces => "pins" \in providerRaces'
      BY <2>3 DEF ReadDefaults, ClearDefault, FindProvider, WriteProvider, DropProvider, ReadProviders,
                  AbandonProvider, Continue, Finish, OtherThan
    <3>2. ProvidersTypeOK' /\ TableIInv' /\ CacheBehind'
      BY <2>3, ReadDefaultsStep, ClearDefaultStep, FindProviderStep, WriteProviderStep,
         DropProviderStep, ReadProvidersCache, ReadProvidersTable, AbandonProviderStep
    <3> QED  BY <1>2, <3>1, <3>2
  <2> QED  BY <1>7, <2>1, <2>2, <2>3 DEF ProviderStep
<1>8. ASSUME NEW s \in DOMAIN chats, StartChat(s) PROVE ProvidersIInv'
  BY <1>8, StartChatStep
<1> QED  BY <1>1, <1>4, <1>5, <1>6, <1>7, <1>8 DEF ProvidersNext

\* What handlers have in hand of the table, of the cache and of the pins agrees
\* with what is there, but for the overlaps that providerRaces names.
THEOREM ProvidersInductive == ProvidersSpec => []ProvidersIInv
<1>1. ProvidersInit => ProvidersIInv  BY InitProviders
<1>2. ProvidersIInv /\ [ProvidersNext]_providerVars => ProvidersIInv'  BY NextProviders
<1> QED  BY <1>1, <1>2, PTL DEF ProvidersSpec

\* A model is resolved as it was chosen: once no handler is under way the cache is
\* the table's, unless, since a rebuild last read the table alone, one overlapped
\* it or a handler ended between its change and its rebuild; an
\* owner has one default, unless two of its upserts of one overlapped; and a
\* conversation starts on its own pin, unless another of its user was waiting.
THEOREM ModelsChosen == ProvidersSpec => []ModelsAreAsChosen
<1>1. ASSUME ProvidersIInv PROVE ModelsAreAsChosen
  <2> USE <1>1 DEF ProvidersIInv, TableIInv, CacheIInv, PinsIInv
  <2>1. CacheFollowsTable
    <3>1. Underway = {} => \A c \in ProviderClients : ~Handled(c)  BY DEF Underway, Handled
    <3> QED  BY <3>1 DEF CacheFollowsTable, CacheBehind, Unread, Swapping
  <2> QED  BY <2>1 DEF ModelsAreAsChosen
<1> QED  BY <1>1, ProvidersInductive, PTL
=============================================================================
