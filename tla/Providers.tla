------------------------------ MODULE Providers ------------------------------
(***************************************************************************)
(* The language-model providers (ai/providers.rs), the cache of them that  *)
(* every model resolution reads (ai/agent/provider_store.rs), and how a    *)
(* new conversation gets its model: the choice is validated, queued under  *)
(* its user, and taken when the engine starts the session                  *)
(* (ai/agent/sessions.rs).  Handlers run one SQL statement a step.         *)
(***************************************************************************)
EXTENDS Identity, Integers, FiniteSets, SequencesExt, FiniteSetsExt

CONSTANTS ProviderClients, ProviderUsers, \* concurrent handlers, callers
          ProviderNames,
          EnvKey,                \* ANTHROPIC_API_KEY is set
          MaxProviderCalls, NoProviderCall

VARIABLES providers,   \* Seq([owner, name, default, usable, live]): llm_providers, by id
          providerCache, \* [defaults: owner -> name, contexts: owner -> set of names]
          pendingPins, \* user id -> the provider the next session of that user was chosen
          chats,       \* Seq([user, choice, wanted, model]), in the order of their Spawn
          providerCall, \* client -> its handler, or NoProviderCall
          providerCalls,
          providerRaces \* history: which overlaps the code does not exclude took place,
                        \* "rebuild" and "halfway" until a rebuild next reads the table
providerVars == <<providers, providerCache, pendingPins, chats, providerCall, providerCalls, providerRaces>>

None    == "none"
Stub    == "EchoLlm"  \* what the engine runs on when its pin does not resolve
Unknown == "unstarted"

\* A row, and a handler between two of its statements: what it writes (a chat:
\* whom it is for and what is chosen), the ids it still has to see to, and the
\* table it read to rebuild the cache from.
ProviderOwners == {Global} \cup {u.id : u \in ProviderUsers}
ProviderRows   == [owner : ProviderOwners, name : ProviderNames \cup {None},
                   default : BOOLEAN, usable : BOOLEAN, live : BOOLEAN]
ProviderHandlers ==
  [op : {"upsert", "delete", "chat"}, owner : ProviderOwners, row : ProviderRows,
   pc : {"defaults", "clear", "find", "write", "delete", "reload", "swap", "spawn"},
   ids : SUBSET Nat, changed : BOOLEAN, read : Seq(ProviderRows)]

ASSUME ProvidersAssumption ==
  /\ EnvKey \in BOOLEAN /\ MaxProviderCalls \in Nat
  /\ Unknown \notin ProviderNames
  /\ \A u \in ProviderUsers : u.id # Global
  /\ NoProviderCall \notin ProviderHandlers

ProviderRow(owner, name, isDefault, usable) ==
  [owner |-> owner, name |-> name, default |-> isDefault, usable |-> usable, live |-> TRUE]

OwnedBy(rows, owner) == {i \in DOMAIN rows : rows[i].live /\ rows[i].owner = owner}
Defaults(rows, ids)  == {i \in ids : rows[i].default}

(***************************************************************************)
(* rebuild: what the cache holds of a table.  The house is filed under     *)
(* Global.  A row whose wire is unknown and that has no base_url is        *)
(* skipped by every catalog, yet may still be somebody's default.          *)
(***************************************************************************)
FirstOf(rows, groups) ==
  LET some == SelectSeq(groups, LAMBDA g : g # {})
  IN IF some = <<>> THEN None ELSE rows[Min(Head(some))].name

OwnerDefault(rows, own, globals) ==
  FirstOf(rows, <<Defaults(rows, own), Defaults(rows, globals), own, globals>>)

ComposeContext(rows, own, globals) ==
  LET ownNames == {rows[i].name : i \in own}
      chosen   == own \cup {i \in globals : rows[i].name \notin ownNames}
  IN {rows[i].name : i \in {x \in chosen : rows[x].usable}}

HouseContext(rows, globals) ==
  LET context == ComposeContext(rows, {}, globals)
  IN IF context = {} /\ EnvKey THEN {"anthropic"} ELSE context

HouseDefault(rows, globals) ==
  IF globals = {} /\ EnvKey THEN "anthropic"
  ELSE FirstOf(rows, <<Defaults(rows, globals), globals>>)

Caches(rows) ==
  LET globals == OwnedBy(rows, Global)
      owners  == {rows[i].owner : i \in {x \in DOMAIN rows : rows[x].live}} \ {Global}
      Default(o) == IF o = Global THEN HouseDefault(rows, globals)
                    ELSE OwnerDefault(rows, OwnedBy(rows, o), globals)
  IN [defaults |-> [o \in {x \in owners \cup {Global} : Default(x) # None} |-> Default(o)],
      contexts |-> [o \in owners \cup {Global} |->
                     IF o = Global THEN HouseContext(rows, globals)
                     ELSE ComposeContext(rows, OwnedBy(rows, o), globals)]]

\* default_for and context: a user without rows is served by the house.
ServedBy(table, u) == IF u \in DOMAIN table THEN {table[u]}
                      ELSE IF Global \in DOMAIN table THEN {table[Global]} ELSE {}
DefaultFor(u) == CHOOSE d \in ServedBy(providerCache.defaults, u) \cup {None} :
                   d # None \/ ServedBy(providerCache.defaults, u) = {}
Resolves(u, name) == \E context \in ServedBy(providerCache.contexts, u) : name \in context

\* The table starts empty, with two providers of the house, or with a default
\* of the house that some user has overridden by name.
ProvidersInit ==
  /\ \/ providers = <<>>
     \/ \E n, m \in ProviderNames :
          /\ n # m
          /\ providers = <<ProviderRow(Global, n, TRUE, TRUE), ProviderRow(Global, m, FALSE, TRUE)>>
     \/ \E n \in ProviderNames, u \in ProviderUsers :
          providers = <<ProviderRow(Global, n, TRUE, TRUE), ProviderRow(u.id, n, TRUE, TRUE)>>
  /\ providerCache = Caches(providers)
  /\ pendingPins = <<>> /\ chats = <<>>
  /\ providerCall = [c \in ProviderClients |-> NoProviderCall]
  /\ providerCalls = 0 /\ providerRaces = {}

(***************************************************************************)
(* Handlers.                                                               *)
(***************************************************************************)
Underway == {providerCall[c] : c \in {x \in ProviderClients : providerCall[x] # NoProviderCall}}

\* A new step of c's handler; two handlers between the steps named race are
\* an overlap that nothing excludes.
Races(c, r) ==
  LET others == {providerCall[d] : d \in {x \in ProviderClients \ {c} : providerCall[x] # NoProviderCall}}
  IN {race \in {"rebuild", "defaults"} :
        \E s \in others :
          IF race = "rebuild" THEN r.pc = "swap" /\ s.pc = "swap"
          ELSE r.op = "upsert" /\ s.op = "upsert" /\ r.owner = s.owner /\ r.row.default /\ s.row.default}

Continue(c, r) ==
  /\ providerCall' = [providerCall EXCEPT ![c] = r]
  /\ providerRaces' = providerRaces \cup Races(c, r)

\* Done, or failed: a change that was made is not read into the cache.
Finish(c, changed) ==
  /\ providerCall' = [providerCall EXCEPT ![c] = NoProviderCall]
  /\ providerRaces' = providerRaces \cup (IF changed THEN {"halfway"} ELSE {})

Waits(c, pc) == providerCall[c] # NoProviderCall /\ providerCall[c].pc = pc

OtherThan(v) == UNCHANGED <<pendingPins, chats, providerCalls>> /\ UNCHANGED v

Handling(op, pc, row, ids) ==
  [op |-> op, pc |-> pc, owner |-> row.owner, row |-> row, ids |-> ids, changed |-> FALSE, read |-> <<>>]

Begin(c, r) ==
  /\ providerCall[c] = NoProviderCall /\ providerCalls < MaxProviderCalls
  /\ providerCalls' = providerCalls + 1
  /\ Continue(c, r)
  /\ UNCHANGED <<providers, providerCache, pendingPins, chats>>

\* Mutant: the older defaults are not cleared.
UpsertProvider_NoClear(c, u, row) ==
  /\ row.owner \in {Global, u.id}
  /\ row.owner = Global => u.is_admin
  /\ Begin(c, Handling("upsert", "find", row, {}))

UpsertProvider(c, u, row) ==
  /\ row.owner \in {Global, u.id}
  /\ row.owner = Global => u.is_admin
  /\ Begin(c, Handling("upsert", IF row.default THEN "defaults" ELSE "find", row, {}))

\* clear_defaults: the flagged rows are read, then updated one by one.
ReadDefaults(c) ==
  /\ Waits(c, "defaults")
  /\ LET r == providerCall[c] IN
     Continue(c, [r EXCEPT !.pc = "clear", !.ids = Defaults(providers, OwnedBy(providers, r.owner))])
  /\ OtherThan(<<providers, providerCache>>)

ClearDefault(c) ==
  LET r == providerCall[c] IN
  /\ Waits(c, "clear")
  /\ IF r.ids = {} THEN Continue(c, [r EXCEPT !.pc = "find"]) /\ UNCHANGED providers
     ELSE LET i == Min(r.ids) IN
          IF providers[i].live
          THEN /\ providers' = [providers EXCEPT ![i].default = FALSE]
               /\ Continue(c, [r EXCEPT !.ids = @ \ {i}, !.changed = TRUE])
          ELSE Finish(c, r.changed) /\ UNCHANGED providers
  /\ OtherThan(providerCache)

SameName(rows, row) == {i \in OwnedBy(rows, row.owner) : rows[i].name = row.name}

FindProvider(c) ==
  /\ Waits(c, "find")
  /\ LET r == providerCall[c] IN
     Continue(c, [r EXCEPT !.pc = "write",
                           !.ids = IF SameName(providers, r.row) = {} THEN {}
                                   ELSE {Min(SameName(providers, r.row))}])
  /\ OtherThan(<<providers, providerCache>>)

\* The row found is updated, else a new one inserted; (owner, name) is unique,
\* but only where the owner is not NULL.
WriteProvider(c) ==
  LET r       == providerCall[c]
      refused == IF r.ids = {} THEN r.owner # Global /\ SameName(providers, r.row) # {}
                 ELSE ~providers[Min(r.ids)].live
  IN /\ Waits(c, "write")
     /\ IF refused THEN Finish(c, r.changed) /\ UNCHANGED providers
        ELSE /\ providers' = IF r.ids = {} THEN Append(providers, r.row)
                             ELSE [providers EXCEPT ![Min(r.ids)] = r.row]
             /\ Continue(c, [r EXCEPT !.pc = "reload"])
     /\ OtherThan(providerCache)

DeleteProvider(c, u, i) ==
  /\ i \in DOMAIN providers /\ providers[i].live /\ CanWrite(providers[i].owner, u)
  /\ Begin(c, Handling("delete", "delete", providers[i], {i}))

\* Mutant: a deletion does not invalidate the cache.
DropProvider_NoReload(c) ==
  /\ Waits(c, "delete")
  /\ providers' = [providers EXCEPT ![Min(providerCall[c].ids)].live = FALSE]
  /\ Finish(c, FALSE)
  /\ OtherThan(providerCache)

DropProvider(c) ==
  /\ Waits(c, "delete")
  /\ LET r == providerCall[c] IN
     /\ providers' = [providers EXCEPT ![Min(r.ids)].live = FALSE]
     /\ Continue(c, [r EXCEPT !.pc = "reload"])
  /\ OtherThan(providerCache)

\* invalidate, after every change: the table is read, and later swapped in.
\* It makes up for what others have left halfway, and for an earlier overlap.
ReadProviders(c) ==
  /\ Waits(c, "reload")
  /\ LET r == [providerCall[c] EXCEPT !.pc = "swap", !.read = providers] IN
     /\ providerCall' = [providerCall EXCEPT ![c] = r]
     /\ providerRaces' = (providerRaces \ {"rebuild", "halfway"}) \cup Races(c, r)
  /\ OtherThan(<<providers, providerCache>>)

\* A statement fails, or the client goes away at an await: the handler ends.
\* A rebuild that fails is only logged, and the change answered as a success.
AbandonProvider(c) ==
  /\ providerCall[c] # NoProviderCall /\ providerCall[c].pc # "swap"
  /\ Finish(c, providerCall[c].changed \/ providerCall[c].pc = "reload")
  /\ OtherThan(<<providers, providerCache>>)

SwapCache(c) ==
  /\ Waits(c, "swap")
  /\ providerCache' = Caches(providerCall[c].read)
  /\ Finish(c, FALSE)
  /\ OtherThan(providers)

(***************************************************************************)
(* A new conversation: SessionService::create, then the engine.            *)
(***************************************************************************)
CreateChat(c, u, choice) ==
  /\ IF choice = None THEN DefaultFor(u.id) # None ELSE Resolves(u.id, choice)
  /\ Begin(c, Handling("chat", "spawn", ProviderRow(u.id, choice, FALSE, TRUE), {}))

Unstarted(u) == {s \in DOMAIN chats : chats[s].user = u /\ chats[s].model = Unknown}

SpawnChat(c) ==
  LET r == providerCall[c] IN
  /\ Waits(c, "spawn")
  /\ pendingPins' = IF r.row.name = None THEN pendingPins
                    ELSE [x \in DOMAIN pendingPins \cup {r.owner} |->
                           IF x = r.owner THEN r.row.name ELSE pendingPins[x]]
  /\ chats' = Append(chats, [user |-> r.owner, choice |-> r.row.name, wanted |-> r.row.name, model |-> Unknown])
  /\ providerCall' = [providerCall EXCEPT ![c] = NoProviderCall]
  /\ providerRaces' = providerRaces \cup (IF Unstarted(r.owner) = {} THEN {} ELSE {"pins"})
  /\ UNCHANGED <<providers, providerCache, providerCalls>>

\* Mutant: the pending choice is read, not taken.
StartChat_KeepsPin(s) ==
  LET u      == chats[s].user
      choice == IF u \in DOMAIN pendingPins THEN pendingPins[u] ELSE DefaultFor(u)
  IN /\ s \in DOMAIN chats /\ chats[s].model = Unknown
     /\ chats' = [chats EXCEPT ![s] = [user |-> u, choice |-> chats[s].choice,
                    wanted |-> IF chats[s].choice = None THEN DefaultFor(u) ELSE chats[s].choice,
                    model |-> IF Resolves(u, choice) THEN choice ELSE Stub]]
     /\ UNCHANGED <<providers, providerCache, pendingPins, providerCall, providerCalls, providerRaces>>

\* build_resolver: the session's ~default pin takes what is pending for its
\* user, else that user's default.
StartChat(s) ==
  LET u      == chats[s].user
      choice == IF u \in DOMAIN pendingPins THEN pendingPins[u] ELSE DefaultFor(u)
  IN /\ s \in DOMAIN chats /\ chats[s].model = Unknown
     /\ pendingPins' = [x \in DOMAIN pendingPins \ {u} |-> pendingPins[x]]
     /\ chats' = [chats EXCEPT ![s] = [user |-> u, choice |-> chats[s].choice,
                    wanted |-> IF chats[s].choice = None THEN DefaultFor(u) ELSE chats[s].choice,
                    model |-> IF Resolves(u, choice) THEN choice ELSE Stub]]
     /\ UNCHANGED <<providers, providerCache, providerCall, providerCalls, providerRaces>>

ProviderStep(c) ==
  \/ ReadDefaults(c) \/ ClearDefault(c) \/ FindProvider(c) \/ WriteProvider(c)
  \/ DropProvider(c) \/ ReadProviders(c) \/ SwapCache(c) \/ SpawnChat(c)
  \/ AbandonProvider(c)

ProvidersNext ==
  \/ \E c \in ProviderClients, u \in ProviderUsers :
       \/ \E n \in ProviderNames, isDefault, usable, global \in BOOLEAN :
            UpsertProvider(c, u, ProviderRow(IF global THEN Global ELSE u.id, n, isDefault, usable))
       \/ \E i \in DOMAIN providers : DeleteProvider(c, u, i)
       \/ \E choice \in ProviderNames \cup {None} : CreateChat(c, u, choice)
  \/ \E c \in ProviderClients : ProviderStep(c)
  \/ \E s \in DOMAIN chats : StartChat(s)

ProvidersSpec == ProvidersInit /\ [][ProvidersNext]_providerVars

(***************************************************************************)
(* Properties.                                                             *)
(***************************************************************************)

\* Once no handler is under way, what resolutions read is what the table holds,
\* unless, since a rebuild last read it with no other under way, one overlapped it
\* or a handler ended between its change and its own rebuild (failed, dropped):
\* the next rebuild makes up for both.
CacheFollowsTable ==
  Underway = {} /\ providerRaces \cap {"rebuild", "halfway"} = {} => providerCache = Caches(providers)

\* An owner has at most one default, however the rows were renamed, moved and
\* deleted meanwhile, unless two of its upserts of a default overlapped.
OneDefault ==
  "defaults" \notin providerRaces =>
    \A i, j \in DOMAIN providers :
      providers[i].owner = providers[j].owner /\ {i, j} \subseteq Defaults(providers, OwnedBy(providers, providers[i].owner))
        => i = j

\* A conversation starts on the provider chosen for it, or its user's default,
\* never on what another conversation asked for, unless a user's next one was
\* spawned before the engine had started the last.
PinsReachTheirChat ==
  "pins" \notin providerRaces =>
    \A s \in DOMAIN chats : chats[s].model \in {Unknown, Stub, chats[s].wanted}

\* A model is resolved as it was chosen: from the table as it is, one default an
\* owner, and the pin of the conversation itself.
ModelsAreAsChosen == CacheFollowsTable /\ OneDefault /\ PinsReachTheirChat
=============================================================================
