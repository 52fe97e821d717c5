--------------------------- MODULE EngineRegistry ---------------------------
(***************************************************************************)
(* The engine registry (engine/registry.rs) and what a server does about   *)
(* engines when it starts (server/mod.rs, engine/bundled.rs,               *)
(* engine/download.rs).  The registry is three rows of the settings table; *)
(* every statement stands alone, so requests interleave between them, and  *)
(* a request may be cut short after any of them (the client goes away, the *)
(* process dies).  Servers may share the database and the engines dir.     *)
(***************************************************************************)
EXTENDS Identity, Naturals, Sequences, SequencesExt

CONSTANTS EngineNames, EngineEditors, EngineUsers,
          Servers,        \* processes over one database and one directory
          OperatorEngine, \* the name of --engine, or NoEngine
          Bundled,        \* the bundled-stockfish build
          CatalogPlan,    \* the files the catalog plans for the platform
          MaxEngineEdits, \* bound: admin requests and starts of a server
          NoEngine

BundleFile == "bundle"
EngineFiles == {BundleFile} \cup ToSet(CatalogPlan)

\* A request between two of its statements: what it edits, and the list it read,
\* with the edit made.  (The order of the list tells nothing here: it is a set.)
EditedNames    == EngineNames \cup {OperatorEngine}
EngineRequests == [op : {"upsert", "remove", "set"}, name : EditedNames,
                   pc : {"save", "check", "point", "clear"}, list : SUBSET EditedNames]

ASSUME EngineAssumption ==
  /\ MaxEngineEdits \in Nat /\ Bundled \in BOOLEAN
  /\ CatalogPlan \in Seq(ToSet(CatalogPlan))
  /\ EngineEditors \cap Servers = {}
  /\ NoEngine \notin EngineRequests

VARIABLES engines,       \* the JSON list: the names in it
          defaultEngine, \* the selector, NoEngine when the row is absent
          downloaded,    \* whether the downloaded list has been recorded
          engineReq,     \* editor or server -> what it has read, or NoEngine
          server,        \* process -> where its start has got to
          disk, partial, \* file -> "absent", "half" or "whole"
          engineEdits, engineRace, asEdited
engineVars == <<engines, defaultEngine, downloaded, engineReq, server, disk,
                partial, engineEdits, engineRace, asEdited>>

registryVars == <<engines, defaultEngine, engineReq, asEdited>>
installVars  == <<downloaded, server, disk, partial>>

EngineInit ==
  /\ engines = {} /\ asEdited = {}
  /\ defaultEngine = NoEngine
  /\ downloaded = FALSE
  /\ engineReq = [c \in EngineEditors \cup Servers |-> NoEngine]
  /\ server = [p \in Servers |-> [pc |-> "down", todo |-> <<>>]]
  /\ disk = [f \in EngineFiles |-> "absent"]
  /\ partial = [f \in EngineFiles |-> "absent"]
  /\ engineEdits = 0
  /\ engineRace = {}

WithEngine(list, name)    == list \cup {name}
WithoutEngine(list, name) == list \ {name}

\* default_entry, resolve: a selector without its entry counts for nothing.
UserEngine == IF defaultEngine \in engines THEN defaultEngine ELSE NoEngine
ResolvedEngine ==
  IF UserEngine # NoEngine THEN UserEngine
  ELSE IF Bundled THEN BundleFile
  ELSE IF downloaded THEN Head(CatalogPlan) ELSE NoEngine

EditingEngines(c) == engineReq[c] # NoEngine
ReadEngines(c, op, name, pc, list) ==
  /\ engineReq' = [engineReq EXCEPT ![c] = [op |-> op, name |-> name, pc |-> pc, list |-> list]]
  /\ UNCHANGED <<engines, defaultEngine, engineRace, asEdited>>

\* Mutant: the entry that is replaced is taken out and not put back.
UpsertEngine_Loses(c, name) ==
  ReadEngines(c, "upsert", name, "save",
    IF name \in engines THEN WithoutEngine(engines, name) ELSE WithEngine(engines, name))

UpsertEngine(c, name) == ReadEngines(c, "upsert", name, "save", WithEngine(engines, name))
RemoveEngine(c, name) ==
  /\ name \in engines
  /\ ReadEngines(c, "remove", name, "save", WithoutEngine(engines, name))
SetDefaultEngine(c, name) ==
  /\ name \in engines
  /\ ReadEngines(c, "set", name, "point", engines)

EditEngines(c, user) ==
  /\ ~EditingEngines(c)
  /\ MayAdminister(user)
  /\ engineEdits < MaxEngineEdits
  /\ engineEdits' = engineEdits + 1
  /\ \E name \in EngineNames : UpsertEngine(c, name) \/ RemoveEngine(c, name) \/ SetDefaultEngine(c, name)
  /\ UNCHANGED installVars

\* What a write overtakes: another request's list, or what it made of it.
EnginesOvertaken(c) ==
  LET others == {d \in DOMAIN engineReq \ {c} : EditingEngines(d)} IN
  (IF \E d \in others : engineReq[d].pc = "save" THEN {"list"} ELSE {})
  \cup (IF \E d \in others : \/ engineReq[d].pc \in {"point", "clear"}
                             \/ engineReq[d].pc = "check" /\ engineReq[d].name = engineReq[c].name
       THEN {"default"} ELSE {})

\* save_list, with the list as it was when it was read.
SaveEngines(c) ==
  LET r == engineReq[c] IN
  /\ EditingEngines(c) /\ r.pc = "save"
  /\ engines' = r.list
  /\ asEdited' = IF r.op = "remove" THEN WithoutEngine(asEdited, r.name) ELSE WithEngine(asEdited, r.name)
  /\ engineReq' = [engineReq EXCEPT ![c].pc = "check"]
  /\ engineRace' = engineRace \cup EnginesOvertaken(c)
  /\ UNCHANGED <<defaultEngine, engineEdits, installVars>>

\* Mutant: a removal leaves the selector alone.
CheckDefaultEngine_Keeps(c) ==
  LET r == engineReq[c] IN
  /\ EditingEngines(c) /\ r.pc = "check"
  /\ engineReq' = [engineReq EXCEPT ![c] =
       IF r.op # "remove" /\ defaultEngine = NoEngine THEN [r EXCEPT !.pc = "point"] ELSE NoEngine]
  /\ UNCHANGED <<engines, defaultEngine, engineEdits, engineRace, asEdited, installVars>>

\* default_name().is_none(), or == Some(name)
CheckDefaultEngine(c) ==
  LET r   == engineReq[c]
      hit == IF r.op = "remove" THEN defaultEngine = r.name ELSE defaultEngine = NoEngine
  IN /\ EditingEngines(c) /\ r.pc = "check"
     /\ engineReq' = [engineReq EXCEPT ![c] =
          IF hit THEN [r EXCEPT !.pc = IF r.op = "remove" THEN "clear" ELSE "point"] ELSE NoEngine]
     /\ UNCHANGED <<engines, defaultEngine, engineEdits, engineRace, asEdited, installVars>>

WriteDefaultEngine(c) ==
  LET r == engineReq[c] IN
  /\ EditingEngines(c) /\ r.pc \in {"point", "clear"}
  /\ defaultEngine' = IF r.pc = "point" THEN r.name ELSE NoEngine
  /\ engineReq' = [engineReq EXCEPT ![c] = NoEngine]
  /\ engineRace' = engineRace \cup EnginesOvertaken(c)
  /\ UNCHANGED <<engines, engineEdits, asEdited, installVars>>

\* The handler's future is dropped.
AbandonEdit(c) ==
  /\ EditingEngines(c) /\ c \in EngineEditors
  /\ engineReq' = [engineReq EXCEPT ![c] = NoEngine]
  /\ engineRace' = engineRace \cup (IF engineReq[c].pc \in {"check", "clear"} THEN {"cut"} ELSE {})
  /\ UNCHANGED <<engines, defaultEngine, engineEdits, asEdited, installVars>>

(***************************************************************************)
(* serve: seed --engine, extract the bundle, download when nothing         *)
(* resolves, serve.                                                        *)
(***************************************************************************)
ServerAt(p, pc) == server[p].pc = pc
ServerTo(p, pc, todo) == server' = [server EXCEPT ![p] = [pc |-> pc, todo |-> todo]]

StartServer(p) ==
  /\ ServerAt(p, "down")
  /\ engineEdits < MaxEngineEdits
  /\ engineEdits' = engineEdits + 1
  /\ ServerTo(p, "seed", <<>>)
  /\ IF OperatorEngine # NoEngine THEN UpsertEngine(p, OperatorEngine)
     ELSE UNCHANGED <<registryVars, engineRace>>
  /\ UNCHANGED <<downloaded, disk, partial>>

EngineSeeded(p) ==
  /\ ServerAt(p, "seed") /\ ~EditingEngines(p)
  /\ IF Bundled THEN ServerTo(p, "asset", <<BundleFile>>)
     ELSE IF ResolvedEngine = NoEngine THEN ServerTo(p, "asset", CatalogPlan) ELSE ServerTo(p, "up", <<>>)
  /\ UNCHANGED <<registryVars, downloaded, disk, partial, engineEdits, engineRace>>

Installing(p) == Head(server[p].todo)

\* up_to_date compares bytes; already_present has no checksum to compare with
\* (every asset of the catalog has none) and takes any file.
AlreadyPresent(f) == IF f = BundleFile THEN disk[f] = "whole" ELSE disk[f] # "absent"

\* Mutant: an asset that cannot be fetched is passed over.
EnsureAsset_Skips(p) ==
  /\ ServerAt(p, "asset")
  /\ IF server[p].todo = <<>> THEN ServerTo(p, "up", <<>>) /\ downloaded' = ~Bundled
     ELSE /\ UNCHANGED downloaded
          /\ \/ ServerTo(p, "asset", Tail(server[p].todo))
             \/ ~AlreadyPresent(Installing(p)) /\ ServerTo(p, "fetched", server[p].todo)
  /\ UNCHANGED <<registryVars, disk, partial, engineEdits, engineRace>>

\* The last asset done: to_config and set_downloaded.
EnsureAsset(p) ==
  /\ ServerAt(p, "asset")
  /\ IF server[p].todo = <<>> THEN ServerTo(p, "up", <<>>) /\ downloaded' = ~Bundled
     ELSE /\ UNCHANGED downloaded
          /\ IF AlreadyPresent(Installing(p)) THEN ServerTo(p, "asset", Tail(server[p].todo))
             ELSE ServerTo(p, "fetched", server[p].todo) \/ ServerTo(p, "up", <<>>)  \* or the fetch fails
  /\ UNCHANGED <<registryVars, disk, partial, engineEdits, engineRace>>

\* Mutant: the file is written under its final name.
WriteFile_InPlace(p) ==
  LET f == Installing(p) IN
  \/ /\ ServerAt(p, "fetched")
     /\ disk' = [disk EXCEPT ![f] = "half"]
     /\ ServerTo(p, "writing", server[p].todo)
     /\ UNCHANGED <<partial, engineRace>>
  \/ /\ ServerAt(p, "writing")
     /\ disk' = [disk EXCEPT ![f] = "whole"]
     /\ ServerTo(p, "asset", Tail(server[p].todo))
     /\ UNCHANGED <<partial, engineRace>>

\* write_file: create and truncate the sibling, write it out, rename it.
WriteFile(p) ==
  LET f == Installing(p) IN
  \/ /\ ServerAt(p, "fetched")
     /\ partial' = [partial EXCEPT ![f] = "half"]
     /\ ServerTo(p, "writing", server[p].todo)
     /\ engineRace' = engineRace \cup
          (IF \E q \in Servers \ {p} : server[q].pc \in {"writing", "rename"} /\ Installing(q) = f
           THEN {"file"} ELSE {})
     /\ UNCHANGED disk
  \/ /\ ServerAt(p, "writing")
     /\ partial' = [partial EXCEPT ![f] = IF @ = "absent" THEN "absent" ELSE "whole"]
     /\ ServerTo(p, "rename", server[p].todo)
     /\ UNCHANGED <<disk, engineRace>>
  \/ /\ ServerAt(p, "rename")
     /\ partial' = [partial EXCEPT ![f] = "absent"]
     /\ disk' = [disk EXCEPT ![f] = IF partial[f] = "absent" THEN @ ELSE partial[f]]
     /\ IF partial[f] = "absent" THEN ServerTo(p, "up", <<>>)   \* the rename fails
        ELSE ServerTo(p, "asset", Tail(server[p].todo))
     /\ UNCHANGED engineRace

InstallAsset(p) == WriteFile(p) /\ UNCHANGED <<registryVars, downloaded, engineEdits>>

\* The process dies wherever it is; what is on disk and in the tables stays.
CrashServer(p) ==
  /\ ~ServerAt(p, "down")
  /\ ServerTo(p, "down", <<>>)
  /\ engineReq' = [engineReq EXCEPT ![p] = NoEngine]
  /\ UNCHANGED <<engines, defaultEngine, asEdited, downloaded, disk, partial, engineEdits, engineRace>>

EngineNext ==
  \/ \E c \in EngineEditors : AbandonEdit(c) \/ \E u \in EngineUsers : EditEngines(c, u)
  \/ \E c \in EngineEditors \cup Servers : SaveEngines(c) \/ CheckDefaultEngine(c) \/ WriteDefaultEngine(c)
  \/ \E p \in Servers : StartServer(p) \/ EngineSeeded(p) \/ EnsureAsset(p) \/ InstallAsset(p) \/ CrashServer(p)
EngineSpec == EngineInit /\ [][EngineNext]_engineVars

(***************************************************************************)
(* Properties.                                                             *)
(***************************************************************************)

\* Every accepted edit of the list is still in it, unless one edit read the
\* list before another wrote it: the list is one JSON row.
EngineEditsLand == "list" \notin engineRace => engines = asEdited

\* With no edit in flight the default names an engine of the list, unless an
\* edit overtook another's check or a removal was cut short between its two
\* statements.  (resolve_default then falls through to the lower slots.)
DefaultNamesAnEngine ==
  engineRace \cap {"default", "list", "cut"} = {} /\ (\A c \in DOMAIN engineReq : ~EditingEngines(c))
    => defaultEngine \in engines \cup {NoEngine}

\* No crash leaves a half-written engine under the name that a later start
\* accepts unseen; only two processes writing the one .partial at once can.
AcceptedIsWhole == "file" \notin engineRace => \A f \in EngineFiles : disk[f] # "half"

\* The downloaded slot is recorded only when each of its files is in place.
DownloadedIsInstalled ==
  downloaded /\ "file" \notin engineRace => \A f \in ToSet(CatalogPlan) : disk[f] = "whole"

\* Edits, restarts and crashes leave a list with every edit in it, a default and
\* a downloaded slot that name something, and no half-written engine.
EnginesSettle == EngineEditsLand /\ DefaultNamesAnEngine /\ AcceptedIsWhole /\ DownloadedIsInstalled
=============================================================================
