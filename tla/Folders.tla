------------------------------ MODULE Folders ------------------------------
(***************************************************************************)
(* The folder tree that organises studies (folders/mod.rs), and the filing *)
(* of a study into a folder (studies/mod.rs).  No request takes a          *)
(* transaction: each one reads, checks and writes in separate statements,  *)
(* so requests interleave between them.  The one foreign key, of a parent, *)
(* fires or not with the backend and its settings; folder_id of a study    *)
(* has none.  A rejected request changes nothing and is left out, except   *)
(* where it was let past a first check.                                    *)
(***************************************************************************)
EXTENDS Identity, Naturals, FiniteSets, TLC

CONSTANTS FolderClients,   \* requests that may be in flight at once
          FolderUsers,     \* the callers
          FolderNames,
          FolderStudies,   \* study -> its owner
          MaxFolders,      \* bound: folders ever created
          MaxFolderWrites, \* bound: requests admitted
          NoRequest

ASSUME FolderAssumption == MaxFolders \in Nat /\ MaxFolderWrites \in Nat

NoFolder == 0
FolderIds == 1 .. MaxFolders
Places == FolderIds \cup {NoFolder}

VARIABLES folders,    \* id -> [owner, parent, name]; the parent NoFolder is NULL
          nextFolder, \* the autoincrement key
          cascades,   \* whether the backend enforces fk_folders_parent
          filedIn,    \* study -> folder_id, NoFolder for NULL
          folderReq,  \* what each request in flight has read and will write
          admitted,   \* history: requests that got past their first check
          raced       \* history: the kinds of check another write overtook

folderVars == <<folders, nextFolder, cascades, filedIn, folderReq, admitted, raced>>

FolderInit ==
  /\ folders = <<>>
  /\ nextFolder = 1
  /\ cascades \in BOOLEAN
  /\ filedIn = [s \in DOMAIN FolderStudies |-> NoFolder]
  /\ folderReq = [c \in FolderClients |-> NoRequest]
  /\ admitted = 0
  /\ raced = {}

FolderRows == DOMAIN folders

\* owned_folders: the rows that share an owner; every walk stays in them.
OwnedFolders(owner) == {f \in FolderRows : folders[f].owner = owner}

\* The ids that is_descendant visits on its way up from f.
HoldsParents(S, owner) == \A g \in S \cap OwnedFolders(owner) : folders[g].parent \in S
Upward(f, owner) == {g \in Places : \A S \in SUBSET Places : f \in S /\ HoldsParents(S, owner) => g \in S}

\* ids and, of the rows, what lies below them: subtree_ids.
HoldsChildren(S, rows) == \A g \in rows : folders[g].parent \in S => g \in S
Below(ids, rows) == {g \in Places : \A S \in SUBSET Places : ids \subseteq S /\ HoldsChildren(S, rows) => g \in S}
FolderSubtree(f) == Below({f}, OwnedFolders(folders[f].owner))

\* Neither walk keeps a set of the rows it has seen.  Upward ends when it
\* meets the moved folder or leaves the owner's rows; downward ends unless
\* the folder lies below itself.
UpwardEnds(f, from, owner) ==
  LET seen == Upward(from, owner) IN f \in seen \/ ~(seen \subseteq OwnedFolders(owner))
DownwardEnds(f) ==
  LET seen == Upward(folders[f].parent, folders[f].owner) IN f \notin seen

\* load_writable, assert_parent_compatible
FolderWritable(f, user) == f \in FolderRows /\ CanWrite(folders[f].owner, user)
\* Mutant: any visible folder may be the parent.
ParentCompatible_AnyOwner(p, owner, user) ==
  p = NoFolder \/ (p \in FolderRows /\ InScope(folders[p].owner, user))
ParentCompatible(p, owner, user) ==
  p = NoFolder \/ (p \in FolderRows /\ InScope(folders[p].owner, user) /\ folders[p].owner = owner)

\* Mutant: names at the root are left to the unique index.
SiblingExists_NotAtRoot(owner, parent, name, exclude) ==
  parent # NoFolder
  /\ \E f \in OwnedFolders(owner) \ {exclude} : folders[f].parent = parent /\ folders[f].name = name

\* assert_unique_sibling; exclude is the folder that is renamed or moved.
SiblingExists(owner, parent, name, exclude) ==
  \E f \in OwnedFolders(owner) \ {exclude} : folders[f].parent = parent /\ folders[f].name = name

\* The unique index on (owner_id, parent_id, name): NULLs are distinct in it.
IndexClash(owner, parent, name, exclude) ==
  owner # Global /\ parent # NoFolder /\ SiblingExists(owner, parent, name, exclude)

\* fk_folders_parent, ON DELETE CASCADE
ParentMissing(parent) == cascades /\ parent \notin FolderRows \cup {NoFolder}
Cascaded(ids) == IF cascades THEN Below(ids, FolderRows) ELSE ids

AdmitFolder(c, r) ==
  /\ admitted' = admitted + 1
  /\ folderReq' = [folderReq EXCEPT ![c] = r]
  /\ UNCHANGED <<folders, cascades, nextFolder, filedIn, raced>>

FolderRequest(op, pc, id, owner, parent, name, ids, study) ==
  [op |-> op, pc |-> pc, id |-> id, owner |-> owner, parent |-> parent,
   name |-> name, ids |-> ids, study |-> study]

\* create: the owner is settled and the parent looked up.
CreateFolder(c, user, parent, name, global) ==
  LET owner == IF global THEN Global ELSE user.id IN
  /\ global => MayAdminister(user)
  /\ ParentCompatible(parent, owner, user)
  /\ nextFolder \in FolderIds
  /\ AdmitFolder(c, FolderRequest("create", "unique", 0, owner, parent, name, {}, ""))

\* rename: the row is loaded; its parent is taken from what was loaded.
RenameFolder(c, user, f, name) ==
  /\ FolderWritable(f, user)
  /\ AdmitFolder(c, FolderRequest("rename", "unique", f, folders[f].owner, folders[f].parent, name, {}, ""))

\* Mutant: only the folder itself is refused as its parent.
ReparentFolder_OnlySelf(c, user, f, parent) ==
  /\ FolderWritable(f, user)
  /\ parent # f
  /\ ParentCompatible(parent, folders[f].owner, user)
  /\ AdmitFolder(c, FolderRequest("reparent", "unique", f, folders[f].owner, parent, folders[f].name, {}, ""))

\* reparent: a walk that never ends never answers.
ReparentFolder(c, user, f, parent) ==
  LET owner == folders[f].owner
      ends  == parent = NoFolder \/ UpwardEnds(f, parent, owner)
  IN /\ FolderWritable(f, user)
     /\ parent # f
     /\ ParentCompatible(parent, owner, user)
     /\ parent # NoFolder /\ ends => f \notin Upward(parent, owner)
     /\ AdmitFolder(c, FolderRequest("reparent", IF ends THEN "unique" ELSE "walking",
                     f, owner, parent, folders[f].name, {}, ""))

\* delete: the row is loaded and the subtree read.
DeleteFolder(c, user, f) ==
  /\ FolderWritable(f, user)
  /\ AdmitFolder(c, IF DownwardEnds(f)
              THEN FolderRequest("delete", "unfile", f, folders[f].owner, NoFolder, folders[f].name, FolderSubtree(f), "")
              ELSE FolderRequest("delete", "walking", f, folders[f].owner, NoFolder, folders[f].name, {}, ""))

\* assert_folder_writable
FileAllowed(f, user) ==
  f \in FolderRows /\ InScope(folders[f].owner, user) /\ CanWrite(folders[f].owner, user)

\* StudyService::set_folder: the study is loaded and the folder checked.
FileStudy(c, user, s, f) ==
  /\ CanWrite(FolderStudies[s], user)
  /\ f # NoFolder => FileAllowed(f, user)
  /\ AdmitFolder(c, FolderRequest("file", "write", f, FolderStudies[s], NoFolder, "", {}, s))

\* The sibling check, a query of its own; a clash ends the request.
UniqueSibling(c) ==
  LET r == folderReq[c] IN
  /\ r # NoRequest /\ r.pc = "unique"
  /\ folderReq' = [folderReq EXCEPT ![c] =
       IF SiblingExists(r.owner, r.parent, r.name, r.id) THEN NoRequest ELSE [r EXCEPT !.pc = "write"]]
  /\ UNCHANGED <<folders, cascades, nextFolder, filedIn, admitted, raced>>

\* What the write of r overtakes: a check another request has made and not
\* yet acted on.
FolderOvertakes(c, r) ==
  LET pending(op) == {d \in FolderClients \ {c} : folderReq[d] # NoRequest /\ folderReq[d].op \in op}
  IN (IF r.op = "reparent" /\ pending({"reparent"}) # {} THEN {"move"} ELSE {})
     \cup (IF r.op \in {"create", "rename", "reparent"}
              /\ pending({"create", "rename", "reparent"}) # {} THEN {"name"} ELSE {})
     \cup (IF r.op = "delete" /\ pending({"create", "reparent", "file"}) # {} THEN {"delete"} ELSE {})
     \cup (IF pending({"delete"}) # {} THEN {"delete"} ELSE {})

FolderDone(c) ==
  /\ folderReq' = [folderReq EXCEPT ![c] = NoRequest]
  /\ raced' = raced \cup FolderOvertakes(c, folderReq[c])
  /\ UNCHANGED admitted

\* The write of create, rename and reparent.  It names only its own columns,
\* fails on the unique index, and fails when the row is gone.
InsertFolder(c) ==
  LET r == folderReq[c] IN
  /\ r # NoRequest /\ r.pc = "write" /\ r.op = "create"
  /\ nextFolder \in FolderIds
  /\ IF IndexClash(r.owner, r.parent, r.name, 0) \/ ParentMissing(r.parent)
     THEN UNCHANGED <<folders, nextFolder>>
     ELSE /\ folders' = [f \in FolderRows \cup {nextFolder} |->
                           IF f \in FolderRows THEN folders[f]
                           ELSE [owner |-> r.owner, parent |-> r.parent, name |-> r.name]]
          /\ nextFolder' = nextFolder + 1
  /\ FolderDone(c)
  /\ UNCHANGED <<cascades, filedIn>>

UpdateFolder(c) ==
  LET r   == folderReq[c]
      new == IF r.op = "rename" THEN [folders[r.id] EXCEPT !.name = r.name]
                                ELSE [folders[r.id] EXCEPT !.parent = r.parent]
  IN /\ r # NoRequest /\ r.pc = "write" /\ r.op \in {"rename", "reparent"}
     /\ folders' = IF \/ r.id \notin FolderRows
                      \/ IndexClash(new.owner, new.parent, new.name, r.id)
                      \/ r.op = "reparent" /\ ParentMissing(new.parent)
                   THEN folders ELSE [folders EXCEPT ![r.id] = new]
     /\ FolderDone(c)
     /\ UNCHANGED <<cascades, nextFolder, filedIn>>

WriteFiling(c) ==
  LET r == folderReq[c] IN
  /\ r # NoRequest /\ r.pc = "write" /\ r.op = "file"
  /\ filedIn' = [filedIn EXCEPT ![r.study] = r.id]
  /\ FolderDone(c)
  /\ UNCHANGED <<folders, cascades, nextFolder>>

\* Mutant: only the studies of the folder itself are unfiled.
UnfileStudies_OwnOnly(c) ==
  LET r == folderReq[c] IN
  /\ r # NoRequest /\ r.pc = "unfile"
  /\ filedIn' = [s \in DOMAIN filedIn |-> IF filedIn[s] = r.id THEN NoFolder ELSE filedIn[s]]
  /\ folderReq' = [folderReq EXCEPT ![c].pc = "drop"]
  /\ UNCHANGED <<folders, cascades, nextFolder, admitted, raced>>

\* delete: the studies first, then the rows, two statements.
UnfileStudies(c) ==
  LET r == folderReq[c] IN
  /\ r # NoRequest /\ r.pc = "unfile"
  /\ filedIn' = [s \in DOMAIN filedIn |-> IF filedIn[s] \in r.ids THEN NoFolder ELSE filedIn[s]]
  /\ folderReq' = [folderReq EXCEPT ![c].pc = "drop"]
  /\ UNCHANGED <<folders, cascades, nextFolder, admitted, raced>>

DropFolders(c) ==
  LET r == folderReq[c] IN
  /\ r # NoRequest /\ r.pc = "drop"
  /\ folders' = [f \in FolderRows \ Cascaded(r.ids) |-> folders[f]]
  /\ FolderDone(c)
  /\ UNCHANGED <<cascades, nextFolder, filedIn>>

FolderBegin(c, user) ==
  \/ \E p \in FolderRows \cup {NoFolder}, n \in FolderNames, g \in BOOLEAN : CreateFolder(c, user, p, n, g)
  \/ \E f \in FolderRows, n \in FolderNames : RenameFolder(c, user, f, n)
  \/ \E f \in FolderRows, p \in FolderRows \cup {NoFolder} : ReparentFolder(c, user, f, p)
  \/ \E f \in FolderRows : DeleteFolder(c, user, f)
  \/ \E s \in DOMAIN FolderStudies, f \in FolderRows \cup {NoFolder} : FileStudy(c, user, s, f)

FolderStep(c) ==
  \/ UniqueSibling(c) \/ InsertFolder(c) \/ UpdateFolder(c) \/ WriteFiling(c) \/ UnfileStudies(c) \/ DropFolders(c)

FolderNext ==
  \E c \in FolderClients :
    \/ FolderStep(c)
    \/ folderReq[c] = NoRequest /\ admitted < MaxFolderWrites /\ \E u \in FolderUsers : FolderBegin(c, u)
FolderSpec == FolderInit /\ [][FolderNext]_folderVars

(***************************************************************************)
(* Properties.                                                             *)
(***************************************************************************)

\* An owner's tree and the global tree never interleave: a folder and the
\* folder it lies in, while both exist, have one owner.  This holds however
\* requests interleave, for an owner is never rewritten and an id never reused.
OwnersNeverMix ==
  \A f \in FolderRows : folders[f].parent \in FolderRows => folders[folders[f].parent].owner = folders[f].owner

\* The folders form a forest as long as no two moves overlap: each move checks
\* against the tree it read, and creations, renames and deletions in between
\* cannot turn a good move into a cycle.
ForestUnlessMovesRace ==
  "move" \notin raced => \A f \in FolderRows : DownwardEnds(f)

\* Two siblings share a name only if two writers of names overlapped, and
\* never below a folder of a user, where the index stands behind the check.
SiblingsUniqueUnlessNamesRace ==
  \A f, g \in FolderRows :
    /\ f # g
    /\ folders[f].owner = folders[g].owner
    /\ folders[f].parent = folders[g].parent
    /\ folders[f].name = folders[g].name
    => "name" \in raced /\ (folders[f].owner = Global \/ folders[f].parent = NoFolder)

\* A study is filed in a folder that exists, and a folder lies in one that
\* exists, unless a deletion and a request that named its folder overlapped:
\* the cascade that the service does by hand is complete.  Where the foreign
\* key fires, no folder dangles even then.
NothingDanglesUnlessDeleteRaces ==
  /\ cascades => \A f \in FolderRows : folders[f].parent \in FolderRows \cup {NoFolder}
  /\ "delete" \notin raced =>
    /\ \A s \in DOMAIN filedIn : filedIn[s] \in FolderRows \cup {NoFolder}
    /\ \A f \in FolderRows : folders[f].parent \in FolderRows \cup {NoFolder}

\* is_descendant says its walk is bounded by the rows it loaded
\* (folders/mod.rs:255): no move is left walking for ever.
WalksEnd ==
  \A c \in FolderClients :
    folderReq[c] # NoRequest /\ folderReq[c].op = "reparent" => folderReq[c].pc # "walking"

\* What the checks before the writes are for: the rows agree about owners,
\* names and parents, whatever order the statements of two requests take.
FoldersStayConsistent ==
  OwnersNeverMix /\ SiblingsUniqueUnlessNamesRace /\ NothingDanglesUnlessDeleteRaces
=============================================================================
