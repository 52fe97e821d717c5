------------------------- MODULE CollectionsProofs -------------------------
(***************************************************************************)
(* What the components around the stored data promise, for any number of   *)
(* requests, rows, importers and searchers: folders, the library of games, *)
(* the masters explorer, the searches and the position report.  They       *)
(* share no state, and each has an invariant of its own.                   *)
(***************************************************************************)
EXTENDS Collections,
        FiniteSetTheorems, SequenceTheorems, WellFoundedInduction, TLAPS

(***************************************************************************)
(* Folders.  A move is safe because the ancestors of the new parent, which *)
(* its check walked, are closed under "parent of" and hold not the folder  *)
(* that moves; until the move is written only another move can open them.  *)
(***************************************************************************)
Naming == {"create", "rename", "reparent"}
OwnerIds == {Global} \cup {u.id : u \in FolderUsers} \cup {FolderStudies[s] : s \in DOMAIN FolderStudies}
Names == FolderNames \cup {""}
Rows == [owner : OwnerIds, parent : Places, name : Names]
Requests ==
  [op : Naming \cup {"delete", "file"}, pc : {"unique", "write", "walking", "unfile", "drop"},
   id : Places, owner : OwnerIds, parent : Places, name : Names,
   ids : SUBSET FolderIds, study : DOMAIN FolderStudies \cup {""}]

InFlight(c) == folderReq[c] # NoRequest

(***************************************************************************)
(* The invariant, each part of it said of the rows and of a request r.     *)
(***************************************************************************)
Shape(r) ==
  /\ r \in Requests
  /\ r.pc = "unique" => r.op \in Naming
  /\ r.pc = "write" => r.op # "delete"
  /\ r.pc \in {"unfile", "drop"} => r.op = "delete"
  /\ r.op = "create" => r.id = NoFolder
Types ==
  /\ FolderRows \subseteq FolderIds
  /\ folders \in [FolderRows -> Rows]
  /\ nextFolder \in Nat
  /\ cascades \in BOOLEAN
  /\ filedIn \in [DOMAIN FolderStudies -> Places]
  /\ DOMAIN folderReq = FolderClients
  /\ folderReq = [c \in FolderClients |-> folderReq[c]]
  /\ \A c \in FolderClients : InFlight(c) => Shape(folderReq[c])

\* No id is dealt twice.
OldKeys(r) == r.parent < nextFolder /\ r.id < nextFolder
Keys ==
  /\ nextFolder > 0
  /\ \A f \in FolderRows : f < nextFolder /\ folders[f].parent < nextFolder
  /\ \A c \in FolderClients : InFlight(c) => OldKeys(folderReq[c])

\* An owner that was compared is still the owner.
SameOwner(r) ==
  /\ r.op \in {"create", "reparent"} /\ r.parent \in FolderRows => folders[r.parent].owner = r.owner
  /\ r.op \in {"rename", "reparent"} /\ r.id \in FolderRows => folders[r.id].owner = r.owner
Owned == OwnersNeverMix /\ \A c \in FolderClients : InFlight(c) => SameOwner(folderReq[c])

\* A name that was found free is free until another name is written.
Namesakes(f, g) ==
  /\ f # g
  /\ folders[f].owner = folders[g].owner
  /\ folders[f].parent = folders[g].parent
  /\ folders[f].name = folders[g].name
FreeName(r) ==
  /\ r.op \in Naming /\ r.pc = "write" => ~SiblingExists(r.owner, r.parent, r.name, r.id)
  /\ r.op = "rename" /\ r.id \in FolderRows => folders[r.id].parent = r.parent
  /\ r.op = "reparent" /\ r.id \in FolderRows => folders[r.id].name = r.name
Indexed ==
  \A f, g \in FolderRows : Namesakes(f, g) => folders[f].owner = Global \/ folders[f].parent = NoFolder
Named ==
  /\ Indexed
  /\ "name" \notin raced =>
       /\ \A f, g \in FolderRows : ~Namesakes(f, g)
       /\ \A c \in FolderClients : InFlight(c) => FreeName(folderReq[c])

\* What was found is there, and a subtree that was read is one, until a
\* deletion is overtaken or overtakes.
Whole(ids) == \A g \in FolderRows : folders[g].parent \in ids => g \in ids
Holds(r) ==
  /\ r.op \in {"create", "reparent"} => r.parent \in FolderRows \cup {NoFolder}
  /\ r.op = "file" => r.id \in FolderRows \cup {NoFolder}
  /\ r.pc \in {"unfile", "drop"} => Whole(r.ids)
  /\ r.pc = "drop" => \A s \in DOMAIN filedIn : filedIn[s] \notin r.ids
Held ==
  /\ NothingDanglesUnlessDeleteRaces
  /\ "delete" \notin raced => \A c \in FolderClients : InFlight(c) => Holds(folderReq[c])

\* The ancestors of a new parent do not hold the folder that moves there.
NoLoop(r) ==
  r.op = "reparent" /\ r.pc # "walking" /\ r.id \in FolderRows => r.id \notin Upward(r.parent, r.owner)
Forest ==
  "move" \notin raced =>
    /\ \A f \in FolderRows : DownwardEnds(f)
    /\ \A c \in FolderClients : InFlight(c) => NoLoop(folderReq[c])

IInv == Types /\ Keys /\ Owned /\ Named /\ Held /\ Forest

(***************************************************************************)
(* Ancestors, in any table t of folders.                                   *)
(***************************************************************************)
Closed(t, o, S) == \A h \in S : h \in DOMAIN t /\ t[h].owner = o => t[h].parent \in S
Ancestry(t, o, q) == {h \in Places : \A S \in SUBSET Places : q \in S /\ Closed(t, o, S) => h \in S}
Parents(t) == \A h \in DOMAIN t : h \in Places /\ t[h].parent \in Places
Acyclic(t, h) == h \notin Ancestry(t, t[h].owner, t[h].parent)

\* The ancestors are the least closed set.
LEMMA AncestryLeast ==
  ASSUME NEW t, NEW o, NEW q \in Places, Parents(t)
  PROVE  /\ Ancestry(t, o, q) \subseteq Places
         /\ q \in Ancestry(t, o, q)
         /\ Closed(t, o, Ancestry(t, o, q))
         /\ \A S \in SUBSET Places : q \in S /\ Closed(t, o, S) => Ancestry(t, o, q) \subseteq S
BY DEF Ancestry, Closed, Parents

\* A closed set without h keeps h out of the ancestors.
LEMMA Avoided ==
  ASSUME NEW t, NEW o, NEW q, NEW h, NEW S \in SUBSET Places, q \in S, Closed(t, o, S), h \notin S
  PROVE  h \notin Ancestry(t, o, q)
BY DEF Ancestry

\* Rows that keep owner and parent, in a table with fewer rows.
LEMMA FewerRows ==
  ASSUME NEW t, NEW u, NEW o, NEW q \in Places, NEW h, Parents(t),
         DOMAIN u \subseteq DOMAIN t,
         \A g \in DOMAIN u : u[g].owner = t[g].owner /\ u[g].parent = t[g].parent,
         h \notin Ancestry(t, o, q)
  PROVE  h \notin Ancestry(u, o, q)
<1> DEFINE S == Ancestry(t, o, q)
<1>1. S \in SUBSET Places /\ q \in S /\ Closed(t, o, S)
  BY AncestryLeast
<1>2. Closed(u, o, S)
  BY <1>1 DEF Closed
<1> QED
  BY <1>1, <1>2, Avoided

\* A new row n, to which no other refers, is nobody's ancestor.
LEMMA NewRow ==
  ASSUME NEW t, NEW u, NEW n, NEW o, NEW q \in Places, NEW h, Parents(t), n \notin DOMAIN t,
         DOMAIN u = DOMAIN t \cup {n},
         \A g \in DOMAIN t : u[g] = t[g] /\ t[g].parent # n,
         q # n, h \notin Ancestry(t, o, q)
  PROVE  h \notin Ancestry(u, o, q)
<1> DEFINE S == Ancestry(t, o, q) \ {n}
<1>1. Ancestry(t, o, q) \in SUBSET Places /\ q \in Ancestry(t, o, q) /\ Closed(t, o, Ancestry(t, o, q))
  BY AncestryLeast
<1>2. S \in SUBSET Places /\ q \in S /\ h \notin S
  BY <1>1
<1>3. Closed(u, o, S)
  BY <1>1 DEF Closed
<1> QED
  BY <1>2, <1>3, Avoided

\* ... and its own.
LEMMA NewRowItself ==
  ASSUME NEW u, NEW n \in DOMAIN u, Parents(u), \A g \in DOMAIN u : u[g].parent # n
  PROVE  Acyclic(u, n)
<1> DEFINE S == Places \ {n}
<1>1. S \in SUBSET Places /\ u[n].parent \in S /\ Closed(u, u[n].owner, S)
  BY DEF Parents, Closed
<1> QED
  BY <1>1, Avoided DEF Acyclic

\* Row f moves to the parent p, whose ancestors do not hold f: no row becomes
\* its own ancestor, since a way through f would go on in those of p.
LEMMA MovedRow ==
  ASSUME NEW t, NEW f \in DOMAIN t, NEW p \in Places, NEW u, NEW g \in DOMAIN t, Parents(t),
         DOMAIN u = DOMAIN t, u[f].parent = p,
         \A h \in DOMAIN t : u[h].owner = t[h].owner /\ (h # f => u[h].parent = t[h].parent),
         f \notin Ancestry(t, t[f].owner, p), Acyclic(t, g)
  PROVE  Acyclic(u, g)
<1> DEFINE o == t[g].owner
           A == Ancestry(t, o, t[g].parent)
           P == Ancestry(t, t[f].owner, p)
<1>1. P \in SUBSET Places /\ p \in P /\ Closed(t, t[f].owner, P) /\ f \notin P
  BY AncestryLeast
<1>2. A \in SUBSET Places /\ t[g].parent \in A /\ Closed(t, o, A) /\ g \notin A
  BY AncestryLeast DEF Parents, Acyclic
<1>3. CASE g = f
  BY <1>1, <1>3, Avoided DEF Closed, Acyclic
<1>4. CASE g # f /\ (f \notin A \/ t[f].owner # o)
  <2>1. Closed(u, o, A)
    BY <1>2, <1>4 DEF Closed
  <2> QED
    BY <1>2, <1>4, <2>1, Avoided DEF Acyclic
<1>5. CASE g # f /\ f \in A /\ t[f].owner = o
  <2>1. g \notin P
    <3>1. SUFFICES ASSUME g \in P PROVE FALSE
      OBVIOUS
    <3>2. t[g].parent \in P
      BY <1>1, <1>5, <3>1 DEF Closed
    <3>3. A \subseteq P
      BY <1>1, <1>5, <3>2, AncestryLeast DEF Parents
    <3> QED
      BY <1>1, <1>5, <3>3
  <2>2. A \cup P \in SUBSET Places /\ t[g].parent \in A \cup P /\ g \notin A \cup P
    BY <1>1, <1>2, <2>1
  <2>3. Closed(u, o, A \cup P)
    BY <1>1, <1>2, <1>5 DEF Closed
  <2> QED
    BY <1>5, <2>2, <2>3, Avoided DEF Acyclic
<1> QED
  BY <1>3, <1>4, <1>5

\* The walk of the model is the walk of these lemmas, before a step and after.
LEMMA UpwardIsAncestry ==
  /\ \A q, o : Upward(q, o) = Ancestry(folders, o, q)
  /\ \A q, o : Upward(q, o)' = Ancestry(folders', o, q)
BY DEF Upward, Ancestry, HoldsParents, Closed, OwnedFolders, FolderRows

(***************************************************************************)
(* Requests.                                                               *)
(***************************************************************************)
\* A subtree that is read lies in one owner's rows and is whole.
LEMMA SubtreeIsWhole ==
  ASSUME IInv, NEW f \in FolderRows
  PROVE  FolderSubtree(f) \subseteq FolderIds /\ Whole(FolderSubtree(f))
<1> DEFINE o == folders[f].owner
           S == OwnedFolders(o)
           B == FolderSubtree(f)
<1>1. S \in SUBSET Places /\ {f} \subseteq S /\ HoldsChildren(S, OwnedFolders(o))
  BY DEF IInv, Types, OwnedFolders, HoldsChildren, Places, FolderIds
<1>2. B \subseteq S
  BY <1>1 DEF FolderSubtree, Below
<1>3. HoldsChildren(B, OwnedFolders(o))
  BY DEF IInv, Types, FolderSubtree, Below, HoldsChildren, OwnedFolders, Places
<1>4. Whole(B)
  <2> SUFFICES ASSUME NEW g \in FolderRows, folders[g].parent \in B PROVE g \in B
    BY DEF Whole
  <2>1. folders[g].parent \in FolderRows /\ folders[folders[g].parent].owner = o
    BY <1>2 DEF OwnedFolders
  <2>2. g \in OwnedFolders(o)
    BY <2>1 DEF IInv, Owned, OwnersNeverMix, OwnedFolders
  <2> QED
    BY <1>3, <2>2 DEF HoldsChildren
<1> QED
  BY <1>2, <1>4 DEF IInv, Types, OwnedFolders

\* What the invariant says of one request; a request that is admitted has it.
Sound(r) ==
  /\ Shape(r) /\ OldKeys(r) /\ SameOwner(r)
  /\ "name" \notin raced => FreeName(r)
  /\ "delete" \notin raced => Holds(r)
  /\ "move" \notin raced => NoLoop(r)
Starts(c, r) ==
  /\ folderReq' = [folderReq EXCEPT ![c] = r]
  /\ UNCHANGED <<folders, cascades, nextFolder, filedIn, raced>>

LEMMA BeginAdmits ==
  ASSUME IInv, NEW c \in FolderClients, NEW u \in FolderUsers, FolderBegin(c, u)
  PROVE  \E r : Sound(r) /\ Starts(c, r)
<1> USE DEF Starts, AdmitFolder
<1> FolderRows \subseteq FolderIds /\ NoFolder \in Places \ FolderRows /\ FolderIds \subseteq Places
    /\ nextFolder > 0 /\ nextFolder \in Nat /\ (\A f \in FolderRows : folders[f] \in Rows /\ f < nextFolder)
  BY DEF IInv, Types, Keys, Places, NoFolder, FolderIds
<1>1. ASSUME NEW p \in FolderRows \cup {NoFolder}, NEW n \in FolderNames, NEW g \in BOOLEAN,
             CreateFolder(c, u, p, n, g)
      PROVE  \E r : Sound(r) /\ Starts(c, r)
  <2> DEFINE o == IF g THEN Global ELSE u.id
             r == FolderRequest("create", "unique", 0, o, p, n, {}, "")
  <2>1. o \in OwnerIds
    BY DEF OwnerIds
  <2>2. ParentCompatible(p, o, u) /\ Starts(c, r)
    BY <1>1 DEF CreateFolder
  <2>3. r.op = "create" /\ r.pc = "unique" /\ r.id = NoFolder /\ r.owner = o /\ r.parent = p /\ r \in Requests
    BY <2>1 DEF FolderRequest, Requests, Naming, Names, NoFolder
  <2> HIDE DEF r, o
  <2>4. Shape(r) /\ OldKeys(r) /\ SameOwner(r) /\ FreeName(r) /\ Holds(r)
    BY <2>2, <2>3 DEF Shape, OldKeys, SameOwner, FreeName, Holds, Naming, ParentCompatible, NoFolder
  <2> QED
    BY <2>2, <2>3, <2>4 DEF Sound, NoLoop
<1>2. ASSUME NEW f \in FolderRows, NEW n \in FolderNames, RenameFolder(c, u, f, n)
      PROVE  \E r : Sound(r) /\ Starts(c, r)
  <2> DEFINE r == FolderRequest("rename", "unique", f, folders[f].owner, folders[f].parent, n, {}, "")
  <2>1. Sound(r)
    BY DEF IInv, Keys, FolderRequest, Sound, Shape, Requests, Rows, Naming, OldKeys, SameOwner,
                FreeName, Holds, NoLoop, Names
  <2> QED
    BY <1>2, <2>1 DEF RenameFolder
<1>3. ASSUME NEW f \in FolderRows, NEW p \in FolderRows \cup {NoFolder}, ReparentFolder(c, u, f, p)
      PROVE  \E r : Sound(r) /\ Starts(c, r)
  <2> DEFINE ends == p = NoFolder \/ UpwardEnds(f, p, folders[f].owner)
             r == FolderRequest("reparent", IF ends THEN "unique" ELSE "walking",
                                f, folders[f].owner, p, folders[f].name, {}, "")
  <2>1. ends => f \notin Upward(p, folders[f].owner)
    <3>1. CASE p # NoFolder
      BY <1>3, <3>1 DEF ReparentFolder
    <3>2. CASE p = NoFolder
      <4>1. {NoFolder} \in SUBSET Places /\ HoldsParents({NoFolder}, folders[f].owner) /\ f # NoFolder
        BY DEF HoldsParents, OwnedFolders, NoFolder, FolderIds
      <4> QED
        BY <3>2, <4>1 DEF Upward
    <3> QED
      BY <3>1, <3>2
  <2>2. ParentCompatible(p, folders[f].owner, u) /\ Starts(c, r)
    BY <1>3 DEF ReparentFolder
  <2>3. r.op = "reparent" /\ r.id = f /\ r.owner = folders[f].owner /\ r.parent = p /\ r.name = folders[f].name
        /\ r.pc = (IF ends THEN "unique" ELSE "walking") /\ r \in Requests
    BY DEF FolderRequest, Requests, Rows, Naming, NoFolder
  <2> HIDE DEF r, ends
  <2>4. Shape(r) /\ OldKeys(r) /\ SameOwner(r) /\ FreeName(r) /\ Holds(r)
    BY <2>2, <2>3 DEF Shape, OldKeys, SameOwner, FreeName, Holds, Naming, ParentCompatible, NoFolder
  <2>5. NoLoop(r)
    BY <2>1, <2>3 DEF NoLoop
  <2> QED
    BY <2>2, <2>4, <2>5 DEF Sound
<1>4. ASSUME NEW f \in FolderRows, DeleteFolder(c, u, f)
      PROVE  \E r : Sound(r) /\ Starts(c, r)
  <2> DEFINE r == IF DownwardEnds(f)
              THEN FolderRequest("delete", "unfile", f, folders[f].owner, NoFolder, folders[f].name, FolderSubtree(f), "")
              ELSE FolderRequest("delete", "walking", f, folders[f].owner, NoFolder, folders[f].name, {}, "")
  <2>1. FolderSubtree(f) \subseteq FolderIds /\ Whole(FolderSubtree(f))
    BY SubtreeIsWhole
  <2>2. Sound(r)
    BY <2>1 DEF FolderRequest, Sound, Shape, Requests, Rows, Naming, OldKeys, SameOwner,
                FreeName, Holds, NoLoop, Names, NoFolder
  <2> QED
    BY <1>4, <2>2 DEF DeleteFolder
<1>5. ASSUME NEW s \in DOMAIN FolderStudies, NEW f \in FolderRows \cup {NoFolder}, FileStudy(c, u, s, f)
      PROVE  \E r : Sound(r) /\ Starts(c, r)
  <2> DEFINE r == FolderRequest("file", "write", f, FolderStudies[s], NoFolder, "", {}, s)
  <2>1. Sound(r)
    BY DEF FolderRequest, Sound, Shape, Requests, OwnerIds, Naming, OldKeys, SameOwner,
                FreeName, Holds, NoLoop, Names, NoFolder
  <2> QED
    BY <1>5, <2>1 DEF FileStudy
<1> QED
  BY <1>1, <1>2, <1>3, <1>4, <1>5 DEF FolderBegin

LEMMA PlacesAreNumbers ==
  Places \subseteq Nat
BY FolderAssumption DEF Places, FolderIds, NoFolder

LEMMA Requested ==
  ASSUME Types, NEW c \in FolderClients, NEW r, folderReq' = [folderReq EXCEPT ![c] = r]
  PROVE  /\ folderReq'[c] = r
         /\ \A d \in FolderClients \ {c} : folderReq'[d] = folderReq[d]
         /\ DOMAIN folderReq' = FolderClients
         /\ folderReq' = [d \in FolderClients |-> folderReq'[d]]
BY DEF Types

LEMMA InFlightIsSound ==
  ASSUME IInv, NEW c \in FolderClients, InFlight(c)
  PROVE  Sound(folderReq[c])
BY DEF IInv, Types, Keys, Owned, Named, Held, Forest, Sound

\* A step that writes no row leaves the invariant to the request it is about.
LEMMA RequestKeeps ==
  ASSUME IInv, NEW c \in FolderClients, NEW r, Sound(r) \/ r = NoRequest, Starts(c, r)
  PROVE  IInv'
<1>1. /\ folderReq'[c] = r
      /\ \A d \in FolderClients \ {c} : folderReq'[d] = folderReq[d]
      /\ DOMAIN folderReq' = FolderClients
      /\ folderReq' = [d \in FolderClients |-> folderReq'[d]]
  BY Requested DEF IInv, Starts
<1>2. \A d \in FolderClients : folderReq'[d] # NoRequest => Sound(folderReq'[d])
  BY <1>1, InFlightIsSound DEF InFlight
<1>3. FolderRows' = FolderRows
  BY DEF Starts, FolderRows
<1>4. Types' /\ Keys'
  BY <1>1, <1>2, <1>3 DEF IInv, Types, Keys, Starts, Sound, Shape, OldKeys, InFlight
<1>5. Owned'
  BY <1>2, <1>3 DEF IInv, Owned, OwnersNeverMix, Starts, Sound, SameOwner, InFlight
<1>6. Named'
  BY <1>2, <1>3 DEF IInv, Named, Indexed, Namesakes, Starts, Sound, FreeName, SiblingExists, OwnedFolders, InFlight
<1>7. Held'
  BY <1>2, <1>3 DEF IInv, Held, NothingDanglesUnlessDeleteRaces, Starts, Sound, Holds, Whole, InFlight
<1>8. Forest'
  <2>1. \A q, o : Upward(q, o)' = Upward(q, o)
    BY <1>3 DEF Upward, HoldsParents, OwnedFolders, Starts
  <2>2. "move" \notin raced => \A f \in FolderRows : DownwardEnds(f)'
    BY <2>1, <1>3 DEF IInv, Forest, DownwardEnds, Upward, HoldsParents, OwnedFolders, Starts
  <2>3. ASSUME "move" \notin raced, NEW d \in FolderClients, folderReq'[d] # NoRequest
        PROVE  NoLoop(folderReq[d])'
    <3>1. NoLoop(folderReq'[d])
      BY <1>2, <2>3 DEF Sound
    <3> QED
      BY <3>1, <1>3 DEF NoLoop, Upward, HoldsParents, OwnedFolders, Starts
  <2> QED
    BY <1>3, <2>2, <2>3 DEF Forest, InFlight, Starts
<1> QED
  BY <1>4, <1>5, <1>6, <1>7, <1>8 DEF IInv

LEMMA BeginKeeps ==
  ASSUME IInv, NEW c \in FolderClients, NEW u \in FolderUsers, FolderBegin(c, u)
  PROVE  IInv'
BY BeginAdmits, RequestKeeps

LEMMA UniqueKeeps ==
  ASSUME IInv, NEW c \in FolderClients, UniqueSibling(c)
  PROVE  IInv'
<1> DEFINE r == folderReq[c]
           w == [r EXCEPT !.pc = "write"]
<1> DEFINE clash == SiblingExists(r.owner, r.parent, r.name, r.id)
<1>1. (clash => Starts(c, NoRequest)) /\ (~clash => Starts(c, w))
  <2>1. CASE clash
    <3> HIDE DEF clash
    <3>1. folderReq' = [folderReq EXCEPT ![c] = IF clash THEN NoRequest ELSE w]
      BY DEF UniqueSibling, clash
    <3> QED
      BY <2>1, <3>1 DEF UniqueSibling, Starts
  <2>2. CASE ~clash
    <3> HIDE DEF clash
    <3>1. folderReq' = [folderReq EXCEPT ![c] = IF clash THEN NoRequest ELSE w]
      BY DEF UniqueSibling, clash
    <3> QED
      BY <2>2, <3>1 DEF UniqueSibling, Starts
  <2> QED
    BY <2>1, <2>2
<1>2. Sound(r) /\ r.pc = "unique"
  BY InFlightIsSound DEF UniqueSibling, InFlight
<1>3. ASSUME ~SiblingExists(r.owner, r.parent, r.name, r.id) PROVE Sound(w)
  <2>1. w \in Requests /\ w.pc = "write" /\ r.op \in Naming /\ w.op = r.op /\ w.id = r.id /\ w.owner = r.owner
        /\ w.parent = r.parent /\ w.name = r.name
    BY <1>2 DEF Sound, Shape, Requests
  <2> HIDE DEF r, w
  <2> QED
    BY <1>2, <1>3, <2>1 DEF Sound, Shape, OldKeys, SameOwner, FreeName, Holds, NoLoop, Naming
<1> QED
  BY <1>1, <1>3, RequestKeeps

\* A subtree is unfiled before its rows go.
LEMMA UnfileKeeps ==
  ASSUME IInv, NEW c \in FolderClients, UnfileStudies(c)
  PROVE  IInv'
<1> DEFINE r == folderReq[c]
           w == [r EXCEPT !.pc = "drop"]
<1>1. folderReq' = [folderReq EXCEPT ![c] = w] /\ UNCHANGED <<folders, cascades, nextFolder, raced>>
  BY DEF UnfileStudies
<1>2. /\ folderReq'[c] = w
      /\ \A d \in FolderClients \ {c} : folderReq'[d] = folderReq[d]
      /\ DOMAIN folderReq' = FolderClients
      /\ folderReq' = [d \in FolderClients |-> folderReq'[d]]
  BY <1>1, Requested DEF IInv
<1>3. Sound(r) /\ r.pc = "unfile" /\ r.op = "delete"
  BY InFlightIsSound DEF UnfileStudies, InFlight, Sound, Shape
<1>4. w \in Requests /\ w.pc = "drop" /\ w.op = "delete" /\ w.id = r.id /\ w.parent = r.parent /\ w.ids = r.ids
      /\ r.ids \subseteq FolderIds
  BY <1>3 DEF Sound, Shape, Requests
<1>5. /\ filedIn' = [s \in DOMAIN filedIn |-> IF filedIn[s] \in r.ids THEN NoFolder ELSE filedIn[s]]
      /\ DOMAIN filedIn = DOMAIN FolderStudies
      /\ filedIn \in [DOMAIN FolderStudies -> Places]
  BY DEF UnfileStudies, IInv, Types
<1>6. FolderRows' = FolderRows
  BY <1>1 DEF FolderRows
<1> HIDE DEF r, w
<1>7. Types' /\ Keys'
  <2>1. filedIn' \in [DOMAIN FolderStudies -> Places]
    BY <1>5 DEF Places
  <2>2. \A d \in FolderClients : folderReq'[d] # NoRequest => Shape(folderReq'[d]) /\ OldKeys(folderReq'[d])
    BY <1>2, <1>3, <1>4, InFlightIsSound DEF Sound, Shape, OldKeys, InFlight
  <2> QED
    BY <1>1, <1>2, <1>6, <2>1, <2>2 DEF IInv, Types, Keys, Shape, OldKeys, InFlight
<1>8. Owned' /\ Named'
  BY <1>1, <1>2, <1>4, <1>6 DEF IInv, Owned, OwnersNeverMix, SameOwner, Named, Indexed, Namesakes, FreeName,
     SiblingExists, OwnedFolders, Naming, InFlight
<1>9. Held'
  <2>1. NothingDanglesUnlessDeleteRaces'
    BY <1>1, <1>5, <1>6 DEF IInv, Held, NothingDanglesUnlessDeleteRaces, NoFolder
  <2>2. ASSUME "delete" \notin raced, NEW d \in FolderClients, folderReq'[d] # NoRequest
        PROVE  Holds(folderReq[d])'
    <3>1. CASE d = c
      <4>1. Whole(r.ids) /\ \A s \in DOMAIN filedIn' : filedIn'[s] \notin r.ids
        BY <1>3, <1>4, <1>5, <2>2 DEF Sound, Holds, NoFolder, FolderIds
      <4> QED
        BY <1>1, <1>2, <1>4, <1>6, <3>1, <4>1 DEF Holds, Whole
    <3>2. CASE d # c
      <4>1. Holds(folderReq[d]) /\ folderReq[d].ids \subseteq FolderIds /\ folderReq'[d] = folderReq[d]
        BY <1>2, <2>2, <3>2, InFlightIsSound DEF Sound, Shape, Requests, InFlight
      <4> QED
        BY <1>1, <1>5, <1>6, <4>1 DEF Holds, Whole, NoFolder, FolderIds
    <3> QED
      BY <3>1, <3>2
  <2> QED
    BY <1>1, <2>1, <2>2 DEF Held, InFlight
<1>10. Forest'
  BY <1>1, <1>2, <1>4, <1>6 DEF IInv, Forest, DownwardEnds, NoLoop, Upward, HoldsParents, OwnedFolders, InFlight
<1> QED
  BY <1>7, <1>8, <1>9, <1>10 DEF IInv

(***************************************************************************)
(* Writes.  A write that overtakes a check releases what rested on it.     *)
(***************************************************************************)
LEMMA Overtaken ==
  ASSUME Types, NEW c \in FolderClients, FolderDone(c)
  PROVE  /\ folderReq'[c] = NoRequest
         /\ DOMAIN folderReq' = FolderClients
         /\ folderReq' = [d \in FolderClients |-> folderReq'[d]]
         /\ raced \subseteq raced'
         /\ \A d \in FolderClients :
              InFlight(d)' =>
              /\ d # c /\ InFlight(d) /\ folderReq'[d] = folderReq[d]
              /\ folderReq[d].op = "delete" => "delete" \in raced'
              /\ folderReq[c].op = "delete" /\ folderReq[d].op \in {"create", "reparent", "file"} => "delete" \in raced'
              /\ folderReq[c].op \in Naming /\ folderReq[d].op \in Naming => "name" \in raced'
              /\ folderReq[c].op = "reparent" /\ folderReq[d].op = "reparent" => "move" \in raced'
<1>1. /\ folderReq'[c] = NoRequest
      /\ \A d \in FolderClients \ {c} : folderReq'[d] = folderReq[d]
      /\ DOMAIN folderReq' = FolderClients
      /\ folderReq' = [d \in FolderClients |-> folderReq'[d]]
  BY Requested DEF FolderDone
<1>2. raced' = raced \cup FolderOvertakes(c, folderReq[c])
  BY DEF FolderDone
<1>3. ASSUME NEW d \in FolderClients \ {c}, folderReq[d] # NoRequest
      PROVE  /\ folderReq[d].op = "delete" => "delete" \in FolderOvertakes(c, folderReq[c])
             /\ folderReq[c].op = "delete" /\ folderReq[d].op \in {"create", "reparent", "file"}
                => "delete" \in FolderOvertakes(c, folderReq[c])
             /\ folderReq[c].op \in Naming /\ folderReq[d].op \in Naming => "name" \in FolderOvertakes(c, folderReq[c])
             /\ folderReq[c].op = "reparent" /\ folderReq[d].op = "reparent"
                => "move" \in FolderOvertakes(c, folderReq[c])
  BY <1>3 DEF FolderOvertakes, Naming
<1> QED
  BY <1>1, <1>2, <1>3 DEF InFlight

\* A study is filed in a folder that was there, and is unless a deletion ran.
LEMMA FilingKeeps ==
  ASSUME IInv, NEW c \in FolderClients, WriteFiling(c)
  PROVE  IInv'
<1> DEFINE r == folderReq[c]
<1>1. Sound(r) /\ r.op = "file" /\ r \in Requests
  BY InFlightIsSound DEF WriteFiling, InFlight, Sound, Shape
<1>2. FolderDone(c) /\ UNCHANGED <<folders, cascades, nextFolder>> /\ FolderRows' = FolderRows
  BY DEF WriteFiling, FolderRows
<1>3. filedIn' = [filedIn EXCEPT ![r.study] = r.id] /\ filedIn \in [DOMAIN FolderStudies -> Places] /\ r.id \in Places
  BY <1>1 DEF WriteFiling, IInv, Types, Requests
<1> HIDE DEF r
<1>4. Types' /\ Keys'
  <2>1. filedIn' \in [DOMAIN FolderStudies -> Places]
    BY <1>3
  <2> QED
    BY <1>2, <2>1, Overtaken, InFlightIsSound DEF IInv, Types, Keys, Sound, Shape, OldKeys, InFlight
<1>5. Owned' /\ Named'
  BY <1>2, Overtaken DEF IInv, Owned, OwnersNeverMix, SameOwner, Named, Indexed, Namesakes, FreeName,
     SiblingExists, OwnedFolders, InFlight
<1>6. Held'
  <2>1. NothingDanglesUnlessDeleteRaces'
    BY <1>1, <1>2, <1>3, Overtaken DEF IInv, Held, NothingDanglesUnlessDeleteRaces, Sound, Holds
  <2>2. ASSUME "delete" \notin raced', NEW d \in FolderClients, InFlight(d)'
        PROVE  Holds(folderReq[d])'
    <3>1. Holds(folderReq[d]) /\ folderReq[d].op # "delete" /\ folderReq'[d] = folderReq[d] /\ Shape(folderReq[d])
      BY <1>2, <2>2, Overtaken, InFlightIsSound DEF Sound, IInv
    <3> QED
      BY <1>2, <3>1 DEF Holds, Whole, Shape
  <2> QED
    BY <2>1, <2>2 DEF Held
<1>7. Forest'
  BY <1>2, Overtaken DEF IInv, Forest, DownwardEnds, NoLoop, Upward, HoldsParents, OwnedFolders, InFlight
<1> QED
  BY <1>4, <1>5, <1>6, <1>7 DEF IInv

\* A write that fails on a constraint still ends its request.
LEMMA FailedWriteKeeps ==
  ASSUME IInv, NEW c \in FolderClients, FolderDone(c), UNCHANGED <<folders, cascades, nextFolder, filedIn>>
  PROVE  IInv'
<1>1. FolderRows' = FolderRows
  BY DEF FolderRows
<1>2. Types' /\ Keys'
  BY <1>1, Overtaken DEF IInv, Types, Keys, Shape, OldKeys, InFlight
<1>3. Owned' /\ Named'
  BY <1>1, Overtaken DEF IInv, Owned, OwnersNeverMix, SameOwner, Named, Indexed, Namesakes, FreeName,
     SiblingExists, OwnedFolders, InFlight
<1>4. Held'
  BY <1>1, Overtaken DEF IInv, Held, NothingDanglesUnlessDeleteRaces, Holds, Whole, InFlight
<1>5. Forest'
  BY <1>1, Overtaken DEF IInv, Forest, DownwardEnds, NoLoop, Upward, HoldsParents, OwnedFolders, InFlight
<1> QED
  BY <1>2, <1>3, <1>4, <1>5 DEF IInv

\* A new folder hangs below a row of its owner and is nobody's parent yet.
LEMMA InsertKeeps ==
  ASSUME IInv, NEW c \in FolderClients, InsertFolder(c)
  PROVE  IInv'
<1> DEFINE r == folderReq[c]
           n == nextFolder
           new == [owner |-> r.owner, parent |-> r.parent, name |-> r.name]
<1>1. Sound(r) /\ r.op = "create" /\ r.pc = "write" /\ r.id = NoFolder /\ r \in Requests
  BY InFlightIsSound DEF InsertFolder, InFlight, Sound, Shape
<1>2. FolderDone(c) /\ UNCHANGED <<cascades, filedIn>> /\ n \in FolderIds
  BY DEF InsertFolder
<1>3. CASE IndexClash(r.owner, r.parent, r.name, 0) \/ ParentMissing(r.parent)
  BY <1>2, <1>3, FailedWriteKeeps DEF InsertFolder
<1>4. CASE ~(IndexClash(r.owner, r.parent, r.name, 0) \/ ParentMissing(r.parent))
  <2>1. /\ folders' = [f \in FolderRows \cup {n} |-> IF f \in FolderRows THEN folders[f] ELSE new]
        /\ nextFolder' = n + 1
    BY <1>4 DEF InsertFolder
  <2>2. FolderRows \subseteq FolderIds /\ n \notin FolderRows /\ n \in Nat /\ n > 0
        /\ \A f \in FolderRows : f < n /\ folders[f].parent < n /\ folders[f] \in Rows
    BY DEF IInv, Types, Keys, FolderIds
  <2>3. FolderRows' = FolderRows \cup {n} /\ folders'[n] = new /\ \A f \in FolderRows : folders'[f] = folders[f]
    BY <2>1, <2>2 DEF FolderRows
  <2>4. new \in Rows /\ new.owner = r.owner /\ new.parent = r.parent /\ new.name = r.name /\ r.parent < n
    BY <1>1 DEF Requests, Rows, Sound, OldKeys
  <2> HIDE DEF r, n, new
  <2>5. Types' /\ Keys'
    <3>1. folders' \in [FolderRows' -> Rows] /\ FolderRows' \subseteq FolderIds
      BY <1>2, <2>1, <2>2, <2>3, <2>4 DEF IInv, Types
    <3>2. \A f \in FolderRows' : f < n + 1 /\ folders'[f].parent < n + 1
      BY <2>2, <2>3, <2>4, PlacesAreNumbers DEF Rows, Places
    <3>3. ASSUME NEW d \in FolderClients, InFlight(d)'
          PROVE  /\ Shape(folderReq'[d])
                 /\ folderReq'[d].parent < nextFolder' /\ folderReq'[d].id < nextFolder'
      <4>1. Sound(folderReq[d]) /\ folderReq'[d] = folderReq[d]
        BY <1>2, <3>3, Overtaken, InFlightIsSound DEF IInv
      <4>2. folderReq[d].parent \in Nat /\ folderReq[d].id \in Nat /\ folderReq[d].parent < n /\ folderReq[d].id < n
        BY <4>1, PlacesAreNumbers DEF Sound, Shape, OldKeys, Requests, n
      <4> QED
        BY <2>1, <2>2, <4>1, <4>2 DEF Sound
    <3>4. nextFolder' \in Nat /\ nextFolder' > 0
      BY <2>1, <2>2
    <3>5. Types'
      BY <1>2, <3>1, <3>3, <3>4, Overtaken DEF IInv, Types, Shape, InFlight
    <3> QED
      BY <2>1, <3>2, <3>3, <3>4, <3>5 DEF Keys, OldKeys, InFlight, n
  <2>6. Owned'
    <3>1. OwnersNeverMix'
      BY <1>1, <2>2, <2>3, <2>4 DEF IInv, Owned, OwnersNeverMix, Sound, SameOwner
    <3>2. ASSUME NEW d \in FolderClients, InFlight(d)' PROVE SameOwner(folderReq[d])'
      <4>1. SameOwner(folderReq[d]) /\ OldKeys(folderReq[d]) /\ folderReq'[d] = folderReq[d]
        BY <1>2, <3>2, Overtaken, InFlightIsSound DEF Sound, IInv
      <4> QED
        BY <2>2, <2>3, <4>1 DEF SameOwner, OldKeys, n
    <3> QED
      BY <3>1, <3>2 DEF Owned
  <2>7. Named'
    <3> DEFINE clash == SiblingExists(r.owner, r.parent, r.name, NoFolder)
    <3>a. ASSUME NEW f \in FolderRows', NEW g \in FolderRows', Namesakes(f, g)'
          PROVE  \/ f \in FolderRows /\ g \in FolderRows /\ Namesakes(f, g)
                 \/ clash /\ folders'[f].owner = r.owner /\ folders'[f].parent = r.parent
      <4>1. \A h \in FolderRows :
              folders[h].owner = r.owner /\ folders[h].parent = r.parent /\ folders[h].name = r.name => clash
        BY <2>2 DEF SiblingExists, OwnedFolders, NoFolder, FolderIds
      <4> HIDE DEF clash
      <4>2. /\ f # g /\ folders'[f].owner = folders'[g].owner
            /\ folders'[f].parent = folders'[g].parent /\ folders'[f].name = folders'[g].name
        BY <3>a DEF Namesakes
      <4>3. CASE f \in FolderRows /\ g \in FolderRows
        BY <2>3, <4>2, <4>3 DEF Namesakes
      <4>4. CASE f = n /\ g \in FolderRows
        BY <2>3, <2>4, <4>1, <4>2, <4>4
      <4>5. CASE g = n /\ f \in FolderRows
        BY <2>3, <2>4, <4>1, <4>2, <4>5
      <4> QED
        BY <2>3, <4>2, <4>3, <4>4, <4>5
    <3>b. clash => r.owner = Global \/ r.parent = NoFolder
      BY <1>4 DEF IndexClash, NoFolder, r
    <3> HIDE DEF clash
    <3>1. Indexed'
      BY <2>3, <3>a, <3>b DEF IInv, Named, Indexed
    <3>2. ASSUME "name" \notin raced'
          PROVE  /\ \A f, g \in FolderRows' : ~Namesakes(f, g)'
                 /\ \A d \in FolderClients : InFlight(d)' => FreeName(folderReq[d])'
      <4>1. "name" \notin raced /\ r.op \in Naming
        BY <1>1, <1>2, <3>2, Overtaken DEF IInv, Naming
      <4>2. ~clash /\ \A f, g \in FolderRows : ~Namesakes(f, g)
        BY <1>1, <4>1 DEF IInv, Named, Sound, FreeName, clash, r
      <4>3. \A f, g \in FolderRows' : ~Namesakes(f, g)'
        BY <3>a, <4>2
      <4>4. \A d \in FolderClients : InFlight(d)' => folderReq'[d].op \notin Naming
        BY <1>2, <3>2, <4>1, Overtaken DEF IInv, r
      <4> QED
        BY <4>3, <4>4 DEF FreeName, Naming
    <3> QED
      BY <3>1, <3>2 DEF Named
  <2>8. Held'
    <3>1. NothingDanglesUnlessDeleteRaces'
      BY <1>1, <1>2, <1>4, <2>3, <2>4, Overtaken
      DEF IInv, Held, NothingDanglesUnlessDeleteRaces, ParentMissing, Sound, Holds
    <3>2. ASSUME "delete" \notin raced', NEW d \in FolderClients, InFlight(d)'
          PROVE  Holds(folderReq[d])'
      <4>1. Holds(folderReq[d]) /\ folderReq[d].op # "delete" /\ folderReq'[d] = folderReq[d] /\ Shape(folderReq[d])
        BY <1>2, <3>2, Overtaken, InFlightIsSound DEF Sound, IInv
      <4> QED
        BY <2>3, <4>1 DEF Holds, Shape
    <3> QED
      BY <3>1, <3>2 DEF Held
  <2>9. Forest'
    <3> SUFFICES ASSUME "move" \notin raced'
                 PROVE  /\ \A f \in FolderRows' : DownwardEnds(f)'
                        /\ \A d \in FolderClients : InFlight(d)' => NoLoop(folderReq[d])'
      BY DEF Forest
    <3>1. "move" \notin raced
      BY <1>2, Overtaken DEF IInv
    <3>2. Parents(folders) /\ Parents(folders')
      BY <2>2, <2>5 DEF Parents, IInv, Types, FolderRows, Rows, Places
    <3>3. DOMAIN folders = FolderRows /\ DOMAIN folders' = FolderRows \cup {n}
          /\ \A g \in FolderRows : folders'[g] = folders[g] /\ folders[g].parent # n
      BY <2>2, <2>3 DEF FolderRows
    <3>4. ASSUME NEW o, NEW q \in Places, NEW h, q # n, h \notin Upward(q, o) PROVE h \notin Ancestry(folders', o, q)
      BY <2>2, <3>2, <3>3, <3>4, NewRow, UpwardIsAncestry
    <3>5. ASSUME NEW f \in FolderRows' PROVE DownwardEnds(f)'
      <4>1. CASE f = n
        <5>1. \A g \in DOMAIN folders' : folders'[g].parent # n
          BY <2>2, <2>3, <2>4, <3>3
        <5>2. Acyclic(folders', n)
          BY <3>2, <3>3, <5>1, NewRowItself
        <5> QED
          BY <4>1, <5>2, UpwardIsAncestry DEF Acyclic, DownwardEnds
      <4>2. CASE f \in FolderRows
        <5>1. f \notin Upward(folders[f].parent, folders[f].owner) /\ folders[f].parent \in Places /\ folders[f].parent # n
          BY <2>2, <3>1, <4>2 DEF IInv, Forest, DownwardEnds, Rows
        <5>2. f \notin Ancestry(folders', folders'[f].owner, folders'[f].parent)
          BY <2>3, <3>4, <4>2, <5>1
        <5> QED
          BY <5>2, UpwardIsAncestry DEF DownwardEnds
      <4> QED
        BY <2>3, <3>5, <4>1, <4>2
    <3>6. ASSUME NEW d \in FolderClients, InFlight(d)' PROVE NoLoop(folderReq[d])'
      <4>1. Sound(folderReq[d]) /\ folderReq'[d] = folderReq[d]
        BY <1>2, <3>6, Overtaken, InFlightIsSound DEF IInv
      <4>2. /\ NoLoop(folderReq[d]) /\ folderReq[d].parent \in Places
            /\ folderReq[d].parent # n /\ folderReq[d].id # n
        <5>1. NoLoop(folderReq[d]) /\ folderReq[d] \in Requests /\ OldKeys(folderReq[d])
          BY <3>1, <4>1 DEF Sound, Shape
        <5>2. folderReq[d].parent \in Places /\ folderReq[d].id \in Places
          BY <5>1 DEF Requests
        <5>3. folderReq[d].parent \in Nat /\ folderReq[d].id \in Nat
          BY <5>2, PlacesAreNumbers
        <5> QED
          BY <2>2, <5>1, <5>2, <5>3 DEF OldKeys, n
      <4>3. folderReq[d].op = "reparent" /\ folderReq[d].pc # "walking" /\ folderReq[d].id \in FolderRows'
            => folderReq[d].id \notin Ancestry(folders', folderReq[d].owner, folderReq[d].parent)
        BY <2>3, <3>4, <4>2 DEF NoLoop
      <4> QED
        BY <4>1, <4>3, UpwardIsAncestry DEF NoLoop
    <3> QED
      BY <3>5, <3>6
  <2> QED
    BY <2>5, <2>6, <2>7, <2>8, <2>9 DEF IInv
<1> QED
  BY <1>3, <1>4

\* A rename leaves the tree alone; a move opens no ancestry that was walked.
LEMMA UpdateKeeps ==
  ASSUME IInv, NEW c \in FolderClients, UpdateFolder(c)
  PROVE  IInv'
<1> DEFINE r   == folderReq[c]
           k   == r.id
           new == IF r.op = "rename" THEN [folders[r.id] EXCEPT !.name = r.name]
                                     ELSE [folders[r.id] EXCEPT !.parent = r.parent]
           fails == \/ k \notin FolderRows
                    \/ IndexClash(new.owner, new.parent, new.name, k)
                    \/ r.op = "reparent" /\ ParentMissing(new.parent)
<1>1. Sound(r) /\ r.op \in {"rename", "reparent"} /\ r.pc = "write" /\ r \in Requests
  BY InFlightIsSound DEF UpdateFolder, InFlight, Sound, Shape
<1>2. FolderDone(c) /\ UNCHANGED <<cascades, nextFolder, filedIn>>
      /\ folders' = IF fails THEN folders ELSE [folders EXCEPT ![k] = new]
  BY DEF UpdateFolder
<1>3. CASE fails
  BY <1>2, <1>3, FailedWriteKeeps
<1>4. CASE ~fails
  <2>1. k \in FolderRows /\ folders' = [folders EXCEPT ![k] = new]
        /\ ~IndexClash(new.owner, new.parent, new.name, k)
        /\ (r.op = "reparent" => ~ParentMissing(new.parent))
    BY <1>2, <1>4
  <2>2. /\ \A f \in FolderRows : folders[f] \in Rows /\ f < nextFolder /\ folders[f].parent < nextFolder
        /\ folders \in [FolderRows -> Rows] /\ DOMAIN folders = FolderRows
    BY DEF IInv, Types, Keys, FolderRows
  <2>3. /\ new \in Rows /\ new.owner = folders[k].owner
        /\ r.op = "rename" => new.parent = folders[k].parent /\ new.name = r.name
        /\ r.op = "reparent" => new.parent = r.parent /\ new.name = folders[k].name
    BY <1>1, <2>1, <2>2 DEF Requests, Rows
  <2> HIDE DEF r, new, fails
  <2>4. /\ FolderRows' = FolderRows /\ DOMAIN folders' = FolderRows /\ folders' \in [FolderRows -> Rows]
        /\ folders'[k] = new /\ \A f \in FolderRows : f # k => folders'[f] = folders[f]
    BY <2>1, <2>2, <2>3 DEF FolderRows
  <2>5. Types' /\ Keys'
    <3>1. \A f \in FolderRows : folders'[f].parent < nextFolder
      BY <1>1, <2>1, <2>2, <2>3, <2>4 DEF Sound, OldKeys
    <3>2. \A d \in FolderClients : InFlight(d)' => Shape(folderReq'[d]) /\ OldKeys(folderReq'[d])
      BY <1>2, Overtaken, InFlightIsSound DEF IInv, Sound
    <3>3. Types'
      BY <1>2, <2>4, <3>2, Overtaken DEF IInv, Types, Shape, InFlight
    <3> QED
      BY <1>2, <2>2, <2>4, <3>1, <3>2, <3>3 DEF IInv, Keys, OldKeys, InFlight
  <2>6. Owned'
    <3>1. \A f \in FolderRows : folders'[f].owner = folders[f].owner
      BY <2>3, <2>4
    <3>2. OwnersNeverMix'
      <4>1. ASSUME NEW f \in FolderRows, folders'[f].parent \in FolderRows
            PROVE  folders[folders'[f].parent].owner = folders[f].owner
        BY <1>1, <2>1, <2>3, <2>4, <4>1 DEF IInv, Owned, OwnersNeverMix, Sound, SameOwner
      <4> QED
        BY <2>4, <3>1, <4>1 DEF OwnersNeverMix
    <3>3. \A d \in FolderClients : InFlight(d)' => SameOwner(folderReq[d])'
      BY <1>2, <2>4, <3>1, Overtaken DEF IInv, Owned, SameOwner
    <3> QED
      BY <3>2, <3>3 DEF Owned
  <2>7. Named'
    <3> DEFINE clash == SiblingExists(new.owner, new.parent, new.name, k)
    <3>1. ASSUME NEW f \in FolderRows, NEW g \in FolderRows, Namesakes(f, g)'
          PROVE  \/ f # k /\ Namesakes(f, g)
                 \/ clash /\ folders'[f].owner = new.owner /\ folders'[f].parent = new.parent
      <4>1. \A h \in FolderRows \ {k} :
              folders[h].owner = new.owner /\ folders[h].parent = new.parent /\ folders[h].name = new.name => clash
        BY DEF SiblingExists, OwnedFolders
      <4> HIDE DEF clash
      <4>2. /\ f # g /\ folders'[f].owner = folders'[g].owner
            /\ folders'[f].parent = folders'[g].parent /\ folders'[f].name = folders'[g].name
        BY <3>1 DEF Namesakes
      <4>3. CASE f # k /\ g # k
        BY <2>4, <4>2, <4>3 DEF Namesakes
      <4>4. CASE f = k \/ g = k
        BY <2>4, <4>1, <4>2, <4>4
      <4> QED
        BY <4>3, <4>4
    <3>2. clash => new.owner = Global \/ new.parent = NoFolder
      BY <2>1 DEF IndexClash
    <3>3. ASSUME "name" \notin raced' PROVE ~clash
      <4>1. "name" \notin raced /\ r.op \in Naming
        BY <1>1, <1>2, <3>3, Overtaken DEF IInv, Naming
      <4>2. FreeName(r) /\ SameOwner(r)
        BY <1>1, <4>1 DEF Sound
      <4>3. r.owner = new.owner /\ r.parent = new.parent /\ r.name = new.name
        BY <1>1, <2>1, <2>3, <4>2 DEF FreeName, SameOwner
      <4> QED
        BY <1>1, <4>1, <4>2, <4>3 DEF FreeName
    <3> HIDE DEF clash
    <3>4. Indexed'
      BY <2>4, <3>1, <3>2 DEF IInv, Named, Indexed
    <3>5. ASSUME "name" \notin raced'
          PROVE  /\ \A f, g \in FolderRows' : ~Namesakes(f, g)'
                 /\ \A d \in FolderClients : InFlight(d)' => FreeName(folderReq[d])'
      <4>1. "name" \notin raced /\ r.op \in Naming
        BY <1>1, <1>2, <3>5, Overtaken DEF IInv, Naming
      <4>2. \A d \in FolderClients : InFlight(d)' => folderReq'[d].op \notin Naming
        BY <1>2, <3>5, <4>1, Overtaken DEF IInv, r
      <4> QED
        BY <2>4, <3>1, <3>3, <3>5, <4>1, <4>2 DEF IInv, Named, FreeName, Naming
    <3> QED
      BY <3>4, <3>5 DEF Named
  <2>8. Held'
    <3>1. NothingDanglesUnlessDeleteRaces'
      <4>1. cascades => \A f \in FolderRows : folders'[f].parent \in FolderRows \cup {NoFolder}
        BY <1>1, <2>1, <2>3, <2>4 DEF IInv, Held, NothingDanglesUnlessDeleteRaces, ParentMissing
      <4>2. ASSUME "delete" \notin raced'
            PROVE  /\ \A s \in DOMAIN filedIn : filedIn[s] \in FolderRows \cup {NoFolder}
                   /\ \A f \in FolderRows : folders'[f].parent \in FolderRows \cup {NoFolder}
        <5>1. "delete" \notin raced
          BY <1>2, <4>2, Overtaken DEF IInv
        <5> QED
          BY <1>1, <2>1, <2>3, <2>4, <5>1 DEF IInv, Held, NothingDanglesUnlessDeleteRaces, Sound, Holds
      <4> QED
        BY <1>2, <2>4, <4>1, <4>2 DEF NothingDanglesUnlessDeleteRaces
    <3>2. ASSUME "delete" \notin raced', NEW d \in FolderClients, InFlight(d)'
          PROVE  Holds(folderReq[d])'
      <4>1. Holds(folderReq[d]) /\ folderReq[d].op # "delete" /\ folderReq'[d] = folderReq[d] /\ Shape(folderReq[d])
        BY <1>2, <3>2, Overtaken, InFlightIsSound DEF Sound, IInv
      <4> QED
        BY <2>4, <4>1 DEF Holds, Shape
    <3> QED
      BY <3>1, <3>2 DEF Held
  <2>9. Forest'
    <3> SUFFICES ASSUME "move" \notin raced'
                 PROVE  /\ \A f \in FolderRows' : DownwardEnds(f)'
                        /\ \A d \in FolderClients : InFlight(d)' => NoLoop(folderReq[d])'
      BY DEF Forest
    <3>1. "move" \notin raced /\ (\A f \in FolderRows : Acyclic(folders, f)) /\ Parents(folders)
      <4>1. "move" \notin raced
        BY <1>2, Overtaken DEF IInv
      <4>2. \A f \in FolderRows : Acyclic(folders, f)
        BY <4>1, UpwardIsAncestry DEF IInv, Forest, DownwardEnds, Acyclic
      <4>3. Parents(folders)
        BY <2>2 DEF Parents, IInv, Types, Rows, Places
      <4> QED
        BY <4>1, <4>2, <4>3
    <3>2. CASE r.op = "rename"
      <4>1. \A g \in FolderRows : folders'[g].owner = folders[g].owner /\ folders'[g].parent = folders[g].parent
        BY <2>3, <2>4, <3>2
      <4>2. ASSUME NEW o, NEW q \in Places, NEW h, h \notin Ancestry(folders, o, q) PROVE h \notin Ancestry(folders', o, q)
        BY <2>2, <2>4, <3>1, <4>1, <4>2, FewerRows
      <4>3. ASSUME NEW f \in FolderRows PROVE DownwardEnds(f)'
        <5>1. f \notin Ancestry(folders', folders[f].owner, folders[f].parent)
          BY <2>2, <3>1, <4>2 DEF Acyclic, Rows
        <5> QED
          BY <4>1, <5>1, UpwardIsAncestry DEF DownwardEnds
      <4>4. ASSUME NEW d \in FolderClients, InFlight(d)' PROVE NoLoop(folderReq[d])'
        <5>1. Sound(folderReq[d]) /\ folderReq'[d] = folderReq[d]
          BY <1>2, <4>4, Overtaken, InFlightIsSound DEF IInv
        <5>2. NoLoop(folderReq[d]) /\ folderReq[d].parent \in Places
          BY <3>1, <5>1 DEF Sound, Shape, Requests
        <5>3. folderReq[d].op = "reparent" /\ folderReq[d].pc # "walking" /\ folderReq[d].id \in FolderRows
              => folderReq[d].id \notin Ancestry(folders', folderReq[d].owner, folderReq[d].parent)
          BY <4>2, <5>2, UpwardIsAncestry DEF NoLoop
        <5> QED
          BY <2>4, <5>1, <5>3, UpwardIsAncestry DEF NoLoop
      <4> QED
        BY <2>4, <4>3, <4>4
    <3>3. CASE r.op = "reparent"
      <4>1. k \notin Ancestry(folders, folders[k].owner, r.parent) /\ r.parent \in Places
        BY <1>1, <2>1, <3>1, <3>3, UpwardIsAncestry DEF Sound, NoLoop, SameOwner, Requests, r
      <4>2. ASSUME NEW f \in FolderRows PROVE Acyclic(folders', f)
        <5>1. \A h \in FolderRows :
                folders'[h].owner = folders[h].owner /\ (h # k => folders'[h].parent = folders[h].parent)
          BY <2>3, <2>4
        <5>2. folders'[k].parent = r.parent
          BY <2>3, <2>4, <3>3
        <5>3. k \in DOMAIN folders /\ f \in DOMAIN folders /\ DOMAIN folders' = DOMAIN folders
          BY <2>1, <2>2, <2>4
        <5> HIDE DEF k
        <5>4. \A h \in DOMAIN folders :
                folders'[h].owner = folders[h].owner /\ (h # k => folders'[h].parent = folders[h].parent)
          BY <2>2, <5>1
        <5>5. Parents(folders) /\ Acyclic(folders, f)
          BY <3>1
        <5> QED
          BY <4>1, <5>2, <5>3, <5>4, <5>5, MovedRow
      <4>3. \A f \in FolderRows : DownwardEnds(f)'
        BY <4>2, UpwardIsAncestry DEF DownwardEnds, Acyclic
      <4>4. \A d \in FolderClients : InFlight(d)' => folderReq'[d].op # "reparent"
        BY <1>2, <3>3, Overtaken DEF IInv, r
      <4> QED
        BY <2>4, <4>3, <4>4 DEF NoLoop
    <3> QED
      BY <1>1, <3>2, <3>3
  <2> QED
    BY <2>5, <2>6, <2>7, <2>8, <2>9 DEF IInv
<1> QED
  BY <1>3, <1>4

\* What the foreign key takes along lies in the subtree that was read.
LEMMA CascadeIsClosed ==
  ASSUME Types, NEW ids \in SUBSET FolderIds
  PROVE  /\ ids \subseteq Cascaded(ids)
         /\ cascades => Whole(Cascaded(ids))
         /\ Whole(ids) => Cascaded(ids) \subseteq ids
<1>1. ids \in SUBSET Places /\ FolderRows \subseteq Places
  BY DEF Types, Places
<1>2. /\ ids \subseteq Below(ids, FolderRows)
      /\ HoldsChildren(Below(ids, FolderRows), FolderRows)
      /\ HoldsChildren(ids, FolderRows) => Below(ids, FolderRows) \subseteq ids
  BY <1>1 DEF Below, HoldsChildren
<1> QED
  BY <1>2 DEF Cascaded, Whole, HoldsChildren

\* The rows that go take with them every row and every study they held.
LEMMA DropKeeps ==
  ASSUME IInv, NEW c \in FolderClients, DropFolders(c)
  PROVE  IInv'
<1> DEFINE r == folderReq[c]
           gone == Cascaded(r.ids)
<1>1. Sound(r) /\ r.op = "delete" /\ r.pc = "drop" /\ r.ids \subseteq FolderIds
  BY InFlightIsSound DEF DropFolders, InFlight, Sound, Shape, Requests
<1>2. FolderDone(c) /\ UNCHANGED <<cascades, nextFolder, filedIn>>
      /\ folders' = [f \in FolderRows \ gone |-> folders[f]]
  BY DEF DropFolders
<1>3. r.ids \subseteq gone /\ (cascades => Whole(gone)) /\ (Whole(r.ids) => gone \subseteq r.ids)
  BY <1>1, CascadeIsClosed DEF IInv
<1> HIDE DEF r, gone
<1>4. FolderRows' = FolderRows \ gone /\ DOMAIN folders' = FolderRows' /\ \A f \in FolderRows' : folders'[f] = folders[f]
  BY <1>2 DEF FolderRows
<1>5. Types' /\ Keys'
  <2>1. FolderRows' \subseteq FolderIds /\ folders' \in [FolderRows' -> Rows]
    BY <1>2, <1>4 DEF IInv, Types
  <2>2. \A d \in FolderClients : InFlight(d)' => Shape(folderReq'[d]) /\ OldKeys(folderReq'[d])
    BY <1>2, Overtaken, InFlightIsSound DEF IInv, Sound
  <2>3. Types'
    BY <1>2, <2>1, <2>2, Overtaken DEF IInv, Types, Shape, InFlight
  <2> QED
    BY <1>2, <1>4, <2>2, <2>3 DEF IInv, Keys, OldKeys, InFlight
<1>6. Owned'
  BY <1>2, <1>4, Overtaken DEF IInv, Owned, OwnersNeverMix, SameOwner
<1>7. Named'
  <2>1. Indexed' /\ ("name" \notin raced => \A f, g \in FolderRows' : ~Namesakes(f, g)')
    BY <1>4 DEF IInv, Named, Indexed, Namesakes
  <2>2. ASSUME "name" \notin raced', NEW d \in FolderClients, InFlight(d)' PROVE FreeName(folderReq[d])'
    <3>1. FreeName(folderReq[d]) /\ folderReq'[d] = folderReq[d]
      BY <1>2, <2>2, Overtaken, InFlightIsSound DEF IInv, Sound
    <3> QED
      BY <1>4, <3>1 DEF FreeName, SiblingExists, OwnedFolders
  <2> QED
    BY <1>2, <2>1, <2>2, Overtaken DEF Named, IInv
<1>8. Held'
  <2>1. cascades => \A f \in FolderRows' : folders'[f].parent \in FolderRows' \cup {NoFolder}
    BY <1>3, <1>4 DEF IInv, Held, NothingDanglesUnlessDeleteRaces, Whole
  <2>2. ASSUME "delete" \notin raced'
        PROVE  /\ \A s \in DOMAIN filedIn : filedIn[s] \in FolderRows' \cup {NoFolder}
               /\ \A f \in FolderRows' : folders'[f].parent \in FolderRows' \cup {NoFolder}
    <3>1. "delete" \notin raced
      BY <1>2, <2>2, Overtaken DEF IInv
    <3>2. Whole(r.ids) /\ gone = r.ids /\ \A s \in DOMAIN filedIn : filedIn[s] \notin r.ids
      BY <1>1, <1>3, <3>1 DEF Sound, Holds
    <3> QED
      BY <1>4, <3>1, <3>2 DEF IInv, Held, NothingDanglesUnlessDeleteRaces, Whole
  <2>3. ASSUME "delete" \notin raced', NEW d \in FolderClients, InFlight(d)' PROVE Holds(folderReq[d])'
    <3>1. folderReq'[d] = folderReq[d] /\ Shape(folderReq[d])
          /\ folderReq[d].op \notin {"create", "reparent", "file", "delete"}
      BY <1>1, <1>2, <2>3, Overtaken, InFlightIsSound DEF IInv, Sound, r
    <3> QED
      BY <3>1 DEF Holds, Shape
  <2> QED
    BY <1>2, <2>1, <2>2, <2>3 DEF Held, NothingDanglesUnlessDeleteRaces
<1>9. Forest'
  <2> SUFFICES ASSUME "move" \notin raced'
               PROVE  /\ \A f \in FolderRows' : DownwardEnds(f)'
                      /\ \A d \in FolderClients : InFlight(d)' => NoLoop(folderReq[d])'
    BY DEF Forest
  <2>1. "move" \notin raced /\ Parents(folders)
    BY <1>2, Overtaken DEF IInv, Types, Parents, Rows, Places, FolderRows
  <2>2. ASSUME NEW o, NEW q \in Places, NEW h, h \notin Ancestry(folders, o, q) PROVE h \notin Ancestry(folders', o, q)
    <3>1. DOMAIN folders' \subseteq DOMAIN folders /\ \A g \in DOMAIN folders' : folders'[g] = folders[g]
      BY <1>4 DEF FolderRows
    <3> QED
      BY <2>1, <2>2, <3>1, FewerRows
  <2>3. ASSUME NEW f \in FolderRows' PROVE DownwardEnds(f)'
    <3>1. folders[f].parent \in Places /\ f \notin Upward(folders[f].parent, folders[f].owner)
      BY <1>4, <2>1, <2>3 DEF IInv, Types, Rows, Forest, DownwardEnds
    <3>2. f \notin Ancestry(folders', folders'[f].owner, folders'[f].parent)
      BY <1>4, <2>2, <3>1, UpwardIsAncestry
    <3> QED
      BY <3>2, UpwardIsAncestry DEF DownwardEnds
  <2>4. ASSUME NEW d \in FolderClients, InFlight(d)' PROVE NoLoop(folderReq[d])'
    <3>1. Sound(folderReq[d]) /\ folderReq'[d] = folderReq[d]
      BY <1>2, <2>4, Overtaken, InFlightIsSound DEF IInv
    <3>2. NoLoop(folderReq[d]) /\ folderReq[d].parent \in Places
      BY <2>1, <3>1 DEF Sound, Shape, Requests
    <3>3. folderReq[d].op = "reparent" /\ folderReq[d].pc # "walking" /\ folderReq[d].id \in FolderRows'
          => folderReq[d].id \notin Ancestry(folders', folderReq[d].owner, folderReq[d].parent)
      BY <1>4, <2>2, <3>2, UpwardIsAncestry DEF NoLoop
    <3> QED
      BY <3>1, <3>3, UpwardIsAncestry DEF NoLoop
  <2> QED
    BY <2>3, <2>4
<1> QED
  BY <1>5, <1>6, <1>7, <1>8, <1>9 DEF IInv

(***************************************************************************)
(* The theorems.                                                           *)
(***************************************************************************)
LEMMA InitIsSound ==
  FolderInit => IInv
<1> SUFFICES ASSUME FolderInit PROVE IInv
  OBVIOUS
<1>1. FolderRows = {}
  BY DEF FolderInit, FolderRows
<1>2. \A c \in FolderClients : ~InFlight(c)
  BY DEF FolderInit, InFlight
<1>3. Types /\ Keys
  BY <1>1, <1>2 DEF FolderInit, Types, Keys, Places, FolderRows
<1>4. Owned /\ Named /\ Held /\ Forest
  BY <1>1, <1>2 DEF FolderInit, Owned, OwnersNeverMix, Named, Indexed, Held, NothingDanglesUnlessDeleteRaces, Forest
<1> QED
  BY <1>3, <1>4 DEF IInv

LEMMA StepKeeps ==
  IInv /\ [FolderNext]_folderVars => IInv'
<1> SUFFICES ASSUME IInv, [FolderNext]_folderVars PROVE IInv'
  OBVIOUS
<1>1. CASE FolderNext
  <2>1. PICK c \in FolderClients : FolderStep(c) \/ \E u \in FolderUsers : FolderBegin(c, u)
    BY <1>1 DEF FolderNext
  <2>2. CASE UniqueSibling(c)
    BY <2>2, UniqueKeeps
  <2>3. CASE InsertFolder(c)
    BY <2>3, InsertKeeps
  <2>4. CASE UpdateFolder(c)
    BY <2>4, UpdateKeeps
  <2>5. CASE WriteFiling(c)
    BY <2>5, FilingKeeps
  <2>6. CASE UnfileStudies(c)
    BY <2>6, UnfileKeeps
  <2>7. CASE DropFolders(c)
    BY <2>7, DropKeeps
  <2>8. CASE \E u \in FolderUsers : FolderBegin(c, u)
    BY <2>8, BeginKeeps
  <2> QED
    BY <2>1, <2>2, <2>3, <2>4, <2>5, <2>6, <2>7, <2>8 DEF FolderStep
<1>2. CASE UNCHANGED folderVars
  <2>1. FolderRows' = FolderRows
    BY <1>2 DEF folderVars, FolderRows
  <2>2. Types' /\ Keys' /\ Owned' /\ Held'
    BY <1>2, <2>1 DEF folderVars, IInv, Types, Shape, Keys, OldKeys, Owned, OwnersNeverMix, SameOwner, Held,
       NothingDanglesUnlessDeleteRaces, Holds, Whole, InFlight
  <2>3. Named'
    BY <1>2, <2>1 DEF folderVars, IInv, Named, Indexed, Namesakes, FreeName, SiblingExists, OwnedFolders, InFlight
  <2>4. Forest'
    BY <1>2, <2>1 DEF folderVars, IInv, Forest, DownwardEnds, NoLoop, Upward, HoldsParents, OwnedFolders, InFlight
  <2> QED
    BY <2>2, <2>3, <2>4 DEF IInv
<1> QED
  BY <1>1, <1>2

\* What each request on folders (folders/mod.rs) has read is still true until
\* it writes, up to the races that raced records.
THEOREM Inductive ==
  FolderSpec => []IInv
BY InitIsSound, StepKeeps, PTL DEF FolderSpec

\* The folders are a forest however many requests interleave, unless two
\* moves overlap: reparent (folders/mod.rs) checks the tree it read.
THEOREM ForestKept ==
  FolderSpec => []ForestUnlessMovesRace
<1>1. IInv => ForestUnlessMovesRace
  BY DEF IInv, Forest, ForestUnlessMovesRace
<1> QED
  BY <1>1, Inductive, PTL

\* Owners never mix, siblings share a name only past two racing writers and
\* not where the index stands, and nothing dangles but past a racing delete.
THEOREM Consistent ==
  FolderSpec => []FoldersStayConsistent
<1>1. IInv => FoldersStayConsistent
  <2>1. IInv => SiblingsUniqueUnlessNamesRace
    BY DEF IInv, Named, Indexed, Namesakes, SiblingsUniqueUnlessNamesRace
  <2> QED
    BY <2>1 DEF IInv, Owned, Held, FoldersStayConsistent
<1> QED
  BY <1>1, Inductive, PTL

(***************************************************************************)
(* Games and their index rows.  A batch brings both at once and a deletion *)
(* takes the rows first: whoever took them still has the game to delete.   *)
(***************************************************************************)
Deleting(c) == Has(c, "unindex") \/ Has(c, "deletegame")
Kept ==
  /\ nextGame \in Nat
  /\ \A g \in DOMAIN games : g \in Nat /\ g < nextGame
  /\ indexed \subseteq DOMAIN games
TasksHeld ==
  /\ DOMAIN libReq = LibraryClients
  /\ \A c \in LibraryClients :
       /\ Deleting(c) => libReq[c] \in Deletions /\ libReq[c].id < nextGame
       /\ Has(c, "deletegame") => libReq[c].id \notin indexed
IsRun(r) == DOMAIN r = DOMAIN NoRun /\ r.batch \in Seq(ToSet(r.batch))
RunsHeld == DOMAIN bulk = Importers /\ \A b \in Importers : IsRun(bulk[b])
UnderDeletion(g) == \E c \in LibraryClients : Has(c, "deletegame") /\ libReq[c].id = g
Covered == "cut" \notin libRace => \A g \in DOMAIN games \ indexed : UnderDeletion(g)
LInv == Kept /\ TasksHeld /\ RunsHeld /\ Covered

LEMMA Appended ==
  ASSUME NEW s, s \in Seq(ToSet(s)), NEW e
  PROVE  Append(s, e) \in Seq(ToSet(Append(s, e)))
<1> PICK S : S = ToSet(s) \cup {e}
  OBVIOUS
<1>1. s \in Seq(S)
  <2>1. Len(s) \in Nat /\ s = [i \in 1 .. Len(s) |-> s[i]] /\ \A i \in 1 .. Len(s) : s[i] \in ToSet(s)
    <3> PICK T : T = ToSet(s)
      OBVIOUS
    <3> QED  BY LenProperties, ElementOfSeq
  <2> QED  BY <2>1, SeqDef
<1>2. /\ Append(s, e) \in Seq(S) /\ Len(Append(s, e)) = Len(s) + 1 /\ Len(s) \in Nat
      /\ \A i \in 1 .. Len(s) + 1 : Append(s, e)[i] = IF i <= Len(s) THEN s[i] ELSE e
      /\ DOMAIN s = 1 .. Len(s) /\ DOMAIN Append(s, e) = 1 .. Len(s) + 1
  BY <1>1, AppendProperties
<1>3. ToSet(Append(s, e)) = S
  <2> PICK t : t = Append(s, e)
    OBVIOUS
  <2>1. \A i \in DOMAIN t : t[i] = e \/ t[i] \in ToSet(s)
    BY <1>2 DEF ToSet
  <2>2. \A i \in DOMAIN s : i \in DOMAIN t /\ t[i] = s[i]
    BY <1>2
  <2>3. Len(s) + 1 \in DOMAIN t /\ t[Len(s) + 1] = e
    BY <1>2
  <2>4. ToSet(t) \subseteq S
    BY <2>1 DEF ToSet
  <2>5. S \subseteq ToSet(t)
    BY <2>2, <2>3 DEF ToSet
  <2> QED  BY <2>4, <2>5
<1> QED  BY <1>2, <1>3

\* Steps that leave games, rows and the tasks of deletion alone.
LEMMA RunStep ==
  ASSUME LInv, NEW b \in Importers, NEW run, bulk' = [bulk EXCEPT ![b] = run], IsRun(run),
         UNCHANGED <<games, nextGame, indexed, libReq>>, "cut" \in libRace' <=> "cut" \in libRace
  PROVE  LInv'
<1>1. RunsHeld'
  BY DEF LInv, RunsHeld, IsRun
<1>2. \A c \in LibraryClients : \A op : Has(c, op)' <=> Has(c, op)
  BY DEF Has
<1> QED
  BY <1>1, <1>2 DEF LInv, Kept, TasksHeld, Covered, UnderDeletion, Deleting

LEMMA NewTask ==
  ASSUME LInv, NEW c \in LibraryClients, NEW task, Task(c, task),
         task.op # "deletegame",
         task.op = "unindex" => task \in Deletions /\ task.id < nextGame
  PROVE  LInv'
<1>1. /\ libReq[c] = NoTask /\ libReq' = [libReq EXCEPT ![c] = task]
      /\ UNCHANGED <<games, nextGame, indexed, bulk, libRace>>
  BY DEF Task, tables
<1>2. /\ libReq'[c] = task /\ DOMAIN libReq' = LibraryClients
      /\ \A d \in LibraryClients \ {c} : libReq'[d] = libReq[d]
  BY <1>1 DEF LInv, TasksHeld
<1>3. TasksHeld'
  BY <1>1, <1>2 DEF LInv, TasksHeld, Has, Deleting
<1>4. \A g : UnderDeletion(g) => UnderDeletion(g)'
  BY <1>1, <1>2 DEF UnderDeletion, Has
<1> QED
  BY <1>1, <1>3, <1>4 DEF LInv, Kept, RunsHeld, IsRun, Covered

\* A task that ends, with games and rows as they were or without the game.
LEMMA TaskEnds ==
  ASSUME LInv, NEW c \in LibraryClients, Written(c), indexed' = indexed,
         DOMAIN games' \subseteq DOMAIN games,
         \/ DOMAIN games' = DOMAIN games /\ ~Has(c, "deletegame")
         \/ DOMAIN games' = DOMAIN games /\ "cut" \in libRace'
         \/ Has(c, "deletegame") /\ DOMAIN games' = DOMAIN games \ {libReq[c].id},
         "cut" \in libRace => "cut" \in libRace'
  PROVE  LInv'
<1>1. /\ libReq' = [libReq EXCEPT ![c] = NoTask] /\ UNCHANGED <<nextGame, bulk>>
  BY DEF Written
<1>2. /\ libReq'[c] = NoTask /\ DOMAIN libReq' = LibraryClients
      /\ \A d \in LibraryClients \ {c} : libReq'[d] = libReq[d]
  BY <1>1 DEF LInv, TasksHeld
<1>3. TasksHeld'
  BY <1>1, <1>2 DEF LInv, TasksHeld, Has, Deleting
<1>4. Kept'
  BY <1>1 DEF LInv, Kept, TasksHeld
<1>5. Covered'
  <2> SUFFICES ASSUME "cut" \notin libRace', NEW g \in DOMAIN games' \ indexed'
               PROVE  UnderDeletion(g)'
    BY DEF Covered
  <2>1. PICK d \in LibraryClients : Has(d, "deletegame") /\ libReq[d].id = g
    BY DEF LInv, Covered, UnderDeletion
  <2>2. d # c
    BY <2>1
  <2> QED
    BY <1>2, <2>1, <2>2 DEF UnderDeletion, Has
<1> QED
  BY <1>1, <1>3, <1>4, <1>5 DEF LInv, RunsHeld, IsRun

LEMMA RowsDropped ==
  ASSUME LInv, NEW c \in LibraryClients, DropIndexRows(c)
  PROVE  LInv'
<1> USE LibraryAssumption
<1> PICK r : r = libReq[c]
  OBVIOUS
<1>1. /\ r # NoTask /\ r.op = "unindex" /\ r \in Deletions /\ r.id < nextGame
      /\ UNCHANGED <<games, nextGame, bulk, libRace>> /\ indexed' = indexed \ {r.id}
  BY DEF DropIndexRows, Has, LInv, TasksHeld, Deleting
<1> PICK s : s = [r EXCEPT !.op = "deletegame"]
  OBVIOUS
<1>2. s \in Deletions /\ s.op = "deletegame" /\ s.id = r.id
  BY <1>1 DEF Deletions
<1>3. /\ libReq'[c] = s /\ DOMAIN libReq' = LibraryClients
      /\ \A d \in LibraryClients \ {c} : libReq'[d] = libReq[d]
  BY DEF DropIndexRows, LInv, TasksHeld
<1>4. Has(c, "deletegame")' /\ s # NoTask
  BY <1>2, <1>3 DEF Has
<1>5. TasksHeld'
  BY <1>1, <1>2, <1>3 DEF LInv, TasksHeld, Has, Deleting
<1>6. \A g : UnderDeletion(g) => UnderDeletion(g)'
  BY <1>1, <1>3 DEF UnderDeletion, Has
<1>7. UnderDeletion(r.id)'
  BY <1>2, <1>3, <1>4 DEF UnderDeletion
<1> QED
  BY <1>1, <1>5, <1>6, <1>7 DEF LInv, Kept, RunsHeld, IsRun, Covered

\* A batch takes ids that no deletion has in its hands.
LEMMA BatchCommits ==
  ASSUME LInv, NEW b \in Importers, Flush(b)
  PROVE  LInv'
<1> PICK r : r = bulk[b]
  OBVIOUS
<1> PICK kept : kept = [r EXCEPT !.batch = <<>>, !.report.imported = r.report.imported + Len(r.batch)]
  OBVIOUS
<1>1. IsRun(r) /\ Len(r.batch) \in Nat
  <2> PICK S : S = ToSet(r.batch)
    OBVIOUS
  <2> QED  BY DEF LInv, RunsHeld, IsRun
<1>2. /\ IsRun([r EXCEPT !.pc = "failed"]) /\ IsRun(kept) /\ IsRun([kept EXCEPT !.pc = "done"])
  BY <1>1, EmptySeq DEF IsRun
<1>3. libReq' = libReq /\ libRace' = libRace
  BY DEF Flush
<1>4. ASSUME UNCHANGED <<games, nextGame, indexed>>, bulk' = [bulk EXCEPT ![b] = [r EXCEPT !.pc = "failed"]]
      PROVE  LInv'
  BY <1>2, <1>3, <1>4, RunStep
<1>5. ASSUME NEW run, bulk' = [bulk EXCEPT ![b] = run], IsRun(run),
             games' = WithBatch(r.db, r.batch), nextGame' = nextGame + Len(r.batch),
             indexed' = indexed \cup (nextGame .. nextGame + Len(r.batch) - 1)
      PROVE  LInv'
  <2> PICK ids : ids = nextGame .. nextGame + Len(r.batch) - 1
    OBVIOUS
  <2>1. DOMAIN games' = DOMAIN games \cup ids
    BY <1>5 DEF WithBatch
  <2>2. \A g \in ids : g \in Nat /\ nextGame <= g /\ g < nextGame'
    BY <1>1, <1>5 DEF LInv, Kept
  <2>3. nextGame' \in Nat /\ nextGame <= nextGame'
    BY <1>1, <1>5 DEF LInv, Kept
  <2>4. Kept'
    BY <1>5, <2>1, <2>2, <2>3 DEF LInv, Kept
  <2>5. RunsHeld'
    BY <1>5 DEF LInv, RunsHeld, IsRun
  <2>6. TasksHeld'
    BY <1>3, <1>5, <2>2, <2>3 DEF LInv, Kept, TasksHeld, Has, Deleting, Deletions
  <2>7. Covered'
    BY <1>3, <1>5, <2>1 DEF LInv, Covered, UnderDeletion, Has
  <2> QED  BY <2>4, <2>5, <2>6, <2>7 DEF LInv
<1> QED
  BY <1>2, <1>4, <1>5 DEF Flush, Run

LEMMA FreshRun == IsRun(NoRun)
BY EmptySeq DEF IsRun, NoRun

\* A run that reads on, or takes up a game, keeps a batch.
LEMMA RunGoesOn ==
  ASSUME LInv, NEW b \in Importers, ReadChunk(b) \/ ProcessGame(b)
  PROVE  LInv'
<1> PICK r : r = bulk[b]
  OBVIOUS
<1>1. IsRun(r) /\ UNCHANGED <<games, nextGame, indexed, libReq, libRace>>
  BY DEF LInv, RunsHeld, ReadChunk, ProcessGame, tables
<1>2. CASE ReadChunk(b)
  <2>1. /\ \A todo, buf : IsRun([r EXCEPT !.pc = "tail", !.todo = todo, !.buf = buf])
        /\ \A at, todo, buf : IsRun([r EXCEPT !.at = at, !.todo = todo, !.buf = buf])
        /\ \A at, buf : IsRun([r EXCEPT !.at = at, !.buf = buf])
    BY <1>1 DEF IsRun, NoRun
  <2> DEFINE rest == Len(PgnFile) - r.at
             n    == IF rest < ChunkSize THEN rest ELSE ChunkSize
             buf  == r.buf \o SubSeq(PgnFile, r.at + 1, r.at + n)
             offs == EventOffsets(buf)
             last == CHOOSE i \in offs : \A j \in offs : j <= i
             tail == [r EXCEPT !.pc = "tail", !.todo = SplitGames(buf), !.buf = <<>>]
             cut  == [r EXCEPT !.at = r.at + n, !.todo = SplitGames(SubSeq(buf, 1, last - 1)),
                               !.buf = SubSeq(buf, last, Len(buf))]
             more == [r EXCEPT !.at = r.at + n, !.buf = buf]
  <2>2. bulk' = [bulk EXCEPT ![b] = IF n = 0 THEN tail ELSE IF Cardinality(offs) >= 2 THEN cut ELSE more]
    BY <1>2 DEF ReadChunk, Run
  <2>3. IsRun(tail) /\ IsRun(cut) /\ IsRun(more)
    BY <2>1
  <2> HIDE DEF tail, cut, more, n, offs
  <2> PICK run : run = IF n = 0 THEN tail ELSE IF Cardinality(offs) >= 2 THEN cut ELSE more
    OBVIOUS
  <2>4. bulk' = [bulk EXCEPT ![b] = run] /\ IsRun(run)
    BY <2>2, <2>3
  <2> QED  BY <1>1, <2>4, RunStep
<1>3. CASE ProcessGame(b)
  <2> DEFINE key == Head(r.todo)
             on  == [r EXCEPT !.todo = Tail(r.todo)]
             marked == [on EXCEPT !.seen = r.seen \cup {key}]
  <2>1. /\ DOMAIN on = DOMAIN r /\ on.batch = r.batch
        /\ DOMAIN marked = DOMAIN r /\ marked.batch = r.batch
    BY <1>1 DEF IsRun, NoRun
  <2>2. Append(r.batch, key) \in Seq(ToSet(Append(r.batch, key)))
    BY <1>1, Appended DEF IsRun
  <2>3. PICK run : /\ bulk' = [bulk EXCEPT ![b] = run]
                   /\ \/ run = [on EXCEPT !.report.errors = r.report.errors + 1]
                      \/ run = [marked EXCEPT !.report.duplicates = r.report.duplicates + 1]
                      \/ run = [marked EXCEPT !.report.errors = r.report.errors + 1]
                      \/ run = [marked EXCEPT !.batch = Append(r.batch, key)]
    BY <1>3 DEF ProcessGame, Run
  <2> HIDE DEF key, on, marked
  <2>4. DOMAIN run = DOMAIN r /\ (run.batch = r.batch \/ run.batch = Append(r.batch, key))
    BY <1>1, <2>1, <2>3 DEF IsRun, NoRun
  <2>5. IsRun(run)
    BY <1>1, <2>2, <2>4 DEF IsRun
  <2> QED  BY <1>1, <2>3, <2>5, RunStep
<1> QED  BY <1>2, <1>3

LEMMA LibraryInitInv == LibraryInit => LInv
<1> SUFFICES ASSUME LibraryInit
             PROVE  LInv
  OBVIOUS
<1>1. games = <<>> /\ nextGame = 1 /\ indexed = {} /\ DOMAIN games = {}
  BY DEF LibraryInit
<1>2. /\ DOMAIN libReq = LibraryClients /\ \A c \in LibraryClients : libReq[c] = NoTask
      /\ DOMAIN bulk = Importers /\ \A b \in Importers : bulk[b] = NoRun
  BY DEF LibraryInit
<1> QED  BY <1>1, <1>2, FreshRun DEF LInv, Kept, TasksHeld, Deleting, Has, RunsHeld, Covered

LEMMA LibraryNextInv == LInv /\ [LibraryNext]_libraryVars => LInv'
<1> SUFFICES ASSUME LInv, [LibraryNext]_libraryVars
             PROVE  LInv'
  OBVIOUS
<1>1. ASSUME UNCHANGED <<games, nextGame, indexed, libReq, bulk>>,
             "cut" \in libRace' <=> "cut" \in libRace
      PROVE  LInv'
  BY <1>1 DEF LInv, Kept, TasksHeld, Deleting, Has, RunsHeld, IsRun, Covered, UnderDeletion
<1>2. ASSUME NEW u \in LibraryUsers, NEW global \in BOOLEAN, CreateDatabase(u, "Games", global)
      PROVE  LInv'
  BY <1>1, <1>2 DEF CreateDatabase, Namesake
<1>3. ASSUME NEW c \in LibraryClients, LibraryWrite(c)
      PROVE  LInv'
  <2>1. CASE WriteRename(c)
    BY <2>1, TaskEnds DEF WriteRename, Has, Namesake
  <2>2. CASE WriteDeleteDatabase(c)
    BY <2>2, TaskEnds DEF WriteDeleteDatabase, Has
  <2>3. CASE DropIndexRows(c)
    BY <2>3, RowsDropped
  <2>4. CASE DropGame(c)
    BY <2>4, TaskEnds DEF DropGame
  <2>5. CASE WriteShare(c)
    BY <2>5, TaskEnds DEF WriteShare, Has
  <2>6. CASE WriteDefault(c)
    BY <2>6, TaskEnds DEF WriteDefault, Has
  <2>7. CASE DropRequest(c)
    BY <2>7, TaskEnds DEF DropRequest
  <2> QED  BY <1>3, <2>1, <2>2, <2>3, <2>4, <2>5, <2>6, <2>7 DEF LibraryWrite
<1>4. ASSUME NEW c \in LibraryClients, NEW u \in LibraryUsers, LibraryRequest(c, u)
      PROVE  LInv'
  <2>1. ASSUME NEW d \in DOMAIN databases,
               RenameDatabase(c, u, d, MasterName) \/ DeleteDatabase(c, u, d) \/ PutDefault(c, u, d)
        PROVE  LInv'
    BY <2>1, NewTask DEF RenameDatabase, DeleteDatabase, PutDefault
  <2>2. ASSUME NEW g \in DOMAIN games, DeleteGame(c, u, g)
        PROVE  LInv'
    BY <2>2, NewTask DEF DeleteGame, Deletions, LInv, Kept
  <2>3. ASSUME NEW g \in DOMAIN games, NEW p \in BOOLEAN, SetGamePublic(c, u, g, p)
        PROVE  LInv'
    BY <2>3, NewTask DEF SetGamePublic
  <2> QED  BY <1>4, <2>1, <2>2, <2>3 DEF LibraryRequest
<1>5. ASSUME NEW b \in Importers,
             \/ FindMaster(b) \/ CreateMaster(b) \/ ReadChunk(b) \/ ProcessGame(b) \/ Flush(b) \/ EndImport(b)
      PROVE  LInv'
  <2>1. CASE FindMaster(b)
    <3>1. PICK run : bulk' = [bulk EXCEPT ![b] = run] /\ IsRun(run)
      <4>1. \A d : IsRun([NoRun EXCEPT !.pc = "read", !.db = d])
        BY FreshRun DEF IsRun, NoRun
      <4>2. IsRun([NoRun EXCEPT !.pc = "create"])
        BY FreshRun DEF IsRun, NoRun
      <4> QED  BY <2>1, <4>1, <4>2 DEF FindMaster, Run
    <3> QED  BY <2>1, <3>1, RunStep DEF FindMaster, tables
  <2>2. CASE CreateMaster(b)
    <3>1. IsRun([bulk[b] EXCEPT !.pc = "read", !.db = nextDatabase])
      BY DEF LInv, RunsHeld, IsRun, NoRun
    <3> QED  BY <2>2, <3>1, RunStep DEF CreateMaster, Run
  <2>3. CASE EndImport(b)
    BY <2>3, FreshRun, RunStep DEF EndImport, Run, tables
  <2> QED  BY <1>5, <2>1, <2>2, <2>3, RunGoesOn, BatchCommits
<1>6. CASE UNCHANGED libraryVars
  BY <1>1, <1>6 DEF libraryVars
<1> QED  BY <1>2, <1>3, <1>4, <1>5, <1>6 DEF LibraryNext

\* However deletions, their cancellations and imports interleave, no index row
\* is without its game, and no game is without its rows but one whose deletion
\* is under way or was cut short (games/mod.rs, collectors/bulk.rs).
THEOREM RowsFollowGames == LibrarySpec => []IndexFollowsGames
<1>1. LInv => IndexFollowsGames
  BY DEF LInv, Kept, Covered, UnderDeletion, IndexFollowsGames
<1> QED  BY <1>1, LibraryInitInv, LibraryNextInv, PTL DEF LibrarySpec

(***************************************************************************)
(* The master database: whoever is about to make it is alone and found     *)
(* none, unless two lookups overlapped or a namesake came in between.      *)
(***************************************************************************)
IsMaster(d) == databases[d].name = MasterName /\ databases[d].owner = Global
Masters == {d \in DOMAIN databases : IsMaster(d)}
Described ==
  \A d \in DOMAIN databases :
    databases[d] = [owner |-> databases[d].owner, name |-> databases[d].name]
Alone ==
  "lookup" \notin libRace =>
    /\ \A d, e \in Masters : d = e
    /\ \A b \in Importers : Running(b, "create") => Masters = {}
    /\ \A b, o \in Importers : Running(b, "create") /\ Running(o, "create") => b = o
MInv == Described /\ Alone

LEMMA Unlike == "Games" # MasterName
BY Zenon DEF MasterName

LEMMA RunTypes ==
  ASSUME LInv
  PROVE  /\ DOMAIN bulk = Importers
         /\ \A b \in Importers : DOMAIN bulk[b] = DOMAIN NoRun
BY DEF LInv, RunsHeld, IsRun

\* Steps under which no database becomes a master and no importer begins one.
LEMMA NoNewMaster ==
  ASSUME MInv, Described', Masters' \subseteq Masters,
         "lookup" \in libRace => "lookup" \in libRace',
         \A b \in Importers : Running(b, "create")' => Running(b, "create")
  PROVE  MInv'
BY DEF MInv, Alone

LEMMA SameTable ==
  ASSUME MInv, databases' = databases, libRace \subseteq libRace',
         \A b \in Importers : Running(b, "create")' => Running(b, "create")
  PROVE  MInv'
<1>1. Masters' = Masters /\ Described'
  BY DEF MInv, Masters, IsMaster, Described
<1> QED  BY <1>1, NoNewMaster

LEMMA TableStep ==
  ASSUME MInv, bulk' = bulk,
         \/ \E u \in LibraryUsers, global \in BOOLEAN : CreateDatabase(u, "Games", global)
         \/ \E c \in LibraryClients : WriteRename(c) \/ WriteDeleteDatabase(c)
  PROVE  MInv'
<1>1. \A b \in Importers : Running(b, "create")' => Running(b, "create")
  BY DEF Running
<1>2. ASSUME NEW u \in LibraryUsers, NEW global \in BOOLEAN, CreateDatabase(u, "Games", global)
      PROVE  MInv'
  <2> PICK row : row = [owner |-> IF global THEN Global ELSE u.id, name |-> "Games"]
    OBVIOUS
  <2>1. /\ row.name # MasterName /\ row = [owner |-> row.owner, name |-> row.name]
        /\ databases' = WithRow(databases, nextDatabase, row) /\ libRace \subseteq libRace'
    BY <1>2, Unlike DEF CreateDatabase, Namesake
  <2>2. /\ DOMAIN databases' = DOMAIN databases \cup {nextDatabase}
        /\ \A d \in DOMAIN databases' : databases'[d] = IF d = nextDatabase THEN row ELSE databases[d]
    BY <2>1 DEF WithRow
  <2>3. Described'
    BY <2>1, <2>2 DEF MInv, Described
  <2>4. Masters' \subseteq Masters
    BY <2>1, <2>2 DEF Masters, IsMaster
  <2> QED  BY <1>1, <2>1, <2>3, <2>4, NoNewMaster
<1>3. ASSUME NEW c \in LibraryClients, WriteRename(c)
      PROVE  MInv'
  <2> PICK id : id = libReq[c].id
    OBVIOUS
  <2> PICK name : name = libReq[c].to
    OBVIOUS
  <2>1. CASE id \notin DOMAIN databases
    BY <1>1, <1>3, <2>1, SameTable DEF WriteRename, Namesake
  <2>2. CASE id \in DOMAIN databases /\ databases[id].owner = Global
    <3>1. "lookup" \in libRace'
      BY <1>3, <2>2 DEF WriteRename, Namesake
    <3>2. databases' = [databases EXCEPT ![id].name = name]
      BY <1>3, <2>2 DEF WriteRename
    <3>3. Described'
      BY <3>2 DEF MInv, Described
    <3> QED  BY <3>1, <3>3 DEF MInv, Alone
  <2>3. CASE id \in DOMAIN databases /\ databases[id].owner # Global
    <3>1. databases' = [databases EXCEPT ![id].name = name] /\ libRace \subseteq libRace'
      BY <1>3, <2>3 DEF WriteRename, Namesake
    <3>2. Described' /\ databases'[id].owner = databases[id].owner
      BY <2>3, <3>1 DEF MInv, Described
    <3>3. Masters' \subseteq Masters
      BY <2>3, <3>1, <3>2 DEF Masters, IsMaster
    <3> QED  BY <1>1, <3>1, <3>2, <3>3, NoNewMaster
  <2> QED  BY <2>1, <2>2, <2>3
<1>4. ASSUME NEW c \in LibraryClients, WriteDeleteDatabase(c)
      PROVE  MInv'
  <2>1. /\ DOMAIN databases' \subseteq DOMAIN databases /\ libRace' = libRace
        /\ \A d \in DOMAIN databases' : databases'[d] = databases[d]
    BY <1>4 DEF WriteDeleteDatabase
  <2>2. Described' /\ Masters' \subseteq Masters
    BY <2>1 DEF MInv, Described, Masters, IsMaster
  <2> QED  BY <1>1, <2>1, <2>2, NoNewMaster
<1> QED  BY <1>2, <1>3, <1>4

LEMMA ImporterStep ==
  ASSUME LInv, MInv, NEW b \in Importers,
         \/ FindMaster(b) \/ CreateMaster(b) \/ ReadChunk(b) \/ ProcessGame(b) \/ Flush(b) \/ EndImport(b)
  PROVE  MInv'
<1> USE RunTypes
<1>1. \A o \in Importers \ {b} : bulk'[o] = bulk[o]
  BY DEF FindMaster, CreateMaster, ReadChunk, ProcessGame, Flush, EndImport, Run
<1>2. \A o \in Importers \ {b} : Running(o, "create")' <=> Running(o, "create")
  BY <1>1 DEF Running
<1>3. CASE FindMaster(b)
  <2> PICK named : named = {d \in DOMAIN databases : databases[d] = [owner |-> Global, name |-> MasterName]}
    OBVIOUS
  <2>1. named = Masters
    BY DEF MInv, Described, Masters, IsMaster
  <2>2. UNCHANGED databases /\ libRace \subseteq libRace'
    BY <1>3 DEF FindMaster, tables
  <2>3. CASE named = {}
    <3>1. "lookup" \notin libRace' => \A o \in Importers \ {b} : ~Running(o, "create")
      BY <1>3 DEF FindMaster
    <3>2. Masters' = {} /\ Described'
      BY <2>1, <2>2, <2>3 DEF MInv, Described, Masters, IsMaster
    <3> QED  BY <1>2, <3>1, <3>2 DEF MInv, Alone
  <2>4. CASE named # {}
    <3>1. bulk'[b].pc = "read"
      BY <1>3, <2>4 DEF FindMaster, Run, NoRun
    <3> QED  BY <1>2, <2>2, <3>1, SameTable DEF Running
  <2> QED  BY <2>3, <2>4
<1>4. CASE CreateMaster(b)
  <2> PICK row : row = [owner |-> Global, name |-> MasterName]
    OBVIOUS
  <2>1. /\ Running(b, "create") /\ libRace' = libRace
        /\ databases' = WithRow(databases, nextDatabase, row) /\ bulk'[b].pc = "read"
    BY <1>4 DEF CreateMaster, Run, NoRun
  <2>2. /\ DOMAIN databases' = DOMAIN databases \cup {nextDatabase}
        /\ \A d \in DOMAIN databases' : databases'[d] = IF d = nextDatabase THEN row ELSE databases[d]
    BY <2>1 DEF WithRow
  <2>3. Described'
    BY <2>2 DEF MInv, Described
  <2>4. Masters' \subseteq Masters \cup {nextDatabase}
    BY <2>2 DEF Masters, IsMaster
  <2>5. \A o \in Importers : Running(o, "create")' => o # b /\ Running(o, "create")
    BY <1>2, <2>1 DEF Running
  <2> QED  BY <2>1, <2>3, <2>4, <2>5 DEF MInv, Alone
<1>5. CASE ReadChunk(b) \/ ProcessGame(b) \/ Flush(b) \/ EndImport(b)
  <2>1. ~Running(b, "create")'
    <3>1. CASE ReadChunk(b)
      BY <3>1 DEF ReadChunk, Run, Running, NoRun
    <3>2. CASE ProcessGame(b)
      BY <3>2 DEF ProcessGame, Run, Running, NoRun
    <3>3. CASE Flush(b)
      <4> PICK r : r = bulk[b]
        OBVIOUS
      <4> PICK kept : kept = [r EXCEPT !.batch = <<>>, !.report.imported = r.report.imported + Len(r.batch)]
        OBVIOUS
      <4>1. r.pc \in {"read", "tail"} /\ DOMAIN r = DOMAIN NoRun
        BY <3>3 DEF Flush
      <4>2. /\ [r EXCEPT !.pc = "failed"].pc = "failed" /\ [kept EXCEPT !.pc = "done"].pc = "done"
            /\ kept.pc = r.pc
        BY <4>1 DEF NoRun
      <4>3. PICK run : bulk' = [bulk EXCEPT ![b] = run] /\ run.pc # "create"
        BY <3>3, <4>1, <4>2 DEF Flush, Run
      <4> QED  BY <4>3 DEF Running
    <3>4. CASE EndImport(b)
      BY <3>4 DEF EndImport, Run, Running, NoRun
    <3> QED  BY <1>5, <3>1, <3>2, <3>3, <3>4
  <2>2. databases' = databases /\ libRace' = libRace
    BY <1>5 DEF ReadChunk, ProcessGame, Flush, EndImport, tables
  <2> QED  BY <1>2, <2>1, <2>2, SameTable
<1> QED  BY <1>3, <1>4, <1>5

LEMMA MasterNext == LInv /\ MInv /\ [LibraryNext]_libraryVars => MInv'
<1> SUFFICES ASSUME LInv, MInv, [LibraryNext]_libraryVars
             PROVE  MInv'
  OBVIOUS
<1>1. ASSUME bulk' = bulk, databases' = databases, libRace \subseteq libRace'
      PROVE  MInv'
  BY <1>1, SameTable DEF Running
<1>2. ASSUME NEW u \in LibraryUsers, NEW global \in BOOLEAN, CreateDatabase(u, "Games", global)
      PROVE  MInv'
  BY <1>2, TableStep DEF CreateDatabase
<1>3. ASSUME NEW c \in LibraryClients, LibraryWrite(c)
      PROVE  MInv'
  <2>1. CASE WriteRename(c) \/ WriteDeleteDatabase(c)
    BY <2>1, TableStep DEF WriteRename, WriteDeleteDatabase, Written
  <2>2. CASE DropIndexRows(c) \/ DropGame(c) \/ WriteShare(c) \/ WriteDefault(c) \/ DropRequest(c)
    BY <1>1, <2>2 DEF DropIndexRows, DropGame, WriteShare, WriteDefault, DropRequest, Written
  <2> QED  BY <1>3, <2>1, <2>2 DEF LibraryWrite
<1>4. ASSUME NEW c \in LibraryClients, NEW u \in LibraryUsers, LibraryRequest(c, u)
      PROVE  MInv'
  BY <1>1, <1>4 DEF LibraryRequest, RenameDatabase, DeleteDatabase, PutDefault, DeleteGame,
                    SetGamePublic, Task, tables
<1>5. CASE UNCHANGED libraryVars
  BY <1>1, <1>5 DEF libraryVars
<1> QED  BY <1>2, <1>3, <1>4, <1>5, ImporterStep DEF LibraryNext

\* Runs of the importer, one after the other, fill one master database: two
\* come about only when two lookups overlap or an admin made or renamed a global
\* database (collectors/bulk.rs, find_or_create_master).
THEOREM MasterIsOne == LibrarySpec => []OneMaster
<1>1. LibraryInit => MInv
  <2> SUFFICES ASSUME LibraryInit
               PROVE  MInv
    OBVIOUS
  <2>1. databases = <<>> /\ DOMAIN databases = {} /\ \A b \in Importers : bulk[b].pc = "idle"
    BY DEF LibraryInit, NoRun
  <2> QED  BY <2>1 DEF MInv, Described, Alone, Masters, Running
<1>2. MInv => OneMaster
  <2> SUFFICES ASSUME MInv, "lookup" \notin libRace
               PROVE  Cardinality(Masters) <= 1
    BY DEF OneMaster, Masters, IsMaster
  <2>1. CASE Masters = {}
    BY <2>1, FS_EmptySet
  <2>2. ASSUME NEW d \in Masters
        PROVE  Cardinality(Masters) <= 1
    <3>1. Masters = {d}
      BY DEF MInv, Alone
    <3> QED  BY <3>1, FS_Singleton
  <2> QED  BY <2>1, <2>2
<1> QED  BY <1>1, <1>2, LibraryInitInv, LibraryNextInv, MasterNext, PTL DEF LibrarySpec


(***************************************************************************)
(* Rows in an order.  What comes before a row has fewer rows before it, so *)
(* that the numbers of rows before each are the numbers below their count. *)
(***************************************************************************)
LEMMA Ranked ==
  ASSUME NEW S, IsFiniteSet(S), NEW down \in [S -> SUBSET S],
         \A x \in S : x \notin down[x],
         \A x, y \in S : x = y \/ x \in down[y] \/ y \in down[x],
         \A x, y \in S : x \in down[y] => down[x] \subseteq down[y]
  PROVE  /\ Cardinality(S) \in Nat
         /\ \A x \in S : Cardinality(down[x]) \in 0 .. Cardinality(S) - 1
         /\ \A x, y \in S : x \in down[y] <=> Cardinality(down[x]) < Cardinality(down[y])
         /\ \A k \in 1 .. Cardinality(S) : \E x \in S : Cardinality(down[x]) = k - 1
<1> PICK n : n = Cardinality(S)
  OBVIOUS
<1> PICK rank : rank = [x \in S |-> Cardinality(down[x])]
  OBVIOUS
<1>1. n \in Nat /\ \A x \in S : IsFiniteSet(down[x]) /\ rank[x] \in Nat
  BY FS_CardinalityType, FS_Subset
<1>2. ASSUME NEW x \in S, NEW y \in S, x \in down[y]
      PROVE  rank[x] < rank[y]
  <2>1. IsFiniteSet(down[x] \cup {x}) /\ Cardinality(down[x] \cup {x}) = rank[x] + 1
    BY <1>1, FS_AddElement
  <2>2. down[x] \cup {x} \in SUBSET down[y]
    BY <1>2
  <2>3. rank[x] + 1 <= rank[y]
    BY <1>1, <2>1, <2>2, FS_Subset
  <2> QED  BY <1>1, <2>3
<1>3. \A x, y \in S : x \in down[y] <=> rank[x] < rank[y]
  BY <1>1, <1>2
<1>4. ASSUME NEW x \in S
      PROVE  rank[x] \in 0 .. n - 1
  <2>1. IsFiniteSet(down[x] \cup {x}) /\ Cardinality(down[x] \cup {x}) = rank[x] + 1
    BY <1>1, FS_AddElement
  <2>2. down[x] \cup {x} \in SUBSET S
    OBVIOUS
  <2>3. rank[x] + 1 <= n
    BY <2>1, <2>2, FS_Subset
  <2> QED  BY <1>1, <2>3
<1>5. rank \in Surjection(S, 0 .. n - 1)
  <2>1. rank \in [S -> 0 .. n - 1]
    BY <1>4
  <2>2. \A x, y \in S : rank[x] = rank[y] => x = y
    BY <1>1, <1>3
  <2>3. rank \in Injection(S, 0 .. n - 1)
    BY <2>1, <2>2 DEF Injection, IsInjective
  <2>4. IsFiniteSet(0 .. n - 1) /\ Cardinality(0 .. n - 1) = n
    <3>1. 0 \in Int /\ n - 1 \in Int
      BY <1>1
    <3>2. IsFiniteSet(0 .. n - 1) /\ Cardinality(0 .. n - 1) = IF 0 > n - 1 THEN 0 ELSE n - 1 - 0 + 1
      BY <3>1, FS_Interval
    <3> QED  BY <1>1, <3>2
  <2> QED  BY <2>3, <2>4, FS_Injection
<1>6. \A k \in 1 .. n : \E x \in S : rank[x] = k - 1
  <2> SUFFICES ASSUME NEW k \in 1 .. n
               PROVE  \E x \in S : rank[x] = k - 1
    OBVIOUS
  <2>1. k - 1 \in 0 .. n - 1
    BY <1>1
  <2> QED  BY <1>5, <2>1 DEF Surjection
<1> QED  BY <1>1, <1>3, <1>4, <1>6

\* ... so that picking a row for each number enumerates them in their order.
LEMMA Enumerated ==
  ASSUME NEW S, IsFiniteSet(S), NEW down \in [S -> SUBSET S],
         \A x \in S : x \notin down[x],
         \A x, y \in S : x = y \/ x \in down[y] \/ y \in down[x],
         \A x, y \in S : x \in down[y] => down[x] \subseteq down[y],
         NEW f \in [1 .. Cardinality(S) -> S],
         \A k \in 1 .. Cardinality(S) : Cardinality(down[f[k]]) = k - 1
  PROVE  /\ f \in Seq(S) /\ Len(f) = Cardinality(S) /\ Len(f) \in Nat
         /\ \A x \in S : \E k \in 1 .. Len(f) : f[k] = x
         /\ \A i, j \in 1 .. Len(f) : i < j <=> f[i] \in down[f[j]]
<1> PICK n : n = Cardinality(S)
  OBVIOUS
<1>1. /\ n \in Nat
      /\ \A x \in S : Cardinality(down[x]) \in 0 .. n - 1
      /\ \A x, y \in S : x \in down[y] <=> Cardinality(down[x]) < Cardinality(down[y])
      /\ \A k \in 1 .. n : \E x \in S : Cardinality(down[x]) = k - 1
  BY Ranked
<1>2. \A k \in 1 .. n : f[k] \in S /\ Cardinality(down[f[k]]) = k - 1
  OBVIOUS
<1>3. f \in [1 .. n -> S]
  OBVIOUS
<1>4. f \in Seq(S) /\ Len(f) = n
  BY <1>1, <1>3, SeqDef, LenProperties
<1>5. ASSUME NEW x \in S
      PROVE  \E k \in 1 .. n : f[k] = x
  <2> PICK k : k = Cardinality(down[x]) + 1
    OBVIOUS
  <2>1. k \in 1 .. n /\ k - 1 = Cardinality(down[x])
    BY <1>1
  <2>2. f[k] \in S /\ Cardinality(down[f[k]]) = Cardinality(down[x])
    BY <1>2, <2>1
  <2>3. f[k] = x
    BY <1>1, <2>2
  <2> QED  BY <2>1, <2>3
<1>6. \A i, j \in 1 .. n : i < j <=> f[i] \in down[f[j]]
  BY <1>1, <1>2
<1> QED  BY <1>1, <1>4, <1>5, <1>6

\* ORDER BY lists each row of a finite set once; here the rows are numbers.
Ascending(S) == InOrderOf(S, LAMBDA a, b : a < b)

LEMMA AscendingOrder ==
  ASSUME NEW S \in SUBSET Nat, IsFiniteSet(S), NEW f, f = Ascending(S)
  PROVE  /\ f \in Seq(S) /\ Len(f) = Cardinality(S) /\ Len(f) \in Nat
         /\ \A x \in S : \E k \in 1 .. Len(f) : f[k] = x
<1> PICK down : down = [x \in S |-> {y \in S : y < x}]
  OBVIOUS
<1> PICK n : n = Cardinality(S)
  OBVIOUS
<1>1. /\ down \in [S -> SUBSET S]
      /\ \A x \in S : x \notin down[x]
      /\ \A x, y \in S : x = y \/ x \in down[y] \/ y \in down[x]
      /\ \A x, y \in S : x \in down[y] => down[x] \subseteq down[y]
  <2>1. down \in [S -> SUBSET S] /\ \A x, y \in S : x \in down[y] <=> x < y
    OBVIOUS
  <2>2. \A x, y, z \in S : x < y /\ y < z => x < z
    OBVIOUS
  <2>3. \A x, y \in S : (x = y \/ x < y \/ y < x) /\ ~(x < x)
    OBVIOUS
  <2> QED  BY <2>1, <2>2, <2>3
<1>0. IsFiniteSet(S) /\ n = Cardinality(S)
  OBVIOUS
<1>2. \A k \in 1 .. n : \E x \in S : Cardinality(down[x]) = k - 1
  BY ONLY <1>0, <1>1, Ranked
<1>3. ASSUME NEW k \in 1 .. n
      PROVE  f[k] \in S /\ Cardinality(down[f[k]]) = k - 1
  <2>1. f[k] = CHOOSE z \in S : Cardinality({y \in S : y < z}) = k - 1
    BY <1>0 DEF Ascending, InOrderOf
  <2>2. \E x \in S : Cardinality({y \in S : y < x}) = k - 1
    BY <1>2
  <2>3. f[k] \in S /\ Cardinality({y \in S : y < f[k]}) = k - 1
    BY <2>1, <2>2
  <2> QED  BY <2>3
<1>4. f \in [1 .. n -> S]
  <2>1. f = [k \in 1 .. n |-> CHOOSE z \in S : Cardinality({y \in S : y < z}) = k - 1]
    BY <1>0 DEF Ascending, InOrderOf
  <2> QED  BY <1>3, <2>1, Zenon
<1>5. f \in [1 .. Cardinality(S) -> S] /\ \A k \in 1 .. Cardinality(S) : Cardinality(down[f[k]]) = k - 1
  BY ONLY <1>0, <1>3, <1>4
<1>6. /\ f \in Seq(S) /\ Len(f) = Cardinality(S) /\ Len(f) \in Nat
      /\ \A x \in S : \E k \in 1 .. Len(f) : f[k] = x
      /\ \A i, j \in 1 .. Len(f) : i < j <=> f[i] \in down[f[j]]
  BY ONLY <1>0, <1>1, <1>5, Enumerated
<1> QED  BY <1>6

(***************************************************************************)
(* The importer reads the file in chunks and cuts it at markers, but what  *)
(* it holds is always a piece of the file that begins where a game does.   *)
(***************************************************************************)
Marks == EventOffsets(PgnFile)

LEMMA MarkAt ==
  ASSUME NEW s, NEW i
  PROVE  i \in EventOffsets(s) <=> /\ i \in 1 .. Len(s) - 1
                                   /\ i = 1 \/ s[i - 1] = "nl"
                                   /\ s[i] = "[" /\ s[i + 1] = "Event"
BY DEF EventOffsets

\* Between two markers there is room for the first one's game.
LEMMA MarksApart ==
  ASSUME NEW s, Len(s) \in Nat, NEW i \in EventOffsets(s), NEW j \in EventOffsets(s), i < j
  PROVE  i + 2 < j
<1>1. /\ i \in Nat /\ j \in Nat
      /\ s[i] = "[" /\ s[i + 1] = "Event" /\ s[j] = "[" /\ s[j - 1] = "nl"
  BY MarkAt
<1>2. "[" # "Event" /\ "[" # "nl" /\ "Event" # "nl"
  OBVIOUS
<1>3. j # i + 1
  BY <1>1, <1>2
<1>4. j - 1 # i + 1
  BY <1>1, <1>2
<1> QED  BY <1>1, <1>3, <1>4

\* What a piece of the file holds, and the markers it shows.
LEMMA PieceOf ==
  ASSUME NEW file, file \in Seq(ToSet(file)),
         NEW s \in Nat, NEW e \in Nat, s <= e, e <= Len(file)
  PROVE  LET buf == SubSeq(file, s + 1, e) IN
         /\ Len(file) \in Nat
         /\ buf \in Seq(ToSet(file)) /\ Len(buf) = e - s
         /\ \A i \in 1 .. e - s : buf[i] = file[s + i]
<1> PICK S : S = ToSet(file)
  OBVIOUS
<1> PICK buf : buf = SubSeq(file, s + 1, e)
  OBVIOUS
<1>1. file \in Seq(S) /\ Len(file) \in Nat /\ s + 1 \in 1 .. Len(file) + 1 /\ e \in s + 1 - 1 .. Len(file)
  BY LenProperties
<1>2. /\ buf \in Seq(S)
      /\ Len(buf) = IF s + 1 <= e THEN e - (s + 1) + 1 ELSE 0
      /\ \A i \in 1 .. e - (s + 1) + 1 : buf[i] = file[s + 1 + i - 1]
  BY <1>1, SubSeqProperties
<1> QED  BY <1>1, <1>2

LEMMA MarksOfPiece ==
  ASSUME NEW file, file \in Seq(ToSet(file)),
         NEW s \in Nat, NEW e \in Nat, s <= e, e <= Len(file),
         s = 0 \/ s + 1 \in EventOffsets(file)
  PROVE  \A i : i \in EventOffsets(SubSeq(file, s + 1, e)) <=>
                  i \in Nat \ {0} /\ i + s \in EventOffsets(file) /\ i + s + 1 <= e
<1> PICK buf : buf = SubSeq(file, s + 1, e)
  OBVIOUS
<1>1. Len(file) \in Nat /\ Len(buf) = e - s /\ \A i \in 1 .. e - s : buf[i] = file[s + i]
  BY PieceOf
<1> SUFFICES ASSUME NEW i
             PROVE  i \in EventOffsets(buf) <=>
                      i \in Nat \ {0} /\ i + s \in EventOffsets(file) /\ i + s + 1 <= e
  OBVIOUS
<1>2. ASSUME i \in 1 .. e - s - 1
      PROVE  i \in EventOffsets(buf) <=> i + s \in EventOffsets(file)
  <2> PICK o : o = i + s
    OBVIOUS
  <2>1. /\ o \in 1 .. Len(file) - 1 /\ i \in Nat /\ o \in Nat /\ i \in 1 .. Len(buf) - 1
        /\ buf[i] = file[o] /\ buf[i + 1] = file[o + 1]
    <3>1. i \in 1 .. e - s /\ i + 1 \in 1 .. e - s
      BY <1>2
    <3>2. buf[i] = file[s + i] /\ buf[i + 1] = file[s + (i + 1)]
      BY <1>1, <3>1
    <3>3. s + i = o /\ s + (i + 1) = o + 1
      BY <3>1
    <3> QED  BY <1>1, <1>2, <3>2, <3>3
  <2>2. i \in EventOffsets(buf) <=> (i = 1 \/ buf[i - 1] = "nl") /\ buf[i] = "[" /\ buf[i + 1] = "Event"
    BY ONLY <2>1, MarkAt, Zenon
  <2>3. o \in EventOffsets(file) <=> (o = 1 \/ file[o - 1] = "nl") /\ file[o] = "[" /\ file[o + 1] = "Event"
    BY <2>1, MarkAt
  <2>4. CASE i = 1 /\ s = 0
    BY <2>1, <2>2, <2>3, <2>4
  <2>5. CASE i = 1 /\ s # 0
    <3>1. o = s + 1 /\ o # 1
      BY <2>5
    <3>2. o \in EventOffsets(file)
      BY <2>5, <3>1
    <3> QED  BY <2>1, <2>2, <2>3, <2>5, <3>2
  <2>6. CASE i # 1
    <3>1. i - 1 \in 1 .. e - s /\ s + (i - 1) = o - 1 /\ o # 1
      BY <1>2, <2>6
    <3>2. buf[i - 1] = file[o - 1]
      BY <1>1, <3>1
    <3> QED  BY <2>1, <2>2, <2>3, <2>6, <3>1, <3>2
  <2> QED  BY <2>4, <2>5, <2>6
<1>3. i \in EventOffsets(buf) => i \in 1 .. e - s - 1
  BY <1>1, MarkAt
<1>4. i \in 1 .. e - s - 1 <=> i \in Nat \ {0} /\ i + s + 1 <= e
  OBVIOUS
<1> QED  BY <1>2, <1>3, <1>4

LEMMA GamesOfBlob ==
  ASSUME NEW x, Len(x) \in Nat
  PROVE  LET names == SplitGames(x) IN
         /\ IsFiniteSet(EventOffsets(x)) /\ EventOffsets(x) \in SUBSET Nat
         /\ names \in Seq(ToSet(names)) /\ Len(names) \in Nat
         /\ Len(names) = Cardinality(EventOffsets(x))
         /\ \A key : key \in ToSet(names) <=> \E o \in EventOffsets(x) : key = x[o + 2]
<1> PICK offs : offs = EventOffsets(x)
  OBVIOUS
<1>1. offs \in SUBSET Nat /\ IsFiniteSet(offs)
  <2>1. offs \in SUBSET (1 .. Len(x) - 1)
    BY DEF EventOffsets
  <2>2. 1 \in Int /\ Len(x) - 1 \in Int
    OBVIOUS
  <2>3. IsFiniteSet(1 .. Len(x) - 1)
    BY <2>2, FS_Interval
  <2> QED  BY <2>1, <2>3, FS_Subset
<1> PICK starts : starts = Ascending(offs)
  OBVIOUS
<1>2. /\ starts \in Seq(offs) /\ Len(starts) = Cardinality(offs) /\ Len(starts) \in Nat
      /\ \A p \in offs : \E k \in 1 .. Len(starts) : starts[k] = p
  BY <1>1, AscendingOrder
<1> PICK names : names = SplitGames(x)
  OBVIOUS
<1>3. names = [i \in 1 .. Cardinality(offs) |-> x[starts[i] + 2]]
  BY DEF SplitGames, Ascending
<1>4. /\ DOMAIN names = 1 .. Len(starts) /\ \A i \in 1 .. Len(starts) : names[i] = x[starts[i] + 2]
      /\ \A i \in 1 .. Len(starts) : names[i] \in ToSet(names)
  BY ONLY <1>2, <1>3 DEF ToSet
<1>5. \A i \in 1 .. Len(starts) : starts[i] \in offs
  BY ONLY <1>2, ElementOfSeq
<1>6. names \in Seq(ToSet(names)) /\ Len(names) = Cardinality(offs)
  <2> PICK T : T = ToSet(names)
    OBVIOUS
  <2>1. names = [i \in 1 .. Len(starts) |-> x[starts[i] + 2]]
    BY ONLY <1>2, <1>3
  <2>2. names \in [1 .. Len(starts) -> T]
    BY ONLY <1>4, <2>1, T = ToSet(names)
  <2>3. names \in Seq(T) /\ Len(names) = Len(starts)
    BY ONLY <1>2, <2>2, SeqDef, LenProperties
  <2> QED  BY <1>2, <2>3
<1>7. ASSUME NEW key
      PROVE  key \in ToSet(names) <=> \E o \in offs : key = x[o + 2]
  <2>1. key \in ToSet(names) <=> \E i \in 1 .. Len(starts) : key = x[starts[i] + 2]
    BY ONLY <1>4 DEF ToSet
  <2> QED  BY ONLY <1>2, <1>5, <2>1
<1> QED  BY <1>1, <1>2, <1>6, <1>7

(***************************************************************************)
(* The games before a place of the file, and those between two places.     *)
(***************************************************************************)
MarksBelow(p) == {o \in Marks : o <= p}
Boundary(p) == p = 0 \/ p = Len(PgnFile) \/ p + 1 \in Marks

LEMMA MarksBelowType ==
  /\ PgnFile \in Seq(ToSet(PgnFile)) /\ Len(PgnFile) \in Nat
  /\ Marks \in SUBSET Nat /\ IsFiniteSet(Marks) /\ Cardinality(Marks) \in Nat
  /\ \A o \in Marks : 1 <= o /\ o + 2 <= Len(PgnFile) /\ PgnFile[o + 2] \in DOMAIN DateOf
  /\ \A p : IsFiniteSet(MarksBelow(p)) /\ Cardinality(MarksBelow(p)) \in Nat
  /\ MarksBelow(0) = {} /\ Cardinality(MarksBelow(0)) = 0 /\ MarksBelow(Len(PgnFile)) = Marks
<1>1. PgnFile \in Seq(ToSet(PgnFile)) /\ Len(PgnFile) \in Nat
  <2> PICK S : S = ToSet(PgnFile)
    OBVIOUS
  <2> QED  BY LibraryAssumption, LenProperties
<1>2. Marks \in SUBSET Nat /\ IsFiniteSet(Marks) /\ Cardinality(Marks) \in Nat
  BY <1>1, GamesOfBlob, FS_CardinalityType DEF Marks
<1>3. \A o \in Marks : 1 <= o /\ o + 2 <= Len(PgnFile) /\ PgnFile[o + 2] \in DOMAIN DateOf
  BY FileAssumption, MarkAt, <1>1 DEF Marks
<1>4. \A p : IsFiniteSet(MarksBelow(p)) /\ Cardinality(MarksBelow(p)) \in Nat
  <2> SUFFICES ASSUME NEW p
               PROVE  IsFiniteSet(MarksBelow(p)) /\ Cardinality(MarksBelow(p)) \in Nat
    OBVIOUS
  <2>1. MarksBelow(p) \in SUBSET Marks
    BY DEF MarksBelow
  <2> QED  BY <1>2, <2>1, FS_Subset, FS_CardinalityType
<1>5. MarksBelow(0) = {} /\ MarksBelow(Len(PgnFile)) = Marks
  <2>1. \A o \in Marks : o \in Nat /\ ~(o <= 0) /\ o <= Len(PgnFile)
    BY <1>1, <1>2, <1>3
  <2>2. MarksBelow(0) = {}
    BY ONLY <2>1 DEF MarksBelow
  <2>3. MarksBelow(Len(PgnFile)) = Marks
    BY ONLY <2>1 DEF MarksBelow
  <2> QED  BY <2>2, <2>3
<1>6. Cardinality(MarksBelow(0)) = 0
  BY <1>5, FS_EmptySet
<1> QED  BY <1>1, <1>2, <1>3, <1>4, <1>5, <1>6

\* What is taken apart between two boundaries are the games between them.
LEMMA PieceGames ==
  ASSUME NEW s \in Nat, NEW e \in Nat, s <= e, e <= Len(PgnFile), Boundary(s), Boundary(e)
  PROVE  LET names == SplitGames(SubSeq(PgnFile, s + 1, e)) IN
         /\ names \in Seq(ToSet(names)) /\ Len(names) \in Nat
         /\ Cardinality(MarksBelow(s)) + Len(names) = Cardinality(MarksBelow(e))
         /\ \A o \in MarksBelow(e) : o \in MarksBelow(s) \/ PgnFile[o + 2] \in ToSet(names)
         /\ ToSet(names) \subseteq DOMAIN DateOf
<1> PICK buf : buf = SubSeq(PgnFile, s + 1, e)
  OBVIOUS
<1> PICK names : names = SplitGames(buf)
  OBVIOUS
<1> PICK between : between = {o \in Marks : s < o /\ o <= e}
  OBVIOUS
<1>1. /\ Len(PgnFile) \in Nat /\ Len(buf) = e - s
      /\ \A i \in 1 .. e - s : buf[i] = PgnFile[s + i]
  BY PieceOf, MarksBelowType
<1>2. \A o \in Marks : o \in Nat /\ 1 <= o /\ (o <= e => o + 2 <= e)
  <2> SUFFICES ASSUME NEW o \in Marks, o <= e
               PROVE  o + 2 <= e
    BY MarksBelowType
  <2>1. o \in Nat /\ 1 <= o /\ o + 2 <= Len(PgnFile)
    BY MarksBelowType
  <2>2. CASE e + 1 \in Marks
    <3>1. o < e + 1
      BY <2>1
    <3>2. o + 2 < e + 1
      BY <1>1, <2>2, <3>1, MarksApart DEF Marks
    <3> QED  BY <2>1, <3>2
  <2>3. CASE e = 0
    BY <2>1, <2>3
  <2> QED  BY <2>1, <2>2, <2>3 DEF Boundary
<1>3. \A i : i \in EventOffsets(buf) <=> i \in Nat \ {0} /\ i + s \in between
  <2>1. CASE s = Len(PgnFile)
    <3>1. Len(buf) = 0 /\ e = s
      BY <1>1, <2>1
    <3>2. EventOffsets(buf) = {}
      BY <3>1 DEF EventOffsets
    <3>3. between = {}
      BY <1>2, <3>1
    <3> QED  BY <3>2, <3>3
  <2>2. CASE s # Len(PgnFile)
    <3>1. \A i : i \in EventOffsets(buf) <=> i \in Nat \ {0} /\ i + s \in Marks /\ i + s + 1 <= e
      BY <2>2, MarksBelowType, MarksOfPiece DEF Boundary, Marks
    <3>2. \A i \in Nat \ {0} : i + s \in Marks => (i + s + 1 <= e <=> i + s <= e) /\ s < i + s
      BY <1>2
    <3> QED  BY <3>1, <3>2
  <2> QED  BY <2>1, <2>2
<1>4. /\ names \in Seq(ToSet(names)) /\ Len(names) \in Nat
      /\ IsFiniteSet(EventOffsets(buf)) /\ Len(names) = Cardinality(EventOffsets(buf))
      /\ \A key : key \in ToSet(names) <=> \E o \in EventOffsets(buf) : key = buf[o + 2]
  <2>1. Len(buf) \in Nat /\ names = SplitGames(buf)
    BY <1>1
  <2> QED  BY ONLY <2>1, GamesOfBlob
<1>5. Cardinality(between) = Len(names)
  <2> PICK shift : shift = [i \in EventOffsets(buf) |-> i + s]
    OBVIOUS
  <2>1. \A i \in EventOffsets(buf) : i \in Nat /\ i + s \in between
    BY <1>3
  <2>2. \A o \in between : o - s \in EventOffsets(buf) /\ o - s + s = o
    <3> SUFFICES ASSUME NEW o \in between
                 PROVE  o - s \in EventOffsets(buf) /\ o - s + s = o
      OBVIOUS
    <3>1. o \in Nat /\ o - s \in Nat \ {0} /\ o - s + s = o
      BY <1>2
    <3> QED  BY <1>3, <3>1
  <2>3. shift \in Bijection(EventOffsets(buf), between)
    BY <2>1, <2>2 DEF Bijection, Injection, Surjection, IsInjective
  <2>4. ExistsBijection(EventOffsets(buf), between)
    BY <2>3 DEF ExistsBijection
  <2> QED  BY <1>4, <2>4, FS_Bijection
<1>6. Cardinality(MarksBelow(s)) + Len(names) = Cardinality(MarksBelow(e))
  <2>1. MarksBelow(e) = MarksBelow(s) \cup between /\ MarksBelow(s) \cap between = {}
    BY <1>2 DEF MarksBelow
  <2>2. IsFiniteSet(MarksBelow(s)) /\ IsFiniteSet(between) /\ Cardinality(MarksBelow(s)) \in Nat
    <3>1. between \in SUBSET Marks
      OBVIOUS
    <3> QED  BY <3>1, MarksBelowType, FS_Subset
  <2>3. Cardinality({}) = 0
    BY FS_EmptySet
  <2>4. Cardinality(MarksBelow(e)) = Cardinality(MarksBelow(s)) + Cardinality(between) - Cardinality({})
    BY <2>1, <2>2, FS_Union
  <2> QED  BY <1>4, <1>5, <2>2, <2>3, <2>4
<1>7. \A o \in between : PgnFile[o + 2] \in ToSet(names)
  <2> SUFFICES ASSUME NEW o \in between
               PROVE  PgnFile[o + 2] \in ToSet(names)
    OBVIOUS
  <2>1. o \in Nat /\ o + 2 <= e /\ o - s \in Nat \ {0} /\ o - s + s = o
    BY <1>2
  <2>2. o - s \in EventOffsets(buf)
    BY <1>3, <2>1
  <2>3. o - s + 2 \in 1 .. e - s /\ s + (o - s + 2) = o + 2
    BY <2>1
  <2>4. buf[o - s + 2] = PgnFile[o + 2]
    BY <1>1, <2>3
  <2> QED  BY <1>4, <2>2, <2>4
<1>8. ToSet(names) \subseteq DOMAIN DateOf
  <2> SUFFICES ASSUME NEW key \in ToSet(names)
               PROVE  key \in DOMAIN DateOf
    OBVIOUS
  <2> PICK i \in EventOffsets(buf) : key = buf[i + 2]
    BY <1>4
  <2>1. i \in Nat \ {0} /\ i + s \in Marks /\ i + s + 2 <= e
    BY <1>2, <1>3
  <2>2. i + 2 \in 1 .. e - s /\ s + (i + 2) = i + s + 2
    BY <2>1
  <2>3. buf[i + 2] = PgnFile[i + s + 2]
    BY <1>1, <2>2
  <2> QED  BY <2>1, <2>3, MarksBelowType
<1>9. \A o \in MarksBelow(e) : o \in MarksBelow(s) \/ o \in between
  BY <1>2 DEF MarksBelow
<1> QED  BY <1>4, <1>6, <1>7, <1>8, <1>9

(***************************************************************************)
(* A run accounts for every game before the place it cuts the file at: it  *)
(* is refused, stored or deleted since, in the batch or still to be done.  *)
(***************************************************************************)
GameNames == DOMAIN DateOf
Stages == {"idle", "create", "read", "tail", "failed", "done"}
Reports == [imported : Nat, duplicates : Nat, errors : Nat]
RunRecords ==
  [pc : Stages, db : Nat, at : Nat, buf : Seq(ToSet(PgnFile)), todo : Seq(GameNames), seen : SUBSET GameNames,
   batch : Seq(GameNames), report : Reports]
Reached(d) == GameKeys(d) \cup dropped

From(r) == r.at - Len(r.buf)
Reading(r) ==
  /\ r.at <= Len(PgnFile) /\ From(r) \in 0 .. r.at /\ Boundary(From(r))
  /\ r.buf = SubSeq(PgnFile, From(r) + 1, r.at)
Taken(r) == IF r.pc = "read" THEN MarksBelow(From(r)) ELSE Marks
Total(x) == x.imported + x.duplicates + x.errors
CountsUp(r) == Total(r.report) + Len(r.batch) + Len(r.todo) = Cardinality(Taken(r))
Settled(r, D) == Unreadable \cup Illegal \cup D \cup ToSet(r.batch)
Complete(r, D) ==
  /\ r.seen \subseteq Settled(r, D)
  /\ \A o \in Taken(r) : PgnFile[o + 2] \in Settled(r, D) \cup ToSet(r.todo)
RunSound(r, D) ==
  /\ r \in RunRecords
  /\ r.pc = "create" => r = [NoRun EXCEPT !.pc = "create"]
  /\ r.pc = "read" => Reading(r)
  /\ r.pc = "done" => r.batch = <<>> /\ r.todo = <<>>
  /\ r.pc \in {"read", "tail", "done"} => CountsUp(r) /\ Complete(r, D)
TInv == /\ nextDatabase \in Nat /\ DOMAIN databases \subseteq Nat
        /\ \A g \in DOMAIN games : games[g].key \in GameNames
        /\ \A b \in Importers : RunSound(bulk[b], Reached(bulk[b].db))

LEMMA Totals ==
  ASSUME NEW x \in Reports
  PROVE  /\ Total(x) \in Nat
         /\ LET y == [x EXCEPT !.errors = x.errors + 1]
            IN  y \in Reports /\ Total(y) = Total(x) + 1
         /\ LET y == [x EXCEPT !.duplicates = x.duplicates + 1]
            IN  y \in Reports /\ Total(y) = Total(x) + 1
         /\ \A n \in Nat : LET y == [x EXCEPT !.imported = x.imported + n]
                          IN  y \in Reports /\ Total(y) = Total(x) + n
BY DEF Reports, Total

LEMMA SeqFacts ==
  ASSUME NEW S, NEW s \in Seq(S)
  PROVE  /\ Len(s) \in Nat /\ DOMAIN s = 1 .. Len(s) /\ ToSet(s) \in SUBSET S
         /\ \A e \in S : /\ Append(s, e) \in Seq(S) /\ Len(Append(s, e)) = Len(s) + 1
                         /\ ToSet(Append(s, e)) = ToSet(s) \cup {e}
         /\ s # <<>> => /\ Head(s) \in S /\ Tail(s) \in Seq(S) /\ Len(s) = Len(Tail(s)) + 1
                        /\ Len(Tail(s)) \in Nat
                        /\ ToSet(s) = ToSet(Tail(s)) \cup {Head(s)}
<1>1. Len(s) \in Nat /\ DOMAIN s = 1 .. Len(s) /\ \A i \in 1 .. Len(s) : s[i] \in S
  BY LenProperties, ElementOfSeq
<1>2. ToSet(s) \in SUBSET S
  BY <1>1 DEF ToSet
<1>3. ASSUME NEW e \in S
      PROVE  /\ Append(s, e) \in Seq(S) /\ Len(Append(s, e)) = Len(s) + 1
             /\ ToSet(Append(s, e)) = ToSet(s) \cup {e}
  <2> PICK t : t = Append(s, e)
    OBVIOUS
  <2>1. /\ t \in Seq(S) /\ Len(t) = Len(s) + 1 /\ DOMAIN t = 1 .. Len(s) + 1
        /\ \A i \in 1 .. Len(s) + 1 : t[i] = IF i <= Len(s) THEN s[i] ELSE e
    BY <1>1, AppendProperties, LenProperties
  <2>2. \A i \in DOMAIN t : t[i] = e \/ (i \in DOMAIN s /\ t[i] = s[i])
    BY <1>1, <2>1
  <2>3. \A i \in DOMAIN s : i \in DOMAIN t /\ t[i] = s[i]
    BY <1>1, <2>1
  <2>4. Len(s) + 1 \in DOMAIN t /\ t[Len(s) + 1] = e
    BY <1>1, <2>1
  <2>5. ToSet(t) = ToSet(s) \cup {e}
    BY ONLY <2>2, <2>3, <2>4 DEF ToSet
  <2> QED  BY <2>1, <2>5
<1>4. ASSUME s # <<>>
      PROVE  /\ Head(s) \in S /\ Tail(s) \in Seq(S) /\ Len(s) = Len(Tail(s)) + 1
             /\ Len(Tail(s)) \in Nat
             /\ ToSet(s) = ToSet(Tail(s)) \cup {Head(s)}
  <2> PICK t : t = Tail(s)
    OBVIOUS
  <2>1. /\ Head(s) \in S /\ t \in Seq(S) /\ Len(s) # 0 /\ Len(t) = Len(s) - 1
        /\ Head(s) = s[1] /\ \A i \in 1 .. Len(s) - 1 : t[i] = s[i + 1]
    BY <1>1, <1>4, HeadTailProperties, EmptySeq, ElementOfSeq
  <2>2. DOMAIN t = 1 .. Len(s) - 1
    BY <2>1, LenProperties
  <2>3. \A i \in DOMAIN s : i = 1 \/ (i - 1 \in DOMAIN t /\ t[i - 1] = s[i])
    BY <1>1, <2>1, <2>2
  <2>4. \A i \in DOMAIN t : i + 1 \in DOMAIN s /\ t[i] = s[i + 1]
    BY <1>1, <2>1, <2>2
  <2>5. 1 \in DOMAIN s /\ s[1] = Head(s)
    BY <1>1, <2>1
  <2>6. ToSet(s) = ToSet(t) \cup {Head(s)}
    BY ONLY <2>3, <2>4, <2>5 DEF ToSet
  <2> QED  BY <1>1, <2>1, <2>6
<1> QED  BY <1>1, <1>2, <1>3, <1>4

LEMMA GreatestMark ==
  ASSUME NEW S \in SUBSET Nat, IsFiniteSet(S), Cardinality(S) >= 1
  PROVE  \E i \in S : \A j \in S : j <= i
<1> PICK down : down = [x \in S |-> {y \in S : y < x}]
  OBVIOUS
<1>1. /\ down \in [S -> SUBSET S]
      /\ \A x \in S : x \notin down[x]
      /\ \A x, y \in S : x = y \/ x \in down[y] \/ y \in down[x]
      /\ \A x, y \in S : x \in down[y] => down[x] \subseteq down[y]
  <2>1. down \in [S -> SUBSET S] /\ \A x, y \in S : x \in down[y] <=> x < y
    OBVIOUS
  <2>2. \A x, y, z \in S : x < y /\ y < z => x < z
    OBVIOUS
  <2>3. \A x, y \in S : (x = y \/ x < y \/ y < x) /\ ~(x < x)
    OBVIOUS
  <2> QED  BY <2>1, <2>2, <2>3
<1>2. /\ Cardinality(S) \in Nat
      /\ \A x \in S : Cardinality(down[x]) \in 0 .. Cardinality(S) - 1
      /\ \A x, y \in S : x \in down[y] <=> Cardinality(down[x]) < Cardinality(down[y])
      /\ \A k \in 1 .. Cardinality(S) : \E x \in S : Cardinality(down[x]) = k - 1
  <2>1. IsFiniteSet(S)
    OBVIOUS
  <2> QED  BY ONLY <1>1, <2>1, Ranked
<1>3. PICK x \in S : Cardinality(down[x]) = Cardinality(S) - 1
  BY <1>2
<1>4. \A y \in S : x \notin down[y]
  BY <1>2, <1>3
<1>5. \A y \in S : y <= x
  BY <1>4
<1> QED  BY <1>5

LEMMA PieceGrows ==
  ASSUME NEW s \in Nat, NEW a \in Nat, NEW n \in Nat, s <= a, a + n <= Len(PgnFile)
  PROVE  SubSeq(PgnFile, s + 1, a) \o SubSeq(PgnFile, a + 1, a + n) = SubSeq(PgnFile, s + 1, a + n)
<1> PICK S : S = ToSet(PgnFile)
  OBVIOUS
<1>1. PgnFile \in Seq(S) /\ Len(PgnFile) \in Nat
  BY MarksBelowType
<1> QED  BY <1>1, ConcatAdjacentSubSeq

LEMMA PieceOfPiece ==
  ASSUME NEW s \in Nat, NEW e \in Nat, s <= e, e <= Len(PgnFile),
         NEW m \in 1 .. e - s + 1, NEW k \in m - 1 .. e - s
  PROVE  SubSeq(SubSeq(PgnFile, s + 1, e), m, k) = SubSeq(PgnFile, s + m, s + k)
<1> PICK S : S = ToSet(PgnFile)
  OBVIOUS
<1>1. PgnFile \in Seq(S) /\ Len(PgnFile) \in Nat
  BY MarksBelowType
<1> QED  BY <1>1, SubSeqOfSubSeq

\* One read: what it takes apart and what it keeps are pieces of the file.
LEMMA ReadKeeps ==
  ASSUME NEW b \in Importers, NEW D, RunSound(bulk[b], D), ReadChunk(b)
  PROVE  \E run : bulk' = [bulk EXCEPT ![b] = run] /\ RunSound(run, D) /\ run.db = bulk[b].db
<1> PICK r : r = bulk[b]
  OBVIOUS
<1> DEFINE rest == Len(PgnFile) - r.at
           n    == IF rest < ChunkSize THEN rest ELSE ChunkSize
           s    == From(r)
           e    == r.at + n
           buf  == r.buf \o SubSeq(PgnFile, r.at + 1, r.at + n)
           offs == EventOffsets(buf)
           last == CHOOSE i \in offs : \A j \in offs : j <= i
           tail == [r EXCEPT !.pc = "tail", !.todo = SplitGames(buf), !.buf = <<>>]
           cut  == [r EXCEPT !.at = r.at + n, !.todo = SplitGames(SubSeq(buf, 1, last - 1)),
                             !.buf = SubSeq(buf, last, Len(buf))]
           more == [r EXCEPT !.at = r.at + n, !.buf = buf]
<1>1. /\ bulk' = [bulk EXCEPT ![b] = IF n = 0 THEN tail ELSE IF Cardinality(offs) >= 2 THEN cut ELSE more]
      /\ r.pc = "read" /\ r.todo = <<>>
  BY DEF ReadChunk, Run, Running
<1>2. /\ r \in RunRecords /\ Reading(r) /\ CountsUp(r) /\ Complete(r, D) /\ Taken(r) = MarksBelow(s)
  BY <1>1 DEF RunSound, Taken
<1>3. /\ Len(PgnFile) \in Nat /\ r.at \in Nat /\ n \in Nat /\ e \in Nat /\ s \in Nat
      /\ s <= r.at /\ r.at <= e /\ e <= Len(PgnFile) /\ (n = 0 => e = Len(PgnFile) /\ e = r.at) /\ Boundary(s)
  <2>1. Len(PgnFile) \in Nat /\ r.at \in Nat /\ r.at <= Len(PgnFile) /\ ChunkSize \in Nat \ {0}
    BY <1>2, MarksBelowType, LibraryAssumption DEF RunRecords, Reading
  <2>2. s \in 0 .. r.at /\ Boundary(s)
    BY <1>2 DEF Reading
  <2> QED  BY <2>1, <2>2
<1>4. buf = SubSeq(PgnFile, s + 1, e)
  <2>1. r.buf = SubSeq(PgnFile, s + 1, r.at)
    BY <1>2 DEF Reading
  <2>2. r.at + n <= Len(PgnFile)
    BY <1>3
  <2> HIDE DEF s, n
  <2>3. SubSeq(PgnFile, s + 1, r.at) \o SubSeq(PgnFile, r.at + 1, r.at + n) = SubSeq(PgnFile, s + 1, r.at + n)
    BY ONLY <1>3, <2>2, PieceGrows
  <2> QED  BY <2>1, <2>3
<1>5. /\ Total(r.report) \in Nat /\ Len(r.batch) \in Nat /\ Len(r.todo) = 0 /\ ToSet(r.todo) = {}
      /\ Total(r.report) + Len(r.batch) = Cardinality(MarksBelow(s))
      /\ r.seen \subseteq Settled(r, D) /\ \A o \in MarksBelow(s) : PgnFile[o + 2] \in Settled(r, D)
  <2>1. Len(r.todo) = 0 /\ ToSet(r.todo) = {}
    BY <1>1 DEF ToSet
  <2>2. Len(r.batch) \in Nat
    BY <1>2, SeqFacts DEF RunRecords
  <2>3. Total(r.report) \in Nat
    BY <1>2, Totals DEF RunRecords
  <2>4. r.seen \subseteq Settled(r, D) /\ \A o \in MarksBelow(s) : PgnFile[o + 2] \in Settled(r, D)
    BY ONLY <1>2, <2>1 DEF Complete
  <2>5. Total(r.report) + Len(r.batch) + 0 = Cardinality(MarksBelow(s))
    BY ONLY <1>2, <2>1 DEF CountsUp
  <2> QED  BY ONLY <2>1, <2>2, <2>3, <2>4, <2>5
<1> HIDE DEF n, s, e, buf, offs, last
<1>6. ASSUME n = 0
      PROVE  RunSound(tail, D) /\ tail.db = r.db
  <2> PICK names : names = SplitGames(buf)
    OBVIOUS
  <2>1. /\ names \in Seq(ToSet(names)) /\ Len(names) \in Nat
        /\ Cardinality(MarksBelow(s)) + Len(names) = Cardinality(MarksBelow(e))
        /\ \A o \in MarksBelow(e) : o \in MarksBelow(s) \/ PgnFile[o + 2] \in ToSet(names)
        /\ ToSet(names) \subseteq GameNames
    BY <1>3, <1>4, <1>6, PieceGames DEF Boundary, GameNames
  <2>2. MarksBelow(e) = Marks
    BY <1>3, <1>6, MarksBelowType
  <2>3. /\ tail.pc = "tail" /\ tail.todo = names /\ tail.db = r.db /\ tail.batch = r.batch
        /\ tail.seen = r.seen /\ tail.report = r.report
    BY <1>2 DEF RunRecords
  <2>4. names \in Seq(GameNames)
    BY <2>1, SeqMonotonic
  <2>5. tail \in RunRecords
    BY <1>2, <2>4, EmptySeq DEF RunRecords, Stages
  <2> HIDE DEF tail
  <2>6. Taken(tail) = MarksBelow(e) /\ Settled(tail, D) = Settled(r, D)
    BY <2>2, <2>3 DEF Taken, Settled
  <2>7. CountsUp(tail)
    BY <1>5, <2>1, <2>3, <2>6 DEF CountsUp
  <2>8. Complete(tail, D)
    BY <1>5, <2>1, <2>3, <2>6 DEF Complete
  <2> QED  BY <2>3, <2>5, <2>7, <2>8 DEF RunSound
<1>7. ASSUME n # 0, Cardinality(offs) >= 2
      PROVE  RunSound(cut, D) /\ cut.db = r.db
  <2>1. /\ Len(buf) = e - s /\ IsFiniteSet(offs) /\ offs \in SUBSET Nat
        /\ \A i : i \in offs => i \in Nat \ {0} /\ i + s \in Marks
    <3>1. Len(buf) = e - s /\ Len(buf) \in Nat
      <4>1. Len(SubSeq(PgnFile, s + 1, e)) = e - s
        BY ONLY <1>3, PieceOf, MarksBelowType
      <4> QED  BY <1>3, <1>4, <4>1
    <3>2. IsFiniteSet(offs) /\ offs \in SUBSET Nat
      BY <3>1, GamesOfBlob DEF offs
    <3>3. CASE s = Len(PgnFile)
      <4>1. e - s = 0
        BY <1>3, <3>3
      <4>2. offs = {}
        BY <3>1, <4>1 DEF offs, EventOffsets
      <4> QED  BY <3>1, <3>2, <4>2
    <3>4. CASE s # Len(PgnFile)
      BY <1>3, <1>4, <3>1, <3>2, <3>4, MarksBelowType, MarksOfPiece DEF Boundary, Marks, offs
    <3> QED  BY <3>3, <3>4
  <2>2. last \in offs
    <3>1. \E i \in offs : \A j \in offs : j <= i
      <4>1. Cardinality(offs) >= 1
        BY <1>7, <2>1, FS_CardinalityType
      <4> QED  BY <2>1, <4>1, GreatestMark
    <3> QED  BY <3>1 DEF last
  <2> PICK c : c = s + last - 1
    OBVIOUS
  <2>3. /\ last \in Nat \ {0} /\ last \in 1 .. e - s /\ c \in Nat /\ c + 1 = last + s
        /\ s <= c /\ c <= e /\ c + 1 \in Marks
    <3>1. last \in Nat \ {0} /\ last + s \in Marks
      BY <2>1, <2>2
    <3>2. last \in 1 .. Len(buf) - 1
      BY <2>2, MarkAt DEF offs
    <3> QED  BY <1>3, <2>1, <3>1, <3>2
  <2> PICK names : names = SplitGames(SubSeq(buf, 1, last - 1))
    OBVIOUS
  <2>4. SubSeq(buf, 1, last - 1) = SubSeq(PgnFile, s + 1, c)
    <3>1. 1 \in 1 .. e - s + 1 /\ last - 1 \in 1 - 1 .. e - s /\ s + (last - 1) = c
      BY <1>3, <2>3
    <3>2. SubSeq(SubSeq(PgnFile, s + 1, e), 1, last - 1) = SubSeq(PgnFile, s + 1, s + (last - 1))
      BY ONLY <1>3, <3>1, PieceOfPiece
    <3> QED  BY <1>4, <3>1, <3>2
  <2>5. SubSeq(buf, last, Len(buf)) = SubSeq(PgnFile, c + 1, e)
    <3>1. last \in 1 .. e - s + 1 /\ e - s \in last - 1 .. e - s /\ s + last = c + 1 /\ s + (e - s) = e
      BY <1>3, <2>3
    <3>2. SubSeq(SubSeq(PgnFile, s + 1, e), last, e - s) = SubSeq(PgnFile, s + last, s + (e - s))
      BY <1>3, <3>1, PieceOfPiece
    <3> QED  BY <1>4, <2>1, <3>1, <3>2
  <2>6. /\ names \in Seq(ToSet(names)) /\ Len(names) \in Nat
        /\ Cardinality(MarksBelow(s)) + Len(names) = Cardinality(MarksBelow(c))
        /\ \A o \in MarksBelow(c) : o \in MarksBelow(s) \/ PgnFile[o + 2] \in ToSet(names)
        /\ ToSet(names) \subseteq GameNames
    <3>1. c \in Nat /\ s \in Nat /\ s <= c /\ c <= Len(PgnFile) /\ Boundary(s) /\ Boundary(c)
      BY <1>3, <2>3 DEF Boundary
    <3>2. names = SplitGames(SubSeq(PgnFile, s + 1, c))
      BY <2>4
    <3> QED  BY ONLY <3>1, <3>2, PieceGames DEF GameNames
  <2> PICK kept : kept = SubSeq(buf, last, Len(buf))
    OBVIOUS
  <2>7. kept = SubSeq(PgnFile, c + 1, e) /\ kept \in Seq(ToSet(PgnFile)) /\ Len(kept) = e - c
    BY <1>3, <2>3, <2>5, PieceOf, MarksBelowType
  <2>8. /\ cut.pc = "read" /\ cut.todo = names /\ cut.db = r.db /\ cut.batch = r.batch
        /\ cut.seen = r.seen /\ cut.report = r.report /\ cut.at = e /\ cut.buf = kept
    BY <1>1, <1>2 DEF RunRecords, e
  <2>9. names \in Seq(GameNames)
    BY <2>6, SeqMonotonic
  <2>10. cut \in RunRecords
    BY <1>2, <1>3, <2>7, <2>9 DEF RunRecords, Stages, e
  <2> HIDE DEF cut
  <2>11. From(cut) = c
    BY <1>3, <2>3, <2>7, <2>8 DEF From
  <2>12. Taken(cut) = MarksBelow(c) /\ Settled(cut, D) = Settled(r, D)
    BY <2>8, <2>11 DEF Taken, Settled
  <2>13. Reading(cut)
    BY <1>3, <2>3, <2>7, <2>8, <2>11 DEF Reading, Boundary
  <2>14. CountsUp(cut)
    BY <1>5, <2>6, <2>8, <2>12 DEF CountsUp
  <2>15. Complete(cut, D)
    BY <1>5, <2>6, <2>8, <2>12 DEF Complete
  <2> QED  BY <2>8, <2>10, <2>13, <2>14, <2>15 DEF RunSound
<1>8. ASSUME n # 0
      PROVE  RunSound(more, D) /\ more.db = r.db
  <2>1. buf \in Seq(ToSet(PgnFile)) /\ Len(buf) = e - s
    BY <1>3, <1>4, PieceOf, MarksBelowType
  <2>2. /\ more.pc = "read" /\ more.todo = r.todo /\ more.db = r.db /\ more.batch = r.batch
        /\ more.seen = r.seen /\ more.report = r.report /\ more.at = e /\ more.buf = buf
    BY <1>1, <1>2 DEF RunRecords, e
  <2>3. more \in RunRecords
    BY <1>2, <1>3, <2>1 DEF RunRecords, e
  <2> HIDE DEF more
  <2>4. From(more) = s
    BY <1>3, <2>1, <2>2 DEF From
  <2>5. Taken(more) = MarksBelow(s) /\ Settled(more, D) = Settled(r, D)
    BY <2>2, <2>4 DEF Taken, Settled
  <2>6. Reading(more)
    BY <1>3, <1>4, <2>2, <2>4 DEF Reading
  <2>7. CountsUp(more)
    BY ONLY <1>5, <2>2, <2>5 DEF CountsUp
  <2>8. Complete(more, D)
    BY <1>5, <2>2, <2>5 DEF Complete
  <2> QED  BY <2>2, <2>3, <2>6, <2>7, <2>8 DEF RunSound
<1> HIDE DEF tail, cut, more
<1> QED  BY <1>1, <1>6, <1>7, <1>8

\* A game leaves the ones to be done for the place its fate gives it.
LEMMA ProcessKeeps ==
  ASSUME NEW b \in Importers, RunSound(bulk[b], Reached(bulk[b].db)), ProcessGame(b)
  PROVE  \E run : /\ bulk' = [bulk EXCEPT ![b] = run] /\ RunSound(run, Reached(run.db))
                  /\ run.db = bulk[b].db
<1> PICK r : r = bulk[b]
  OBVIOUS
<1> PICK D : D = Reached(r.db)
  OBVIOUS
<1> DEFINE key == Head(r.todo)
           on  == [r EXCEPT !.todo = Tail(r.todo)]
           marked == [on EXCEPT !.seen = r.seen \cup {key}]
           refused == [on EXCEPT !.report.errors = r.report.errors + 1]
           known   == [marked EXCEPT !.report.duplicates = r.report.duplicates + 1]
           illegal == [marked EXCEPT !.report.errors = r.report.errors + 1]
           kept    == [marked EXCEPT !.batch = Append(r.batch, key)]
<1>1. /\ r.pc \in {"read", "tail"} /\ r.todo # <<>>
      /\ bulk' = [bulk EXCEPT ![b] = IF key \in Unreadable THEN refused
                                     ELSE IF key \in r.seen \cup GameKeys(r.db) THEN known
                                     ELSE IF key \in Illegal THEN illegal ELSE kept]
  BY DEF ProcessGame, Run
<1>2. r \in RunRecords /\ CountsUp(r) /\ Complete(r, D) /\ (r.pc = "read" => Reading(r))
  BY <1>1 DEF RunSound
<1>3. /\ key \in GameNames /\ Tail(r.todo) \in Seq(GameNames) /\ Len(r.todo) = Len(Tail(r.todo)) + 1
      /\ Len(Tail(r.todo)) \in Nat /\ ToSet(r.todo) = ToSet(Tail(r.todo)) \cup {key}
      /\ Len(r.batch) \in Nat /\ Append(r.batch, key) \in Seq(GameNames)
      /\ Len(Append(r.batch, key)) = Len(r.batch) + 1
      /\ ToSet(Append(r.batch, key)) = ToSet(r.batch) \cup {key}
  BY <1>1, <1>2, SeqFacts DEF RunRecords
<1>4. /\ Total(r.report) \in Nat /\ Cardinality(Taken(r)) \in Nat
      /\ Total(r.report) + Len(r.batch) + Len(r.todo) = Cardinality(Taken(r))
  <2>1. Total(r.report) \in Nat
    BY <1>2, Totals DEF RunRecords
  <2>2. Cardinality(Taken(r)) \in Nat
    BY MarksBelowType DEF Taken
  <2> QED  BY ONLY <1>2, <2>1, <2>2 DEF CountsUp
<1> DEFINE more  == [r.report EXCEPT !.errors = r.report.errors + 1]
           twice == [r.report EXCEPT !.duplicates = r.report.duplicates + 1]
<1>10. /\ more \in Reports /\ Total(more) = Total(r.report) + 1
       /\ twice \in Reports /\ Total(twice) = Total(r.report) + 1
       /\ r.seen \cup {key} \in SUBSET GameNames
  <2>1. r.report \in Reports /\ r.seen \in SUBSET GameNames
    BY <1>2 DEF RunRecords
  <2> QED  BY <1>3, <2>1, Totals
<1>11. /\ Total(more) + Len(r.batch) = Total(r.report) + Len(r.batch) + 1
       /\ Total(twice) + Len(r.batch) = Total(r.report) + Len(r.batch) + 1
       /\ Total(r.report) + Len(Append(r.batch, key)) = Total(r.report) + Len(r.batch) + 1
  <2>1. Total(r.report) \in Nat /\ Len(r.batch) \in Nat
    BY ONLY <1>3, <1>4
  <2>2. /\ Total(more) = Total(r.report) + 1 /\ Total(twice) = Total(r.report) + 1
        /\ Len(Append(r.batch, key)) = Len(r.batch) + 1
    BY ONLY <1>3, <1>10
  <2> QED  BY ONLY <2>1, <2>2
<1> HIDE DEF more, twice
<1>5. ASSUME NEW run \in RunRecords,
             run.pc = r.pc, run.at = r.at, run.buf = r.buf, run.db = r.db, run.todo = Tail(r.todo),
             r.seen \subseteq run.seen, run.seen \subseteq r.seen \cup {key},
             key \in Settled(run, D), Settled(r, D) \subseteq Settled(run, D),
             Total(run.report) + Len(run.batch) = Total(r.report) + Len(r.batch) + 1
      PROVE  RunSound(run, D)
  <2>1. Taken(run) = Taken(r) /\ (run.pc = "read" => Reading(run))
    BY <1>2, <1>5 DEF Taken, From, Reading
  <2>2. CountsUp(run)
    <3>1. Total(run.report) \in Nat /\ Len(run.batch) \in Nat
      BY Totals, SeqFacts DEF RunRecords
    <3>2. \A u, v, w, x, y, z, n \in Nat :
            (u + v = w + x + 1 /\ y = z + 1 /\ w + x + y = n) => u + v + z = n
      OBVIOUS
    <3>3. Len(r.batch) \in Nat /\ Len(r.todo) \in Nat
      BY <1>3
    <3>4. /\ Total(run.report) + Len(run.batch) = Total(r.report) + Len(r.batch) + 1
          /\ Len(r.todo) = Len(Tail(r.todo)) + 1 /\ Len(Tail(r.todo)) \in Nat
      BY ONLY <1>3, <1>5
    <3>5. Total(run.report) + Len(run.batch) + Len(Tail(r.todo)) = Cardinality(Taken(r))
      BY ONLY <1>4, <3>1, <3>2, <3>3, <3>4
    <3> QED  BY ONLY <1>5, <2>1, <3>5 DEF CountsUp
  <2>3. Complete(run, D)
    <3>1. r.seen \subseteq Settled(r, D)
      BY <1>2 DEF Complete
    <3>2. \A o \in Taken(r) : PgnFile[o + 2] \in Settled(r, D) \cup ToSet(r.todo)
      BY <1>2 DEF Complete
    <3> QED  BY <1>3, <1>5, <2>1, <3>1, <3>2 DEF Complete
  <2> QED  BY <1>1, <1>5, <2>1, <2>2, <2>3 DEF RunSound
<1>6. ASSUME key \in Unreadable
      PROVE  RunSound(refused, D) /\ refused.db = r.db
  <2>1. /\ refused.pc = r.pc /\ refused.at = r.at /\ refused.buf = r.buf /\ refused.db = r.db
        /\ refused.todo = Tail(r.todo) /\ refused.seen = r.seen /\ refused.batch = r.batch
        /\ refused.report = more
    BY <1>2 DEF RunRecords, more
  <2>2. refused = [r EXCEPT !.todo = Tail(r.todo), !.report = more]
    BY <1>2 DEF RunRecords, more
  <2>3. refused \in RunRecords
    BY ONLY <1>2, <1>3, <1>10, <2>2 DEF RunRecords
  <2> HIDE DEF refused, key
  <2>4. key \in Settled(refused, D) /\ Settled(r, D) \subseteq Settled(refused, D)
    BY <1>6, <2>1 DEF Settled
  <2>5. /\ r.seen \subseteq refused.seen /\ refused.seen \subseteq r.seen \cup {key}
        /\ Total(refused.report) + Len(refused.batch) = Total(r.report) + Len(r.batch) + 1
    <3>1. r.seen \subseteq refused.seen /\ refused.seen \subseteq r.seen \cup {key}
      BY ONLY <2>1
    <3> QED  BY ONLY <1>11, <2>1, <3>1
  <2> QED  BY ONLY <1>5, <2>1, <2>3, <2>4, <2>5
<1>7. ASSUME key \in r.seen \cup GameKeys(r.db)
      PROVE  RunSound(known, D) /\ known.db = r.db
  <2>1. /\ known.pc = r.pc /\ known.at = r.at /\ known.buf = r.buf /\ known.db = r.db
        /\ known.todo = Tail(r.todo) /\ known.seen = r.seen \cup {key} /\ known.batch = r.batch
        /\ known.report = twice
    BY <1>2 DEF RunRecords, twice
  <2>2. known = [r EXCEPT !.todo = Tail(r.todo), !.seen = r.seen \cup {key}, !.report = twice]
    BY <1>2 DEF RunRecords, twice
  <2>3. known \in RunRecords
    BY ONLY <1>2, <1>3, <1>10, <2>2 DEF RunRecords
  <2> HIDE DEF known, key
  <2>4. key \in Settled(known, D) /\ Settled(r, D) \subseteq Settled(known, D)
    <3>1. r.seen \subseteq Settled(r, D)
      BY <1>2 DEF Complete
    <3>2. GameKeys(r.db) \subseteq D
      BY DEF Reached
    <3> QED  BY <1>7, <2>1, <3>1, <3>2 DEF Settled
  <2>5. /\ r.seen \subseteq known.seen /\ known.seen \subseteq r.seen \cup {key}
        /\ Total(known.report) + Len(known.batch) = Total(r.report) + Len(r.batch) + 1
    <3>1. r.seen \subseteq known.seen /\ known.seen \subseteq r.seen \cup {key}
      BY ONLY <2>1
    <3> QED  BY ONLY <1>11, <2>1, <3>1
  <2> QED  BY ONLY <1>5, <2>1, <2>3, <2>4, <2>5
<1>8. ASSUME key \in Illegal
      PROVE  RunSound(illegal, D) /\ illegal.db = r.db
  <2>1. /\ illegal.pc = r.pc /\ illegal.at = r.at /\ illegal.buf = r.buf /\ illegal.db = r.db
        /\ illegal.todo = Tail(r.todo) /\ illegal.seen = r.seen \cup {key} /\ illegal.batch = r.batch
        /\ illegal.report = more
    BY <1>2 DEF RunRecords, more
  <2>2. illegal = [r EXCEPT !.todo = Tail(r.todo), !.seen = r.seen \cup {key}, !.report = more]
    BY <1>2 DEF RunRecords, more
  <2>3. illegal \in RunRecords
    BY ONLY <1>2, <1>3, <1>10, <2>2 DEF RunRecords
  <2> HIDE DEF illegal, key
  <2>4. key \in Settled(illegal, D) /\ Settled(r, D) \subseteq Settled(illegal, D)
    BY <1>8, <2>1 DEF Settled
  <2>5. /\ r.seen \subseteq illegal.seen /\ illegal.seen \subseteq r.seen \cup {key}
        /\ Total(illegal.report) + Len(illegal.batch) = Total(r.report) + Len(r.batch) + 1
    <3>1. r.seen \subseteq illegal.seen /\ illegal.seen \subseteq r.seen \cup {key}
      BY ONLY <2>1
    <3> QED  BY ONLY <1>11, <2>1, <3>1
  <2> QED  BY ONLY <1>5, <2>1, <2>3, <2>4, <2>5
<1>9. RunSound(kept, D) /\ kept.db = r.db
  <2>1. /\ kept.pc = r.pc /\ kept.at = r.at /\ kept.buf = r.buf /\ kept.db = r.db
        /\ kept.todo = Tail(r.todo) /\ kept.seen = r.seen \cup {key}
        /\ kept.batch = Append(r.batch, key) /\ kept.report = r.report
    BY <1>2 DEF RunRecords
  <2>2. kept \in RunRecords
    BY <1>2, <1>3 DEF RunRecords
  <2> HIDE DEF kept, key
  <2>3. key \in Settled(kept, D) /\ Settled(r, D) \subseteq Settled(kept, D)
    BY <1>3, <2>1 DEF Settled
  <2>4. /\ r.seen \subseteq kept.seen /\ kept.seen \subseteq r.seen \cup {key}
        /\ Total(kept.report) + Len(kept.batch) = Total(r.report) + Len(r.batch) + 1
    <3>1. r.seen \subseteq kept.seen /\ kept.seen \subseteq r.seen \cup {key}
      BY ONLY <2>1
    <3> QED  BY ONLY <1>11, <2>1, <3>1
  <2> QED  BY ONLY <1>5, <2>1, <2>2, <2>3, <2>4
<1> HIDE DEF key, on, marked, refused, known, illegal, kept
<1> QED  BY <1>1, <1>6, <1>7, <1>8, <1>9

LEMMA SoundMore ==
  ASSUME NEW r, NEW D, NEW G, D \subseteq G, RunSound(r, D)
  PROVE  RunSound(r, G)
<1>1. Settled(r, D) \subseteq Settled(r, G)
  BY DEF Settled
<1>2. Complete(r, D) => Complete(r, G)
  BY <1>1 DEF Complete
<1> QED  BY <1>2 DEF RunSound

\* A step of one run, with nothing reached that is not reached after it.
LEMMA OneRunSteps ==
  ASSUME TInv, DOMAIN bulk = Importers, NEW b \in Importers, NEW run,
         bulk' = [bulk EXCEPT ![b] = run], NEW e, e = run.db, RunSound(run, Reached(e)'),
         \A o : Reached(o) \subseteq Reached(o)',
         nextDatabase' \in Nat, DOMAIN databases' \subseteq Nat,
         \A g \in DOMAIN games' : games'[g].key \in GameNames
  PROVE  TInv'
<1>1. ASSUME NEW o \in Importers
      PROVE  \A d : d = bulk'[o].db => RunSound(bulk'[o], Reached(d)')
  <2>1. CASE o = b
    BY <2>1
  <2>2. CASE o # b
    <3> PICK r : r = bulk[o]
      OBVIOUS
    <3> PICK d : d = r.db
      OBVIOUS
    <3>1. bulk'[o] = r /\ RunSound(r, Reached(d))
      BY <2>2 DEF TInv
    <3>2. Reached(d) \subseteq Reached(d)'
      OBVIOUS
    <3>3. RunSound(r, Reached(d)')
      <4> PICK D : D = Reached(d)
        OBVIOUS
      <4> PICK G : G = Reached(d)'
        OBVIOUS
      <4> QED  BY <3>1, <3>2, SoundMore
    <3> QED  BY <3>1, <3>3
  <2> QED  BY <2>1, <2>2
<1> QED  BY <1>1 DEF TInv

\* The runs stay, and nothing reached is lost.
LEMMA NoRunSteps ==
  ASSUME TInv, bulk' = bulk, \A o : Reached(o) \subseteq Reached(o)',
         nextDatabase' \in Nat, DOMAIN databases' \subseteq Nat,
         \A g \in DOMAIN games' : games'[g].key \in GameNames
  PROVE  TInv'
<1>1. ASSUME NEW o \in Importers
      PROVE  \A d : d = bulk'[o].db => RunSound(bulk'[o], Reached(d)')
  <2> PICK r : r = bulk[o]
    OBVIOUS
  <2> PICK d : d = r.db
    OBVIOUS
  <2> PICK D : D = Reached(d)
    OBVIOUS
  <2> PICK G : G = Reached(d)'
    OBVIOUS
  <2>1. bulk'[o] = r /\ RunSound(r, D) /\ D \subseteq G
    BY DEF TInv
  <2>2. RunSound(r, G)
    BY <2>1, SoundMore
  <2> QED  BY <2>1, <2>2
<1> QED  BY <1>1 DEF TInv

\* A batch that commits adds its games, and takes none away.
LEMMA BatchReached ==
  ASSUME LInv, TInv, NEW d \in Nat, NEW batch \in Seq(GameNames), games' = WithBatch(d, batch), dropped' = dropped
  PROVE  /\ \A o : Reached(o) \subseteq Reached(o)'
         /\ ToSet(batch) \subseteq Reached(d)'
         /\ \A g \in DOMAIN games' : games'[g].key \in GameNames
<1> PICK n : n = nextGame
  OBVIOUS
<1> PICK ids : ids = n .. n + Len(batch) - 1
  OBVIOUS
<1>1. n \in Nat /\ Len(batch) \in Nat /\ \A g \in DOMAIN games : g \in Nat /\ g < n /\ games[g].key \in GameNames
  BY SeqFacts DEF LInv, Kept, TInv
<1>2. /\ DOMAIN games' = DOMAIN games \cup ids
      /\ \A g \in ids : games'[g] = [db |-> d, key |-> batch[g - n + 1], public |-> FALSE]
      /\ \A g \in DOMAIN games : g \notin ids => games'[g] = games[g]
  BY DEF WithBatch
<1>3. \A g \in DOMAIN games : g \notin ids
  BY <1>1
<1>4. \A g \in DOMAIN games : g \in DOMAIN games' /\ games'[g] = games[g]
  BY <1>2, <1>3
<1>5. \A i \in DOMAIN batch : i + n - 1 \in ids /\ (i + n - 1) - n + 1 = i
  <2>1. DOMAIN batch = 1 .. Len(batch)
    BY SeqFacts
  <2> QED  BY <1>1, <2>1
<1>6. \A g \in ids : g - n + 1 \in DOMAIN batch /\ batch[g - n + 1] \in GameNames
  <2>1. DOMAIN batch = 1 .. Len(batch) /\ \A i \in DOMAIN batch : batch[i] \in GameNames
    BY SeqFacts, ElementOfSeq
  <2>2. \A g \in ids : g - n + 1 \in 1 .. Len(batch)
    BY <1>1
  <2> QED  BY <2>1, <2>2
<1>7. \A o : Reached(o) \subseteq Reached(o)'
  BY <1>4 DEF Reached, GameKeys, GamesOf
<1>8. ASSUME NEW i \in DOMAIN batch
      PROVE  batch[i] \in Reached(d)'
  <2> PICK g : g = i + n - 1
    OBVIOUS
  <2>1. g \in ids /\ g - n + 1 = i
    BY ONLY <1>5, g = i + n - 1, i \in DOMAIN batch
  <2>2. g \in DOMAIN games' /\ games'[g].db = d /\ games'[g].key = batch[i]
    BY ONLY <1>2, <2>1
  <2> QED  BY <2>2 DEF Reached, GameKeys, GamesOf
<1>9. \A g \in DOMAIN games' : games'[g].key \in GameNames
  <2>1. \A g \in ids : games'[g].key \in GameNames
    BY ONLY <1>2, <1>6
  <2>2. \A g \in DOMAIN games : games'[g].key \in GameNames
    BY ONLY <1>1, <1>4
  <2> QED  BY ONLY <1>2, <2>1, <2>2
<1> QED  BY <1>7, <1>8, <1>9 DEF ToSet

\* A batch that commits settles its games; one that aborts ends the run.
LEMMA FlushKeeps ==
  ASSUME LInv, TInv, NEW b \in Importers, Flush(b)
  PROVE  TInv'
<1> PICK r : r = bulk[b]
  OBVIOUS
<1> DEFINE full   == Len(r.batch) >= BatchSize
           counted  == [r.report EXCEPT !.imported = r.report.imported + Len(r.batch)]
           kept   == [r EXCEPT !.batch = <<>>, !.report.imported = r.report.imported + Len(r.batch)]
           done   == [kept EXCEPT !.pc = "done"]
           failed == [r EXCEPT !.pc = "failed"]
<1>1. /\ r.pc \in {"read", "tail"} /\ (full \/ (r.pc = "tail" /\ r.todo = <<>>))
      /\ UNCHANGED <<databases, nextDatabase, dropped>>
      /\ \/ bulk' = [bulk EXCEPT ![b] = failed] /\ games' = games
         \/ games' = WithBatch(r.db, r.batch) /\ bulk' = [bulk EXCEPT ![b] = IF full THEN kept ELSE done]
  BY DEF Flush, Run
<1>2. /\ r \in RunRecords /\ CountsUp(r) /\ Complete(r, Reached(r.db)) /\ (r.pc = "read" => Reading(r))
      /\ DOMAIN bulk = Importers /\ nextDatabase \in Nat /\ DOMAIN databases \subseteq Nat
      /\ \A g \in DOMAIN games : games[g].key \in GameNames
  BY <1>1 DEF RunSound, TInv, LInv, RunsHeld
<1>3. /\ Len(r.batch) \in Nat /\ r.batch \in Seq(GameNames) /\ r.db \in Nat
      /\ r.report \in Reports /\ counted \in Reports /\ Total(counted) = Total(r.report) + Len(r.batch)
      /\ Total(r.report) \in Nat /\ Len(r.todo) \in Nat
  <2>1. r.batch \in Seq(GameNames) /\ r.db \in Nat /\ r.report \in Reports /\ r.todo \in Seq(GameNames)
    BY <1>2 DEF RunRecords
  <2>2. Len(r.batch) \in Nat /\ Len(r.todo) \in Nat
    BY <2>1, SeqFacts
  <2> QED  BY <2>1, <2>2, Totals
<1> HIDE DEF counted
<1>4. CASE bulk' = [bulk EXCEPT ![b] = failed] /\ games' = games
  <2>1. failed \in RunRecords /\ failed.pc = "failed"
    BY <1>2 DEF RunRecords, Stages
  <2>2. \A D : RunSound(failed, D)
    BY <2>1 DEF RunSound
  <2>3. \A d : Reached(d) \subseteq Reached(d)'
    BY <1>1, <1>4 DEF Reached, GameKeys, GamesOf
  <2> HIDE DEF failed
  <2> QED  BY <1>1, <1>2, <1>4, <2>2, <2>3, OneRunSteps
<1>5. ASSUME games' = WithBatch(r.db, r.batch), NEW run, bulk' = [bulk EXCEPT ![b] = run],
             run \in RunRecords, run.pc \in {"read", "tail", "done"},
             r.pc # run.pc => run.pc = "done" /\ r.pc = "tail" /\ r.todo = <<>>,
             run.at = r.at, run.buf = r.buf, run.db = r.db, run.todo = r.todo, run.seen = r.seen,
             run.batch = <<>>, run.report = counted
      PROVE  TInv'
  <2>1. /\ \A o : Reached(o) \subseteq Reached(o)'
        /\ ToSet(r.batch) \subseteq Reached(r.db)'
        /\ \A g \in DOMAIN games' : games'[g].key \in GameNames
    BY <1>1, <1>3, <1>5, BatchReached
  <2> PICK D : D = Reached(r.db)
    OBVIOUS
  <2> PICK G : G = Reached(r.db)'
    OBVIOUS
  <2>2. D \subseteq G /\ ToSet(r.batch) \subseteq G
    BY <2>1
  <2>3. Taken(run) = Taken(r) /\ (run.pc = "read" => Reading(run)) /\ (run.pc = "done" => run.todo = <<>>)
    <3>1. (run.pc = "read" <=> r.pc = "read") /\ (run.pc = "done" => r.todo = <<>>)
      BY ONLY <1>1, <1>5
    <3>2. From(run) = From(r)
      BY ONLY <1>5 DEF From
    <3> QED  BY ONLY <1>2, <1>5, <3>1, <3>2 DEF Taken, Reading
  <2>4. Settled(r, D) \subseteq Settled(run, G)
    BY <2>2 DEF Settled
  <2>5. Complete(run, G)
    BY <1>2, <1>5, <2>3, <2>4 DEF Complete
  <2>6. CountsUp(run)
    <3>1. Len(run.batch) = 0 /\ Total(run.report) = Total(r.report) + Len(r.batch)
      BY <1>3, <1>5
    <3>2. Total(r.report) + Len(r.batch) + Len(r.todo) = Cardinality(Taken(r))
      BY <1>2 DEF CountsUp
    <3>3. Total(run.report) + 0 + Len(r.todo) = Cardinality(Taken(r))
      BY ONLY <1>3, <3>1, <3>2
    <3> QED  BY ONLY <1>5, <2>3, <3>1, <3>3 DEF CountsUp
  <2>7. RunSound(run, G)
    BY <1>5, <2>3, <2>5, <2>6 DEF RunSound
  <2> QED  BY <1>1, <1>2, <1>5, <2>1, <2>7, OneRunSteps
<1>6. /\ kept.pc = r.pc /\ kept.at = r.at /\ kept.buf = r.buf /\ kept.db = r.db /\ kept.todo = r.todo
      /\ kept.seen = r.seen /\ kept.batch = <<>> /\ kept.report = counted
      /\ kept = [r EXCEPT !.batch = <<>>, !.report = counted]
  BY <1>2 DEF RunRecords, counted
<1>7. /\ done.pc = "done" /\ done.at = r.at /\ done.buf = r.buf /\ done.db = r.db /\ done.todo = r.todo
      /\ done.seen = r.seen /\ done.batch = <<>> /\ done.report = counted
      /\ done = [r EXCEPT !.batch = <<>>, !.report = counted, !.pc = "done"]
  BY <1>2 DEF RunRecords, counted
<1>8. kept \in RunRecords /\ done \in RunRecords
  BY ONLY <1>2, <1>3, <1>6, <1>7, EmptySeq DEF RunRecords, Stages
<1> HIDE DEF kept, done, failed
<1>9. CASE games' = WithBatch(r.db, r.batch) /\ bulk' = [bulk EXCEPT ![b] = IF full THEN kept ELSE done]
  <2>1. CASE full
    BY <1>1, <1>5, <1>6, <1>8, <1>9, <2>1
  <2>2. CASE ~full
    BY <1>1, <1>5, <1>7, <1>8, <1>9, <2>2
  <2> QED  BY <2>1, <2>2
<1> QED  BY <1>1, <1>4, <1>9

LEMMA NewRuns ==
  /\ \A D : RunSound(NoRun, D) /\ RunSound([NoRun EXCEPT !.pc = "create"], D)
  /\ \A d \in Nat : \A D : RunSound([NoRun EXCEPT !.pc = "read", !.db = d], D)
<1> DEFINE create == [NoRun EXCEPT !.pc = "create"]
<1>1. /\ NoRun \in RunRecords /\ create \in RunRecords
      /\ \A d \in Nat : [NoRun EXCEPT !.pc = "read", !.db = d] \in RunRecords
  BY EmptySeq DEF NoRun, NoReport, RunRecords, Stages, Reports
<1>2. NoRun.pc = "idle" /\ create.pc = "create"
  BY DEF NoRun
<1>3. \A D : RunSound(NoRun, D) /\ RunSound(create, D)
  BY <1>1, <1>2 DEF RunSound
<1>4. ASSUME NEW d \in Nat, NEW D
      PROVE  RunSound([NoRun EXCEPT !.pc = "read", !.db = d], D)
  <2> PICK run : run = [NoRun EXCEPT !.pc = "read", !.db = d]
    OBVIOUS
  <2>1. /\ run.pc = "read" /\ run.at = 0 /\ run.buf = <<>> /\ run.todo = <<>> /\ run.batch = <<>>
        /\ run.seen = {} /\ run.report = NoReport
    BY DEF NoRun
  <2>2. Len(PgnFile) \in Nat /\ MarksBelow(0) = {} /\ Boundary(0) /\ SubSeq(PgnFile, 1, 0) = <<>>
    BY MarksBelowType, LibraryAssumption DEF Boundary
  <2>3. From(run) = 0 /\ Reading(run) /\ Taken(run) = {}
    <3>1. Len(run.buf) = 0
      BY <2>1
    <3>2. From(run) = 0
      <4>1. run.at = 0
        BY <2>1
      <4> QED  BY ONLY <3>1, <4>1 DEF From
    <3>3. 0 \in 0 .. 0 /\ 0 <= Len(PgnFile) /\ 0 + 1 = 1
      BY <2>2
    <3> QED  BY ONLY <2>1, <2>2, <3>2, <3>3 DEF Reading, Taken
  <2>4. Cardinality(Taken(run)) = 0 /\ Total(run.report) = 0
    <3>1. Total(NoReport) = 0
      BY DEF Total, NoReport
    <3> QED  BY ONLY <2>1, <2>3, <3>1, FS_EmptySet
  <2>5. CountsUp(run) /\ Complete(run, D)
    BY <2>1, <2>3, <2>4 DEF CountsUp, Complete
  <2>6. run \in RunRecords
    BY <1>1
  <2> QED  BY <2>1, <2>3, <2>5, <2>6 DEF RunSound
<1> QED  BY <1>3, <1>4

LEMMA ImportInit == LibraryInit => TInv
<1> SUFFICES ASSUME LibraryInit
             PROVE  TInv
  OBVIOUS
<1>1. nextDatabase \in Nat /\ DOMAIN databases = {} /\ DOMAIN games = {}
  BY DEF LibraryInit
<1>2. \A b \in Importers : bulk[b] = NoRun
  BY DEF LibraryInit
<1> QED  BY <1>1, <1>2, NewRuns DEF TInv

\* What the steps change of the tables, other than a batch.
LEMMA TaskEffects ==
  /\ \A c \in LibraryClients, u \in LibraryUsers : LibraryRequest(c, u) => UNCHANGED <<tables, bulk, dropped>>
  /\ \A c \in LibraryClients : LibraryWrite(c) =>
       /\ bulk' = bulk /\ nextDatabase' = nextDatabase /\ DOMAIN databases' \subseteq DOMAIN databases
       /\ UNCHANGED <<games, dropped>> \/ DropGame(c) \/ WriteShare(c)
<1>1. ASSUME NEW c \in LibraryClients, NEW u \in LibraryUsers, LibraryRequest(c, u)
      PROVE  UNCHANGED <<tables, bulk, dropped>>
  <2>1. \A task : Task(c, task) => UNCHANGED <<tables, bulk, dropped>>
    BY DEF Task
  <2> QED  BY <1>1, <2>1 DEF LibraryRequest, RenameDatabase, DeleteDatabase, PutDefault, DeleteGame, SetGamePublic
<1>2. ASSUME NEW c \in LibraryClients, LibraryWrite(c)
      PROVE  /\ bulk' = bulk /\ nextDatabase' = nextDatabase /\ DOMAIN databases' \subseteq DOMAIN databases
             /\ UNCHANGED <<games, dropped>> \/ DropGame(c) \/ WriteShare(c)
  <2>1. Written(c) => bulk' = bulk /\ nextDatabase' = nextDatabase
    BY DEF Written
  <2>2. CASE WriteRename(c)
    BY <2>1, <2>2 DEF WriteRename
  <2>3. CASE WriteDeleteDatabase(c)
    BY <2>1, <2>3 DEF WriteDeleteDatabase
  <2>4. CASE DropIndexRows(c)
    BY <2>4 DEF DropIndexRows
  <2>5. CASE DropGame(c)
    BY <2>1, <2>5 DEF DropGame
  <2>6. CASE WriteShare(c)
    BY <2>1, <2>6 DEF WriteShare
  <2>7. CASE WriteDefault(c)
    BY <2>1, <2>7 DEF WriteDefault
  <2>8. CASE DropRequest(c)
    BY <2>1, <2>8 DEF DropRequest
  <2> QED  BY <1>2, <2>2, <2>3, <2>4, <2>5, <2>6, <2>7, <2>8 DEF LibraryWrite
<1> QED  BY <1>1, <1>2

LEMMA ImportEffects ==
  ASSUME NEW b \in Importers, FindMaster(b) \/ ReadChunk(b) \/ ProcessGame(b) \/ EndImport(b)
  PROVE  UNCHANGED <<tables, dropped>>
BY DEF FindMaster, ReadChunk, ProcessGame, EndImport

LEMMA NothingLost ==
  ASSUME LInv, TInv, [LibraryNext]_libraryVars, \A b \in Importers : ~Flush(b)
  PROVE  /\ \A o : Reached(o) \subseteq Reached(o)'
         /\ nextDatabase' \in Nat /\ DOMAIN databases' \subseteq Nat
         /\ \A g \in DOMAIN games' : games'[g].key \in GameNames
<1> DEFINE Grown  == \E row : nextDatabase' = nextDatabase + 1 /\ databases' = WithRow(databases, nextDatabase, row)
           Shrunk == nextDatabase' = nextDatabase /\ DOMAIN databases' \subseteq DOMAIN databases
           Same   == UNCHANGED <<games, dropped>>
<1>0. /\ Grown \/ Shrunk
      /\ Same \/ \E c \in LibraryClients : DropGame(c) \/ WriteShare(c)
  <2>1. CASE UNCHANGED libraryVars
    BY <2>1 DEF libraryVars
  <2>2. ASSUME NEW u \in LibraryUsers, NEW global \in BOOLEAN, CreateDatabase(u, "Games", global)
        PROVE  Grown /\ Same
    BY <2>2 DEF CreateDatabase
  <2>3. ASSUME NEW c \in LibraryClients, NEW u \in LibraryUsers, LibraryRequest(c, u)
        PROVE  Shrunk /\ Same
    BY <2>3, TaskEffects DEF tables
  <2>4. ASSUME NEW c \in LibraryClients, LibraryWrite(c)
        PROVE  Shrunk /\ (Same \/ DropGame(c) \/ WriteShare(c))
    BY <2>4, TaskEffects
  <2>5. ASSUME NEW b \in Importers, CreateMaster(b)
        PROVE  Grown /\ Same
    BY <2>5 DEF CreateMaster
  <2>6. ASSUME NEW b \in Importers, FindMaster(b) \/ ReadChunk(b) \/ ProcessGame(b) \/ EndImport(b)
        PROVE  Shrunk /\ Same
    BY <2>6, ImportEffects DEF tables
  <2> HIDE DEF Grown, Shrunk, Same
  <2> QED  BY <2>1, <2>2, <2>3, <2>4, <2>5, <2>6 DEF LibraryNext
<1>1. nextDatabase' \in Nat /\ DOMAIN databases' \subseteq Nat
  <2>1. nextDatabase \in Nat /\ DOMAIN databases \subseteq Nat
    BY DEF TInv
  <2> QED  BY <1>0, <2>1 DEF WithRow
<1>2. \A g \in DOMAIN games : games[g].key \in GameNames
  BY DEF TInv
<1>3. ASSUME Same
      PROVE  /\ \A o : Reached(o) \subseteq Reached(o)'
             /\ \A g \in DOMAIN games' : games'[g].key \in GameNames
  <2>1. \A o : Reached(o) \subseteq Reached(o)'
    BY <1>3 DEF Reached, GameKeys, GamesOf
  <2> QED  BY <1>2, <1>3, <2>1
<1>4. ASSUME NEW c \in LibraryClients, DropGame(c)
      PROVE  /\ \A o : Reached(o) \subseteq Reached(o)'
             /\ \A g \in DOMAIN games' : games'[g].key \in GameNames
  <2> PICK id : id = libReq[c].id
    OBVIOUS
  <2>1. /\ games' = [h \in DOMAIN games \ {id} |-> games[h]]
        /\ dropped' = dropped \cup (IF id \in DOMAIN games THEN {games[id].key} ELSE {})
    BY <1>4 DEF DropGame
  <2>2. \A g \in DOMAIN games : \/ g \in DOMAIN games' /\ games'[g] = games[g]
                                \/ games[g].key \in dropped'
    BY <2>1
  <2>3. dropped \subseteq dropped' /\ \A g \in DOMAIN games' : g \in DOMAIN games /\ games'[g] = games[g]
    BY <2>1
  <2>4. \A o : Reached(o) \subseteq Reached(o)'
    BY <2>2, <2>3 DEF Reached, GameKeys, GamesOf
  <2> QED  BY <1>2, <2>3, <2>4
<1>5. ASSUME NEW c \in LibraryClients, WriteShare(c)
      PROVE  /\ \A o : Reached(o) \subseteq Reached(o)'
             /\ \A g \in DOMAIN games' : games'[g].key \in GameNames
  <2> PICK r : r = libReq[c]
    OBVIOUS
  <2>1. /\ games' = IF r.id \in DOMAIN games THEN [games EXCEPT ![r.id].public = r.to] ELSE games
        /\ dropped' = dropped
    BY <1>5 DEF WriteShare
  <2>2. CASE r.id \notin DOMAIN games
    BY <1>3, <2>1, <2>2, <1>2
  <2>3. CASE r.id \in DOMAIN games
    <3> DEFINE row == [games[r.id] EXCEPT !.public = r.to]
    <3>1. row.db = games[r.id].db /\ row.key = games[r.id].key
      OBVIOUS
    <3>2. games' = [games EXCEPT ![r.id] = row]
      BY <2>1, <2>3
    <3> HIDE DEF row
    <3>3. /\ DOMAIN games' = DOMAIN games
          /\ \A g \in DOMAIN games : games'[g].db = games[g].db /\ games'[g].key = games[g].key
      BY <3>1, <3>2
    <3> QED  BY <1>2, <2>1, <3>3 DEF Reached, GameKeys, GamesOf
  <2> QED  BY <2>2, <2>3
<1> HIDE DEF Grown, Shrunk, Same
<1> QED  BY <1>0, <1>1, <1>3, <1>4, <1>5

LEMMA ImportNext == LInv /\ TInv /\ [LibraryNext]_libraryVars => TInv'
<1> SUFFICES ASSUME LInv, TInv, [LibraryNext]_libraryVars
             PROVE  TInv'
  OBVIOUS
<1>1. CASE \E b \in Importers : Flush(b)
  BY <1>1, FlushKeeps
<1>2. CASE \A b \in Importers : ~Flush(b)
  <2>1. /\ \A o : Reached(o) \subseteq Reached(o)'
        /\ nextDatabase' \in Nat /\ DOMAIN databases' \subseteq Nat
        /\ \A g \in DOMAIN games' : games'[g].key \in GameNames
    BY <1>2, NothingLost
  <2>2. DOMAIN bulk = Importers /\ nextDatabase \in Nat /\ DOMAIN databases \subseteq Nat
    BY DEF LInv, RunsHeld, TInv
  <2>3. ASSUME NEW b \in Importers, NEW run, bulk' = [bulk EXCEPT ![b] = run], \A D : RunSound(run, D)
        PROVE  TInv'
    BY <2>1, <2>2, <2>3, OneRunSteps
  <2>4. ASSUME NEW b \in Importers, NEW run, bulk' = [bulk EXCEPT ![b] = run], run.db = bulk[b].db,
               RunSound(run, Reached(run.db))
        PROVE  TInv'
    <3> PICK d : d = run.db
      OBVIOUS
    <3> PICK D : D = Reached(d)
      OBVIOUS
    <3> PICK G : G = Reached(d)'
      OBVIOUS
    <3>1. D \subseteq G /\ RunSound(run, D)
      BY <2>1, <2>4
    <3>2. RunSound(run, Reached(d)')
      BY <3>1, SoundMore
    <3> QED  BY <2>1, <2>2, <2>4, <3>2, OneRunSteps
  <2>5. ASSUME NEW b \in Importers, FindMaster(b)
        PROVE  TInv'
    <3>1. PICK run : /\ bulk' = [bulk EXCEPT ![b] = run]
                     /\ \/ run = [NoRun EXCEPT !.pc = "create"]
                        \/ \E d \in DOMAIN databases : run = [NoRun EXCEPT !.pc = "read", !.db = d]
      BY <2>5 DEF FindMaster, Run
    <3>2. \A D : RunSound(run, D)
      <4>1. \A d \in DOMAIN databases : d \in Nat
        BY <2>2
      <4>2. CASE run = [NoRun EXCEPT !.pc = "create"]
        BY ONLY <4>2, NewRuns
      <4>3. ASSUME NEW d \in DOMAIN databases, run = [NoRun EXCEPT !.pc = "read", !.db = d]
            PROVE  \A D : RunSound(run, D)
        BY ONLY <4>1, <4>3, NewRuns
      <4> QED  BY ONLY <3>1, <4>2, <4>3
    <3> QED  BY <2>3, <3>1, <3>2
  <2>6. ASSUME NEW b \in Importers, CreateMaster(b)
        PROVE  TInv'
    <3>1. bulk[b] = [NoRun EXCEPT !.pc = "create"]
      BY <2>6 DEF CreateMaster, Running, TInv, RunSound
    <3> PICK run : run = [NoRun EXCEPT !.pc = "read", !.db = nextDatabase]
      OBVIOUS
    <3>2. run = [[NoRun EXCEPT !.pc = "create"] EXCEPT !.pc = "read", !.db = nextDatabase]
      BY DEF NoRun
    <3>3. bulk' = [bulk EXCEPT ![b] = run]
      BY <2>6, <3>1, <3>2 DEF CreateMaster, Run
    <3>4. \A D : RunSound(run, D)
      BY <2>2, NewRuns
    <3> QED  BY <2>3, <3>3, <3>4
  <2>7. ASSUME NEW b \in Importers, EndImport(b)
        PROVE  TInv'
    BY <2>3, <2>7, NewRuns DEF EndImport, Run
  <2>8. ASSUME NEW b \in Importers, ReadChunk(b)
        PROVE  TInv'
    <3>1. PICK D : D = Reached(bulk[b].db) /\ RunSound(bulk[b], D)
      BY DEF TInv
    <3> QED  BY <2>4, <2>8, <3>1, ReadKeeps
  <2>9. ASSUME NEW b \in Importers, ProcessGame(b)
        PROVE  TInv'
    <3>1. RunSound(bulk[b], Reached(bulk[b].db))
      BY DEF TInv
    <3> QED  BY <2>4, <2>9, <3>1, ProcessKeeps
  <2>10. CASE bulk' = bulk
    BY <2>1, <2>10, NoRunSteps
  <2>11. CASE UNCHANGED libraryVars
    BY <2>10, <2>11 DEF libraryVars
  <2>12. ASSUME NEW u \in LibraryUsers, NEW global \in BOOLEAN, CreateDatabase(u, "Games", global)
         PROVE  TInv'
    BY <2>10, <2>12 DEF CreateDatabase
  <2>13. ASSUME NEW c \in LibraryClients, NEW u \in LibraryUsers, LibraryRequest(c, u)
         PROVE  TInv'
    BY <2>10, <2>13, TaskEffects
  <2>14. ASSUME NEW c \in LibraryClients, LibraryWrite(c)
         PROVE  TInv'
    BY <2>10, <2>14, TaskEffects
  <2> QED  BY <1>2, <2>5, <2>6, <2>7, <2>8, <2>9, <2>11, <2>12, <2>13, <2>14 DEF LibraryNext
<1> QED  BY <1>1, <1>2

\* A run that is done has taken every marker of the file, and every game it
\* named is refused, stored or deleted since.
LEMMA DoneIsComplete == TInv => ReportAddsUp /\ FinishedImportIsComplete
<1> SUFFICES ASSUME TInv, NEW b \in Importers, Running(b, "done")
             PROVE  /\ LET r == bulk[b].report IN
                       r.imported + r.duplicates + r.errors = Len(SplitGames(PgnFile))
                    /\ (ToSet(SplitGames(PgnFile)) \ (Unreadable \cup Illegal)) \ dropped
                         \subseteq GameKeys(bulk[b].db)
  BY DEF ReportAddsUp, FinishedImportIsComplete
<1> PICK r : r = bulk[b]
  OBVIOUS
<1> PICK D : D = Reached(r.db)
  OBVIOUS
<1> PICK names : names = SplitGames(PgnFile)
  OBVIOUS
<1>1. /\ r \in RunRecords /\ r.batch = <<>> /\ r.todo = <<>> /\ CountsUp(r) /\ Complete(r, D)
      /\ Taken(r) = Marks
  BY DEF Running, TInv, RunSound, Taken
<1>2. Len(PgnFile) \in Nat /\ PgnFile \in Seq(ToSet(PgnFile))
  BY LibraryAssumption, MarksBelowType
<1>3. Marks = EventOffsets(PgnFile)
  BY DEF Marks
<1>4. /\ names \in Seq(ToSet(names)) /\ Len(names) = Cardinality(Marks)
      /\ ToSet(names) = {PgnFile[o + 2] : o \in Marks}
  BY <1>2, <1>3, GamesOfBlob
<1>5. Total(r.report) = Cardinality(Marks)
  <2>1. Len(r.batch) = 0 /\ Len(r.todo) = 0
    BY <1>1
  <2>2. Total(r.report) \in Nat
    BY <1>1, Totals DEF RunRecords
  <2> QED  BY ONLY <1>1, <2>1, <2>2 DEF CountsUp
<1>6. \A o \in Marks : PgnFile[o + 2] \in Unreadable \cup Illegal \cup D
  <2>1. ToSet(r.batch) = {} /\ ToSet(r.todo) = {}
    BY <1>1 DEF ToSet
  <2> QED  BY ONLY <1>1, <2>1 DEF Complete, Settled
<1> QED  BY <1>4, <1>5, <1>6 DEF Total, Reached

(***************************************************************************)
(* Pages.  Every row of an order is at one place of one page.              *)
(***************************************************************************)
LEMMA PageHolds ==
  ASSUME NEW S, NEW f \in Seq(S), NEW n \in Nat, n = Len(f), NEW a \in Nat, NEW limit \in Nat,
         NEW lo, lo = a + 1, NEW m \in Nat, m <= n, m = a + limit \/ (m = n /\ n <= a + limit),
         NEW page, page = SubSeq(f, lo, m)
  PROVE  /\ \A i \in DOMAIN page : i \in 1 .. limit /\ a + i \in 1 .. n /\ page[i] = f[a + i]
         /\ \A i \in 1 .. limit : a + i <= n => i \in DOMAIN page
<1>1. /\ m \in Nat /\ m <= n /\ (m = a + limit \/ (m = n /\ n <= a + limit))
      /\ m < a + 1 \/ a + 1 <= m
  OBVIOUS
<1>2. \A i \in 1 .. n : f[i] \in S
  BY ElementOfSeq
<1>3. CASE m < a + 1
  <2>1. page = <<>>
    BY <1>1, <1>3, SubSeqEmpty
  <2>2. DOMAIN page = {}
    BY <2>1
  <2>3. \A i \in 1 .. limit : ~(a + i <= n)
    BY <1>1, <1>3
  <2> QED  BY <2>2, <2>3
<1>4. CASE a + 1 <= m
  <2>1. a + 1 \in Int /\ m \in Int /\ \A i \in a + 1 .. m : f[i] \in S
    BY <1>1, <1>2
  <2>2. /\ page \in Seq(S) /\ Len(page) = m - (a + 1) + 1
        /\ \A i \in 1 .. m - (a + 1) + 1 : page[i] = f[a + 1 + i - 1]
    BY <1>4, <2>1, SubSeqProperties
  <2>3. DOMAIN page = 1 .. m - a
    <3>1. DOMAIN page = 1 .. Len(page) /\ m - (a + 1) + 1 = m - a
      BY <1>1, <2>2, LenProperties
    <3> QED  BY <2>2, <3>1
  <2>4. \A i \in 1 .. m - a : page[i] = f[a + i]
    <3>1. m - (a + 1) + 1 = m - a /\ \A i \in 1 .. m - a : a + 1 + i - 1 = a + i
      BY <1>1
    <3> QED  BY <2>2, <3>1
  <2>5. \A i \in 1 .. m - a : i \in 1 .. limit /\ a + i \in 1 .. n
    BY <1>1
  <2>6. \A i \in 1 .. limit : a + i <= n => i \in 1 .. m - a
    BY <1>1
  <2> QED  BY <2>3, <2>4, <2>5, <2>6
<1> QED  BY ONLY <1>1, <1>3, <1>4

LEMMA PlaceOnPage ==
  ASSUME NEW n \in Nat, NEW limit \in Nat \ {0}, NEW k \in 1 .. n
  PROVE  \E p \in 0 .. n, i \in 1 .. limit : k = p * limit + i
<1> PICK p, i : p = (k - 1) \div limit /\ i = ((k - 1) % limit) + 1
  OBVIOUS
<1>1. p \in Int /\ i \in 1 .. limit /\ k = limit * p + i
  OBVIOUS
<1>2. 0 <= p /\ p <= n
  OBVIOUS
<1>3. limit * p = p * limit
  BY <1>1
<1>4. p \in 0 .. n /\ i \in 1 .. limit /\ k = p * limit + i
  BY ONLY <1>1, <1>2, <1>3
<1> QED  BY ONLY <1>4

LEMMA LaterPage ==
  ASSUME NEW p \in Nat, NEW q \in Nat, p < q, NEW limit \in Nat
  PROVE  p * limit + limit <= q * limit
<1> PICK k \in Nat : q = p + 1 + k
  <2> WITNESS q - p - 1 \in Nat
  <2> QED  OBVIOUS
<1>1. q * limit = p * limit + limit + k * limit
  OBVIOUS
<1>2. k * limit \in Nat /\ p * limit \in Nat
  OBVIOUS
<1> QED  BY <1>1, <1>2

\* The chosen order is one: the id breaks the ties.
LEMMA BeforeIsOrder ==
  ASSUME NEW dir \in {"asc", "desc"}, NEW S \in SUBSET (DOMAIN games \cap Nat),
         \A g \in S : DateOf[games[g].key] \in Nat
  PROVE  /\ \A g \in S : ~Before(dir, g, g)
         /\ \A g, h \in S : g = h \/ Before(dir, g, h) \/ Before(dir, h, g)
         /\ \A g, h, i \in S : Before(dir, g, h) /\ Before(dir, h, i) => Before(dir, g, i)
<1> PICK dated : dated = [g \in S |-> DateOf[games[g].key]]
  OBVIOUS
<1>1. \A g \in S : dated[g] \in Nat /\ g \in Nat /\ dated[g] = DateOf[games[g].key]
  OBVIOUS
<1> DEFINE lower(g, h) == dated[g] < dated[h] \/ (dated[g] = dated[h] /\ g < h)
<1>2. /\ \A g \in S : ~lower(g, g)
      /\ \A g, h \in S : g = h \/ lower(g, h) \/ lower(h, g)
      /\ \A g, h, i \in S : lower(g, h) /\ lower(h, i) => lower(g, i)
  BY ONLY <1>1
<1>3. \A g, h \in S : Before(dir, g, h) <=> IF dir = "asc" THEN lower(g, h) ELSE lower(h, g)
  BY <1>1 DEF Before
<1> HIDE DEF lower
<1> QED  BY ONLY <1>2, <1>3

\* A database in the chosen order is each of its games once.
LEMMA GamesInOrder ==
  ASSUME LInv, TInv, NEW d, NEW dir \in {"asc", "desc"}, NEW f, f = Ordered(d, dir)
  PROVE  /\ f \in Seq(GamesOf(d)) /\ Len(f) = Cardinality(GamesOf(d)) /\ Len(f) \in Nat
         /\ GamesOf(d) \subseteq ToSet(f)
         /\ \A i, j \in 1 .. Len(f) : i < j => Before(dir, f[i], f[j])
<1> PICK S : S = GamesOf(d)
  OBVIOUS
<1> PICK n : n = Cardinality(S)
  OBVIOUS
<1>1. S \in SUBSET (DOMAIN games \cap Nat) /\ \A g \in S : DateOf[games[g].key] \in Nat
  <2>1. \A g \in DOMAIN games : g \in Nat
    BY DEF LInv, Kept
  <2>2. \A g \in DOMAIN games : games[g].key \in DOMAIN DateOf
    BY DEF TInv, GameNames
  <2> QED  BY <2>1, <2>2, LibraryAssumption DEF GamesOf
<1>2. IsFiniteSet(S)
  <2>1. DOMAIN games \subseteq 0 .. nextGame - 1 /\ nextGame - 1 \in Int /\ 0 \in Int
    BY DEF LInv, Kept
  <2>2. IsFiniteSet(0 .. nextGame - 1)
    BY <2>1, FS_Interval
  <2> QED  BY <2>1, <2>2, FS_Subset DEF GamesOf
<1> PICK down : down = [x \in S |-> {y \in S : Before(dir, y, x)}]
  OBVIOUS
<1>3. /\ down \in [S -> SUBSET S] /\ \A x \in S : down[x] = {y \in S : Before(dir, y, x)}
      /\ \A x, y \in S : y \in down[x] <=> Before(dir, y, x)
  OBVIOUS
<1>4. /\ \A x \in S : x \notin down[x]
      /\ \A x, y \in S : x = y \/ x \in down[y] \/ y \in down[x]
      /\ \A x, y \in S : x \in down[y] => down[x] \subseteq down[y]
  <2>1. /\ \A g \in S : ~Before(dir, g, g)
        /\ \A g, h \in S : g = h \/ Before(dir, g, h) \/ Before(dir, h, g)
        /\ \A g, h, i \in S : Before(dir, g, h) /\ Before(dir, h, i) => Before(dir, g, i)
    BY <1>1, BeforeIsOrder
  <2> QED  BY ONLY <1>3, <2>1
<1>0. n = Cardinality(S)
  OBVIOUS
<1>5. \A k \in 1 .. n : \E x \in S : Cardinality(down[x]) = k - 1
  BY ONLY <1>0, <1>2, <1>3, <1>4, Ranked
<1>6. f = [k \in 1 .. n |-> CHOOSE x \in S : Cardinality({y \in S : Before(dir, y, x)}) = k - 1]
  BY DEF Ordered, InOrderOf
<1>7. ASSUME NEW k \in 1 .. n
      PROVE  f[k] \in S /\ Cardinality(down[f[k]]) = k - 1
  <2>1. f[k] = CHOOSE x \in S : Cardinality({y \in S : Before(dir, y, x)}) = k - 1
    BY <1>6
  <2>2. \E x \in S : Cardinality({y \in S : Before(dir, y, x)}) = k - 1
    BY <1>3, <1>5
  <2>3. f[k] \in S /\ Cardinality({y \in S : Before(dir, y, f[k])}) = k - 1
    BY <2>1, <2>2
  <2> QED  BY <1>3, <2>3
<1>8. f \in [1 .. n -> S]
  BY <1>6, <1>7, Zenon
<1>9. f \in [1 .. Cardinality(S) -> S] /\ \A k \in 1 .. Cardinality(S) : Cardinality(down[f[k]]) = k - 1
  BY ONLY <1>0, <1>7, <1>8
<1>10. /\ f \in Seq(S) /\ Len(f) = Cardinality(S) /\ Len(f) \in Nat
       /\ \A x \in S : \E k \in 1 .. Len(f) : f[k] = x
       /\ \A i, j \in 1 .. Len(f) : i < j <=> f[i] \in down[f[j]]
  BY ONLY <1>2, <1>3, <1>4, <1>9, Enumerated
<1>11. \A i \in 1 .. Len(f) : f[i] \in S
  BY ONLY <1>10, ElementOfSeq
<1>12. S \subseteq ToSet(f)
  <2>1. DOMAIN f = 1 .. Len(f)
    BY ONLY <1>10, LenProperties
  <2> QED  BY ONLY <1>10, <2>1 DEF ToSet
<1> QED  BY <1>3, <1>10, <1>11, <1>12

LEMMA PagesFollow == LInv /\ TInv => PagesPartition
<1> SUFFICES ASSUME LInv, TInv, NEW d \in DOMAIN databases, NEW dir \in {"asc", "desc"},
                    NEW limit \in 1 .. MAX_LIMIT
             PROVE  LET pages == [p \in 0 .. Cardinality(GamesOf(d)) |-> Page(d, dir, p, limit)] IN
                    /\ GamesOf(d) = UNION {ToSet(pages[p]) : p \in DOMAIN pages}
                    /\ \A p, q \in DOMAIN pages : \A i \in DOMAIN pages[p], j \in DOMAIN pages[q] :
                         p < q \/ (p = q /\ i < j) => Before(dir, pages[p][i], pages[q][j])
  BY DEF PagesPartition
<1> PICK f : f = Ordered(d, dir)
  OBVIOUS
<1>0. /\ f \in Seq(GamesOf(d)) /\ Len(f) = Cardinality(GamesOf(d)) /\ Len(f) \in Nat
      /\ GamesOf(d) \subseteq ToSet(f)
      /\ \A i, j \in 1 .. Len(f) : i < j => Before(dir, f[i], f[j])
  <2>1. f \in Seq(GamesOf(d)) /\ Len(f) = Cardinality(GamesOf(d)) /\ Len(f) \in Nat
    BY GamesInOrder, Zenon
  <2>2. GamesOf(d) \subseteq ToSet(f)
    BY GamesInOrder, Zenon
  <2>3. \A i, j \in 1 .. Len(f) : i < j => Before(dir, f[i], f[j])
    BY GamesInOrder, Zenon
  <2> QED  BY <2>1, <2>2, <2>3
<1> PICK S : S = GamesOf(d)
  OBVIOUS
<1> PICK n : n = Cardinality(S)
  OBVIOUS
<1> SUFFICES ASSUME NEW pages, pages = [p \in 0 .. n |-> Page(d, dir, p, limit)]
             PROVE  /\ S = UNION {ToSet(pages[p]) : p \in DOMAIN pages}
                    /\ \A p, q \in DOMAIN pages : \A i \in DOMAIN pages[p], j \in DOMAIN pages[q] :
                         p < q \/ (p = q /\ i < j) => Before(dir, pages[p][i], pages[q][j])
  OBVIOUS
<1>1. limit \in Nat \ {0}
  BY LibraryAssumption
<1>2. /\ f \in Seq(S) /\ n = Len(f) /\ n \in Nat
      /\ \A x \in S : \E k \in 1 .. n : f[k] = x
      /\ \A i, j \in 1 .. n : i < j => Before(dir, f[i], f[j])
  <2>1. f \in Seq(S) /\ n = Len(f) /\ n \in Nat /\ S \subseteq ToSet(f)
    BY <1>0
  <2>2. DOMAIN f = 1 .. n
    BY ONLY <2>1, LenProperties
  <2>3. \A x \in S : \E k \in 1 .. n : f[k] = x
    BY ONLY <2>1, <2>2 DEF ToSet
  <2> QED  BY <1>0, <2>1, <2>3
<1>3. ASSUME NEW p \in 0 .. n
      PROVE  /\ p * limit \in Nat
             /\ \A i \in DOMAIN pages[p] : /\ i \in 1 .. limit /\ p * limit + i \in 1 .. n
                                           /\ pages[p][i] = f[p * limit + i]
             /\ \A i \in 1 .. limit : p * limit + i <= n => i \in DOMAIN pages[p]
  <2> PICK a : a = p * limit
    OBVIOUS
  <2> PICK page : page = pages[p]
    OBVIOUS
  <2>1. a \in Nat
    BY <1>1
  <2>2. page = SubSeq(f, a + 1, IF a + limit < n THEN a + limit ELSE n)
    BY DEF Page
  <2>3. /\ \A i \in DOMAIN page : i \in 1 .. limit /\ a + i \in 1 .. n /\ page[i] = f[a + i]
        /\ \A i \in 1 .. limit : a + i <= n => i \in DOMAIN page
    <3>1. f \in Seq(S) /\ n \in Nat /\ n = Len(f) /\ limit \in Nat
      BY <1>1, <1>2
    <3> PICK m : m = IF a + limit < n THEN a + limit ELSE n
      OBVIOUS
    <3> PICK lo : lo = a + 1
      OBVIOUS
    <3>2. /\ m \in Nat /\ m <= n /\ (m = a + limit \/ (m = n /\ n <= a + limit))
          /\ lo = a + 1 /\ page = SubSeq(f, lo, m)
      BY <2>1, <2>2, <3>1
    <3>3. /\ \A i \in DOMAIN page : i \in 1 .. limit /\ a + i \in 1 .. n /\ page[i] = f[a + i]
          /\ \A i \in 1 .. limit : a + i <= n => i \in DOMAIN page
      BY ONLY <2>1, <3>1, <3>2, PageHolds
    <3> QED  BY <3>3
  <2> QED  BY <2>1, <2>3
<1>4. ASSUME NEW p \in 0 .. n, NEW q \in 0 .. n, NEW i \in DOMAIN pages[p], NEW j \in DOMAIN pages[q],
             p < q \/ (p = q /\ i < j)
      PROVE  Before(dir, pages[p][i], pages[q][j])
  <2> PICK a, b : a = p * limit /\ b = q * limit
    OBVIOUS
  <2>1. /\ i \in 1 .. limit /\ j \in 1 .. limit /\ a \in Nat /\ b \in Nat
        /\ a + i \in 1 .. n /\ b + j \in 1 .. n /\ pages[p][i] = f[a + i] /\ pages[q][j] = f[b + j]
    BY <1>3
  <2>2. (a = b /\ i < j) \/ a + limit <= b
    <3>1. p \in Nat /\ q \in Nat /\ limit \in Nat
      BY <1>1, <1>2
    <3> QED  BY <1>4, <3>1, LaterPage
  <2>3. a + i < b + j
    BY ONLY <1>1, <2>1, <2>2
  <2> QED  BY ONLY <1>2, <2>1, <2>3
<1>5. ASSUME NEW x \in S
      PROVE  \E p \in 0 .. n : x \in ToSet(pages[p])
  <2>1. PICK k \in 1 .. n : f[k] = x
    BY <1>2
  <2>2. PICK p \in 0 .. n, i \in 1 .. limit : k = p * limit + i
    BY <1>1, <1>2, PlaceOnPage
  <2>3. i \in DOMAIN pages[p]
    <3>1. k <= n
      BY <1>2
    <3> QED  BY <1>3, <2>2, <3>1
  <2>4. pages[p][i] = x
    BY <1>3, <2>1, <2>2, <2>3
  <2> QED  BY <2>3, <2>4 DEF ToSet
<1>6. ASSUME NEW p \in 0 .. n
      PROVE  ToSet(pages[p]) \subseteq S
  <2>1. \A k \in 1 .. n : f[k] \in S
    BY <1>2, ElementOfSeq
  <2>2. \A i \in DOMAIN pages[p] : pages[p][i] \in S
    BY ONLY <1>3, <2>1
  <2> QED  BY ONLY <2>2 DEF ToSet
<1>7. DOMAIN pages = 0 .. n
  OBVIOUS
<1>8. S = UNION {ToSet(pages[p]) : p \in DOMAIN pages}
  BY <1>5, <1>6, <1>7
<1> QED  BY ONLY <1>4, <1>7, <1>8

\* Whatever the chunks, the crashes, the runs side by side and the deletions, an
\* import that reports success has counted every game of the file once and left
\* every good one in the one master database (collectors/bulk.rs).
THEOREM ImportsSettle == LibrarySpec => []ImportsConverge
<1>1. LInv /\ TInv => ReportAddsUp /\ FinishedImportIsComplete
  BY DoneIsComplete
<1>2. ReportAddsUp /\ FinishedImportIsComplete /\ OneMaster => ImportsConverge
  BY DEF ImportsConverge
<1> QED
  BY <1>1, <1>2, LibraryInitInv, LibraryNextInv, ImportInit, ImportNext, MasterIsOne, PTL DEF LibrarySpec

\* The pages of a listing by number hold every game of the database once, in the
\* chosen order, whatever the dates and the page size (games/mod.rs, list).
THEOREM PagesOnce == LibrarySpec => []PagesPartition
<1> QED
  BY PagesFollow, LibraryInitInv, LibraryNextInv, ImportInit, ImportNext, PTL DEF LibrarySpec

(***************************************************************************)
(* The pause of the masters explorer.                                      *)
(***************************************************************************)
PauseRuns ==
  /\ clock \in Int /\ limited \in Int
  /\ backoffUntil = limited + Backoff
  /\ DOMAIN asked = MastersCallers

\* For the whole pause after the last 429, whichever caller received it and
\* however many were on their way, no call to Lichess starts (explorer/mod.rs).
THEOREM QuietPause == MastersSpec => QuietAfterLimit
<1> USE MastersAssumption
<1>1. MastersInit => PauseRuns
  BY DEF MastersInit, PauseRuns
<1>2. PauseRuns /\ [MastersNext]_mastersVars => PauseRuns'
  BY DEF PauseRuns, MastersNext, mastersVars, MastersTick, Received, Success, TooManyRequests,
         Failure, Ask
<1>3. ASSUME PauseRuns, MastersNext, NEW c \in MastersCallers, asked[c] = NoCall, asked'[c] # NoCall
      PROVE  clock >= limited + Backoff
  <2>1. PICK d \in MastersCallers, p \in Positions : Ask(d, p)
    BY <1>3 DEF PauseRuns, MastersNext, MastersTick, Received, Success, TooManyRequests, Failure
  <2> QED  BY <1>3, <2>1 DEF Ask, BackingOff, PauseRuns
<1>4. PauseRuns /\ [MastersNext]_mastersVars =>
        [\A c \in MastersCallers : asked[c] = NoCall /\ asked'[c] # NoCall => clock >= limited + Backoff]_mastersVars
  BY <1>3 DEF mastersVars
<1> QED  BY <1>1, <1>2, <1>4, PTL DEF MastersSpec, QuietAfterLimit

\* The cache never outgrows its cap: what is kept leaves room for the answer.
CacheFits == IsFiniteSet(DOMAIN cache) /\ Cardinality(DOMAIN cache) <= CacheCap

LEMMA StoredFits ==
  ASSUME CacheFits, NEW p, NEW new \in Stored(p)
  PROVE  IsFiniteSet(DOMAIN new) /\ Cardinality(DOMAIN new) <= CacheCap
<1> USE MastersAssumption
<1> DEFINE live   == {q \in DOMAIN cache : Fresh(q)}
           oldest == {q \in DOMAIN cache : \A r \in DOMAIN cache : cache[q] <= cache[r]}
<1>1. PICK keep \in SUBSET DOMAIN cache :
        /\ DOMAIN new = keep \cup {p}
        /\ \/ p \in DOMAIN cache /\ keep = DOMAIN cache
           \/ keep = DOMAIN cache /\ Cardinality(keep) < CacheCap
           \/ keep = live /\ Cardinality(live) < CacheCap
           \/ \E q \in DOMAIN cache : keep = DOMAIN cache \ {q}
  BY DEF Stored
<1>2. IsFiniteSet(keep) /\ Cardinality(keep) \in Nat
  BY FS_Subset, FS_CardinalityType DEF CacheFits
<1>3. /\ IsFiniteSet(keep \cup {p})
      /\ Cardinality(keep \cup {p}) = IF p \in keep THEN Cardinality(keep) ELSE Cardinality(keep) + 1
  BY <1>2, FS_AddElement
<1>4. CASE p \in DOMAIN cache /\ keep = DOMAIN cache
  BY <1>1, <1>3, <1>4 DEF CacheFits
<1>5. CASE Cardinality(keep) < CacheCap
  BY <1>1, <1>2, <1>3, <1>5
<1>6. ASSUME NEW q \in DOMAIN cache, keep = DOMAIN cache \ {q}
      PROVE  Cardinality(keep) < CacheCap
  <2>1. Cardinality(keep) = Cardinality(DOMAIN cache) - 1 /\ Cardinality(DOMAIN cache) \in Nat
    BY <1>6, FS_RemoveElement, FS_CardinalityType DEF CacheFits
  <2> QED  BY <2>1 DEF CacheFits
<1> QED  BY <1>1, <1>4, <1>5, <1>6

\* However many answers arrive at once, and whatever has expired by then, the
\* explorer holds no more positions than CACHE_CAP (explorer/mod.rs, store).
THEOREM CacheBounded == MastersSpec => []CacheFits
<1>1. MastersInit => CacheFits
  <2>1. MastersInit => DOMAIN cache = {}
    BY DEF MastersInit
  <2> QED  BY <2>1, FS_EmptySet, MastersAssumption DEF CacheFits
<1>2. CacheFits /\ [MastersNext]_mastersVars => CacheFits'
  <2>1. ASSUME CacheFits, NEW c \in MastersCallers, Success(c)
        PROVE  CacheFits'
    BY <2>1, StoredFits DEF Success, CacheFits
  <2> QED
    BY <2>1 DEF MastersNext, mastersVars, MastersTick, TooManyRequests, Failure, Ask, CacheFits
<1> QED  BY <1>1, <1>2, PTL DEF MastersSpec

(***************************************************************************)
(* The report over the position index.  A game has all of its index rows   *)
(* or none, and an id is never dealt twice: what a report has read of a    *)
(* game is true of it for as long as a row of it is left.                  *)
(***************************************************************************)
IndexRow(id, game, i) ==
  [game |-> id, ply |-> i - 1, zobrist |-> PositionAt(game, i),
   move |-> game.moves[i], database |-> game.database]
HasRows(id) == \E r \in rows : r.game = id

Shelves ==
  /\ added \in Nat
  /\ DOMAIN shelved \subseteq 1 .. added
  /\ shelved \in [DOMAIN shelved -> Shelf]
WholeGames ==
  /\ \A r \in rows : r.game \in DOMAIN shelved /\ r \in IndexRows(r.game, shelved[r.game])
  /\ \A id \in DOMAIN shelved : HasRows(id) => IndexRows(id, shelved[id]) \subseteq rows

IsReport(x) == DOMAIN x = {"stage", "tree", "arrival", "lines", "of"}
Counted(x) == \A m \in DOMAIN x.tree : x.tree[m] <= x.of
ArrivesAt(id, ply) ==
  HasRows(id) => /\ ply \in 0 .. Len(shelved[id].moves)
                 /\ PositionAt(shelved[id], ply + 1) = Asked
Arrived(x) == \A id \in DOMAIN x.arrival : id \in 1 .. added /\ ArrivesAt(id, x.arrival[id])
Leads(t)   == HasRows(t.game) => PositionAfter(shelved[t.game].start, t.line) = Asked
Lined(x)   == \A t \in x.lines : t.game \in 1 .. added /\ Leads(t)

ReportsTrue ==
  /\ DOMAIN report = SearchClients
  /\ \A c \in SearchClients : /\ IsReport(report[c]) /\ Counted(report[c])
                              /\ Arrived(report[c]) /\ Lined(report[c])
SInv == Shelves /\ WholeGames /\ ReportsTrue

LEMMA RowsOf ==
  ASSUME NEW id, NEW game
  PROVE  IndexRows(id, game) = {IndexRow(id, game, i) : i \in DOMAIN game.moves}
BY DEF IndexRows, IndexRow

LEMMA MovesType ==
  ASSUME Shelves, NEW id \in DOMAIN shelved
  PROVE  /\ Len(shelved[id].moves) \in Nat
         /\ DOMAIN shelved[id].moves = 1 .. Len(shelved[id].moves)
         /\ shelved[id].moves \in Seq(ToSet(shelved[id].moves))
<1> PICK game : game = shelved[id]
  OBVIOUS
<1>1. game \in Shelf
  BY DEF Shelves
<1>2. game.moves \in Seq(ToSet(game.moves))
  BY <1>1, SearchAssumption
<1> PICK S : S = ToSet(game.moves)
  OBVIOUS
<1>3. \A m \in Seq(S) : Len(m) \in Nat /\ DOMAIN m = 1 .. Len(m)
  OBVIOUS
<1> QED  BY <1>2, <1>3

\* An indexed game: its rows in the table are those of its moves.
LEMMA RowOfMove ==
  ASSUME Shelves, WholeGames, NEW id \in DOMAIN shelved, HasRows(id)
  PROVE  /\ \A i \in 1 .. Len(shelved[id].moves) : IndexRow(id, shelved[id], i) \in rows
         /\ \A r \in rows : r.game = id =>
              \E i \in 1 .. Len(shelved[id].moves) : r = IndexRow(id, shelved[id], i)
<1>1. DOMAIN shelved[id].moves = 1 .. Len(shelved[id].moves)
  BY MovesType
<1>2. IndexRows(id, shelved[id]) \subseteq rows
  BY DEF WholeGames
<1>3. \A r \in rows : r.game = id => r \in IndexRows(id, shelved[id])
  BY DEF WholeGames
<1> QED  BY <1>1, <1>2, <1>3, RowsOf

LEMMA RowFields ==
  ASSUME NEW id, NEW game, NEW i
  PROVE  /\ IndexRow(id, game, i).game = id /\ IndexRow(id, game, i).ply = i - 1
         /\ IndexRow(id, game, i).move = game.moves[i]
         /\ IndexRow(id, game, i).zobrist = PositionAt(game, i)
BY DEF IndexRow

\* The line up to a ply, put together from the rows below it, is the game's own
\* first moves.
LEMMA LineOfGame ==
  ASSUME Shelves, WholeGames, NEW id \in DOMAIN shelved, HasRows(id),
         NEW ply \in 0 .. Len(shelved[id].moves)
  PROVE  MovesBefore(id, ply) = SubSeq(shelved[id].moves, 1, ply)
<1> PICK game : game = shelved[id]
  OBVIOUS
<1> PICK n : n = Len(game.moves)
  OBVIOUS
<1> DEFINE mine == {r \in rows : r.game = id /\ r.ply < ply}
           Nth(i) == IndexRow(id, game, i)
           f == [i \in 1 .. ply |-> Nth(i)]
<1>1. n \in Nat /\ ply \in Nat /\ ply <= n /\ game.moves \in Seq(ToSet(game.moves))
  BY MovesType
<1>2. /\ \A i \in 1 .. n : Nth(i) \in rows
      /\ \A r \in rows : r.game = id => \E i \in 1 .. n : r = Nth(i)
  BY RowOfMove
<1>3. \A i : Nth(i).game = id /\ Nth(i).ply = i - 1 /\ Nth(i).move = game.moves[i]
  BY RowFields
<1> HIDE DEF Nth
<1>4. \A i \in 1 .. ply : Nth(i) \in mine
  BY <1>1, <1>2, <1>3
<1>5. \A r \in mine : \E i \in 1 .. ply : r = Nth(i)
  <2> SUFFICES ASSUME NEW r \in mine
               PROVE  \E i \in 1 .. ply : r = Nth(i)
    OBVIOUS
  <2>1. PICK i \in 1 .. n : r = Nth(i)
    BY <1>2
  <2>2. i - 1 < ply
    BY <1>3, <2>1
  <2> QED  BY <1>1, <2>1, <2>2
<1>6. Cardinality(mine) = ply
  <2>1. f \in Bijection(1 .. ply, mine)
    <3>1. f \in [1 .. ply -> mine]
      BY <1>4
    <3>2. \A i, j \in 1 .. ply : f[i] = f[j] => i = j
      <4> SUFFICES ASSUME NEW i \in 1 .. ply, NEW j \in 1 .. ply, f[i] = f[j]
                   PROVE  i = j
        OBVIOUS
      <4>1. Nth(i).ply = Nth(j).ply
        OBVIOUS
      <4> QED  BY <1>3, <4>1
    <3>3. \A r \in mine : \E i \in 1 .. ply : f[i] = r
      BY <1>5
    <3> HIDE DEF f, mine
    <3> QED  BY <3>1, <3>2, <3>3 DEF Bijection, Injection, Surjection, IsInjective
  <2>2. IsFiniteSet(1 .. ply) /\ Cardinality(1 .. ply) = ply
    BY <1>1, FS_Interval
  <2> HIDE DEF f, mine
  <2> QED  BY <2>1, <2>2, FS_Bijection DEF ExistsBijection
<1>7. ASSUME NEW i \in 1 .. ply
      PROVE  (CHOOSE r \in mine : r.ply = i - 1) = Nth(i)
  <2>1. Nth(i) \in mine /\ Nth(i).ply = i - 1
    BY <1>3, <1>4
  <2>2. ASSUME NEW r \in mine, r.ply = i - 1
        PROVE  r = Nth(i)
    <3>1. PICK j \in 1 .. ply : r = Nth(j)
      BY <1>5
    <3> QED  BY <1>3, <2>2, <3>1
  <2> HIDE DEF mine
  <2> QED  BY <2>1, <2>2
<1>8. MovesBefore(id, ply) = [i \in 1 .. Cardinality(mine) |-> (CHOOSE r \in mine : r.ply = i - 1).move]
  BY DEF MovesBefore
<1>9. MovesBefore(id, ply) = [i \in 1 .. ply |-> game.moves[i]]
  <2> HIDE DEF mine
  <2> QED  BY <1>3, <1>6, <1>7, <1>8
<1>10. SubSeq(game.moves, 1, ply) = [i \in 1 .. ply |-> game.moves[i]]
  <2> PICK S : S = ToSet(game.moves)
    OBVIOUS
  <2>1. game.moves \in Seq(S)
    BY <1>1
  <2>2. /\ SubSeq(game.moves, 1, ply) \in Seq(S) /\ Len(SubSeq(game.moves, 1, ply)) = ply
        /\ \A i \in 1 .. ply : SubSeq(game.moves, 1, ply)[i] = game.moves[i]
    BY <1>1, <2>1, SubSeqProperties
  <2> QED  BY <2>2
<1> QED  BY <1>9, <1>10

LEMMA LeastOf ==
  ASSUME NEW S \in SUBSET Nat, S # {}
  PROVE  SetMin(S) \in S
<1>1. PICK m \in S : \A n \in S : ~(<<n, m>> \in OpToRel(<, Nat))
  BY NatLessThanWellFounded, WFMin
<1>2. ASSUME NEW n \in S
      PROVE  m <= n
  <2>1. <<n, m>> \in Nat \X Nat
    OBVIOUS
  <2>2. ~(n < m)
    BY <1>1, <2>1 DEF OpToRel
  <2> QED  BY <2>2
<1> QED  BY <1>2 DEF SetMin

\* Games come with their rows and go without: what was read of the others holds.
LEMMA GamesStep ==
  ASSUME Shelves, WholeGames, NEW game \in Shelf, AddGame(game)
  PROVE  /\ Shelves' /\ WholeGames'
         /\ \A id \in 1 .. added : HasRows(id)' => HasRows(id) /\ id \in DOMAIN shelved
         /\ \A id \in DOMAIN shelved : shelved'[id] = shelved[id] /\ id \in 1 .. added
         /\ added' = added + 1
<1> DEFINE new == added + 1
<1>1. /\ added' = new /\ DOMAIN shelved' = DOMAIN shelved \cup {new}
      /\ \A id \in DOMAIN shelved' : shelved'[id] = IF id = new THEN game ELSE shelved[id]
      /\ rows' = rows \cup IndexRows(new, game)
  BY DEF AddGame
<1>2. added \in Nat /\ new \notin 1 .. added /\ DOMAIN shelved \subseteq 1 .. added
  BY DEF Shelves
<1>3. \A r \in IndexRows(new, game) : r.game = new
  BY DEF IndexRows
<1>4. \A r \in rows : r.game \in DOMAIN shelved /\ r.game # new
  BY <1>2 DEF WholeGames
<1>5. Shelves'
  <2>1. shelved' = [id \in DOMAIN shelved \cup {new} |-> IF id = new THEN game ELSE shelved[id]]
    BY DEF AddGame
  <2>2. \A id \in DOMAIN shelved : shelved[id] \in Shelf
    BY DEF Shelves
  <2>3. shelved' \in [DOMAIN shelved' -> Shelf]
    BY <2>1, <2>2
  <2> QED  BY <1>1, <1>2, <2>3 DEF Shelves
<1>6. WholeGames'
  <2>1. \A r \in rows' : r.game \in DOMAIN shelved' /\ r \in IndexRows(r.game, shelved'[r.game])
    <3>1. ASSUME NEW r \in rows
          PROVE  r.game \in DOMAIN shelved' /\ r \in IndexRows(r.game, shelved'[r.game])
      BY <1>1, <1>4 DEF WholeGames
    <3>2. ASSUME NEW r \in IndexRows(new, game)
          PROVE  r.game \in DOMAIN shelved' /\ r \in IndexRows(r.game, shelved'[r.game])
      BY <1>1, <1>3, <3>2
    <3> QED  BY <1>1, <3>1, <3>2
  <2>2. ASSUME NEW id \in DOMAIN shelved', \E r \in rows' : r.game = id
        PROVE  IndexRows(id, shelved'[id]) \subseteq rows'
    <3>1. CASE id = new
      BY <1>1, <3>1
    <3>2. CASE id # new
      <4>1. id \in DOMAIN shelved /\ HasRows(id)
        BY <1>1, <1>3, <2>2, <3>2 DEF HasRows
      <4> QED  BY <1>1, <3>2, <4>1 DEF WholeGames
    <3> QED  BY <3>1, <3>2
  <2> QED  BY <2>1, <2>2 DEF WholeGames, HasRows
<1>7. ASSUME NEW id \in 1 .. added, HasRows(id)'
      PROVE  HasRows(id) /\ id \in DOMAIN shelved
  <2>1. PICK r \in rows' : r.game = id
    BY <1>7 DEF HasRows
  <2>2. r \in rows
    BY <1>1, <1>2, <1>3, <2>1
  <2> QED  BY <1>4, <2>1, <2>2 DEF HasRows
<1>8. \A id \in DOMAIN shelved : shelved'[id] = shelved[id] /\ id \in 1 .. added
  BY <1>1, <1>2
<1> QED  BY <1>1, <1>5, <1>6, <1>7, <1>8

LEMMA DropStep ==
  ASSUME Shelves, WholeGames, NEW id, DropRows(id) \/ DropShelved(id)
  PROVE  /\ Shelves' /\ WholeGames' /\ added' = added
         /\ \A g : HasRows(g)' => HasRows(g) /\ g \in DOMAIN shelved' /\ shelved'[g] = shelved[g]
<1>1. CASE DropRows(id)
  <2>1. /\ rows' = {r \in rows : r.game # id} /\ UNCHANGED <<shelved, added>>
    BY <1>1 DEF DropRows
  <2>2. \A g : HasRows(g)' => HasRows(g) /\ g # id
    BY <2>1 DEF HasRows
  <2>3. WholeGames'
    <3>1. ASSUME NEW g \in DOMAIN shelved, HasRows(g)'
          PROVE  IndexRows(g, shelved[g]) \subseteq rows'
      <4>1. IndexRows(g, shelved[g]) \subseteq rows /\ g # id
        BY <2>2, <3>1 DEF WholeGames
      <4>2. \A r \in IndexRows(g, shelved[g]) : r.game = g
        BY DEF IndexRows
      <4> QED  BY <2>1, <4>1, <4>2
    <3> QED  BY <2>1, <3>1 DEF WholeGames
  <2>4. \A g : HasRows(g) => g \in DOMAIN shelved
    BY DEF HasRows, WholeGames
  <2> QED  BY <2>1, <2>2, <2>3, <2>4 DEF Shelves
<1>2. CASE DropShelved(id)
  <2>1. /\ ~\E r \in rows : r.game = id
        /\ shelved' = [i \in DOMAIN shelved \ {id} |-> shelved[i]] /\ UNCHANGED <<rows, added>>
    BY <1>2 DEF DropShelved
  <2>2. \A g : HasRows(g) => g \in DOMAIN shelved' /\ shelved'[g] = shelved[g]
    BY <2>1 DEF HasRows, WholeGames
  <2>3. Shelves'
    BY <2>1 DEF Shelves
  <2>4. WholeGames'
    <3>1. ASSUME NEW r \in rows
          PROVE  r.game \in DOMAIN shelved' /\ shelved'[r.game] = shelved[r.game]
      BY <2>2 DEF HasRows
    <3>2. \A g \in DOMAIN shelved' : g \in DOMAIN shelved /\ shelved'[g] = shelved[g]
      BY <2>1
    <3> QED  BY <2>1, <3>1, <3>2 DEF WholeGames, HasRows
  <2> QED  BY <2>1, <2>2, <2>3, <2>4 DEF HasRows
<1> QED  BY <1>1, <1>2

\* What a report holds stays true of the games that are left.
LEMMA ReportsStay ==
  ASSUME ReportsTrue, report' = report, added \in Nat, added' \in Nat, added <= added',
         \A id \in 1 .. added : HasRows(id)' => HasRows(id) /\ shelved'[id] = shelved[id]
  PROVE  ReportsTrue'
<1> SUFFICES ASSUME NEW c \in SearchClients
             PROVE  IsReport(report[c])' /\ Counted(report[c])' /\ Arrived(report[c])' /\ Lined(report[c])'
  BY DEF ReportsTrue
<1> PICK x : x = report[c]
  OBVIOUS
<1>1. IsReport(x) /\ Counted(x) /\ Arrived(x) /\ Lined(x) /\ x = report'[c]
  BY DEF ReportsTrue
<1>2. ASSUME NEW id \in DOMAIN x.arrival
      PROVE  id \in 1 .. added' /\ ArrivesAt(id, x.arrival[id])'
  <2>1. id \in 1 .. added /\ ArrivesAt(id, x.arrival[id])
    BY <1>1 DEF Arrived
  <2> QED  BY <2>1 DEF ArrivesAt
<1>3. ASSUME NEW t \in x.lines
      PROVE  t.game \in 1 .. added' /\ Leads(t)'
  <2>1. t.game \in 1 .. added /\ Leads(t)
    BY <1>1 DEF Lined
  <2> QED  BY <2>1 DEF Leads
<1> QED  BY <1>1, <1>2, <1>3 DEF IsReport, Counted, Arrived, Lined, ArrivesAt, Leads

\* The tree counts each game once: those that play a move are games.
LEMMA CountedTree ==
  ASSUME Shelves, WholeGames, NEW m
  PROVE  Cardinality(GamesPlaying(m)) <= Cardinality(DOMAIN shelved)
<1>1. GamesPlaying(m) \subseteq DOMAIN shelved
  BY DEF GamesPlaying, Here, WholeGames
<1>2. IsFiniteSet(DOMAIN shelved)
  BY FS_Interval, FS_Subset DEF Shelves
<1> QED  BY <1>1, <1>2, FS_Subset

\* The first query of the transpositions finds plies at which games arrive.
LEMMA ArrivesThere ==
  ASSUME Shelves, WholeGames, NEW g, \E r \in Here : r.game = g
  PROVE  /\ g \in 1 .. added
         /\ ArrivesAt(g, SetMin({r.ply : r \in {x \in Here : x.game = g}}))
<1> DEFINE plies == {r.ply : r \in {x \in Here : x.game = g}}
<1> PICK ply : ply = SetMin(plies)
  OBVIOUS
<1>1. g \in DOMAIN shelved /\ g \in 1 .. added /\ HasRows(g)
  BY DEF Here, WholeGames, HasRows, Shelves
<1> PICK n : n = Len(shelved[g].moves)
  OBVIOUS
<1>2. n \in Nat
  BY <1>1, MovesType
<1>3. ASSUME NEW r \in Here, r.game = g
      PROVE  r.ply \in 0 .. n /\ PositionAt(shelved[g], r.ply + 1) = Asked
  <2>1. r \in rows /\ r.zobrist = Asked
    BY DEF Here
  <2>2. PICK i \in 1 .. n : r = IndexRow(g, shelved[g], i)
    BY <1>1, <1>3, <2>1, RowOfMove
  <2>3. r.ply = i - 1 /\ PositionAt(shelved[g], i) = Asked
    BY <2>1, <2>2, RowFields
  <2>4. r.ply + 1 = i /\ r.ply \in 0 .. n
    BY <1>2, <2>3
  <2> QED  BY <2>3, <2>4
<1>4. plies \subseteq Nat /\ plies # {}
  BY <1>2, <1>3
<1>5. ply \in plies
  BY <1>4, LeastOf
<1>6. PICK r \in Here : r.game = g /\ r.ply = ply
  BY <1>5
<1> QED  BY <1>1, <1>3, <1>6 DEF ArrivesAt

\* The second query finds lines that lead there.
LEMMA LineLeads ==
  ASSUME Shelves, WholeGames, NEW g \in 1 .. added, NEW ply, ArrivesAt(g, ply)
  PROVE  Leads([game |-> g, line |-> MovesBefore(g, ply)])
<1> SUFFICES ASSUME HasRows(g)
             PROVE  PositionAfter(shelved[g].start, MovesBefore(g, ply)) = Asked
  BY DEF Leads
<1>1. g \in DOMAIN shelved
  BY DEF HasRows, WholeGames
<1>2. ply \in 0 .. Len(shelved[g].moves) /\ PositionAt(shelved[g], ply + 1) = Asked
  BY DEF ArrivesAt
<1>3. MovesBefore(g, ply) = SubSeq(shelved[g].moves, 1, ply)
  BY <1>1, <1>2, LineOfGame
<1>4. ply + 1 - 1 = ply
  BY <1>2, MovesType, <1>1
<1> QED  BY <1>2, <1>3, <1>4 DEF PositionAt

\* The queries of a report.
LEMMA ReportStep ==
  ASSUME SInv, NEW c \in SearchClients, AskReport(c) \/ Arrivals(c) \/ Lines(c)
  PROVE  SInv'
<1>1. Shelves /\ WholeGames /\ ReportsTrue /\ UNCHANGED <<shelved, rows, added>>
  BY DEF SInv, AskReport, Arrivals, Lines
<1>2. Shelves' /\ WholeGames'
  BY <1>1 DEF Shelves, WholeGames, HasRows
<1>3. ASSUME NEW x, report' = [report EXCEPT ![c] = x],
             IsReport(x), Counted(x), Arrived(x), Lined(x)
      PROVE  ReportsTrue'
  <2>1. /\ DOMAIN report' = SearchClients /\ report'[c] = x
        /\ \A d \in SearchClients \ {c} : report'[d] = report[d]
    BY <1>1, <1>3 DEF ReportsTrue
  <2>2. \A y : /\ IsReport(y)' <=> IsReport(y)
               /\ Counted(y)' <=> Counted(y)
               /\ Arrived(y)' <=> Arrived(y)
               /\ Lined(y)' <=> Lined(y)
    BY <1>1 DEF IsReport, Counted, Arrived, Lined, ArrivesAt, Leads, HasRows
  <2> QED  BY <1>1, <1>3, <2>1, <2>2 DEF ReportsTrue
<1> PICK x : x = report[c]
  OBVIOUS
<1>4. IsReport(x) /\ Counted(x) /\ Arrived(x) /\ Lined(x)
  BY <1>1 DEF ReportsTrue
<1>5. CASE AskReport(c)
  <2> PICK tree : tree = OpeningTree
    OBVIOUS
  <2> PICK n : n = Cardinality(DOMAIN shelved)
    OBVIOUS
  <2> PICK y : y = [NoPositionReport EXCEPT !.stage = "tree", !.tree = tree, !.of = n]
    OBVIOUS
  <2>1. report' = [report EXCEPT ![c] = y]
    BY <1>5 DEF AskReport
  <2>2. /\ IsReport(y) /\ y.tree = tree /\ y.of = n
        /\ y.arrival = <<>> /\ y.lines = {}
    BY DEF IsReport, NoPositionReport
  <2>3. \A m \in DOMAIN tree : tree[m] <= n
    BY <1>1, CountedTree DEF OpeningTree
  <2>4. Counted(y) /\ Arrived(y) /\ Lined(y)
    BY <2>2, <2>3 DEF Counted, Arrived, Lined
  <2> QED  BY <1>1, <1>2, <1>3, <2>1, <2>2, <2>4 DEF SInv
<1>6. CASE Arrivals(c)
  <2> PICK arrival : arrival = [g \in {r.game : r \in Here} |->
                                  SetMin({r.ply : r \in {z \in Here : z.game = g}})]
    OBVIOUS
  <2> PICK y : y = [x EXCEPT !.stage = "arrivals", !.arrival = arrival]
    OBVIOUS
  <2>1. report' = [report EXCEPT ![c] = y]
    BY <1>6 DEF Arrivals
  <2>2. ASSUME NEW g \in DOMAIN arrival
        PROVE  g \in 1 .. added /\ ArrivesAt(g, arrival[g])
    <3>1. \E r \in Here : r.game = g
      OBVIOUS
    <3> QED  BY <1>1, <3>1, ArrivesThere
  <2>3. /\ IsReport(y) /\ y.arrival = arrival
        /\ y.tree = x.tree /\ y.lines = x.lines /\ y.of = x.of
    BY <1>4 DEF IsReport
  <2>4. Counted(y) /\ Arrived(y) /\ Lined(y)
    BY <1>4, <2>2, <2>3 DEF Counted, Arrived, Lined
  <2> QED  BY <1>1, <1>2, <1>3, <2>1, <2>3, <2>4 DEF SInv
<1>7. CASE Lines(c)
  <2> PICK lines : lines = {[game |-> g, line |-> MovesBefore(g, x.arrival[g])] : g \in DOMAIN x.arrival}
    OBVIOUS
  <2> PICK y : y = [x EXCEPT !.stage = "done", !.lines = lines]
    OBVIOUS
  <2>1. report' = [report EXCEPT ![c] = y]
    <3>1. report' = [report EXCEPT ![c].stage = "done", ![c].lines = lines]
      BY <1>7 DEF Lines
    <3> QED  BY <3>1
  <2>2. ASSUME NEW t \in lines
        PROVE  t.game \in 1 .. added /\ Leads(t)
    <3>1. PICK g \in DOMAIN x.arrival : t = [game |-> g, line |-> MovesBefore(g, x.arrival[g])]
      OBVIOUS
    <3>2. g \in 1 .. added /\ ArrivesAt(g, x.arrival[g])
      BY <1>4 DEF Arrived
    <3> QED  BY <1>1, <3>1, <3>2, LineLeads
  <2>3. /\ IsReport(y) /\ y.lines = lines
        /\ y.tree = x.tree /\ y.arrival = x.arrival /\ y.of = x.of
    BY <1>4 DEF IsReport
  <2>4. Counted(y) /\ Arrived(y) /\ Lined(y)
    BY <1>4, <2>2, <2>3 DEF Counted, Arrived, Lined
  <2> QED  BY <1>1, <1>2, <1>3, <2>1, <2>3, <2>4 DEF SInv
<1> QED  BY <1>5, <1>6, <1>7

LEMMA SearchInitInv == SearchInit => SInv
<1> SUFFICES ASSUME SearchInit
             PROVE  SInv
  OBVIOUS
<1>1. shelved = <<>> /\ rows = {} /\ added = 0 /\ DOMAIN shelved = {}
  BY DEF SearchInit
<1>2. shelved \in [DOMAIN shelved -> Shelf]
  BY <1>1
<1>3. \A c \in SearchClients : report[c] = NoPositionReport
  BY DEF SearchInit
<1>4. /\ IsReport(NoPositionReport) /\ Counted(NoPositionReport)
      /\ Arrived(NoPositionReport) /\ Lined(NoPositionReport)
  BY DEF NoPositionReport, IsReport, Counted, Arrived, Lined
<1>5. ReportsTrue
  BY <1>3, <1>4 DEF ReportsTrue, SearchInit
<1> QED  BY <1>1, <1>2, <1>5 DEF SInv, Shelves, WholeGames

LEMMA SearchNextInv == SInv /\ [SearchNext]_svars => SInv'
<1> SUFFICES ASSUME SInv, [SearchNext]_svars
             PROVE  SInv'
  OBVIOUS
<1>1. Shelves /\ WholeGames /\ ReportsTrue /\ added \in Nat /\ added <= added
  BY DEF SInv, Shelves
<1>2. ASSUME NEW game \in Shelf, AddGame(game)
      PROVE  SInv'
  <2>1. report' = report
    BY <1>2 DEF AddGame
  <2>2. /\ Shelves' /\ WholeGames' /\ added' = added + 1
        /\ \A id \in 1 .. added : HasRows(id)' => HasRows(id) /\ shelved'[id] = shelved[id]
    BY <1>1, <1>2, GamesStep
  <2>3. ReportsTrue'
    BY <1>1, <2>1, <2>2, ReportsStay
  <2> QED  BY <2>2, <2>3 DEF SInv
<1>3. ASSUME NEW id, DropRows(id) \/ DropShelved(id)
      PROVE  SInv'
  <2>1. report' = report
    BY <1>3 DEF DropRows, DropShelved
  <2>2. /\ Shelves' /\ WholeGames' /\ added' = added
        /\ \A g : HasRows(g)' => HasRows(g) /\ shelved'[g] = shelved[g]
    BY <1>1, <1>3, DropStep
  <2>3. ReportsTrue'
    BY <1>1, <2>1, <2>2, ReportsStay
  <2> QED  BY <2>2, <2>3 DEF SInv
<1>4. ASSUME UNCHANGED <<shelved, rows, added, report>>
      PROVE  SInv'
  <2>1. Shelves' /\ WholeGames'
    BY <1>1, <1>4 DEF Shelves, WholeGames, HasRows
  <2>2. ReportsTrue'
    BY <1>1, <1>4, ReportsStay DEF HasRows
  <2> QED  BY <2>1, <2>2 DEF SInv
<1>5. ASSUME NEW c \in SearchClients, NEW q \in SearchQueries, SearchPage(c, q)
      PROVE  SInv'
  BY <1>4, <1>5 DEF SearchPage
<1> QED  BY <1>2, <1>3, <1>4, <1>5, ReportStep DEF SearchNext, svars

\* The report's counts and lines are those of the games, for any games, moves
\* and rules of movement, whatever is added or deleted between its queries
\* (search/position.rs, search/report.rs).
THEOREM ReportsAreTrue == SearchSpec => []ReportIsTrue
<1>1. SInv => ReportIsTrue
  <2> SUFFICES ASSUME SInv
               PROVE  ReportIsTrue
    OBVIOUS
  <2>1. GamesCountOnce
    BY DEF SInv, ReportsTrue, Counted, GamesCountOnce
  <2>2. LinesReachThePosition
    BY DEF SInv, ReportsTrue, Lined, Leads, HasRows, LinesReachThePosition
  <2> QED  BY <2>1, <2>2 DEF ReportIsTrue
<1> QED  BY <1>1, SearchInitInv, SearchNextInv, PTL DEF SearchSpec

(***************************************************************************)
(* The pages of a search.  What a walk has served runs in the order asked  *)
(* for and ends at its cursor; a game that stayed is behind it or ahead.   *)
(***************************************************************************)
Entries == [key : Int, id : Nat \ {0}]
KeyHolds(q, row) == row.id \in 1 .. added /\ (row.id \in DOMAIN shelved => row = cursor_for(q, row.id))
Increasing(dir, s) == \A i, j \in 1 .. Len(s) : i < j => Past(dir, s[i], s[j])
Unique(s) == \A i, j \in 1 .. Len(s) : s[i].id = s[j].id => i = j
ServedIds(s) == {s[i].id : i \in 1 .. Len(s)}
BehindOrAhead(x, id) ==
  \/ id \in ServedIds(x.served)
  \/ x.state = "open" /\ Past(x.query.dir, x.cursor, cursor_for(x.query, id))
Walk(x) ==
  /\ DOMAIN x = {"query", "cursor", "served", "steady", "state"}
  /\ x.served \in Seq(Entries) /\ Unique(x.served)
  /\ x.state = "idle" => x.served = <<>>
  /\ x.state # "idle" =>
       /\ x.query \in SearchQueries
       /\ \A i \in 1 .. Len(x.served) : KeyHolds(x.query, x.served[i])
       /\ \A id \in x.steady :
            id \in DOMAIN shelved /\ Matches(x.query, shelved[id]) /\ BehindOrAhead(x, id)
  /\ x.state = "open" =>
       /\ Increasing(x.query.dir, x.served)
       /\ Len(x.served) # 0 /\ x.cursor = x.served[Len(x.served)]
Walks == DOMAIN scan = SearchClients /\ \A c \in SearchClients : Walk(scan[c])

LEMMA PastIsOrder ==
  /\ \A dir, a : a \in Entries => ~Past(dir, a, a)
  /\ \A dir : \A a, b \in Entries : a.id = b.id \/ Past(dir, a, b) \/ Past(dir, b, a)
  /\ \A dir : \A a, b, z \in Entries : Past(dir, a, b) /\ Past(dir, b, z) => Past(dir, a, z)
BY DEF Entries, Past

LEMMA CursorType ==
  ASSUME Shelves, NEW q \in SearchQueries, NEW id \in DOMAIN shelved
  PROVE  cursor_for(q, id) \in Entries /\ cursor_for(q, id).id = id
<1> PICK game : game = shelved[id]
  OBVIOUS
<1>1. /\ game \in Shelf /\ id \in Nat \ {0}
      /\ game.date \in Nat /\ game.white_elo \in Nat /\ game.black_elo \in Nat
      /\ q.sort \in {"id", "date", "elo"} /\ MaxElo \in Nat
  BY SearchAssumption DEF Shelves
<1>2. elo_missing_key(q.dir) \in Int
  BY <1>1 DEF elo_missing_key
<1>3. SortKey(q, game) \in Int
  BY <1>1, <1>2 DEF SortKey
<1> QED  BY <1>1, <1>3 DEF cursor_for, Entries

\* The rows a page is cut from: each of those eligible, in the order asked for.
LEMMA FoundInOrder ==
  ASSUME Shelves, NEW q \in SearchQueries, NEW S \in SUBSET DOMAIN shelved, NEW f, f = InOrder(q, S)
  PROVE  /\ f \in Seq(S) /\ Len(f) \in Nat /\ S \subseteq {f[k] : k \in 1 .. Len(f)}
         /\ \A i, j \in 1 .. Len(f) : i < j => Past(q.dir, cursor_for(q, f[i]), cursor_for(q, f[j]))
<1> PICK n : n = Cardinality(S)
  OBVIOUS
<1> PICK at : at = [x \in S |-> cursor_for(q, x)]
  OBVIOUS
<1>1. \A x \in S : at[x] \in Entries /\ at[x].id = x /\ at[x] = cursor_for(q, x)
  BY CursorType
<1>2. IsFiniteSet(S)
  <2>1. IsFiniteSet(DOMAIN shelved)
    BY FS_Interval, FS_Subset DEF Shelves
  <2> QED  BY <2>1, FS_Subset
<1> PICK down : down = [x \in S |-> {y \in S : Past(q.dir, at[y], at[x])}]
  OBVIOUS
<1>3. /\ down \in [S -> SUBSET S]
      /\ \A x, y \in S : y \in down[x] <=> Past(q.dir, at[y], at[x])
      /\ \A x \in S : down[x] = {y \in S : Past(q.dir, at[y], at[x])}
  OBVIOUS
<1>4. /\ \A x \in S : x \notin down[x]
      /\ \A x, y \in S : x = y \/ x \in down[y] \/ y \in down[x]
      /\ \A x, y \in S : x \in down[y] => down[x] \subseteq down[y]
  BY ONLY <1>1, <1>3, PastIsOrder
<1>0. n = Cardinality(S)
  OBVIOUS
<1>5. \A k \in 1 .. n : \E x \in S : Cardinality(down[x]) = k - 1
  BY ONLY <1>0, <1>2, <1>3, <1>4, Ranked
<1>6. f = [k \in 1 .. n |->
             CHOOSE x \in S : Cardinality({y \in S : Past(q.dir, cursor_for(q, y), cursor_for(q, x))}) = k - 1]
  BY DEF InOrder, InOrderOf
<1>7. \A x \in S : down[x] = {y \in S : Past(q.dir, cursor_for(q, y), cursor_for(q, x))}
  BY <1>1, <1>3
<1>8. ASSUME NEW k \in 1 .. n
      PROVE  f[k] \in S /\ Cardinality(down[f[k]]) = k - 1
  <2>1. f[k] = CHOOSE x \in S :
                 Cardinality({y \in S : Past(q.dir, cursor_for(q, y), cursor_for(q, x))}) = k - 1
    BY <1>6
  <2>2. \E x \in S : Cardinality({y \in S : Past(q.dir, cursor_for(q, y), cursor_for(q, x))}) = k - 1
    BY <1>5, <1>7
  <2>3. /\ f[k] \in S
        /\ Cardinality({y \in S : Past(q.dir, cursor_for(q, y), cursor_for(q, f[k]))}) = k - 1
    BY <2>1, <2>2
  <2> QED  BY <1>7, <2>3
<1>9. f \in [1 .. n -> S]
  BY <1>6, <1>8, Zenon
<1>10. f \in [1 .. Cardinality(S) -> S] /\ \A k \in 1 .. Cardinality(S) : Cardinality(down[f[k]]) = k - 1
  BY ONLY <1>0, <1>8, <1>9
<1>11. /\ f \in Seq(S) /\ Len(f) = Cardinality(S) /\ Len(f) \in Nat
       /\ \A x \in S : \E k \in 1 .. Len(f) : f[k] = x
       /\ \A i, j \in 1 .. Len(f) : i < j <=> f[i] \in down[f[j]]
  BY ONLY <1>2, <1>3, <1>4, <1>10, Enumerated
<1>12. \A i \in 1 .. Len(f) : f[i] \in S
  BY ONLY <1>11, ElementOfSeq
<1>13. \A i, j \in 1 .. Len(f) : i < j => Past(q.dir, cursor_for(q, f[i]), cursor_for(q, f[j]))
  BY ONLY <1>1, <1>3, <1>11, <1>12
<1>14. S \subseteq {f[k] : k \in 1 .. Len(f)}
  BY ONLY <1>11
<1> QED  BY <1>11, <1>13, <1>14

\* A walk looks at the games that are left as it did before.
LEMMA WalkStays ==
  ASSUME Shelves, NEW x, Walk(x), added' \in Nat, added <= added',
         \A id \in 1 .. added : id \in DOMAIN shelved' => id \in DOMAIN shelved /\ shelved'[id] = shelved[id],
         x.state # "idle" => x.steady \subseteq DOMAIN shelved'
  PROVE  Walk(x)'
<1>1. added \in Nat /\ \A id \in DOMAIN shelved : id \in 1 .. added
  BY DEF Shelves
<1>2. ASSUME x.state # "idle", NEW i \in 1 .. Len(x.served)
      PROVE  KeyHolds(x.query, x.served[i])'
  <2>1. KeyHolds(x.query, x.served[i])
    BY <1>2 DEF Walk
  <2> QED  BY <1>1, <2>1 DEF KeyHolds, cursor_for
<1>3. ASSUME x.state # "idle", NEW id \in x.steady
      PROVE  /\ id \in DOMAIN shelved' /\ Matches(x.query, shelved'[id])
             /\ id \in ServedIds(x.served) \/ (x.state = "open" /\ Past(x.query.dir, x.cursor, cursor_for(x.query, id)'))
  <2>1. id \in DOMAIN shelved /\ Matches(x.query, shelved[id]) /\ BehindOrAhead(x, id)
    BY <1>3 DEF Walk
  <2>2. id \in DOMAIN shelved' /\ shelved'[id] = shelved[id]
    BY <1>1, <1>3, <2>1
  <2> QED  BY <2>1, <2>2 DEF BehindOrAhead, cursor_for
<1> QED  BY <1>2, <1>3 DEF Walk, BehindOrAhead

\* What one page makes y of the walk x.
Turned(x, q, cursor, before, found, page, next, fresh, y) ==
  /\ x.state # "done" /\ x.state = "open" => q = x.query
  /\ cursor = IF x.state = "open" THEN x.cursor ELSE NoCursor
  /\ before = IF x.state = "open" THEN x.served ELSE <<>>
  /\ found = InOrder(q, Eligible(q, cursor))
  /\ page = SubSeq(found, 1, IF Len(found) < q.limit THEN Len(found) ELSE q.limit)
  /\ next = LastServed(q, found, page)
  /\ fresh = [i \in DOMAIN page |-> cursor_for(q, page[i])]
  /\ DOMAIN y = {"query", "cursor", "served", "steady", "state"}
  /\ y.query = q /\ y.cursor = next /\ y.served = before \o fresh
  /\ y.steady = IF x.state = "open" THEN x.steady ELSE Eligible(q, NoCursor)
  /\ y.state = IF next = NoCursor THEN "done" ELSE "open"

\* One page more.
LEMMA PageServed ==
  ASSUME Shelves, NEW q \in SearchQueries, NEW x, Walk(x), NEW cursor, NEW before, NEW found, NEW page,
         NEW next, NEW fresh, NEW y, Turned(x, q, cursor, before, found, page, next, fresh, y)
  PROVE  Walk(y)
<1>t. /\ x.state # "done" /\ x.state = "open" => q = x.query
      /\ cursor = IF x.state = "open" THEN x.cursor ELSE NoCursor
      /\ before = IF x.state = "open" THEN x.served ELSE <<>>
      /\ found = InOrder(q, Eligible(q, cursor))
      /\ page = SubSeq(found, 1, IF Len(found) < q.limit THEN Len(found) ELSE q.limit)
      /\ next = LastServed(q, found, page)
      /\ fresh = [i \in DOMAIN page |-> cursor_for(q, page[i])]
      /\ DOMAIN y = {"query", "cursor", "served", "steady", "state"}
      /\ y.query = q /\ y.cursor = next /\ y.served = before \o fresh
      /\ y.steady = IF x.state = "open" THEN x.steady ELSE Eligible(q, NoCursor)
      /\ y.state = IF next = NoCursor THEN "done" ELSE "open"
  BY DEF Turned
<1> PICK S : S = Eligible(q, cursor)
  OBVIOUS
<1> PICK m : m = IF Len(found) < q.limit THEN Len(found) ELSE q.limit
  OBVIOUS
<1> PICK old : old = Len(before)
  OBVIOUS
<1> PICK served : served = before \o fresh
  OBVIOUS
<1>0. /\ x.state = "open" => x.cursor = cursor /\ x.served = before
      /\ x.state # "open" => cursor = NoCursor /\ before = <<>>
      /\ served = before \o fresh /\ S = Eligible(q, cursor) /\ found = InOrder(q, S)
      /\ next = LastServed(q, found, page)
  BY <1>t
<1>1. /\ before \in Seq(Entries) /\ Unique(before) /\ old \in Nat /\ old = Len(before)
      /\ \A i \in 1 .. old : KeyHolds(q, before[i]) /\ before[i] \in Entries
      /\ x.state = "open" => /\ Increasing(q.dir, before) /\ old # 0 /\ cursor = before[old]
                             /\ cursor \in Entries /\ cursor # NoCursor
      /\ x.state # "open" => old = 0 /\ cursor = NoCursor
  <2>1. CASE x.state = "open"
    <3>1. before = x.served /\ cursor = x.cursor /\ q = x.query
      BY <1>t, <2>1
    <3>2. /\ before \in Seq(Entries) /\ Unique(before) /\ Increasing(q.dir, before)
          /\ Len(before) # 0 /\ cursor = before[Len(before)] /\ \A i \in 1 .. Len(before) : KeyHolds(q, before[i])
      BY <2>1, <3>1 DEF Walk
    <3>3. old \in Nat /\ \A i \in 1 .. old : before[i] \in Entries
      BY <3>2, LenProperties, ElementOfSeq
    <3>4. cursor \in Entries
      BY <3>2, <3>3
    <3>5. cursor # NoCursor
      BY <3>4 DEF Entries, NoCursor
    <3> QED  BY <2>1, <3>2, <3>3, <3>4, <3>5
  <2>2. CASE x.state # "open"
    <3>1. before = <<>> /\ cursor = NoCursor /\ old = 0
      BY <1>t, <2>2
    <3>2. before \in Seq(Entries)
      BY ONLY <3>1, EmptySeq
    <3> QED  BY ONLY <2>2, <3>1, <3>2 DEF Unique
  <2> QED  BY <2>1, <2>2
<1>2. /\ S \in SUBSET DOMAIN shelved
      /\ \A id : id \in S <=> /\ id \in DOMAIN shelved /\ Matches(q, shelved[id])
                              /\ x.state = "open" => Past(q.dir, cursor, cursor_for(q, id))
  BY <1>1 DEF Eligible
<1>3. /\ found \in Seq(S) /\ Len(found) \in Nat /\ S \subseteq {found[k] : k \in 1 .. Len(found)}
      /\ \A i, j \in 1 .. Len(found) : i < j => Past(q.dir, cursor_for(q, found[i]), cursor_for(q, found[j]))
      /\ \A i \in 1 .. Len(found) : found[i] \in S
  <2>1. found = InOrder(q, S) /\ S \in SUBSET DOMAIN shelved
    BY ONLY <1>0, <1>2
  <2>2. /\ found \in Seq(S) /\ Len(found) \in Nat /\ S \subseteq {found[k] : k \in 1 .. Len(found)}
        /\ \A i, j \in 1 .. Len(found) : i < j => Past(q.dir, cursor_for(q, found[i]), cursor_for(q, found[j]))
    BY ONLY <2>1, Shelves, FoundInOrder
  <2> QED  BY ONLY <2>2, ElementOfSeq
<1>4. /\ m \in Nat /\ m <= Len(found) /\ (m = Len(found) \/ (m < Len(found) /\ m # 0))
  <2>1. q.limit \in Nat \ {0}
    BY SearchAssumption
  <2> QED  BY <1>3, <2>1
<1>5. DOMAIN page = 1 .. m /\ Len(page) = m /\ \A i \in 1 .. m : page[i] = found[i]
  <2>1. page = SubSeq(found, 1, m)
    BY <1>t
  <2>2. 1 \in Int /\ m \in Int /\ \A i \in 1 .. m : found[i] \in S
    BY <1>3, <1>4
  <2>3. page \in Seq(S) /\ Len(page) = IF 1 <= m THEN m - 1 + 1 ELSE 0
    BY ONLY <2>1, <2>2, SubSeqProperties
  <2>4. \A i \in 1 .. m - 1 + 1 : page[i] = found[1 + i - 1]
    BY ONLY <2>1, <2>2, SubSeqProperties
  <2>5. Len(page) = m /\ m - 1 + 1 = m /\ \A i \in 1 .. m : 1 + i - 1 = i
    BY <1>4, <2>3
  <2>6. DOMAIN page = 1 .. m
    BY <2>3, <2>5, LenProperties
  <2> QED  BY <2>4, <2>5, <2>6
<1>6. /\ fresh = [i \in 1 .. m |-> cursor_for(q, found[i])] /\ fresh \in Seq(Entries) /\ Len(fresh) = m
      /\ \A i \in 1 .. m : /\ fresh[i] = cursor_for(q, found[i]) /\ fresh[i] \in Entries
                           /\ fresh[i].id = found[i] /\ found[i] \in S
  <2>1. \A i \in 1 .. m : found[i] \in S /\ cursor_for(q, found[i]) \in Entries /\ cursor_for(q, found[i]).id = found[i]
    <3>1. \A i \in 1 .. m : found[i] \in S
      BY ONLY <1>3, <1>4
    <3>2. \A g \in S : cursor_for(q, g) \in Entries /\ cursor_for(q, g).id = g
      BY ONLY <1>2, Shelves, CursorType
    <3> QED  BY ONLY <3>1, <3>2
  <2>2. fresh = [i \in 1 .. m |-> cursor_for(q, found[i])]
    BY <1>t, <1>5
  <2>3. fresh \in [1 .. m -> Entries]
    BY ONLY <2>1, <2>2
  <2>4. fresh \in Seq(Entries) /\ Len(fresh) = m
    BY ONLY <1>4, <2>3, SeqDef, LenProperties
  <2> QED  BY <2>1, <2>2, <2>4
<1>7. /\ served \in Seq(Entries) /\ Len(served) = old + m
      /\ \A i \in 1 .. old : served[i] = before[i]
      /\ \A i \in old + 1 .. old + m : i - old \in 1 .. m /\ served[i] = fresh[i - old]
  <2>1. /\ served \in Seq(Entries) /\ Len(served) = Len(before) + Len(fresh)
        /\ \A i \in 1 .. Len(before) + Len(fresh) :
             served[i] = IF i <= Len(before) THEN before[i] ELSE fresh[i - Len(before)]
    <3>1. before \in Seq(Entries) /\ fresh \in Seq(Entries) /\ served = before \o fresh
      BY ONLY <1>0, <1>1, <1>6
    <3> QED  BY ONLY <3>1, ConcatProperties
  <2> QED  BY ONLY <1>1, <1>4, <1>6, <2>1
<1>8. \A i \in 1 .. old + m : i \in 1 .. old \/ i \in old + 1 .. old + m
  BY ONLY <1>1, <1>4
<1>80. ASSUME NEW k \in 1 .. m, NEW i, i = old + k
       PROVE  i \in 1 .. old + m /\ i \in old + 1 .. old + m /\ served[i] = fresh[k]
  <2>1. i \in 1 .. old + m /\ i \in old + 1 .. old + m /\ i - old = k
    BY ONLY <1>1, <1>4, <1>80
  <2> QED  BY ONLY <1>7, <2>1
<1>81. ASSUME NEW i \in old + 1 .. old + m
       PROVE  served[i].id \in DOMAIN shelved
  BY ONLY <1>2, <1>6, <1>7
<1>9. \A i \in 1 .. old + m : served[i] \in Entries /\ KeyHolds(q, served[i])
  <2>1. \A i \in 1 .. m : KeyHolds(q, fresh[i])
    BY ONLY <1>2, <1>6, Shelves DEF KeyHolds, Shelves
  <2> QED  BY ONLY <1>1, <1>6, <1>7, <1>8, <2>1
<1>10. Increasing(q.dir, served)
  <2>1. ASSUME NEW i \in 1 .. old + m, NEW j \in 1 .. old + m, i < j
        PROVE  Past(q.dir, served[i], served[j])
    <3>1. CASE j \in 1 .. old
      <4>1. i \in 1 .. old /\ x.state = "open"
        BY ONLY <1>1, <2>1, <3>1
      <4> QED  BY ONLY <1>1, <1>7, <2>1, <3>1, <4>1 DEF Increasing
    <3>2. CASE i \in old + 1 .. old + m
      <4>1. j \in old + 1 .. old + m /\ i - old \in 1 .. m /\ j - old \in 1 .. m /\ i - old < j - old
        BY ONLY <1>1, <1>4, <2>1, <3>2
      <4>2. i - old \in 1 .. Len(found) /\ j - old \in 1 .. Len(found)
        <5>1. \A z \in 1 .. m : z \in 1 .. Len(found)
          BY ONLY <1>3, <1>4
        <5> QED  BY ONLY <4>1, <5>1
      <4> QED  BY ONLY <1>3, <1>6, <1>7, <3>2, <4>1, <4>2
    <3>3. CASE i \in 1 .. old /\ j \in old + 1 .. old + m
      <4>1. x.state = "open" /\ old \in 1 .. old
        BY ONLY <1>1, <3>3
      <4>2. Past(q.dir, cursor, served[j])
        BY ONLY <1>2, <1>6, <1>7, <3>3, <4>1
      <4>3. i = old \/ Past(q.dir, before[i], before[old])
        BY ONLY <1>1, <3>3, <4>1 DEF Increasing
      <4>4. served[i] = before[i] /\ before[i] \in Entries /\ cursor \in Entries /\ served[j] \in Entries
            /\ before[old] = cursor
        BY ONLY <1>1, <1>7, <1>9, <3>3, <4>1
      <4> QED  BY ONLY <4>2, <4>3, <4>4, PastIsOrder
    <3> QED  BY ONLY <1>8, <3>1, <3>2, <3>3
  <2> QED  BY ONLY <1>7, <2>1 DEF Increasing
<1>11. Unique(served)
  <2>1. ASSUME NEW i \in 1 .. old + m, NEW j \in 1 .. old + m, served[i].id = served[j].id, i # j
        PROVE  FALSE
    <3>1. CASE i \in 1 .. old /\ j \in 1 .. old
      BY ONLY <1>1, <1>7, <2>1, <3>1 DEF Unique
    <3>2. CASE i \in old + 1 .. old + m \/ j \in old + 1 .. old + m
      <4>1. served[i].id \in DOMAIN shelved
        BY ONLY <1>81, <2>1, <3>2
      <4>2. served[i] = served[j]
        BY ONLY <1>9, <2>1, <4>1 DEF KeyHolds
      <4>3. i < j \/ j < i
        BY ONLY <1>1, <1>4, <2>1
      <4>4. Past(q.dir, served[i], served[j]) \/ Past(q.dir, served[j], served[i])
        BY ONLY <1>7, <1>10, <4>3 DEF Increasing
      <4> QED  BY ONLY <1>9, <4>2, <4>4, PastIsOrder
    <3> QED  BY ONLY <1>8, <3>1, <3>2
  <2> QED  BY ONLY <1>7, <2>1 DEF Unique
<1>12. /\ y.query = q /\ y.served = served /\ y.cursor = next
       /\ DOMAIN y = {"query", "cursor", "served", "steady", "state"}
       /\ y.steady = IF x.state = "open" THEN x.steady ELSE Eligible(q, NoCursor)
       /\ y.state = IF next = NoCursor THEN "done" ELSE "open"
  BY <1>t
<1>13. /\ y.state # "idle"
       /\ y.state = "open" <=> m < Len(found)
       /\ y.state = "open" => m # 0 /\ next = fresh[m] /\ m \in 1 .. m
  <2>1. CASE m < Len(found)
    <3>1. m # 0 /\ m \in 1 .. m
      BY ONLY <1>4, <2>1
    <3>2. next = cursor_for(q, found[m])
      BY ONLY <1>0, <1>5, <2>1, <3>1 DEF LastServed, Last
    <3>3. next = fresh[m] /\ next \in Entries
      BY ONLY <1>6, <3>1, <3>2
    <3>4. next # NoCursor
      BY ONLY <3>3 DEF Entries, NoCursor
    <3> QED  BY ONLY <1>12, <2>1, <3>1, <3>3, <3>4
  <2>2. CASE m = Len(found)
    <3>1. next = NoCursor /\ ~(m < Len(found))
      BY ONLY <1>0, <1>3, <1>5, <2>2 DEF LastServed
    <3> QED  BY ONLY <1>12, <3>1
  <2> QED  BY ONLY <1>4, <2>1, <2>2
<1>14. ASSUME y.state = "open"
       PROVE  Len(served) # 0 /\ y.cursor = served[Len(served)]
  <2> PICK last : last = old + m
    OBVIOUS
  <2>1. m # 0 /\ m \in 1 .. m /\ next = fresh[m] /\ last = old + m
    BY <1>13, <1>14
  <2>2. last \in 1 .. old + m /\ served[last] = fresh[m]
    BY ONLY <1>80, <2>1
  <2>3. last # 0 /\ Len(served) = last
    BY ONLY <1>1, <1>4, <1>7, <2>1
  <2> QED  BY ONLY <1>12, <2>1, <2>2, <2>3
<1>15. ASSUME NEW id \in S
       PROVE  BehindOrAhead(y, id)
  <2>1. PICK k \in 1 .. Len(found) : found[k] = id
    BY ONLY <1>3
  <2>2. CASE k <= m
    <3> PICK i : i = old + k
      OBVIOUS
    <3>1. k \in 1 .. m /\ i = old + k
      BY <1>3, <1>4, <2>2
    <3>2. i \in 1 .. old + m /\ served[i] = fresh[k]
      BY ONLY <1>80, <3>1
    <3>3. i \in 1 .. old + m /\ served[i].id = id
      BY ONLY <1>6, <2>1, <3>1, <3>2
    <3> QED  BY ONLY <1>7, <1>12, <3>3 DEF BehindOrAhead, ServedIds
  <2>3. CASE m < k
    <3>1. m < Len(found) /\ y.state = "open"
      BY ONLY <1>3, <1>4, <1>13, <2>3
    <3>2. m \in 1 .. m /\ m \in 1 .. Len(found) /\ next = fresh[m]
      BY ONLY <1>3, <1>4, <1>13, <3>1
    <3>3. Past(q.dir, next, cursor_for(q, id))
      BY ONLY <1>3, <1>6, <2>1, <2>3, <3>2
    <3> QED  BY ONLY <1>12, <3>1, <3>3 DEF BehindOrAhead
  <2> QED  BY ONLY <1>3, <1>4, <2>2, <2>3
<1>16. ASSUME NEW id \in y.steady
       PROVE  id \in DOMAIN shelved /\ Matches(q, shelved[id]) /\ BehindOrAhead(y, id)
  <2>1. CASE x.state = "open"
    <3>1. id \in x.steady /\ q = x.query /\ x.cursor = cursor /\ x.served = before
      BY <1>t, <1>0, <1>12, <1>16, <2>1
    <3>2. id \in DOMAIN shelved /\ Matches(q, shelved[id]) /\ BehindOrAhead(x, id)
      BY ONLY <2>1, <3>1, Walk(x) DEF Walk
    <3>3. CASE id \in ServedIds(before)
      <4>1. PICK i \in 1 .. old : before[i].id = id
        BY ONLY <1>1, <3>3 DEF ServedIds
      <4>2. i \in 1 .. old + m /\ served[i].id = id
        BY ONLY <1>1, <1>4, <1>7, <4>1
      <4> QED  BY ONLY <1>7, <1>12, <3>2, <4>2 DEF BehindOrAhead, ServedIds
    <3>4. CASE Past(q.dir, cursor, cursor_for(q, id))
      BY ONLY <1>2, <1>15, <3>2, <3>4
    <3> QED  BY ONLY <3>1, <3>2, <3>3, <3>4 DEF BehindOrAhead
  <2>2. CASE x.state # "open"
    <3>1. id \in S
      BY ONLY <1>0, <1>12, <1>16, <2>2
    <3> QED  BY ONLY <1>2, <1>15, <3>1
  <2> QED  BY ONLY <2>1, <2>2
<1> QED  BY ONLY <1>7, <1>9, <1>10, <1>11, <1>12, <1>13, <1>14, <1>16 DEF Walk

LEMMA StepOfWalks ==
  ASSUME SInv, Walks, [SearchNext]_svars
  PROVE  Walks'
<1>1. /\ Shelves /\ WholeGames /\ added \in Nat /\ added <= added
      /\ DOMAIN scan = SearchClients /\ \A c \in SearchClients : Walk(scan[c])
      /\ \A id \in DOMAIN shelved : id \in 1 .. added
  BY DEF SInv, Shelves, Walks
<1>2. ASSUME UNCHANGED <<shelved, added>>, NEW x, Walk(x)
      PROVE  Walk(x)'
  BY <1>2 DEF Walk, KeyHolds, BehindOrAhead, cursor_for
<1>3. ASSUME UNCHANGED <<shelved, added, scan>>
      PROVE  Walks'
  BY <1>1, <1>2, <1>3 DEF Walks
<1>4. ASSUME NEW game \in Shelf, AddGame(game)
      PROVE  Walks'
  <2>1. scan' = scan
    BY <1>4 DEF AddGame
  <2>2. /\ \A id \in DOMAIN shelved : shelved'[id] = shelved[id]
        /\ added' = added + 1 /\ DOMAIN shelved' = DOMAIN shelved \cup {added + 1}
    BY <1>1, <1>4, GamesStep DEF AddGame
  <2>3. /\ added' \in Nat /\ added <= added' /\ added + 1 \notin 1 .. added
    BY <1>1, <2>2
  <2>4. \A id \in 1 .. added : id \in DOMAIN shelved' => id \in DOMAIN shelved /\ shelved'[id] = shelved[id]
    BY <2>2, <2>3
  <2>5. ASSUME NEW c \in SearchClients
        PROVE  Walk(scan[c])'
    <3> PICK x : x = scan[c]
      OBVIOUS
    <3>1. Walk(x) /\ scan'[c] = x
      BY <1>1, <2>1
    <3>2. x.state # "idle" => x.steady \subseteq DOMAIN shelved'
      BY <2>2, <3>1 DEF Walk
    <3>3. Walk(x)'
      BY <1>1, <2>3, <2>4, <3>1, <3>2, WalkStays
    <3> QED  BY <3>1, <3>3
  <2> QED  BY <1>1, <2>1, <2>5 DEF Walks
<1>5. ASSUME NEW id, DropRows(id)
      PROVE  Walks'
  BY <1>3, <1>5 DEF DropRows
<1>6. ASSUME NEW id, DropShelved(id)
      PROVE  Walks'
  <2>1. /\ added' = added /\ DOMAIN shelved' = DOMAIN shelved \ {id}
        /\ \A i \in DOMAIN shelved' : shelved'[i] = shelved[i]
        /\ scan' = [c \in SearchClients |-> [scan[c] EXCEPT !.steady = @ \ {id}]]
    BY <1>6 DEF DropShelved
  <2>2. /\ added' \in Nat /\ added <= added'
        /\ \A i \in 1 .. added : i \in DOMAIN shelved' => i \in DOMAIN shelved /\ shelved'[i] = shelved[i]
    BY <1>1, <2>1
  <2>3. ASSUME NEW c \in SearchClients
        PROVE  Walk(scan[c])'
    <3> PICK x : x = scan[c]
      OBVIOUS
    <3> PICK y : y = [x EXCEPT !.steady = @ \ {id}]
      OBVIOUS
    <3>1. Walk(x) /\ scan'[c] = y
      BY <1>1, <2>1
    <3>2. /\ DOMAIN y = {"query", "cursor", "served", "steady", "state"}
          /\ y.query = x.query /\ y.cursor = x.cursor /\ y.served = x.served /\ y.state = x.state
          /\ y.steady = x.steady \ {id}
      BY <3>1 DEF Walk
    <3>3. Walk(y)
      BY <3>1, <3>2 DEF Walk, BehindOrAhead
    <3>4. y.state # "idle" => y.steady \subseteq DOMAIN shelved'
      BY <2>1, <3>2, <3>3 DEF Walk
    <3>5. Walk(y)'
      BY <1>1, <2>2, <3>3, <3>4, WalkStays
    <3> QED  BY <3>1, <3>5
  <2> QED  BY <2>1, <2>3 DEF Walks
<1>7. ASSUME NEW c \in SearchClients, NEW q \in SearchQueries, SearchPage(c, q)
      PROVE  Walks'
  <2> PICK x : x = scan[c]
    OBVIOUS
  <2> PICK cursor : cursor = IF x.state = "open" THEN x.cursor ELSE NoCursor
    OBVIOUS
  <2> PICK before : before = IF x.state = "open" THEN x.served ELSE <<>>
    OBVIOUS
  <2> PICK found : found = InOrder(q, Eligible(q, cursor))
    OBVIOUS
  <2> PICK page : page = SubSeq(found, 1, IF Len(found) < q.limit THEN Len(found) ELSE q.limit)
    OBVIOUS
  <2> PICK next : next = LastServed(q, found, page)
    OBVIOUS
  <2> PICK fresh : fresh = [i \in DOMAIN page |-> cursor_for(q, page[i])]
    OBVIOUS
  <2> PICK y : y = scan'[c]
    OBVIOUS
  <2>1. /\ DOMAIN scan' = SearchClients /\ scan'[c] = y /\ UNCHANGED <<shelved, added>>
        /\ \A d \in SearchClients \ {c} : scan'[d] = scan[d]
    BY <1>1, <1>7 DEF SearchPage
  <2>2. /\ x.state = "open" => q = x.query
        /\ x.state # "done"
    BY <1>7 DEF SearchPage
  <2>3. DOMAIN y = {"query", "cursor", "served", "steady", "state"} /\ y.query = q /\ y.cursor = next
    BY <1>1, <1>7 DEF SearchPage
  <2>4. y.state = IF next = NoCursor THEN "done" ELSE "open"
    BY <1>1, <1>7 DEF SearchPage
  <2>5. y.steady = IF x.state = "open" THEN x.steady ELSE Eligible(q, NoCursor)
    BY <1>1, <1>7 DEF SearchPage
  <2>6. y.served = before \o [i \in DOMAIN page |-> cursor_for(q, page[i])]
    BY <1>1, <1>7 DEF SearchPage
  <2>7. Turned(x, q, cursor, before, found, page, next, fresh, y)
    BY <2>2, <2>3, <2>4, <2>5, <2>6 DEF Turned
  <2>8. Walk(x)
    BY <1>1
  <2>9. Walk(y)
    BY ONLY <1>1, <1>7, <2>7, <2>8, PageServed
  <2>10. \A d \in SearchClients : Walk(scan[d])'
    BY <1>1, <1>2, <2>1, <2>9
  <2> QED  BY <2>1, <2>10 DEF Walks
<1>8. ASSUME NEW c \in SearchClients, AskReport(c) \/ Arrivals(c) \/ Lines(c)
      PROVE  Walks'
  BY <1>3, <1>8 DEF AskReport, Arrivals, Lines
<1> QED  BY <1>3, <1>4, <1>5, <1>6, <1>7, <1>8 DEF SearchNext, svars

\* However often a search is continued, and whatever is added or deleted
\* between its pages, no game comes twice and none that stayed is left out
\* (search/headers.rs), for any games, queries, directions and page sizes.
THEOREM SearchServesOnce == SearchSpec => [](PagesRepeatNothing /\ PagesMissNothing)
<1>1. SearchInit => SInv /\ Walks
  <2>1. ASSUME SearchInit, NEW c \in SearchClients
        PROVE  Walk(scan[c])
    <3>1. scan[c] = NoScan
      BY <2>1 DEF SearchInit
    <3>2. <<>> \in Seq(Entries) /\ Len(<<>>) = 0
      BY EmptySeq
    <3>3. Walk(NoScan)
      BY <3>2 DEF Walk, NoScan, Unique
    <3> QED  BY <3>1, <3>3
  <2> QED  BY <2>1, SearchInitInv DEF SearchInit, Walks
<1>2. SInv /\ Walks /\ [SearchNext]_svars => (SInv /\ Walks)'
  BY StepOfWalks, SearchNextInv
<1>3. Walks => PagesRepeatNothing /\ PagesMissNothing
  <2> SUFFICES ASSUME Walks, NEW c \in SearchClients
               PROVE  /\ \A i, j \in DOMAIN scan[c].served :
                           scan[c].served[i].id = scan[c].served[j].id => i = j
                      /\ scan[c].state = "done" =>
                           \A id \in scan[c].steady : \E i \in DOMAIN scan[c].served :
                             scan[c].served[i].id = id
    BY DEF PagesRepeatNothing, PagesMissNothing
  <2> PICK x : x = scan[c]
    OBVIOUS
  <2>1. Walk(x)
    BY DEF Walks
  <2>2. DOMAIN x.served = 1 .. Len(x.served)
    BY <2>1, LenProperties DEF Walk
  <2>3. Unique(x.served)
    BY <2>1 DEF Walk
  <2>4. ASSUME x.state = "done", NEW id \in x.steady
        PROVE  id \in ServedIds(x.served)
    BY <2>1, <2>4 DEF Walk, BehindOrAhead
  <2> QED  BY <2>2, <2>3, <2>4 DEF Unique, ServedIds
<1> QED  BY <1>1, <1>2, <1>3, PTL DEF SearchSpec

\* The two listings of games, by page number and by cursor, keep one promise,
\* with the imports and deletions of either running between two pages.
THEOREM ListingsOnce == LibrarySpec /\ SearchSpec => []ListingsServeOnce
BY PagesOnce, SearchServesOnce, PTL DEF ListingsServeOnce

=============================================================================
