---------------------------- MODULE MCCollections ----------------------------
(***************************************************************************)
(* The components around the stored data on small instances, one at a time *)
(* (focus): they share no state with each other, so that exploring them    *)
(* together would add nothing but the product of their state spaces.       *)
(***************************************************************************)
EXTENDS Collections, Schema

CONSTANTS c1, c2, i1, i2, p1, p2, p3

VARIABLE focus

Alice == Caller("alice", TRUE, FALSE, FALSE, FALSE)
Bob   == Caller("bob", FALSE, FALSE, FALSE, FALSE)

MCFolderUsers   == {Alice}
MCFolderStudies == [s1 |-> "alice"]

MCLibraryUsers == {Alice, Bob}
\* Three good games, one of them twice, one that does not replay and one that
\* is cut by no marker: the "[" of the fourth line is text.
MCPgnFile == <<"[", "Event", "a", "nl", "[", "Event", "b", "nl", "x", "[", "Event", "nl",
               "[", "Event", "bad", "nl", "[", "Event", "a">>
MCDateOf == [g \in {"a", "b", "bad"} |-> IF g = "b" THEN 0 ELSE 1]

MCSearchUser    == Bob
MCDatabaseOwner == [own |-> "bob", other |-> "eve", glob |-> Global]
Shelved(d, date, we, be, moves) ==
  [database |-> d, white |-> "w", black |-> "b", date |-> date, white_elo |-> we,
   black_elo |-> be, start |-> "p0", moves |-> moves]
MCShelf ==
  {Shelved("own", 1, 1, 2, <<"a", "b", "x">>), Shelved("own", Null, Null, 1, <<"b", "a", "c", "d", "c">>),
   Shelved("glob", 1, 2, 1, <<"x">>), Shelved("other", 1, 1, 1, <<"a", "b", "x">>)}
Asking(sort, dir, limit) ==
  [database |-> "", player |-> "", color |-> "", elo_min |-> Null, elo_max |-> Null,
   date_from |-> Null, date_to |-> Null, sort |-> sort, dir |-> dir, limit |-> limit]
MCSearchQueries ==
  {Asking("date", "asc", 1), Asking("elo", "desc", 1), Asking("elo", "asc", 2),
   [Asking("id", "desc", 1) EXCEPT !.player = "w", !.color = "white", !.elo_min = 1]}
\* a, b and b, a lead to one position; d goes back to it from pc.
MCAfter == [pm \in {"p0", "pa", "pb", "pab", "pc", "z"} \X {"a", "b", "c", "d", "x"} |->
  CASE pm = <<"p0", "a">> -> "pa" [] pm = <<"p0", "b">> -> "pb" [] pm = <<"pa", "b">> -> "pab"
    [] pm = <<"pb", "a">> -> "pab" [] pm = <<"pab", "c">> -> "pc" [] pm = <<"pc", "d">> -> "pab"
    [] OTHER -> "z"]

MCReleases == {7, 9, 11}

Init ==
  /\ focus \in {"folders", "library", "masters", "schema", "search"}
  /\ FolderInit /\ LibraryInit /\ MastersInit /\ SchemaInit /\ SearchInit
  /\ focus # "folders" => cascades
  /\ focus # "schema"  => transactional

On(component, next, others) == focus = component /\ next /\ UNCHANGED <<focus, others>>

Next ==
  \/ On("folders", FolderNext, <<libraryVars, mastersVars, schemaVars, svars>>)
  \/ On("library", LibraryNext, <<folderVars, mastersVars, schemaVars, svars>>)
  \/ On("masters", MastersNext, <<folderVars, libraryVars, schemaVars, svars>>)
  \/ On("schema", SchemaNext, <<folderVars, libraryVars, mastersVars, svars>>)
  \/ On("search", SearchNext, <<folderVars, libraryVars, mastersVars, schemaVars>>)

Spec == Init /\ [][Next]_<<focus, folderVars, libraryVars, mastersVars, schemaVars, svars>>

Symmetry == Permutations({c1, c2}) \cup Permutations({i1, i2})
=============================================================================
