------------------------------ MODULE Identity ------------------------------
(***************************************************************************)
(* Who is calling, and the two rules every service applies to a row that   *)
(* somebody owns (server/identity.rs).  A global row has the owner NULL.   *)
(***************************************************************************)
Global == "NULL"

\* CurrentUser
Caller(id, isAdmin, isPublic, readOnly, globalOnly) ==
  [id |-> id, is_admin |-> isAdmin, public |-> isPublic,
   read_only |-> readOnly, global_only |-> globalOnly]

LocalAdmin == Caller("local-admin", TRUE, FALSE, FALSE, FALSE)
Anonymous  == Caller("anonymous", FALSE, TRUE, TRUE, TRUE)

\* scope: the rows a caller reads.
InScope(owner, user) ==
  \/ owner = Global
  \/ owner = user.id /\ ~user.public /\ ~user.global_only

\* assert_admin
MayAdminister(user) == user.is_admin /\ ~user.public /\ ~user.read_only

\* assert_can_write
CanWrite(owner, user) ==
  /\ ~user.public /\ ~user.read_only
  /\ IF owner = Global THEN MayAdminister(user) ELSE owner = user.id
=============================================================================
