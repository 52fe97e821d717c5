---------------------------- MODULE MCImportLive ----------------------------
(***************************************************************************)
(* Both collectors under fairness: one user who keeps syncing from one of  *)
(* the two providers, with two failures.  The Chess.com archives hold one  *)
(* malformed game; a Lichess export with one never gets past it.           *)
(***************************************************************************)
EXTENDS Naturals, FiniteSets

CONSTANTS User, NoGame

VARIABLES rows, ever, call, report, inserted, cursorRow, job, faults, published,
          archive, orderly, stream,
          provider   \* the one the user syncs from

Games == 1 .. 4
Malformed == IF provider = "chess.com" THEN {4} ELSE {}
Archive == [g \in Games |-> CASE g = 1 -> 1 [] g \in {2, 4} -> 2 [] g = 3 -> 3]
Began == [g \in Games |-> CASE g = 1 -> 1 [] g \in {2, 3} -> 2 [] g = 4 -> 3]

Archives == INSTANCE ChessComSync WITH
  filed <- published, Actors <- {User}, Bad <- {4}, Month <- Archive, Uploads <- {}, Removable <- {},
  AllowFull <- FALSE, MaxFaults <- 2, ChessComRetries <- 1

Export == INSTANCE LichessSync WITH
  Actors <- {User}, Bad <- {}, Second <- Began, Undated <- {}, Orders <- {TRUE},
  LateFinishers <- {}, Uploads <- {}, Removable <- {},
  AllowFull <- FALSE, MaxFaults <- 2, LichessRetries <- 1

all == <<rows, ever, call, report, inserted, cursorRow, job, faults, published,
         archive, orderly, stream, provider>>

Init ==
  /\ provider \in {"chess.com", "lichess"}
  /\ Archives!ChessComInit
  /\ Export!LichessInit

OnChessCom(step) == provider = "chess.com" /\ step /\ UNCHANGED <<orderly, stream, provider>>
OnLichess(step) == provider = "lichess" /\ step /\ UNCHANGED <<archive, provider>>

Next == OnChessCom(Archives!ChessComNext) \/ OnLichess(Export!LichessNext)

\* The fairness of the two specifications.
Ready ==
  \/ OnChessCom(Archives!ChessComService(User) \/ Archives!ChessComCollect(User))
  \/ OnLichess(Export!LichessService(User) \/ Export!Save(User) \/ Export!LichessCollect(User))
Sync ==
  \/ OnChessCom(Archives!ChessComStartIncremental(User))
  \/ OnLichess(Export!LichessStartIncremental(User))

FairSpec == Init /\ [][Next]_all /\ WF_all(Ready) /\ SF_all(Sync)

\* As long as the user keeps syncing and failures are finitely many, every
\* acceptable published game is stored in the end, from either provider.
EveryGameArrives ==
  \A g \in Games : (g \in published /\ g \notin Malformed) ~> g \in ever

=============================================================================
