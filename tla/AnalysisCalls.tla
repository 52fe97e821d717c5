---------------------------- MODULE AnalysisCalls ----------------------------
(***************************************************************************)
(* What EngineService promises its callers (ADR-0014, ADR-0054), without   *)
(* pool, permits or processes: a call is answered once, with an analysis   *)
(* of the very position and number of lines it asked for, or with an       *)
(* error; an empty answer is given only to a job whose budget is spent,    *)
(* and that job is told.                                                   *)
(***************************************************************************)
EXTENDS Naturals

CONSTANTS
  Callers,     \* tasks that call analyse and analyse_multi
  Positions,   \* FENs
  MultiPVs,    \* numbers of lines callers ask for
  NoAsk        \* "no call", and "no position"

Asks == [pos : Positions, want : MultiPVs]

\* What a caller has been given: nothing yet, an error, the empty fallback
\* of an exhausted budget, or the lines of a search (by their MultiPV index).
Pending == [kind |-> "none", pos |-> NoAsk, lines |-> {}]
Failed == [Pending EXCEPT !.kind = "error"]
Empty == [Pending EXCEPT !.kind = "empty"]
LinesOf(ask) == [kind |-> "lines", pos |-> ask.pos, lines |-> 1 .. ask.want]

\* The job budget a task runs under.
NoJob == [budget |-> "none", truncated |-> FALSE]

VARIABLES
  asked,    \* asked[c]: the call c is in
  answer,   \* answer[c]: what that call returned
  job       \* job[c]: the job budget of c's task

callVars == <<asked, answer, job>>

CallsInit ==
  /\ asked = [c \in Callers |-> NoAsk]
  /\ answer = [c \in Callers |-> Pending]
  /\ job = [c \in Callers |-> NoJob]

Ask(c) ==
  /\ asked[c] = NoAsk
  /\ \E ask \in Asks : asked' = [asked EXCEPT ![c] = ask]
  /\ UNCHANGED <<answer, job>>

Answer(c) ==
  /\ asked[c] # NoAsk /\ answer[c] = Pending
  /\ \E r \in {LinesOf(asked[c]), Failed} : answer' = [answer EXCEPT ![c] = r]
  /\ UNCHANGED <<asked, job>>

\* The empty fallback: only out of budget, and the job is marked truncated.
CutShort(c) ==
  /\ asked[c] # NoAsk /\ answer[c] = Pending
  /\ job[c].budget = "spent"
  /\ answer' = [answer EXCEPT ![c] = Empty]
  /\ job' = [job EXCEPT ![c].truncated = TRUE]
  /\ UNCHANGED asked

\* The caller goes on with its answer ...
Take(c) ==
  /\ answer[c] # Pending
  /\ asked' = [asked EXCEPT ![c] = NoAsk]
  /\ answer' = [answer EXCEPT ![c] = Pending]
  /\ UNCHANGED job

\* ... or its whole task ends, perhaps in the middle of a call.
EndTask(c) ==
  /\ asked' = [asked EXCEPT ![c] = NoAsk]
  /\ answer' = [answer EXCEPT ![c] = Pending]
  /\ job' = [job EXCEPT ![c] = NoJob]

BeginJob(c) ==
  /\ asked[c] = NoAsk /\ job[c] = NoJob
  /\ job' = [job EXCEPT ![c].budget = "running"]
  /\ UNCHANGED <<asked, answer>>

SpendBudget(c) ==
  /\ job[c].budget = "running"
  /\ job' = [job EXCEPT ![c].budget = "spent"]
  /\ UNCHANGED <<asked, answer>>

CallsNext ==
  \E c \in Callers : \/ Ask(c) \/ Answer(c) \/ CutShort(c) \/ Take(c)
                     \/ EndTask(c) \/ BeginJob(c) \/ SpendBudget(c)

CallsSpec == CallsInit /\ [][CallsNext]_callVars
=============================================================================
