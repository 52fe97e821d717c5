------------------------------ MODULE EnginePool ------------------------------
(***************************************************************************)
(* The engine pool: EngineService (src/src/engine/service.rs) over the     *)
(* engine processes of src/src/engine/manager.rs, its calls bounded by the *)
(* job budget of src/src/engine/budget.rs.                                 *)
(*                                                                         *)
(* A call queues for a permit, takes an idle process or spawns one, sets   *)
(* MultiPV if it wants several lines, searches, and gives the process back *)
(* or, after an error, quits it.  A process may exit or fall silent at any *)
(* moment, a search runs under a deadline, and the whole call may be cut   *)
(* short by its job's budget or dropped with the request it serves.        *)
(* Clocks are abstract: a deadline or a budget may end at any step.        *)
(***************************************************************************)
EXTENDS Naturals, Sequences, FiniteSets, SequencesExt

CONSTANTS
  Callers,     \* tasks that call analyse and analyse_multi
  Positions,   \* FENs
  Invalid,     \* those that set_position rejects
  MultiPVs,    \* numbers of lines callers ask for
  InJob,       \* the callers that may run under a job budget
  PoolSize,    \* ENGINE_POOL_SIZE, after max(1)
  Procs,       \* identities of engine processes; one is used again when dead
  None         \* "no process", "no position"

ASSUME PoolAssumption ==
  /\ IsFiniteSet(Callers)
  /\ Invalid \subseteq Positions
  /\ InJob \subseteq Callers
  /\ MultiPVs \subseteq Nat \ {0} /\ 1 \in MultiPVs
  /\ PoolSize \in Nat \ {0}
  /\ None \notin Procs \cup Positions \cup [pos : Positions, want : MultiPVs]

VARIABLES
  proc,      \* proc[e]: the process e as the operating system has it
  idle,      \* idle processes; the last one pushed is popped first
  permits,   \* free permits of the semaphore
  waiting,   \* the semaphore's queue: first come, first served
  task,      \* task[c]: the call c is in
  job        \* job[c]: the job budget c runs under

vars == <<proc, idle, permits, waiting, task, job>>

(***************************************************************************)
(* A process: its MultiPV option, the position it searches, and what it    *)
(* has printed that nobody has read.  It prints "readyok", or the info     *)
(* lines 1 .. lines of a search of pos, ended by bestmove.                 *)
(***************************************************************************)
ReadyOk == [kind |-> "readyok", pos |-> None, lines |-> 0]
BestMove(p, n) == [kind |-> "bestmove", pos |-> p, lines |-> n]
Messages == [kind : {"readyok", "bestmove"}, pos : Positions \cup {None}, lines : Nat]
Dead == [alive |-> FALSE, multi |-> 1, search |-> None, out |-> << >>]
Fresh == [Dead EXCEPT !.alive = TRUE]

\* What a call returned: an error, the empty fallback, or lines of a search.
NoAnswer == [kind |-> "none", pos |-> None, lines |-> {}]
Failed == [NoAnswer EXCEPT !.kind = "error"]
Empty == [NoAnswer EXCEPT !.kind = "empty"]
Lines(p, ls) == [kind |-> "lines", pos |-> p, lines |-> ls]

NoTask == [pc |-> "idle", pos |-> None, want |-> 1, proc |-> None, got |-> NoAnswer]
Searching == {"options", "ready", "go", "search"}          \* under the deadline
Owning == Searching \cup {"spawn", "giveback", "quit"}     \* has a process
Permitted == Owning \cup {"checkout"}                      \* has a permit
InCall == Permitted \cup {"called", "queue"}

NoJob == [budget |-> "none", truncated |-> FALSE]

ProcStates == [alive : BOOLEAN, multi : MultiPVs,
               search : Positions \cup {None}, out : Seq(Messages)]
AnswerStates == [kind : {"none", "error", "empty", "lines"},
                 pos : Positions \cup {None}, lines : SUBSET Nat]
TaskStates == [pc : InCall \cup {"idle", "done"}, pos : Positions \cup {None},
               want : MultiPVs, proc : Procs \cup {None}, got : AnswerStates]
JobStates == [budget : {"none", "running", "spent"}, truncated : BOOLEAN]

TypeOK ==
  /\ proc \in [Procs -> ProcStates]
  /\ idle \in Seq(Procs)
  /\ permits \in 0 .. PoolSize
  /\ waiting \in Seq(Callers)
  /\ task \in [Callers -> TaskStates]
  /\ job \in [Callers -> JobStates]

Init ==
  /\ proc = [e \in Procs |-> Dead]
  /\ idle = << >>
  /\ permits = PoolSize
  /\ waiting = << >>
  /\ task = [c \in Callers |-> NoTask]
  /\ job = [c \in Callers |-> NoJob]

Owners == {c \in Callers : task[c].pc \in Owning}
IdleProcs == {idle[i] : i \in DOMAIN idle}
Unused(e) == ~proc[e].alive /\ e \notin IdleProcs /\ \A c \in Owners : task[c].proc # e

Goto(c, pc) == task' = [task EXCEPT ![c].pc = pc]
Return(c, r) == task' = [task EXCEPT ![c].pc = "done", ![c].proc = None, ![c].got = r]

(***************************************************************************)
(* The caller's side: a task may start a job, makes calls, and goes on     *)
(* with each answer.                                                       *)
(***************************************************************************)
StartJob(c) ==
  /\ c \in InJob
  /\ task[c].pc = "idle"
  /\ job[c] = NoJob
  /\ job' = [job EXCEPT ![c].budget = "running"]
  /\ UNCHANGED <<proc, idle, permits, waiting, task>>

BudgetEnds(c) ==
  /\ job[c].budget = "running"
  /\ job' = [job EXCEPT ![c].budget = "spent"]
  /\ UNCHANGED <<proc, idle, permits, waiting, task>>

Call(c, p, n) ==
  /\ task[c].pc = "idle"
  /\ task' = [task EXCEPT ![c] = [NoTask EXCEPT !.pc = "called", !.pos = p, !.want = n]]
  /\ UNCHANGED <<proc, idle, permits, waiting, job>>

TakeAnswer(c) ==
  /\ task[c].pc = "done"
  /\ task' = [task EXCEPT ![c] = NoTask]
  /\ UNCHANGED <<proc, idle, permits, waiting, job>>

FinishJob(c) ==
  /\ task[c].pc = "idle"
  /\ job' = [job EXCEPT ![c] = NoJob]
  /\ UNCHANGED <<proc, idle, permits, waiting, task>>

(***************************************************************************)
(* analyse and analyse_multi.                                              *)
(***************************************************************************)
\* bounded lets the call begin while there is time left.
Enqueue(c) ==
  /\ task[c].pc = "called"
  /\ job[c].budget # "spent"
  /\ waiting' = Append(waiting, c)
  /\ Goto(c, "queue")
  /\ UNCHANGED <<proc, idle, permits, job>>

Acquire(c) ==
  /\ waiting # << >> /\ Head(waiting) = c
  /\ permits > 0
  /\ permits' = permits - 1
  /\ waiting' = Tail(waiting)
  /\ Goto(c, "checkout")
  /\ UNCHANGED <<proc, idle, job>>

\* Options are sent, and awaited, only for more than one line.
FirstStep(c) == IF task[c].want > 1 THEN "options" ELSE "go"

\* checkout: pop an idle process ...
TakeIdle(c) ==
  /\ task[c].pc = "checkout"
  /\ idle # << >>
  /\ task' = [task EXCEPT ![c].pc = FirstStep(c), ![c].proc = idle[Len(idle)]]
  /\ idle' = SubSeq(idle, 1, Len(idle) - 1)
  /\ UNCHANGED <<proc, permits, waiting, job>>

\* ... or spawn one, which begins its handshake.
StartSpawn(c, e) ==
  /\ task[c].pc = "checkout"
  /\ idle = << >>
  /\ Unused(e)
  /\ proc' = [proc EXCEPT ![e] = Fresh]
  /\ task' = [task EXCEPT ![c].pc = "spawn", ![c].proc = e]
  /\ UNCHANGED <<idle, permits, waiting, job>>

Handshake(c) ==
  /\ task[c].pc = "spawn"
  /\ proc[task[c].proc].alive
  /\ Goto(c, FirstStep(c))
  /\ UNCHANGED <<proc, idle, permits, waiting, job>>

\* setoption MultiPV and isready, which the process answers at once.
SetOptions(c) ==
  LET e == task[c].proc
  IN  /\ task[c].pc = "options"
      /\ proc[e].alive
      /\ proc' = [proc EXCEPT ![e].multi = task[c].want, ![e].out = Append(@, ReadyOk)]
      /\ Goto(c, "ready")
      /\ UNCHANGED <<idle, permits, waiting, job>>

\* read_until drops whatever precedes readyok.
AwaitReady(c) ==
  LET e == task[c].proc
  IN  /\ task[c].pc = "ready"
      /\ \E i \in DOMAIN proc[e].out :
            /\ proc[e].out[i] = ReadyOk
            /\ \A j \in 1 .. i - 1 : proc[e].out[j] # ReadyOk
            /\ proc' = [proc EXCEPT ![e].out = SubSeq(@, i + 1, Len(@))]
      /\ Goto(c, "go")
      /\ UNCHANGED <<idle, permits, waiting, job>>

Go(c) ==
  LET e == task[c].proc
  IN  /\ task[c].pc = "go"
      /\ task[c].pos \notin Invalid
      /\ proc[e].alive
      /\ proc' = [proc EXCEPT ![e].search = task[c].pos]
      /\ Goto(c, "search")
      /\ UNCHANGED <<idle, permits, waiting, job>>

\* fold_primary, and the slots of run_to_lines: of the n lines that the
\* process printed, those the caller asked for.
Fold(n, want) == {k \in 1 .. n : k <= want}

\* next_event returned bestmove; the process is still in the caller's hands.
Receive(c) ==
  LET e == task[c].proc
      m == Head(proc[e].out)
  IN  /\ task[c].pc = "search"
      /\ proc[e].out # << >>
      /\ proc' = [proc EXCEPT ![e].out = Tail(@)]
      /\ task' = IF m.kind = "bestmove"
                   THEN [task EXCEPT ![c].pc = "giveback",
                                     ![c].got = Lines(m.pos, Fold(m.lines, task[c].want))]
                   ELSE task
      /\ UNCHANGED <<idle, permits, waiting, job>>

\* The process goes back to the pool, the permit to the semaphore, the
\* analysis to the caller.
GiveBack(c) ==
  /\ task[c].pc = "giveback"
  /\ idle' = Append(idle, task[c].proc)
  /\ permits' = permits + 1
  /\ Return(c, task[c].got)
  /\ UNCHANGED <<proc, waiting, job>>

\* Invalid position, dead process, no readyok, or the deadline: an error.
SearchFails(c) ==
  /\ task[c].pc \in Searching
  /\ Goto(c, "quit")
  /\ UNCHANGED <<proc, idle, permits, waiting, job>>

\* Mutant: a process whose search failed goes back to the pool.
Quit_Reuse(c) ==
  /\ task[c].pc = "quit"
  /\ idle' = Append(idle, task[c].proc)
  /\ permits' = permits + 1
  /\ Return(c, Failed)
  /\ UNCHANGED <<proc, waiting, job>>

\* After an error the process is quit, and killed on drop, before the
\* permit is released.
Quit(c) ==
  /\ task[c].pc = "quit"
  /\ proc' = [proc EXCEPT ![task[c].proc] = Dead]
  /\ permits' = permits + 1
  /\ Return(c, Failed)
  /\ UNCHANGED <<idle, waiting, job>>

\* The spawn or its handshake fails.
SpawnFails(c) ==
  /\ task[c].pc = "spawn"
  /\ proc' = [proc EXCEPT ![task[c].proc] = Dead]
  /\ permits' = permits + 1
  /\ Return(c, Failed)
  /\ UNCHANGED <<idle, waiting, job>>

(***************************************************************************)
(* The future of a call is dropped: its process is killed on drop, then    *)
(* its permit goes back, or it leaves the queue.                           *)
(***************************************************************************)
\* Mutant: the permit of a dropped call is forgotten.
DropFuture_KeepsPermit(c) ==
  /\ proc' = IF task[c].pc \in Owning THEN [proc EXCEPT ![task[c].proc] = Dead] ELSE proc
  /\ permits' = permits
  /\ IF task[c].pc = "queue"
       THEN \E i \in DOMAIN waiting :
              waiting[i] = c /\ waiting' = RemoveAt(waiting, i)
       ELSE waiting' = waiting
  /\ UNCHANGED idle

DropFuture(c) ==
  /\ proc' = IF task[c].pc \in Owning THEN [proc EXCEPT ![task[c].proc] = Dead] ELSE proc
  /\ permits' = IF task[c].pc \in Permitted THEN permits + 1 ELSE permits
  /\ IF task[c].pc = "queue"
       THEN \E i \in DOMAIN waiting :
              waiting[i] = c /\ waiting' = RemoveAt(waiting, i)
       ELSE waiting' = waiting
  /\ UNCHANGED idle

\* Mutant: the job is not told that its answer is empty.
CutOff_Silent(c) ==
  /\ task[c].pc \in InCall
  /\ job[c].budget = "spent"
  /\ DropFuture(c)
  /\ Return(c, Empty)
  /\ UNCHANGED job

\* bounded: no time is left, or it passed before the call was done.
CutOff(c) ==
  /\ task[c].pc \in InCall
  /\ job[c].budget = "spent"
  /\ DropFuture(c)
  /\ Return(c, Empty)
  /\ job' = [job EXCEPT ![c].truncated = TRUE]

\* The request that c serves is gone, and with it its task.
Abandon(c) ==
  /\ task[c].pc \in InCall
  /\ DropFuture(c)
  /\ task' = [task EXCEPT ![c] = NoTask]
  /\ job' = [job EXCEPT ![c] = NoJob]

(***************************************************************************)
(* External: engine processes.  A search ends with bestmove, if it ends;   *)
(* what a process printed can be read after it exited.  (Positions have at *)
(* least as many legal moves as callers ask for lines.)                    *)
(***************************************************************************)
Finish(e) ==
  /\ proc[e].alive
  /\ proc[e].search # None
  /\ proc' = [proc EXCEPT ![e].search = None,
                          ![e].out = Append(@, BestMove(proc[e].search, proc[e].multi))]
  /\ UNCHANGED <<idle, permits, waiting, task, job>>

Exit(e) ==
  /\ proc[e].alive
  /\ proc' = [proc EXCEPT ![e].alive = FALSE, ![e].search = None]
  /\ UNCHANGED <<idle, permits, waiting, task, job>>

(***************************************************************************)
(* What the code does as soon as it can; Fails is its deadlines.           *)
(***************************************************************************)
Work(c) ==
  \/ Enqueue(c) \/ TakeIdle(c) \/ (\E e \in Procs : StartSpawn(c, e)) \/ Handshake(c)
  \/ SetOptions(c) \/ AwaitReady(c) \/ Go(c) \/ Receive(c) \/ GiveBack(c) \/ Quit(c)

Fails(c) == SearchFails(c) \/ SpawnFails(c) \/ CutOff(c)

Ask(c) == \E p \in Positions, n \in MultiPVs : Call(c, p, n)

Next ==
  \/ \E c \in Callers : \/ Ask(c) \/ TakeAnswer(c) \/ Acquire(c) \/ Work(c) \/ Fails(c)
                        \/ Abandon(c) \/ StartJob(c) \/ BudgetEnds(c) \/ FinishJob(c)
  \/ \E e \in Procs : Finish(e) \/ Exit(e)

Spec == Init /\ [][Next]_vars

(***************************************************************************)
(* Tasks run and deadlines pass.  Nothing is asked of the engines: neither *)
(* that they answer nor that they live.                                    *)
(***************************************************************************)
Fairness == \A c \in Callers : WF_vars(Acquire(c)) /\ WF_vars(Work(c) \/ Fails(c))

FairSpec == Spec /\ Fairness

(***************************************************************************)
(* Properties.                                                             *)
(***************************************************************************)

\* The permits in use are those of the calls that may use a process, and no
\* more: none is lost by an error, a cut-off or a dropped request, none is
\* returned twice.  (A lost permit of a pool of one stops all analysis.)
PermitsConserved ==
  permits + Cardinality({c \in Callers : task[c].pc \in Permitted}) = PoolSize

\* Idle processes and processes in use are together at most PoolSize, and no
\* process is in two hands: the promise of "never more than pool_size".
ProcessesBounded ==
  /\ Len(idle) + Cardinality(Owners) <= PoolSize
  /\ \A c \in Owners : task[c].proc \notin IdleProcs
  /\ \A c, d \in Owners : c # d => task[c].proc # task[d].proc
  /\ \A i, j \in DOMAIN idle : i # j => idle[i] # idle[j]

\* A process that waits in the pool neither searches nor has unread output:
\* a stale bestmove would be taken for the answer to the next position.
IdleIsQuiet == \A e \in IdleProcs : proc[e].search = None /\ proc[e].out = << >>

\* The analysis a call returns is of the position it asked for, with the
\* lines it asked for, whatever MultiPV an earlier caller left set.
AnswerIsOwn ==
  \A c \in Callers :
    task[c].got.kind = "lines" =>
      task[c].got.pos = task[c].pos /\ task[c].got.lines = 1 .. task[c].want

\* Every call returns, however engines behave.
EveryCallReturns == \A c \in Callers : task[c].pc \in InCall ~> task[c].pc \notin InCall

\* The pool implements AnalysisCalls: what a caller has asked and been given.
Asked(c) == IF task[c].pc = "idle" THEN None
            ELSE [pos |-> task[c].pos, want |-> task[c].want]
Answered(c) == IF task[c].pc = "done" THEN task[c].got ELSE NoAnswer
Calls == INSTANCE AnalysisCalls WITH
  NoAsk <- None,
  asked <- [c \in Callers |-> Asked(c)],
  answer <- [c \in Callers |-> Answered(c)]
ImplementsCalls == Calls!CallsSpec
=============================================================================
