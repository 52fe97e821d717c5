--------------------------- MODULE EnginePoolProofs ---------------------------
(***************************************************************************)
(* Theorems about EnginePool for every number of callers, positions and    *)
(* processes and every pool size, and about EngineRegistry for every set   *)
(* of editors, servers and engines and every catalog, with their proofs.   *)
(***************************************************************************)
EXTENDS EnginePool, EngineRegistry, FiniteSetTheorems, SequenceTheorems, TLAPS

(***************************************************************************)
(* Types, except for the bound of permits, which needs PermitsConserved.   *)
(***************************************************************************)
Types ==
  /\ proc \in [Procs -> ProcStates]
  /\ idle \in Seq(Procs)
  /\ permits \in Nat
  /\ waiting \in Seq(Callers)
  /\ task \in [Callers -> TaskStates]
  /\ job \in [Callers -> JobStates]

\* A call that owns a process owns one.
OwnersHaveProcs == \A c \in Owners : task[c].proc \in Procs

LEMMA RecordTypes ==
  ASSUME PoolAssumption
  PROVE  /\ Dead \in ProcStates /\ Fresh \in ProcStates
         /\ NoAnswer \in AnswerStates /\ Failed \in AnswerStates /\ Empty \in AnswerStates
         /\ NoTask \in TaskStates /\ NoJob \in JobStates
         /\ ReadyOk \in Messages
<1>1. Dead \in ProcStates /\ Fresh \in ProcStates
  <2>1. << >> \in Seq(Messages)
    OBVIOUS
  <2> QED  BY <2>1, PoolAssumption DEF Dead, Fresh, ProcStates
<1>2. NoAnswer \in AnswerStates /\ Failed \in AnswerStates /\ Empty \in AnswerStates
  BY DEF NoAnswer, Failed, Empty, AnswerStates
<1>3. NoTask \in TaskStates
  BY <1>2, PoolAssumption DEF NoTask, TaskStates
<1>4. NoJob \in JobStates /\ ReadyOk \in Messages
  BY DEF NoJob, JobStates, ReadyOk, Messages
<1> QED  BY <1>1, <1>2, <1>3, <1>4

\* Moving a call to another point keeps the type of task.
LEMMA GotoType ==
  ASSUME Types, NEW c \in Callers, NEW pc \in InCall, Goto(c, pc)
  PROVE  task' \in [Callers -> TaskStates]
<1>1. [task[c] EXCEPT !.pc = pc] \in TaskStates
  BY DEF Types, TaskStates
<1> QED  BY <1>1 DEF Goto, Types

LEMMA ReturnType ==
  ASSUME Types, NEW c \in Callers, NEW r \in AnswerStates, Return(c, r)
  PROVE  task' \in [Callers -> TaskStates]
<1>1. [task[c] EXCEPT !.pc = "done", !.proc = None, !.got = r] \in TaskStates
  BY DEF Types, TaskStates
<1> QED  BY <1>1 DEF Return, Types

LEMMA DropType ==
  ASSUME PoolAssumption, Types, OwnersHaveProcs, NEW c \in Callers, DropFuture(c)
  PROVE  /\ proc' \in [Procs -> ProcStates]
         /\ idle' \in Seq(Procs)
         /\ permits' \in Nat
         /\ waiting' \in Seq(Callers)
<1>1. proc' \in [Procs -> ProcStates]
  BY RecordTypes DEF DropFuture, Types
<1>2. permits' \in Nat
  BY DEF DropFuture, Types
<1>3. waiting' \in Seq(Callers)
  <2>1. \A i \in DOMAIN waiting : RemoveAt(waiting, i) \in Seq(Callers)
    BY DEF Types, RemoveAt
  <2> QED  BY <2>1 DEF DropFuture, Types
<1> QED  BY <1>1, <1>2, <1>3 DEF DropFuture, Types

\* A process with another option or other output has its type.
LEMMA ProcUpdate ==
  ASSUME NEW p \in ProcStates, NEW m \in MultiPVs, NEW o \in Seq(Messages)
  PROVE  [p EXCEPT !.multi = m, !.out = o] \in ProcStates
BY DEF ProcStates

\* Changing a process to a state of its type keeps the type of proc.
LEMMA ProcType ==
  ASSUME Types, NEW e \in Procs, NEW s \in ProcStates, proc' = [proc EXCEPT ![e] = s]
  PROVE  proc' \in [Procs -> ProcStates]
BY DEF Types

LEMMA CallerTypes ==
  ASSUME PoolAssumption, Types, NEW c \in Callers,
         \/ StartJob(c) \/ BudgetEnds(c) \/ FinishJob(c) \/ TakeAnswer(c) \/ Ask(c)
  PROVE  Types'
<1> USE DEF Types
<1>1. CASE StartJob(c) \/ BudgetEnds(c) \/ FinishJob(c)
  <2>1. \A b \in {"running", "spent"} : [job[c] EXCEPT !.budget = b] \in JobStates
    BY DEF JobStates
  <2>2. job' \in [Callers -> JobStates]
    BY <1>1, <2>1, RecordTypes DEF StartJob, BudgetEnds, FinishJob
  <2> QED  BY <1>1, <2>2 DEF StartJob, BudgetEnds, FinishJob
<1>2. CASE TakeAnswer(c)
  BY <1>2, RecordTypes DEF TakeAnswer
<1>3. CASE Ask(c)
  <2>1. PICK p \in Positions, n \in MultiPVs : Call(c, p, n)
    BY <1>3 DEF Ask
  <2>2. [NoTask EXCEPT !.pc = "called", !.pos = p, !.want = n] \in TaskStates
    BY RecordTypes DEF TaskStates, InCall
  <2> QED  BY <2>1, <2>2 DEF Call
<1> QED  BY <1>1, <1>2, <1>3

LEMMA ReceiveTypes ==
  ASSUME PoolAssumption, Types, OwnersHaveProcs, NEW c \in Callers, Receive(c)
  PROVE  Types'
<1> DEFINE e == task[c].proc
           m == Head(proc[e].out)
<1>1. e \in Procs
  BY DEF Receive, OwnersHaveProcs, Owners, Owning, Searching
<1>2. proc[e].out \in Seq(Messages) /\ proc[e].out # << >>
  BY <1>1 DEF Types, ProcStates, Receive
<1>3. m \in Messages /\ Tail(proc[e].out) \in Seq(Messages)
  BY <1>2
<1>4. [proc[e] EXCEPT !.out = Tail(@)] \in ProcStates
  BY <1>1, <1>3 DEF Types, ProcStates
<1>5. proc' \in [Procs -> ProcStates]
  BY <1>1, <1>4 DEF Receive, Types
<1>6. Lines(m.pos, Fold(m.lines, task[c].want)) \in AnswerStates
  BY <1>3 DEF Lines, Fold, AnswerStates, Messages
<1>7. [task[c] EXCEPT !.pc = "giveback", !.got = Lines(m.pos, Fold(m.lines, task[c].want))]
        \in TaskStates
  BY <1>6 DEF Types, TaskStates, InCall, Permitted, Owning
<1>8. task' \in [Callers -> TaskStates]
  BY <1>7 DEF Receive, Types
<1> QED  BY <1>5, <1>8 DEF Receive, Types

LEMMA WorkTypes ==
  ASSUME PoolAssumption, Types, OwnersHaveProcs, NEW c \in Callers, Work(c) \/ Acquire(c)
  PROVE  Types'
<1> USE DEF Types
<1>a. FirstStep(c) \in Searching
  BY DEF FirstStep, Searching
<1>1. CASE Acquire(c)
  <2>1. task' \in [Callers -> TaskStates]
    BY <1>1, GotoType DEF Acquire, InCall, Permitted
  <2>2. permits' \in Nat /\ waiting' \in Seq(Callers)
    BY <1>1 DEF Acquire
  <2> QED  BY <1>1, <2>1, <2>2 DEF Acquire
<1>2. CASE Enqueue(c)
  <2>1. task' \in [Callers -> TaskStates]
    BY <1>2, GotoType DEF Enqueue, InCall
  <2>2. waiting' \in Seq(Callers)
    BY <1>2 DEF Enqueue
  <2> QED  BY <1>2, <2>1, <2>2 DEF Enqueue
<1>3. CASE TakeIdle(c)
  <2>1. idle[Len(idle)] \in Procs /\ idle' \in Seq(Procs)
    BY <1>3 DEF TakeIdle
  <2>2. [task[c] EXCEPT !.pc = FirstStep(c), !.proc = idle[Len(idle)]] \in TaskStates
    BY <2>1, <1>a DEF TaskStates, InCall, Permitted, Owning
  <2>3. task' \in [Callers -> TaskStates]
    BY <1>3, <2>2 DEF TakeIdle
  <2> QED  BY <1>3, <2>1, <2>3 DEF TakeIdle
<1>4. ASSUME NEW e \in Procs, StartSpawn(c, e) PROVE Types'
  <2>1. [task[c] EXCEPT !.pc = "spawn", !.proc = e] \in TaskStates
    BY DEF TaskStates, InCall, Permitted, Owning
  <2>2. task' \in [Callers -> TaskStates]
    BY <1>4, <2>1 DEF StartSpawn
  <2>3. proc' \in [Procs -> ProcStates]
    BY <1>4, RecordTypes DEF StartSpawn
  <2> QED  BY <1>4, <2>2, <2>3 DEF StartSpawn
<1>5. CASE Handshake(c)
  <2>1. task' \in [Callers -> TaskStates]
    BY <1>5, <1>a, GotoType DEF Handshake, InCall, Permitted, Owning
  <2> QED  BY <1>5, <2>1 DEF Handshake
<1>6. CASE SetOptions(c)
  <2>1. task' \in [Callers -> TaskStates]
    BY <1>6, GotoType DEF SetOptions, InCall, Permitted, Owning, Searching
  <2>2. task[c].proc \in Procs /\ task[c].want \in MultiPVs
    BY <1>6 DEF SetOptions, OwnersHaveProcs, Owners, Owning, Searching, TaskStates
  <2>3. Append(proc[task[c].proc].out, ReadyOk) \in Seq(Messages)
    BY <2>2, RecordTypes DEF ProcStates
  <2>4. [proc[task[c].proc] EXCEPT !.multi = task[c].want, !.out = Append(@, ReadyOk)]
          \in ProcStates
    <3>1. proc[task[c].proc] \in ProcStates  BY <2>2
    <3> HIDE DEF Types
    <3> QED  BY <2>2, <2>3, <3>1, ProcUpdate
  <2>5. proc' \in [Procs -> ProcStates]
    BY <1>6, <2>2, <2>4 DEF SetOptions
  <2> QED  BY <1>6, <2>1, <2>5 DEF SetOptions
<1>7. CASE AwaitReady(c)
  <2>1. task' \in [Callers -> TaskStates]
    BY <1>7, GotoType DEF AwaitReady, InCall, Permitted, Owning, Searching
  <2>2. task[c].proc \in Procs
    BY <1>7 DEF AwaitReady, OwnersHaveProcs, Owners, Owning, Searching
  <2>3. PICK i \in DOMAIN proc[task[c].proc].out :
          proc' = [proc EXCEPT ![task[c].proc].out = SubSeq(@, i + 1, Len(@))]
    BY <1>7 DEF AwaitReady
  <2>4. proc[task[c].proc].out \in Seq(Messages)
    BY <2>2 DEF ProcStates
  <2>5. PICK rest \in Seq(Messages) :
          rest = SubSeq(proc[task[c].proc].out, i + 1, Len(proc[task[c].proc].out))
    <3> DEFINE s == proc[task[c].proc].out
    <3>1. i \in 1 .. Len(s) /\ \A j \in i + 1 .. Len(s) : s[j] \in Messages
      BY <2>4
    <3>2. SubSeq(s, i + 1, Len(s)) \in Seq(Messages)
      <4> HIDE DEF s
      <4> QED  BY <2>4, <3>1, SubSeqProperties
    <3> QED  BY <3>2
  <2>6. proc' = [proc EXCEPT ![task[c].proc].out = rest]
    BY <2>3, <2>5
  <2>7. proc' \in [Procs -> ProcStates]
    BY <2>2, <2>6 DEF ProcStates
  <2> QED  BY <1>7, <2>1, <2>7 DEF AwaitReady
<1>8. CASE Go(c)
  <2>1. task' \in [Callers -> TaskStates]
    BY <1>8, GotoType DEF Go, InCall, Permitted, Owning, Searching
  <2>2. task[c].proc \in Procs /\ task[c].pos \in Positions \cup {None}
    BY <1>8 DEF Go, OwnersHaveProcs, Owners, Owning, Searching, TaskStates
  <2>3. [proc[task[c].proc] EXCEPT !.search = task[c].pos] \in ProcStates
    BY <2>2 DEF ProcStates
  <2>4. proc' \in [Procs -> ProcStates]
    BY <1>8, <2>2, <2>3 DEF Go
  <2> QED  BY <1>8, <2>1, <2>4 DEF Go
<1>9. CASE Receive(c)
  BY <1>9, ReceiveTypes
<1>10. CASE GiveBack(c)
  <2>1. task[c].proc \in Procs /\ task[c].got \in AnswerStates
    BY <1>10 DEF GiveBack, OwnersHaveProcs, Owners, Owning, TaskStates
  <2>2. task' \in [Callers -> TaskStates]
    BY <1>10, <2>1, ReturnType DEF GiveBack
  <2> QED  BY <1>10, <2>1, <2>2 DEF GiveBack
<1>11. CASE Quit(c)
  <2>1. task' \in [Callers -> TaskStates]
    BY <1>11, RecordTypes, ReturnType DEF Quit
  <2>2. proc' \in [Procs -> ProcStates]
    BY <1>11, RecordTypes DEF Quit
  <2> QED  BY <1>11, <2>1, <2>2 DEF Quit
<1> QED  BY <1>1, <1>2, <1>3, <1>4, <1>5, <1>6, <1>7, <1>8, <1>9, <1>10, <1>11 DEF Work

LEMMA EndingTypes ==
  ASSUME PoolAssumption, Types, OwnersHaveProcs, NEW c \in Callers, Fails(c) \/ Abandon(c)
  PROVE  Types'
<1>1. CASE SearchFails(c)
  <2>1. task' \in [Callers -> TaskStates]
    BY <1>1, GotoType DEF SearchFails, InCall, Permitted, Owning
  <2> QED  BY <1>1, <2>1 DEF SearchFails, Types
<1>2. CASE SpawnFails(c)
  <2>1. task' \in [Callers -> TaskStates]
    BY <1>2, RecordTypes, ReturnType DEF SpawnFails
  <2>2. proc' \in [Procs -> ProcStates]
    BY <1>2, RecordTypes DEF SpawnFails, Types
  <2> QED  BY <1>2, <2>1, <2>2 DEF SpawnFails, Types
<1>3. CASE CutOff(c)
  <2>1. task' \in [Callers -> TaskStates]
    BY <1>3, RecordTypes, ReturnType DEF CutOff
  <2>2. [job[c] EXCEPT !.truncated = TRUE] \in JobStates
    BY DEF Types, JobStates
  <2>3. job' \in [Callers -> JobStates]
    BY <1>3, <2>2 DEF CutOff, Types
  <2> QED  BY <1>3, <2>1, <2>3, DropType DEF CutOff, Types
<1>4. CASE Abandon(c)
  BY <1>4, RecordTypes, DropType DEF Abandon, Types
<1> QED  BY <1>1, <1>2, <1>3, <1>4 DEF Fails

LEMMA ProcessTypes ==
  ASSUME PoolAssumption, Types, NEW e \in Procs, Finish(e) \/ Exit(e)
  PROVE  Types'
<1>1. CASE Finish(e)
  <2>1. BestMove(proc[e].search, proc[e].multi) \in Messages
    BY PoolAssumption DEF Types, ProcStates, BestMove, Messages
  <2>2. Append(proc[e].out, BestMove(proc[e].search, proc[e].multi)) \in Seq(Messages)
    BY <2>1 DEF Types, ProcStates
  <2>3. [proc[e] EXCEPT !.search = None,
                        !.out = Append(@, BestMove(proc[e].search, proc[e].multi))]
          \in ProcStates
    BY <2>2 DEF Types, ProcStates
  <2> QED  BY <1>1, <2>3 DEF Finish, Types
<1>2. CASE Exit(e)
  <2>1. [proc[e] EXCEPT !.alive = FALSE, !.search = None] \in ProcStates
    BY DEF Types, ProcStates
  <2> QED  BY <1>2, <2>1 DEF Exit, Types
<1> QED  BY <1>1, <1>2

\* Every step keeps the types.
LEMMA StepTypes ==
  ASSUME PoolAssumption, Types, OwnersHaveProcs, [Next]_vars
  PROVE  Types'
<1>1. CASE UNCHANGED vars
  BY <1>1 DEF vars, Types
<1>2. CASE Next
  BY <1>2, CallerTypes, WorkTypes, EndingTypes, ProcessTypes DEF Next
<1> QED  BY <1>1, <1>2

(***************************************************************************)
(* Permits, processes and the queue.                                       *)
(***************************************************************************)
PermitHolders == {c \in Callers : task[c].pc \in Permitted}

\* Every entry of the semaphore's queue is a different call that waits.
QueueOK ==
  /\ \A i \in DOMAIN waiting : task[waiting[i]].pc = "queue"
  /\ \A i, j \in DOMAIN waiting : i # j => waiting[i] # waiting[j]

Hands == OwnersHaveProcs /\ ProcessesBounded

Places == Hands /\ PermitsConserved /\ QueueOK

\* What the step of call c leaves alone.
OthersSame(c) == \A d \in Callers \ {c} : task'[d] = task[d]

LEMMA Counts ==
  ASSUME PoolAssumption
  PROVE  /\ IsFiniteSet(Owners) /\ IsFiniteSet(PermitHolders)
         /\ Cardinality(Owners) \in Nat /\ Cardinality(PermitHolders) \in Nat
         /\ Cardinality(Owners) <= Cardinality(PermitHolders)
<1>1. Owners \subseteq PermitHolders /\ PermitHolders \subseteq Callers
  BY DEF Owners, PermitHolders, Permitted
<1> QED  BY <1>1, FS_Subset, FS_CardinalityType, PoolAssumption

\* A step that moves no call in or out of the queue, its permit or its
\* process keeps everything about them.
LEMMA SamePlaces ==
  ASSUME Places, Types,
         UNCHANGED <<idle, permits, waiting>>,
         \A c \in Callers : /\ task'[c].pc \in Owning <=> task[c].pc \in Owning
                            /\ task'[c].pc \in Permitted <=> task[c].pc \in Permitted
                            /\ task[c].pc = "queue" => task'[c].pc = "queue"
                            /\ task[c].pc \in Owning => task'[c].proc = task[c].proc
  PROVE  Places'
<1>1. Owners' = Owners /\ PermitHolders' = PermitHolders /\ IdleProcs' = IdleProcs
  BY DEF Owners, PermitHolders, IdleProcs
<1>2. \A c \in Owners : task'[c].proc = task[c].proc
  BY DEF Owners
<1>3. Hands'
  BY <1>1, <1>2 DEF Places, Hands, OwnersHaveProcs, ProcessesBounded
<1>4. PermitsConserved'
  BY <1>1 DEF Places, PermitsConserved, PermitHolders
<1>5. QueueOK'
  <2>1. \A i \in DOMAIN waiting : waiting[i] \in Callers
    BY DEF Types
  <2> QED  BY <2>1 DEF Places, QueueOK
<1> QED  BY <1>3, <1>4, <1>5 DEF Places

\* A call gives its permit back.
LEMMA PermitReturned ==
  ASSUME PoolAssumption, PermitsConserved, Types, NEW c \in Callers, OthersSame(c),
         task[c].pc \in Permitted, task'[c].pc \notin Permitted, permits' = permits + 1
  PROVE  PermitsConserved'
<1>1. PermitHolders' = PermitHolders \ {c} /\ c \in PermitHolders
  BY DEF PermitHolders, OthersSame
<1>2. Cardinality(PermitHolders') = Cardinality(PermitHolders) - 1
  BY <1>1, Counts, FS_RemoveElement
<1> QED  BY <1>2, Counts, PoolAssumption DEF PermitsConserved, PermitHolders, Types

\* A call parts with its process, which is dead or for nobody else.
LEMMA OwnerLeaves ==
  ASSUME PoolAssumption, Hands, Types, NEW c \in Callers, OthersSame(c),
         task[c].pc \in Owning, task'[c].pc \notin Owning, idle' = idle
  PROVE  Hands'
<1>1. Owners' = Owners \ {c} /\ c \in Owners
  BY DEF Owners, OthersSame
<1>2. Cardinality(Owners') = Cardinality(Owners) - 1
  BY <1>1, Counts, FS_RemoveElement
<1>3. \A d \in Owners' : task'[d] = task[d] /\ d \in Owners
  BY <1>1 DEF Owners, OthersSame
<1>4. Len(idle) + Cardinality(Owners') <= PoolSize
  BY <1>2, Counts, PoolAssumption DEF Hands, ProcessesBounded, Types
<1>5. IdleProcs' = IdleProcs
  BY DEF IdleProcs
<1>6. OwnersHaveProcs'
  BY <1>3 DEF Hands, OwnersHaveProcs
<1> QED  BY <1>3, <1>4, <1>5, <1>6 DEF Hands, ProcessesBounded

\* A call that owns nothing and will own nothing leaves the processes alone.
LEMMA NotAnOwner ==
  ASSUME Hands, NEW c \in Callers, OthersSame(c),
         task[c].pc \notin Owning, task'[c].pc \notin Owning, idle' = idle
  PROVE  Hands'
<1>1. Owners' = Owners /\ IdleProcs' = IdleProcs
  BY DEF Owners, OthersSame, IdleProcs
<1>2. \A d \in Owners : task'[d] = task[d]
  BY DEF Owners, OthersSame
<1> QED  BY <1>1, <1>2 DEF Hands, OwnersHaveProcs, ProcessesBounded

LEMMA SamePermits ==
  ASSUME PermitsConserved, NEW c \in Callers, OthersSame(c),
         task[c].pc \in Permitted <=> task'[c].pc \in Permitted, permits' = permits
  PROVE  PermitsConserved'
<1>1. PermitHolders' = PermitHolders
  BY DEF PermitHolders, OthersSame
<1> QED  BY <1>1 DEF PermitsConserved, PermitHolders

LEMMA SameQueue ==
  ASSUME QueueOK, Types, NEW c \in Callers, OthersSame(c),
         task[c].pc # "queue", waiting' = waiting
  PROVE  QueueOK'
<1>1. \A i \in DOMAIN waiting : waiting[i] \in Callers \ {c}
  BY DEF QueueOK, Types
<1> QED  BY <1>1 DEF QueueOK, OthersSame

LEMMA EnqueuePlaces ==
  ASSUME Places, Types, NEW c \in Callers, Enqueue(c)
  PROVE  Places'
<1>1. /\ OthersSame(c) /\ task[c].pc = "called" /\ task'[c].pc = "queue"
      /\ idle' = idle /\ permits' = permits
  BY DEF Enqueue, Goto, OthersSame, Types
<1>2. task[c].pc \notin Permitted /\ task'[c].pc \notin Permitted
  BY <1>1 DEF Permitted, Owning, Searching
<1>3. Hands'
  BY <1>1, <1>2, NotAnOwner DEF Places, Permitted
<1>4. PermitsConserved'
  BY <1>1, <1>2, SamePermits DEF Places
<1>5. QueueOK'
  <2>1. waiting' = Append(waiting, c) /\ waiting \in Seq(Callers)
    BY DEF Enqueue, Types
  <2>2. \A i \in DOMAIN waiting : waiting[i] \in Callers \ {c}
    BY <1>1, <2>1 DEF Places, QueueOK
  <2>3. \A i \in DOMAIN waiting' :
          \/ i \in DOMAIN waiting /\ waiting'[i] = waiting[i]
          \/ i = Len(waiting) + 1 /\ waiting'[i] = c
    BY <2>1
  <2> QED  BY <1>1, <2>2, <2>3 DEF Places, QueueOK, OthersSame
<1> QED  BY <1>3, <1>4, <1>5 DEF Places

LEMMA AcquirePlaces ==
  ASSUME PoolAssumption, Places, Types, NEW c \in Callers, Acquire(c)
  PROVE  Places'
<1>1. waiting \in Seq(Callers) /\ waiting # << >> /\ waiting[1] = c /\ 1 \in DOMAIN waiting
  BY DEF Acquire, Types
<1>2. /\ OthersSame(c) /\ task[c].pc = "queue" /\ task'[c].pc = "checkout" /\ idle' = idle
  BY <1>1 DEF Acquire, Goto, OthersSame, Types, Places, QueueOK
<1>3. Hands'
  <2>1. task[c].pc \notin Owning /\ task'[c].pc \notin Owning
    BY <1>2 DEF Owning, Searching
  <2> QED  BY <1>2, <2>1, NotAnOwner DEF Places
<1>4. PermitsConserved'
  <2>1. PermitHolders' = PermitHolders \cup {c} /\ c \notin PermitHolders
    BY <1>2 DEF PermitHolders, OthersSame, Permitted, Owning, Searching
  <2>2. Cardinality(PermitHolders') = Cardinality(PermitHolders) + 1
    BY <2>1, Counts, FS_AddElement
  <2> QED  BY <2>2, Counts, PoolAssumption
           DEF Acquire, Places, PermitsConserved, PermitHolders, Types
<1>5. QueueOK'
  <2>1. /\ waiting' = Tail(waiting)
        /\ \A i \in DOMAIN waiting' : i + 1 \in DOMAIN waiting /\ waiting'[i] = waiting[i + 1]
        /\ \A i, j \in DOMAIN waiting' : i # j => i + 1 # j + 1
    BY <1>1 DEF Acquire
  <2>2. \A i \in DOMAIN waiting' : waiting'[i] # c /\ waiting'[i] \in Callers
    <3>1. \A i \in DOMAIN waiting' : i + 1 # 1
      BY <1>1, <2>1
    <3> QED  BY <1>1, <2>1, <3>1 DEF Places, QueueOK
  <2>3. \A i \in DOMAIN waiting' : task'[waiting'[i]].pc = "queue"
    BY <1>2, <2>1, <2>2 DEF Places, QueueOK, OthersSame
  <2>4. \A i, j \in DOMAIN waiting' : i # j => waiting'[i] # waiting'[j]
    BY <2>1 DEF Places, QueueOK
  <2> QED  BY <2>3, <2>4 DEF QueueOK
<1> QED  BY <1>3, <1>4, <1>5 DEF Places

\* A call that has a permit comes to own the process e.
LEMMA NewOwner ==
  ASSUME PoolAssumption, Places, Types, NEW c \in Callers, NEW e \in Procs, OthersSame(c),
         task[c].pc = "checkout", task'[c].pc \in Owning, task'[c].proc = e,
         UNCHANGED <<permits, waiting>>,
         \A d \in Owners : task[d].proc # e
  PROVE  /\ PermitsConserved' /\ QueueOK' /\ OwnersHaveProcs'
         /\ Owners' = Owners \cup {c}
         /\ Cardinality(Owners') = Cardinality(Owners) + 1
         /\ Cardinality(Owners') <= PoolSize
         /\ \A d \in Owners : task'[d].proc = task[d].proc
         /\ \A d, b \in Owners' : d # b => task'[d].proc # task'[b].proc
<1>1. Owners' = Owners \cup {c} /\ c \notin Owners /\ c \in PermitHolders
  BY DEF Owners, PermitHolders, Permitted, OthersSame, Owning, Searching
<1>2. Cardinality(Owners') = Cardinality(Owners) + 1
  BY <1>1, Counts, FS_AddElement
<1>3. PermitsConserved'
  BY SamePermits DEF Places, Permitted
<1>4. QueueOK'
  BY SameQueue DEF Places
<1>5. Cardinality(Owners') <= PoolSize
  <2>1. Owners' \subseteq PermitHolders
    BY <1>1 DEF Owners, PermitHolders, Permitted
  <2>2. Cardinality(Owners') <= Cardinality(PermitHolders)
    BY <2>1, Counts, FS_Subset
  <2>3. permits + Cardinality(PermitHolders) = PoolSize /\ permits \in Nat
    BY DEF Places, PermitsConserved, PermitHolders, Types
  <2> QED  BY <1>2, <2>2, <2>3, Counts, PoolAssumption
<1>6. \A d \in Owners : task'[d] = task[d]
  BY <1>1 DEF OthersSame, Owners
<1>7. OwnersHaveProcs'
  BY <1>1, <1>6 DEF Places, Hands, OwnersHaveProcs
<1>8. \A d, b \in Owners' : d # b => task'[d].proc # task'[b].proc
  BY <1>1, <1>6 DEF Places, Hands, ProcessesBounded
<1> QED  BY <1>1, <1>2, <1>3, <1>4, <1>5, <1>6, <1>7, <1>8

LEMMA TakeIdlePlaces ==
  ASSUME PoolAssumption, Places, Types, NEW c \in Callers, TakeIdle(c)
  PROVE  Places'
<1> DEFINE e == idle[Len(idle)]
<1>1. /\ idle \in Seq(Procs) /\ idle # << >> /\ Len(idle) \in DOMAIN idle
      /\ e \in IdleProcs /\ e \in Procs
  BY DEF TakeIdle, Types, IdleProcs
<1>2. /\ OthersSame(c) /\ task[c].pc = "checkout" /\ task'[c].pc \in Owning
      /\ task'[c].proc = e /\ UNCHANGED <<permits, waiting>>
  BY DEF TakeIdle, OthersSame, Types, FirstStep, Owning, Searching
<1>3. \A d \in Owners : task[d].proc # e
  BY <1>1 DEF Places, Hands, ProcessesBounded
<1> HIDE DEF e
<1>4. /\ PermitsConserved' /\ QueueOK' /\ OwnersHaveProcs'
      /\ Owners' = Owners \cup {c}
      /\ Cardinality(Owners') = Cardinality(Owners) + 1
      /\ \A d \in Owners : task'[d].proc = task[d].proc
      /\ \A d, b \in Owners' : d # b => task'[d].proc # task'[b].proc
  BY <1>1, <1>2, <1>3, NewOwner
<1>5. /\ Len(idle') = Len(idle) - 1
      /\ \A i \in DOMAIN idle' : i \in DOMAIN idle /\ i # Len(idle) /\ idle'[i] = idle[i]
  <2> DEFINE n == Len(idle) - 1
  <2>1. n \in Nat /\ Len(idle) = n + 1 /\ \A i \in 1 .. n : idle[i] \in Procs
    BY <1>1
  <2>2. idle' = SubSeq(idle, 1, n)
    BY DEF TakeIdle
  <2> HIDE DEF n
  <2>3. /\ SubSeq(idle, 1, n) \in Seq(Procs)
        /\ Len(SubSeq(idle, 1, n)) = n
        /\ \A i \in 1 .. n : SubSeq(idle, 1, n)[i] = idle[i]
    BY <2>1, SubSeqProperties
  <2> QED  BY <1>1, <2>1, <2>2, <2>3
<1>6. Len(idle') + Cardinality(Owners') <= PoolSize
  BY <1>1, <1>4, <1>5, Counts, PoolAssumption DEF Places, Hands, ProcessesBounded
<1>7. \A i, j \in DOMAIN idle' : i # j => idle'[i] # idle'[j]
  BY <1>5 DEF Places, Hands, ProcessesBounded
<1>8. \A d \in Owners' : task'[d].proc \notin IdleProcs'
  <2>1. IdleProcs' \subseteq IdleProcs
    BY <1>5 DEF IdleProcs
  <2>2. e \notin IdleProcs'
    BY <1>1, <1>5 DEF e, IdleProcs, Places, Hands, ProcessesBounded
  <2> QED  BY <1>2, <1>4, <2>1, <2>2 DEF Places, Hands, ProcessesBounded
<1> QED  BY <1>4, <1>6, <1>7, <1>8 DEF Places, Hands, ProcessesBounded

LEMMA StartSpawnPlaces ==
  ASSUME PoolAssumption, Places, Types, NEW c \in Callers, NEW e \in Procs, StartSpawn(c, e)
  PROVE  Places'
<1>1. /\ OthersSame(c) /\ task[c].pc = "checkout" /\ task'[c].pc \in Owning
      /\ task'[c].proc = e /\ UNCHANGED <<permits, waiting, idle>> /\ idle = << >>
  BY DEF StartSpawn, OthersSame, Types, Owning
<1>2. \A d \in Owners : task[d].proc # e
  BY DEF StartSpawn, Unused
<1>3. /\ PermitsConserved' /\ QueueOK' /\ OwnersHaveProcs'
      /\ Cardinality(Owners') <= PoolSize /\ Cardinality(Owners') = Cardinality(Owners) + 1
      /\ \A d, b \in Owners' : d # b => task'[d].proc # task'[b].proc
  BY <1>1, <1>2, NewOwner
<1>4. Len(idle') = 0 /\ DOMAIN idle' = {}
  BY <1>1
<1>5. IdleProcs' = {}
  BY <1>4 DEF IdleProcs
<1>6. Len(idle') + Cardinality(Owners') <= PoolSize
  BY <1>3, <1>4, Counts, PoolAssumption
<1> QED  BY <1>3, <1>4, <1>5, <1>6 DEF Places, Hands, ProcessesBounded

LEMMA GiveBackPlaces ==
  ASSUME PoolAssumption, Places, Types, NEW c \in Callers, GiveBack(c)
  PROVE  Places'
<1> DEFINE e == task[c].proc
<1>1. /\ OthersSame(c) /\ task[c].pc = "giveback" /\ task'[c].pc = "done"
      /\ waiting' = waiting /\ permits' = permits + 1 /\ idle' = Append(idle, e)
  BY DEF GiveBack, Return, OthersSame, Types
<1>2. c \in Owners /\ c \in PermitHolders /\ task'[c].pc \notin Permitted
  BY <1>1 DEF Owners, PermitHolders, Permitted, Owning, Searching
<1>3. PermitsConserved' /\ QueueOK'
  BY <1>1, <1>2, PermitReturned, SameQueue DEF Places, PermitHolders
<1>4. Owners' = Owners \ {c}
  BY <1>1, <1>2 DEF Owners, OthersSame, Permitted
<1>5. Cardinality(Owners') = Cardinality(Owners) - 1
  BY <1>2, <1>4, Counts, FS_RemoveElement
<1>6. \A d \in Owners' : task'[d] = task[d] /\ d \in Owners /\ d # c
  BY <1>1, <1>4 DEF OthersSame, Owners
<1>7. e \in Procs /\ e \notin IdleProcs /\ idle \in Seq(Procs)
  BY <1>2 DEF Places, Hands, OwnersHaveProcs, ProcessesBounded, Types
<1> HIDE DEF e
<1>8. /\ Len(idle') = Len(idle) + 1
      /\ \A i \in DOMAIN idle' : \/ i \in DOMAIN idle /\ idle'[i] = idle[i]
                                 \/ i = Len(idle) + 1 /\ idle'[i] = e
  BY <1>1, <1>7
<1>9. Len(idle') + Cardinality(Owners') <= PoolSize
  BY <1>5, <1>7, <1>8, Counts, PoolAssumption DEF Places, Hands, ProcessesBounded
<1>10. \A i, j \in DOMAIN idle' : i # j => idle'[i] # idle'[j]
  BY <1>7, <1>8 DEF IdleProcs, Places, Hands, ProcessesBounded
<1>11. \A d \in Owners' : task'[d].proc \notin IdleProcs'
  <2>1. IdleProcs' \subseteq IdleProcs \cup {e}
    BY <1>8 DEF IdleProcs
  <2>2. \A d \in Owners' : task[d].proc # e
    BY <1>2, <1>6 DEF e, Places, Hands, ProcessesBounded
  <2> QED  BY <1>6, <2>1, <2>2 DEF Places, Hands, ProcessesBounded
<1>12. OwnersHaveProcs' /\ \A d, b \in Owners' : d # b => task'[d].proc # task'[b].proc
  BY <1>6 DEF Places, Hands, OwnersHaveProcs, ProcessesBounded
<1> QED  BY <1>3, <1>9, <1>10, <1>11, <1>12 DEF Places, Hands, ProcessesBounded

\* What is left of a sequence without its element i.
LEMMA RemoveAtElements ==
  ASSUME NEW S, NEW s \in Seq(S), NEW i \in DOMAIN s
  PROVE  \A k \in DOMAIN RemoveAt(s, i) :
            \/ k \in 1 .. i - 1 /\ RemoveAt(s, i)[k] = s[k]
            \/ k \in i .. Len(s) - 1 /\ RemoveAt(s, i)[k] = s[k + 1]
<1> DEFINE a == SubSeq(s, 1, i - 1)
           b == SubSeq(s, i + 1, Len(s))
<1>1. i \in 1 .. Len(s) /\ \A k \in 1 .. Len(s) : s[k] \in S
  OBVIOUS
<1>2. a \in Seq(S) /\ Len(a) = i - 1 /\ \A k \in 1 .. i - 1 : a[k] = s[k]
  BY <1>1, SubSeqProperties
<1>3. /\ b \in Seq(S) /\ Len(b) = Len(s) - i
      /\ \A k \in 1 .. Len(s) - i : b[k] = s[i + k]
  BY <1>1, SubSeqProperties
<1> HIDE DEF a, b
<1>4. RemoveAt(s, i) = a \o b
  BY DEF RemoveAt, a, b
<1>5. \A k \in DOMAIN (a \o b) :
         \/ k \in 1 .. i - 1 /\ (a \o b)[k] = a[k]
         \/ k \in i .. Len(s) - 1 /\ (a \o b)[k] = b[k - (i - 1)]
  BY <1>1, <1>2, <1>3
<1>6. \A k \in i .. Len(s) - 1 : b[k - (i - 1)] = s[k + 1]
  <2> SUFFICES ASSUME NEW k \in i .. Len(s) - 1 PROVE b[k - (i - 1)] = s[k + 1]
    OBVIOUS
  <2>1. k - (i - 1) \in 1 .. Len(s) - i /\ i + (k - (i - 1)) = k + 1
    BY <1>1
  <2> QED  BY <1>3, <2>1
<1> QED  BY <1>2, <1>4, <1>5, <1>6

\* A call parts with its process and its permit at once.
LEMMA LeavesPlaces ==
  ASSUME PoolAssumption, Places, Types, NEW c \in Callers, OthersSame(c),
         task[c].pc \in Owning, task'[c].pc \in {"idle", "done"},
         permits' = permits + 1, UNCHANGED <<idle, waiting>>
  PROVE  Places'
<1>1. /\ task[c].pc \in Permitted /\ task'[c].pc \notin Permitted
      /\ task'[c].pc \notin Owning /\ task[c].pc # "queue"
  BY DEF Permitted, Owning, Searching
<1>2. Hands'
  BY <1>1, OwnerLeaves DEF Places
<1>3. PermitsConserved' /\ QueueOK'
  BY <1>1, PermitReturned, SameQueue DEF Places
<1> QED  BY <1>2, <1>3 DEF Places

\* A dropped call leaves nothing behind, wherever it was.
LEMMA DropPlaces ==
  ASSUME PoolAssumption, Places, Types, NEW c \in Callers, OthersSame(c), DropFuture(c),
         task[c].pc \in InCall, task'[c].pc \in {"idle", "done"}
  PROVE  Places'
<1>0. task'[c].pc \notin Permitted /\ task'[c].pc \notin Owning
  BY DEF Permitted, Owning, Searching
<1>1. CASE task[c].pc = "called"
  <2>1. task[c].pc \notin Permitted /\ task[c].pc \notin Owning
    BY <1>1 DEF Permitted, Owning, Searching
  <2>2. UNCHANGED <<idle, permits, waiting>>
    BY <1>1, <2>1 DEF DropFuture
  <2>3. Hands'
    BY <1>0, <2>1, <2>2, NotAnOwner DEF Places
  <2>4. PermitsConserved' /\ QueueOK'
    BY <1>0, <1>1, <2>1, <2>2, SamePermits, SameQueue DEF Places
  <2> QED  BY <2>3, <2>4 DEF Places
<1>2. CASE task[c].pc = "queue"
  <2>1. task[c].pc \notin Permitted /\ task[c].pc \notin Owning
    BY <1>2 DEF Permitted, Owning, Searching
  <2>2. UNCHANGED <<idle, permits>>
    BY <1>2, <2>1 DEF DropFuture
  <2>3. PICK i \in DOMAIN waiting : waiting[i] = c /\ waiting' = RemoveAt(waiting, i)
    BY <1>2 DEF DropFuture
  <2>4. Hands' /\ PermitsConserved'
    BY <1>0, <2>1, <2>2, NotAnOwner, SamePermits DEF Places
  <2>5. waiting \in Seq(Callers)
    BY DEF Types
  <2>6. \A k \in DOMAIN waiting' :
           \/ k \in 1 .. i - 1 /\ waiting'[k] = waiting[k]
           \/ k \in i .. Len(waiting) - 1 /\ waiting'[k] = waiting[k + 1]
    BY <2>3, <2>5, RemoveAtElements
  <2>7. \A k \in DOMAIN waiting' : \E n \in DOMAIN waiting \ {i} : waiting'[k] = waiting[n]
    BY <2>3, <2>5, <2>6
  <2>8. \A k \in DOMAIN waiting' : waiting'[k] \in Callers \ {c}
                                   /\ task[waiting'[k]].pc = "queue"
    BY <2>3, <2>5, <2>7 DEF Places, QueueOK
  <2>9. \A j, k \in DOMAIN waiting' : j # k => waiting'[j] # waiting'[k]
    <3> DEFINE n(k) == IF k < i THEN k ELSE k + 1
    <3>1. i \in Nat /\ DOMAIN waiting = 1 .. Len(waiting) /\ Len(waiting) \in Nat
      BY <2>3, <2>5
    <3>2. \A k \in DOMAIN waiting' :
             k \in Nat /\ n(k) \in DOMAIN waiting /\ waiting'[k] = waiting[n(k)]
      BY <2>3, <2>6, <3>1
    <3>3. \A j, k \in Nat : j # k => n(j) # n(k)
      BY <3>1
    <3> HIDE DEF n
    <3> QED  BY <3>2, <3>3 DEF Places, QueueOK
  <2>10. QueueOK'
    BY <2>8, <2>9 DEF QueueOK, OthersSame
  <2> QED  BY <2>4, <2>10 DEF Places
<1>3. CASE task[c].pc = "checkout"
  <2>1. task[c].pc \in Permitted /\ task[c].pc \notin Owning
    BY <1>3 DEF Permitted, Owning, Searching
  <2>2. permits' = permits + 1 /\ UNCHANGED <<idle, waiting>>
    BY <1>3, <2>1 DEF DropFuture
  <2>3. Hands'
    BY <1>0, <2>1, <2>2, NotAnOwner DEF Places
  <2>4. PermitsConserved' /\ QueueOK'
    BY <1>0, <1>3, <2>1, <2>2, PermitReturned, SameQueue DEF Places
  <2> QED  BY <2>3, <2>4 DEF Places
<1>4. CASE task[c].pc \in Owning
  <2>1. permits' = permits + 1 /\ UNCHANGED <<idle, waiting>>
    BY <1>4 DEF DropFuture, Permitted, Owning, Searching
  <2> QED  BY <1>4, <2>1, LeavesPlaces
<1> QED  BY <1>1, <1>2, <1>3, <1>4 DEF InCall, Permitted

LEMMA ReturnEffect ==
  ASSUME Types, NEW c \in Callers, NEW r, Return(c, r)
  PROVE  /\ OthersSame(c) /\ task'[c].pc = "done" /\ task'[c].got = r
         /\ task'[c].pos = task[c].pos /\ task'[c].want = task[c].want
BY DEF Return, OthersSame, Types, TaskStates

\* Every step keeps permits, processes and the queue in order.
LEMMA StepPlaces ==
  ASSUME PoolAssumption, Places, Types, [Next]_vars
  PROVE  Places'
<1>1. CASE UNCHANGED vars
  BY <1>1, SamePlaces DEF vars
<1>2. ASSUME NEW c \in Callers,
             StartJob(c) \/ BudgetEnds(c) \/ FinishJob(c)
      PROVE  Places'
  BY <1>2, SamePlaces DEF StartJob, BudgetEnds, FinishJob
<1>3. ASSUME NEW e \in Procs, Finish(e) \/ Exit(e) PROVE Places'
  BY <1>3, SamePlaces DEF Finish, Exit
<1>4. ASSUME NEW c \in Callers, Ask(c) \/ TakeAnswer(c) PROVE Places'
  <2>1. /\ UNCHANGED <<idle, permits, waiting>> /\ OthersSame(c)
        /\ task[c].pc \in {"idle", "done"} /\ task'[c].pc \in {"called", "idle"}
    <3>1. CASE Ask(c)
      <4>1. PICK p \in Positions, n \in MultiPVs : Call(c, p, n)
        BY <3>1 DEF Ask
      <4>2. task'[c] = [NoTask EXCEPT !.pc = "called", !.pos = p, !.want = n]
        BY <4>1 DEF Call, Types
      <4> QED  BY <4>1, <4>2 DEF Call, NoTask, OthersSame, Types
    <3>2. CASE TakeAnswer(c)
      BY <3>2 DEF TakeAnswer, NoTask, OthersSame, Types
    <3> QED  BY <1>4, <3>1, <3>2
  <2>2. \A d \in Callers : d # c => task'[d] = task[d]
    BY <2>1 DEF OthersSame
  <2> QED  BY <2>1, <2>2, SamePlaces DEF Permitted, Owning, Searching
<1>5. ASSUME NEW c \in Callers,
             \/ Handshake(c) \/ SetOptions(c) \/ AwaitReady(c) \/ Go(c) \/ Receive(c)
             \/ SearchFails(c)
      PROVE  Places'
  <2>1. /\ UNCHANGED <<idle, permits, waiting>> /\ OthersSame(c)
        /\ task[c].pc \in Owning /\ task'[c].pc \in Owning /\ task'[c].proc = task[c].proc
    <3>1. CASE Receive(c)
      <4> DEFINE m == Head(proc[task[c].proc].out)
                 r == Lines(m.pos, Fold(m.lines, task[c].want))
      <4>1. PICK r0 : task' = [task EXCEPT ![c].pc = "giveback", ![c].got = r0] \/ task' = task
        BY <3>1 DEF Receive
      <4>2. task[c].pc = "search" /\ UNCHANGED <<idle, permits, waiting>>
        BY <3>1 DEF Receive
      <4> QED  BY <4>1, <4>2 DEF OthersSame, Types, TaskStates, Owning, Searching
    <3>2. ASSUME ~Receive(c) PROVE \E pc \in Owning : Goto(c, pc)
      <4>1. FirstStep(c) \in Owning
        BY DEF FirstStep, Owning, Searching
      <4> QED  BY <1>5, <3>2, <4>1
               DEF Handshake, SetOptions, AwaitReady, Go, SearchFails, Owning, Searching
    <3>3. ASSUME ~Receive(c)
          PROVE  task[c].pc \in Owning /\ UNCHANGED <<idle, permits, waiting>>
      BY <1>5, <3>3 DEF Handshake, SetOptions, AwaitReady, Go, SearchFails, Owning, Searching
    <3>4. ASSUME NEW pc \in Owning, Goto(c, pc)
          PROVE  OthersSame(c) /\ task'[c].pc \in Owning /\ task'[c].proc = task[c].proc
      BY <3>4 DEF Goto, OthersSame, Types, TaskStates
    <3> QED  BY <3>1, <3>2, <3>3, <3>4
  <2>2. \A d \in Callers : d # c => task'[d] = task[d]
    BY <2>1 DEF OthersSame
  <2> QED  BY <2>1, <2>2, SamePlaces DEF Permitted, Owning, Searching
<1>6. ASSUME NEW c \in Callers, Quit(c) \/ SpawnFails(c) PROVE Places'
  <2>1. /\ OthersSame(c) /\ task[c].pc \in Owning /\ task'[c].pc = "done"
        /\ permits' = permits + 1 /\ UNCHANGED <<idle, waiting>>
    <3>1. Return(c, Failed) /\ task[c].pc \in Owning
          /\ permits' = permits + 1 /\ UNCHANGED <<idle, waiting>>
      BY <1>6 DEF Quit, SpawnFails, Owning
    <3> QED  BY <3>1, ReturnEffect
  <2> QED  BY <2>1, LeavesPlaces
<1>7. ASSUME NEW c \in Callers, CutOff(c) \/ Abandon(c) PROVE Places'
  <2>1. /\ OthersSame(c) /\ DropFuture(c) /\ task[c].pc \in InCall
        /\ task'[c].pc \in {"idle", "done"}
    <3>1. CASE CutOff(c)
      BY <3>1, ReturnEffect DEF CutOff
    <3>2. CASE Abandon(c)
      BY <3>2 DEF Abandon, NoTask, OthersSame, Types
    <3> QED  BY <1>7, <3>1, <3>2
  <2> QED  BY <2>1, DropPlaces
<1> QED
  BY <1>1, <1>2, <1>3, <1>4, <1>5, <1>6, <1>7, EnqueuePlaces, AcquirePlaces,
     TakeIdlePlaces, StartSpawnPlaces, GiveBackPlaces
  DEF Next, Work, Fails

(***************************************************************************)
(* What the process of a call has been told and has printed, at each point *)
(* of the call, and what the call has in its hands.                        *)
(***************************************************************************)
OptionsSet(c) == task[c].want > 1 => proc[task[c].proc].multi = task[c].want
Silent(e) == proc[e].search = None /\ proc[e].out = << >>

EngineState(c) ==
  LET e == task[c].proc
  IN  /\ task[c].pc \in {"spawn", "options", "go", "giveback"} => Silent(e)
      /\ task[c].pc = "ready" =>
           proc[e].search = None /\ proc[e].out = <<ReadyOk>> /\ OptionsSet(c)
      /\ task[c].pc = "go" => OptionsSet(c)
      /\ task[c].pc = "search" =>
           /\ OptionsSet(c)
           /\ \/ proc[e].search = task[c].pos /\ proc[e].out = << >>
              \/ proc[e].search = None
                 /\ proc[e].out \in {<< >>, <<BestMove(task[c].pos, proc[e].multi)>>}

CallState(c) ==
  /\ task[c].pc # "idle" => task[c].pos \in Positions
  /\ task[c].pc \notin {"giveback", "done"} => task[c].got = NoAnswer
  /\ task[c].pc \in {"giveback", "done"} =>
       \/ task[c].got = Lines(task[c].pos, 1 .. task[c].want)
       \/ task[c].pc = "done" /\ task[c].got \in {Failed, Empty}

Protocol ==
  /\ IdleIsQuiet
  /\ \A c \in Callers : EngineState(c) /\ CallState(c)

\* A step of call c does not disturb the processes of others.
LEMMA OthersUndisturbed ==
  ASSUME Protocol, NEW c \in Callers, OthersSame(c),
         \A d \in Owners \ {c} : proc'[task[d].proc] = proc[task[d].proc]
  PROVE  \A d \in Callers \ {c} : EngineState(d)' /\ CallState(d)'
<1> SUFFICES ASSUME NEW d \in Callers \ {c} PROVE EngineState(d)' /\ CallState(d)'
  OBVIOUS
<1>1. task'[d] = task[d] /\ EngineState(d) /\ CallState(d)
  BY DEF Protocol, OthersSame
<1>2. CallState(d)'
  BY <1>1 DEF CallState
<1>3. CASE task[d].pc \in Owning
  <2>1. proc'[task[d].proc] = proc[task[d].proc]
    BY <1>3 DEF Owners
  <2> QED  BY <1>1, <1>2, <2>1 DEF EngineState, Silent, OptionsSet
<1>4. CASE task[d].pc \notin Owning
  BY <1>1, <1>2, <1>4 DEF EngineState, Owning, Searching
<1> QED  BY <1>3, <1>4

\* A step that changes no process but that of call c, and puts no other one
\* into the pool.
LEMMA OwnProcessOnly ==
  ASSUME Protocol, Hands, Types, NEW c \in Callers, OthersSame(c), c \in Owners,
         NEW s, proc' = [proc EXCEPT ![task[c].proc] = s], idle' = idle,
         EngineState(c)', CallState(c)'
  PROVE  Protocol'
<1>1. \A e \in Procs : e # task[c].proc => proc'[e] = proc[e]
  BY DEF Types
<1>2. \A d \in Owners \ {c} : proc'[task[d].proc] = proc[task[d].proc]
  BY <1>1 DEF Hands, OwnersHaveProcs, ProcessesBounded
<1>3. \A d \in Callers : EngineState(d)' /\ CallState(d)'
  BY <1>2, OthersUndisturbed
<1>4. IdleProcs' = IdleProcs /\ IdleProcs \subseteq Procs /\ task[c].proc \notin IdleProcs
  BY DEF IdleProcs, Types, Hands, ProcessesBounded
<1>5. IdleIsQuiet'
  BY <1>1, <1>4 DEF IdleIsQuiet, Protocol
<1> QED  BY <1>3, <1>5 DEF Protocol

\* A step that changes no process.
LEMMA NoProcess ==
  ASSUME Protocol, NEW c \in Callers, OthersSame(c), proc' = proc,
         IdleProcs' \subseteq IdleProcs \cup {task[c].proc},
         task[c].proc \in IdleProcs' => Silent(task[c].proc),
         EngineState(c)', CallState(c)'
  PROVE  Protocol'
<1>1. \A d \in Callers : EngineState(d)' /\ CallState(d)'
  BY OthersUndisturbed
<1>2. IdleIsQuiet'
  BY DEF IdleIsQuiet, Protocol, Silent
<1> QED  BY <1>1, <1>2 DEF Protocol

LEMMA GotoEffect ==
  ASSUME Types, NEW c \in Callers, NEW pc, Goto(c, pc)
  PROVE  /\ OthersSame(c) /\ task'[c].pc = pc
         /\ task'[c].pos = task[c].pos /\ task'[c].want = task[c].want
         /\ task'[c].proc = task[c].proc /\ task'[c].got = task[c].got
BY DEF Goto, OthersSame, Types, TaskStates

\* The lines kept of a search are those the caller asked for.
LEMMA FoldKeepsAsked ==
  ASSUME NEW n \in Nat \ {0}, NEW want \in Nat \ {0}, want > 1 => n = want
  PROVE  Fold(n, want) = 1 .. want
BY DEF Fold

LEMMA WorkProtocol ==
  ASSUME PoolAssumption, Protocol, Hands, Types, NEW c \in Callers,
         \/ Handshake(c) \/ SetOptions(c) \/ AwaitReady(c) \/ Go(c) \/ SearchFails(c)
  PROVE  Protocol'
<1> DEFINE e == task[c].proc
<1>a. c \in Owners
  BY DEF Handshake, SetOptions, AwaitReady, Go, SearchFails, Owners, Owning, Searching
<1>b. e \in Procs /\ proc[e] \in ProcStates
  BY <1>a DEF Hands, OwnersHaveProcs, Types
<1>c. EngineState(c) /\ CallState(c)
  BY DEF Protocol
<1>1. CASE Handshake(c)
  <2>1. task[c].pc = "spawn" /\ proc' = proc /\ idle' = idle /\ Goto(c, FirstStep(c))
    BY <1>1 DEF Handshake
  <2>2. EngineState(c)' /\ CallState(c)'
    BY <1>c, <2>1, GotoEffect DEF EngineState, CallState, FirstStep, Silent, OptionsSet
  <2>3. IdleProcs' = IdleProcs
    BY <2>1 DEF IdleProcs
  <2>4. IdleIsQuiet'
    BY <2>1, <2>3 DEF IdleIsQuiet, Protocol
  <2> QED  BY <2>1, <2>2, <2>4, GotoEffect, OthersUndisturbed DEF Protocol
<1>2. CASE SetOptions(c)
  <2>1. PICK s : proc' = [proc EXCEPT ![e] = s]
                 /\ s = [proc[e] EXCEPT !.multi = task[c].want, !.out = Append(@, ReadyOk)]
    BY <1>2 DEF SetOptions
  <2>2. task[c].pc = "options" /\ idle' = idle /\ Goto(c, "ready")
    BY <1>2 DEF SetOptions
  <2>3. proc'[e] = s /\ s.search = None /\ s.out = <<ReadyOk>> /\ s.multi = task[c].want
    <3>1. proc[e].search = None /\ proc[e].out = << >>
      BY <1>c, <2>2 DEF EngineState, Silent
    <3>2. Append(<< >>, ReadyOk) = <<ReadyOk>>
      OBVIOUS
    <3>3. s.out = <<ReadyOk>>
      BY <1>b, <2>1, <3>1, <3>2 DEF ProcStates
    <3>4. s.search = None /\ s.multi = task[c].want
      BY <1>b, <2>1, <3>1 DEF ProcStates
    <3>5. proc'[e] = s
      BY <1>b, <2>1 DEF Types
    <3> QED  BY <3>3, <3>4, <3>5
  <2>4. EngineState(c)' /\ CallState(c)'
    BY <1>c, <2>2, <2>3, GotoEffect DEF EngineState, CallState, OptionsSet
  <2> QED  BY <1>a, <2>1, <2>2, <2>4, GotoEffect, OwnProcessOnly
<1>3. CASE AwaitReady(c)
  <2>1. task[c].pc = "ready" /\ idle' = idle /\ Goto(c, "go")
    BY <1>3 DEF AwaitReady
  <2>2. PICK i \in DOMAIN proc[e].out :
          proc' = [proc EXCEPT ![e].out = SubSeq(@, i + 1, Len(@))]
    BY <1>3 DEF AwaitReady
  <2>3. proc[e].out = <<ReadyOk>>
    BY <1>c, <2>1 DEF EngineState
  <2>4. SubSeq(proc[e].out, i + 1, Len(proc[e].out)) = << >>
    <3>1. Len(<<ReadyOk>>) = 1 /\ DOMAIN <<ReadyOk>> = {1} /\ SubSeq(<<ReadyOk>>, 2, 1) = << >>
      OBVIOUS
    <3>2. i = 1
      BY <2>2, <2>3, <3>1
    <3> QED  BY <2>3, <3>1, <3>2
  <2>5. PICK s : proc' = [proc EXCEPT ![e] = s] /\ s = [proc[e] EXCEPT !.out = << >>]
    <3>1. proc' = [proc EXCEPT ![e] =
                     [proc[e] EXCEPT !.out = SubSeq(proc[e].out, i + 1, Len(proc[e].out))]]
      BY <2>2
    <3> QED  BY <2>4, <3>1
  <2>6. proc'[e] = s /\ s.search = None /\ s.out = << >> /\ s.multi = proc[e].multi
    BY <1>b, <1>c, <2>1, <2>5 DEF EngineState, Types, ProcStates
  <2>7. EngineState(c)' /\ CallState(c)'
    BY <1>c, <2>1, <2>6, GotoEffect DEF EngineState, CallState, OptionsSet, Silent
  <2> QED  BY <1>a, <2>1, <2>5, <2>7, GotoEffect, OwnProcessOnly
<1>4. CASE Go(c)
  <2>1. PICK s : proc' = [proc EXCEPT ![e] = s] /\ s = [proc[e] EXCEPT !.search = task[c].pos]
    BY <1>4 DEF Go
  <2>2. task[c].pc = "go" /\ idle' = idle /\ Goto(c, "search")
    BY <1>4 DEF Go
  <2>3. proc'[e] = s /\ s.search = task[c].pos /\ s.out = << >> /\ s.multi = proc[e].multi
    BY <1>b, <1>c, <2>1, <2>2 DEF EngineState, Silent, Types, ProcStates
  <2>4. EngineState(c)' /\ CallState(c)'
    BY <1>c, <2>2, <2>3, GotoEffect DEF EngineState, CallState, OptionsSet
  <2> QED  BY <1>a, <2>1, <2>2, <2>4, GotoEffect, OwnProcessOnly
<1>5. CASE SearchFails(c)
  <2>1. task[c].pc \in Searching /\ proc' = proc /\ idle' = idle /\ Goto(c, "quit")
    BY <1>5 DEF SearchFails
  <2>2. EngineState(c)' /\ CallState(c)'
    BY <1>c, <2>1, GotoEffect DEF EngineState, CallState, Searching
  <2>3. IdleProcs' = IdleProcs
    BY <2>1 DEF IdleProcs
  <2>4. IdleIsQuiet'
    BY <2>1, <2>3 DEF IdleIsQuiet, Protocol
  <2> QED  BY <2>1, <2>2, <2>4, GotoEffect, OthersUndisturbed DEF Protocol
<1> QED  BY <1>1, <1>2, <1>3, <1>4, <1>5

\* What Receive takes is the bestmove of the caller's own search.
LEMMA ReceiveProtocol ==
  ASSUME PoolAssumption, Protocol, Hands, Types, NEW c \in Callers, Receive(c)
  PROVE  Protocol'
<1> DEFINE e == task[c].proc
           m == BestMove(task[c].pos, proc[e].multi)
<1>1. task[c].pc = "search" /\ idle' = idle /\ proc[e].out # << >>
  BY DEF Receive
<1>2. c \in Owners
  BY <1>1 DEF Owners, Owning, Searching
<1>3. e \in Procs /\ proc[e] \in ProcStates
  BY <1>2 DEF Hands, OwnersHaveProcs, Types
<1>4. EngineState(c) /\ CallState(c)
  BY DEF Protocol
<1>5. proc[e].out = <<m>> /\ proc[e].search = None /\ OptionsSet(c)
  BY <1>1, <1>4 DEF EngineState
<1>6. Head(<<m>>) = m /\ Tail(<<m>>) = << >>
  OBVIOUS
<1>7. m.kind = "bestmove" /\ m.pos = task[c].pos /\ m.lines = proc[e].multi
  BY DEF BestMove
<1>8. Fold(m.lines, task[c].want) = 1 .. task[c].want
  <2>1. proc[e].multi \in Nat \ {0} /\ task[c].want \in Nat \ {0}
    BY <1>3, PoolAssumption DEF Types, TaskStates, ProcStates
  <2> QED  BY <1>5, <1>7, <2>1, FoldKeepsAsked DEF OptionsSet
<1>9. PICK s : proc' = [proc EXCEPT ![e] = s] /\ s = [proc[e] EXCEPT !.out = << >>]
  <2>1. proc' = [proc EXCEPT ![e] = [proc[e] EXCEPT !.out = Tail(proc[e].out)]]
    BY DEF Receive
  <2>2. Tail(proc[e].out) = << >>
    BY <1>5, <1>6
  <2> QED  BY <2>1, <2>2
<1>10. proc'[e] = s /\ s.search = None /\ s.out = << >>
  BY <1>3, <1>5, <1>9 DEF Types, ProcStates
<1>11. PICK r : /\ r = Lines(task[c].pos, 1 .. task[c].want)
                /\ task' = [task EXCEPT ![c].pc = "giveback", ![c].got = r]
  <2>1. Head(proc[e].out) = m
    BY <1>5, <1>6
  <2> QED  BY <1>7, <1>8, <2>1 DEF Receive
<1> HIDE DEF m
<1>12. /\ OthersSame(c) /\ task'[c].pc = "giveback" /\ task'[c].got = r
       /\ task'[c].pos = task[c].pos /\ task'[c].want = task[c].want /\ task'[c].proc = e
  BY <1>11 DEF OthersSame, Types, TaskStates
<1>13. EngineState(c)' /\ CallState(c)'
  BY <1>1, <1>4, <1>10, <1>11, <1>12 DEF EngineState, CallState, Silent
<1> QED  BY <1>1, <1>2, <1>9, <1>12, <1>13, OwnProcessOnly

\* A process that goes back has been read to its bestmove.
LEMMA GiveBackProtocol ==
  ASSUME PoolAssumption, Protocol, Hands, Types, NEW c \in Callers, GiveBack(c)
  PROVE  Protocol'
<1> DEFINE e == task[c].proc
<1>1. /\ task[c].pc = "giveback" /\ proc' = proc /\ idle' = Append(idle, e)
      /\ Return(c, task[c].got)
  BY DEF GiveBack
<1>2. EngineState(c) /\ CallState(c) /\ Silent(e)
  BY <1>1 DEF Protocol, EngineState
<1>3. e \in Procs
  BY <1>1 DEF Hands, OwnersHaveProcs, Owners, Owning
<1>4. IdleProcs' \subseteq IdleProcs \cup {e}
  <2>1. idle \in Seq(Procs)
    BY DEF Types
  <2> HIDE DEF e
  <2>2. \A i \in DOMAIN idle' : \/ i \in DOMAIN idle /\ idle'[i] = idle[i]
                                \/ idle'[i] = e
    BY <1>1, <1>3, <2>1
  <2> QED  BY <2>2 DEF IdleProcs
<1>5. /\ OthersSame(c) /\ task'[c].pc = "done" /\ task'[c].got = task[c].got
      /\ task'[c].pos = task[c].pos /\ task'[c].want = task[c].want
  BY <1>1, ReturnEffect
<1>6. EngineState(c)' /\ CallState(c)'
  BY <1>1, <1>2, <1>5 DEF EngineState, CallState
<1> QED  BY <1>1, <1>2, <1>4, <1>5, <1>6, NoProcess

\* A process taken from the pool is quiet.
LEMMA TakeIdleProtocol ==
  ASSUME PoolAssumption, Protocol, Hands, Types, NEW c \in Callers, TakeIdle(c)
  PROVE  Protocol'
<1> DEFINE e == idle[Len(idle)]
<1>1. /\ task[c].pc = "checkout" /\ idle # << >> /\ proc' = proc
      /\ idle' = SubSeq(idle, 1, Len(idle) - 1)
      /\ task' = [task EXCEPT ![c].pc = FirstStep(c), ![c].proc = e]
  BY DEF TakeIdle
<1>2. idle \in Seq(Procs) /\ Len(idle) \in DOMAIN idle
  BY <1>1 DEF Types
<1>3. e \in IdleProcs /\ Silent(e)
  BY <1>2 DEF IdleProcs, Protocol, IdleIsQuiet, Silent
<1> HIDE DEF e
<1>4. IdleProcs' \subseteq IdleProcs
  <2>1. \A i \in 1 .. Len(idle) : idle[i] \in Procs
    BY <1>2
  <2>2. \A i \in DOMAIN idle' : i \in DOMAIN idle /\ idle'[i] = idle[i]
    BY <1>1, <1>2, <2>1, SubSeqProperties
  <2> QED  BY <2>2 DEF IdleProcs
<1>5. /\ OthersSame(c) /\ task'[c].pc = FirstStep(c) /\ task'[c].proc = e
      /\ task'[c].pos = task[c].pos /\ task'[c].want = task[c].want
      /\ task'[c].got = task[c].got
  BY <1>1 DEF OthersSame, Types, TaskStates
<1>6. EngineState(c) /\ CallState(c)
  BY DEF Protocol
<1>7. EngineState(c)' /\ CallState(c)'
  <2>1. task[c].pc = "checkout"
    BY <1>1
  <2>2. CallState(c)'
    BY <1>5, <1>6, <2>1 DEF CallState, FirstStep
  <2>3. proc'[e].search = None /\ proc'[e].out = << >>
    BY <1>1, <1>3 DEF Silent
  <2>4. \/ task'[c].pc = "options"
        \/ task'[c].pc = "go" /\ ~(task'[c].want > 1)
    BY <1>5 DEF FirstStep
  <2>5. EngineState(c)'
    BY <1>5, <2>3, <2>4 DEF EngineState, OptionsSet, Silent
  <2> QED  BY <2>2, <2>5
<1>8. task[c].proc \in IdleProcs' => Silent(task[c].proc)
  BY <1>4 DEF Protocol, IdleIsQuiet, Silent
<1> QED  BY <1>1, <1>4, <1>5, <1>7, <1>8, NoProcess

\* A process that is spawned belonged to nobody.
LEMMA StartSpawnProtocol ==
  ASSUME PoolAssumption, Protocol, Hands, Types, NEW c \in Callers, NEW e \in Procs,
         StartSpawn(c, e)
  PROVE  Protocol'
<1>1. /\ task[c].pc = "checkout" /\ idle = << >> /\ idle' = idle /\ Unused(e)
      /\ proc' = [proc EXCEPT ![e] = Fresh]
      /\ task' = [task EXCEPT ![c].pc = "spawn", ![c].proc = e]
  BY DEF StartSpawn
<1>2. /\ OthersSame(c) /\ task'[c].pc = "spawn" /\ task'[c].proc = e
      /\ task'[c].pos = task[c].pos /\ task'[c].want = task[c].want
      /\ task'[c].got = task[c].got
  BY <1>1 DEF OthersSame, Types, TaskStates
<1>3. proc'[e] = Fresh /\ \A d \in Owners : proc'[task[d].proc] = proc[task[d].proc]
  BY <1>1 DEF Unused, Types
<1>4. Fresh.search = None /\ Fresh.out = << >>
  BY DEF Fresh, Dead
<1>5. CallState(c)
  BY DEF Protocol
<1>6. EngineState(c)' /\ CallState(c)'
  BY <1>1, <1>2, <1>3, <1>4, <1>5 DEF EngineState, CallState, Silent
<1>7. IdleIsQuiet'
  <2>1. IdleProcs' = {}
    BY <1>1 DEF IdleProcs
  <2> QED  BY <2>1 DEF IdleIsQuiet
<1> QED  BY <1>2, <1>3, <1>6, <1>7, OthersUndisturbed DEF Protocol

\* A dropped call takes its process with it.
LEMMA DropProtocol ==
  ASSUME PoolAssumption, Protocol, Hands, Types, NEW c \in Callers, DropFuture(c),
         OthersSame(c), task'[c].pc \in {"idle", "done"}, CallState(c)'
  PROVE  Protocol'
<1>1. EngineState(c)' /\ idle' = idle
  BY DEF EngineState, DropFuture
<1>2. CASE task[c].pc \in Owning
  <2>1. c \in Owners /\ proc' = [proc EXCEPT ![task[c].proc] = Dead]
    BY <1>2 DEF DropFuture, Owners
  <2> QED  BY <1>1, <2>1, OwnProcessOnly
<1>3. CASE task[c].pc \notin Owning
  <2>1. proc' = proc /\ IdleProcs' = IdleProcs
    BY <1>1, <1>3 DEF DropFuture, IdleProcs
  <2>2. IdleIsQuiet'
    BY <2>1 DEF IdleIsQuiet, Protocol
  <2> QED  BY <1>1, <2>1, <2>2, OthersUndisturbed DEF Protocol
<1> QED  BY <1>2, <1>3

\* What an engine does by itself, it does to the caller that searches with it.
LEMMA EngineProtocol ==
  ASSUME PoolAssumption, Protocol, Hands, Types, NEW e \in Procs, Finish(e) \/ Exit(e)
  PROVE  Protocol'
<1>1. task' = task /\ idle' = idle /\ IdleProcs' = IdleProcs
  BY DEF Finish, Exit, IdleProcs
<1>2. \A b \in Procs \ {e} : proc'[b] = proc[b]
  BY DEF Finish, Exit, Types
<1>3. /\ proc'[e].search = None /\ proc'[e].multi = proc[e].multi
      /\ \/ proc'[e].out = proc[e].out
         \/ /\ proc[e].search # None
            /\ proc'[e].out = Append(proc[e].out, BestMove(proc[e].search, proc[e].multi))
  <2>0. proc[e] \in ProcStates
    BY DEF Types
  <2>1. CASE Finish(e)
    <3> DEFINE m == Append(proc[e].out, BestMove(proc[e].search, proc[e].multi))
    <3>1. proc' = [proc EXCEPT ![e] = [proc[e] EXCEPT !.search = None, !.out = m]]
          /\ proc[e].search # None
      BY <2>1 DEF Finish
    <3> HIDE DEF m
    <3>2. proc'[e] = [proc[e] EXCEPT !.search = None, !.out = m]
      BY <3>1 DEF Types
    <3>3. proc'[e].search = None /\ proc'[e].multi = proc[e].multi /\ proc'[e].out = m
      BY <2>0, <3>2 DEF ProcStates
    <3> QED  BY <3>1, <3>3 DEF m
  <2>2. CASE Exit(e)
    BY <2>0, <2>2 DEF Exit, Types, ProcStates
  <2> QED  BY <2>1, <2>2
<1>4. IdleIsQuiet'
  <2>1. \A b \in IdleProcs : b \in Procs
    BY DEF IdleProcs, Types
  <2> QED  BY <1>1, <1>2, <1>3, <2>1 DEF IdleIsQuiet, Protocol
<1>5. ASSUME NEW c \in Callers PROVE EngineState(c)' /\ CallState(c)'
  <2>1. EngineState(c) /\ CallState(c)
    BY DEF Protocol
  <2>2. CallState(c)'
    BY <1>1, <2>1 DEF CallState
  <2>3. CASE task[c].pc \notin Owning
    BY <1>1, <2>2, <2>3 DEF EngineState, Owning, Searching
  <2>4. CASE task[c].pc \in Owning /\ task[c].proc # e
    <3>1. task[c].proc \in Procs
      BY <2>4 DEF Hands, OwnersHaveProcs, Owners
    <3> QED  BY <1>1, <1>2, <2>1, <2>2, <2>4, <3>1 DEF EngineState, Silent, OptionsSet
  <2>5. CASE task[c].pc \in Owning /\ task[c].proc = e
    <3> DEFINE m == BestMove(proc[e].search, proc[e].multi)
    <3>1. Append(<< >>, m) = <<m>>
      OBVIOUS
    <3>2. CASE task[c].pc = "search"
      <4>1. OptionsSet(c)'
        BY <1>1, <1>3, <2>1, <2>5, <3>2 DEF EngineState, OptionsSet
      <4>2. proc'[e].out \in {<< >>, <<BestMove(task[c].pos, proc[e].multi)>>}
        BY <1>3, <2>1, <2>5, <3>1, <3>2 DEF EngineState
      <4> QED  BY <1>1, <1>3, <2>2, <2>5, <3>2, <4>1, <4>2 DEF EngineState
    <3>3. CASE task[c].pc # "search"
      BY <1>1, <1>3, <2>1, <2>2, <2>5, <3>3 DEF EngineState, Silent, OptionsSet
    <3> QED  BY <3>2, <3>3
  <2> QED  BY <2>3, <2>4, <2>5
<1> QED  BY <1>4, <1>5 DEF Protocol

LEMMA StepProtocol ==
  ASSUME PoolAssumption, Protocol, Places, Types, [Next]_vars
  PROVE  Protocol'
<1>h. Hands /\ QueueOK
  BY DEF Places
<1>1. CASE UNCHANGED vars
  BY <1>1 DEF vars, Protocol, IdleIsQuiet, IdleProcs, EngineState, CallState, Silent,
              OptionsSet
<1>2. ASSUME NEW c \in Callers, StartJob(c) \/ BudgetEnds(c) \/ FinishJob(c)
      PROVE  Protocol'
  <2>1. proc' = proc /\ idle' = idle /\ task' = task
    BY <1>2 DEF StartJob, BudgetEnds, FinishJob
  <2> QED
    BY <2>1 DEF Protocol, IdleIsQuiet, IdleProcs, EngineState, CallState, Silent, OptionsSet
<1>3. ASSUME NEW c \in Callers,
             Ask(c) \/ TakeAnswer(c) \/ Enqueue(c) \/ Acquire(c)
      PROVE  Protocol'
  <2>1. proc' = proc /\ idle' = idle
    BY <1>3 DEF Ask, Call, TakeAnswer, Enqueue, Acquire
  <2>2. EngineState(c) /\ CallState(c)
    BY DEF Protocol
  <2>3. OthersSame(c) /\ EngineState(c)' /\ CallState(c)'
    <3>1. CASE Ask(c)
      <4>1. PICK p \in Positions, n \in MultiPVs : Call(c, p, n)
        BY <3>1 DEF Ask
      <4>2. OthersSame(c) /\ task'[c] = [NoTask EXCEPT !.pc = "called", !.pos = p, !.want = n]
        BY <4>1 DEF Call, OthersSame, Types
      <4>3. task'[c].pc = "called" /\ task'[c].pos = p /\ task'[c].got = NoAnswer
        BY <4>2 DEF NoTask
      <4> QED  BY <4>2, <4>3 DEF EngineState, CallState
    <3>2. CASE TakeAnswer(c)
      <4>1. OthersSame(c) /\ task'[c].pc = "idle" /\ task'[c].got = NoAnswer
        BY <3>2 DEF TakeAnswer, OthersSame, NoTask, Types
      <4> QED  BY <4>1 DEF EngineState, CallState
    <3>3. CASE Enqueue(c)
      <4>1. Goto(c, "queue") /\ task[c].pc = "called"
        BY <3>3 DEF Enqueue
      <4> QED  BY <2>2, <4>1, GotoEffect DEF EngineState, CallState
    <3>4. CASE Acquire(c)
      <4>1. Goto(c, "checkout") /\ c = Head(waiting) /\ waiting # << >>
        BY <3>4 DEF Acquire
      <4>2. task[c].pc = "queue"
        BY <1>h, <4>1 DEF QueueOK, Types
      <4> QED  BY <2>2, <4>1, <4>2, GotoEffect DEF EngineState, CallState
    <3> QED  BY <1>3, <3>1, <3>2, <3>3, <3>4
  <2>4. IdleIsQuiet'
    BY <2>1 DEF IdleIsQuiet, IdleProcs, Protocol
  <2> QED  BY <2>1, <2>3, <2>4, OthersUndisturbed DEF Protocol
<1>4. ASSUME NEW c \in Callers, Quit(c) \/ SpawnFails(c) PROVE Protocol'
  <2>1. /\ c \in Owners /\ Return(c, Failed) /\ idle' = idle
        /\ proc' = [proc EXCEPT ![task[c].proc] = Dead]
        /\ task[c].pc \in {"quit", "spawn"}
    BY <1>4 DEF Quit, SpawnFails, Owners, Owning
  <2>2. EngineState(c)' /\ CallState(c)'
    BY <2>1, ReturnEffect DEF EngineState, CallState, Protocol
  <2> QED  BY <1>h, <2>1, <2>2, ReturnEffect, OwnProcessOnly
<1>5. ASSUME NEW c \in Callers, CutOff(c) PROVE Protocol'
  <2>1. DropFuture(c) /\ Return(c, Empty) /\ task[c].pc \in InCall
    BY <1>5 DEF CutOff
  <2>2. OthersSame(c) /\ task'[c].pc = "done" /\ CallState(c)'
    BY <2>1, ReturnEffect
       DEF CallState, Protocol, InCall, Permitted, Owning, Searching
  <2> QED  BY <1>h, <2>1, <2>2, DropProtocol
<1>6. ASSUME NEW c \in Callers, Abandon(c) PROVE Protocol'
  <2>1. DropFuture(c) /\ OthersSame(c) /\ task'[c] = NoTask
    BY <1>6 DEF Abandon, OthersSame, Types
  <2>2. task'[c].pc = "idle" /\ CallState(c)'
    BY <2>1 DEF NoTask, CallState
  <2> QED  BY <1>h, <2>1, <2>2, DropProtocol
<1> QED
  BY <1>h, <1>1, <1>2, <1>3, <1>4, <1>5, <1>6, WorkProtocol, ReceiveProtocol, GiveBackProtocol,
     TakeIdleProtocol, StartSpawnProtocol, EngineProtocol
  DEF Next, Work, Fails

(***************************************************************************)
(* The inductive invariant, and what follows from it.                      *)
(***************************************************************************)
IInv == Types /\ Places /\ Protocol

LEMMA InitIInv ==
  ASSUME PoolAssumption, Init
  PROVE  IInv
<1>1. Types
  <2>1. << >> \in Seq(Procs) /\ << >> \in Seq(Callers)
    OBVIOUS
  <2> QED  BY <2>1, RecordTypes, PoolAssumption DEF Init, Types
<1>2. \A c \in Callers : task[c] = NoTask /\ NoTask.pc = "idle" /\ NoTask.got = NoAnswer
  BY DEF Init, NoTask
<1>3. idle = << >> /\ waiting = << >> /\ permits = PoolSize
      /\ DOMAIN idle = {} /\ DOMAIN waiting = {} /\ Len(idle) = 0
  BY DEF Init
<1>4. Owners = {} /\ {c \in Callers : task[c].pc \in Permitted} = {}
  BY <1>2 DEF Owners, Permitted, Owning, Searching
<1>5. PermitsConserved
  <2>1. Cardinality({c \in Callers : task[c].pc \in Permitted}) = 0
    BY <1>4, FS_EmptySet
  <2>2. permits + 0 = PoolSize
    BY <1>3, PoolAssumption
  <2> QED  BY <2>1, <2>2 DEF PermitsConserved
<1>6. Hands
  BY <1>3, <1>4, FS_EmptySet, PoolAssumption
     DEF Hands, OwnersHaveProcs, ProcessesBounded, IdleProcs
<1>7. QueueOK
  BY <1>3 DEF QueueOK
<1>8. Protocol
  BY <1>2, <1>3 DEF Protocol, IdleIsQuiet, IdleProcs, EngineState, CallState
<1> QED  BY <1>1, <1>5, <1>6, <1>7, <1>8 DEF IInv, Places

\* The invariant is inductive.
THEOREM Inductive == Spec => []IInv
<1>1. Init => IInv
  BY InitIInv, PoolAssumption
<1>2. IInv /\ [Next]_vars => IInv'
  <2> SUFFICES ASSUME IInv, [Next]_vars PROVE IInv'
    OBVIOUS
  <2>1. Types /\ Places /\ Protocol /\ OwnersHaveProcs
    BY DEF IInv, Places, Hands
  <2> QED  BY <2>1, StepTypes, StepPlaces, StepProtocol, PoolAssumption DEF IInv
<1> QED  BY <1>1, <1>2, PTL DEF Spec

\* Variables keep their types; permits never exceed the size of the pool.
THEOREM TypeCorrect == Spec => []TypeOK
<1>1. IInv => TypeOK
  <2> SUFFICES ASSUME IInv PROVE TypeOK
    OBVIOUS
  <2> DEFINE H == {c \in Callers : task[c].pc \in Permitted}
  <2>1. IsFiniteSet(H) /\ Cardinality(H) \in Nat
    BY PoolAssumption, FS_Subset, FS_CardinalityType
  <2>2. permits \in 0 .. PoolSize
    <3>1. permits + Cardinality(H) = PoolSize /\ permits \in Nat
      BY DEF IInv, Places, PermitsConserved, Types
    <3> HIDE DEF H
    <3> QED  BY <2>1, <3>1, PoolAssumption
  <2> QED  BY <2>2 DEF IInv, Types, TypeOK
<1> QED  BY <1>1, Inductive, PTL

\* No permit is lost or returned twice: errors, deadlines, budgets and dropped
\* requests give back exactly what the call had taken.
THEOREM PermitsKept == Spec => []PermitsConserved
<1>1. IInv => PermitsConserved
  BY DEF IInv, Places
<1> QED  BY <1>1, Inductive, PTL

\* Idle processes and processes in use never exceed the size of the pool, and
\* no process is in two hands.
THEOREM PoolBounded == Spec => []ProcessesBounded
<1>1. IInv => ProcessesBounded
  BY DEF IInv, Places, Hands
<1> QED  BY <1>1, Inductive, PTL

\* A process in the pool neither searches nor has unread output.
THEOREM QuietPool == Spec => []IdleIsQuiet
<1>1. IInv => IdleIsQuiet
  BY DEF IInv, Protocol
<1> QED  BY <1>1, Inductive, PTL

\* The lines a call returns are those of its own position and number.
THEOREM OwnAnswers == Spec => []AnswerIsOwn
<1>1. IInv => AnswerIsOwn
  <2> SUFFICES ASSUME IInv, NEW c \in Callers, task[c].got.kind = "lines"
               PROVE  task[c].got.pos = task[c].pos /\ task[c].got.lines = 1 .. task[c].want
    BY DEF AnswerIsOwn
  <2>1. CallState(c)
    BY DEF IInv, Protocol
  <2>2. NoAnswer.kind # "lines" /\ Failed.kind # "lines" /\ Empty.kind # "lines"
    BY DEF NoAnswer, Failed, Empty
  <2>3. task[c].got = Lines(task[c].pos, 1 .. task[c].want)
    BY <2>1, <2>2 DEF CallState
  <2> QED  BY <2>3 DEF Lines
<1> QED  BY <1>1, Inductive, PTL

(***************************************************************************)
(* The pool implements AnalysisCalls.                                      *)
(***************************************************************************)
AskedMap == [c \in Callers |-> Asked(c)]
AnswerMap == [c \in Callers |-> Answered(c)]

\* The step of one call changes what that caller sees.
LEMMA OneCaller ==
  ASSUME NEW c \in Callers, OthersSame(c)
  PROVE  /\ AskedMap' = [AskedMap EXCEPT ![c] = Asked(c)']
         /\ AnswerMap' = [AnswerMap EXCEPT ![c] = Answered(c)']
         /\ AskedMap[c] = Asked(c) /\ AnswerMap[c] = Answered(c)
BY DEF AskedMap, AnswerMap, Asked, Answered, OthersSame

\* A caller that is in a call, or has its answer, has asked something.
LEMMA AskedSomething ==
  ASSUME PoolAssumption, Types, Protocol, NEW c \in Callers, task[c].pc # "idle"
  PROVE  Asked(c) # None /\ Asked(c) = [pos |-> task[c].pos, want |-> task[c].want]
<1>1. task[c].pos \in Positions /\ task[c].want \in MultiPVs
  BY DEF Protocol, CallState, Types, TaskStates
<1> QED  BY <1>1, PoolAssumption DEF Asked

\* Inside a call nothing can be seen of it.
LEMMA SilentStep ==
  ASSUME Types, NEW c \in Callers, OthersSame(c), job' = job,
         task[c].pc \in InCall, task'[c].pc \in InCall,
         task'[c].pos = task[c].pos, task'[c].want = task[c].want
  PROVE  UNCHANGED <<AskedMap, AnswerMap, job>>
<1>1. Asked(c)' = Asked(c) /\ Answered(c)' = Answered(c)
  BY DEF Asked, Answered, InCall, Permitted, Owning, Searching
<1> QED  BY <1>1, OneCaller DEF AskedMap, AnswerMap

LEMMA WorkIsSilent ==
  ASSUME Types, Protocol, Hands, QueueOK, NEW c \in Callers,
         Acquire(c) \/ (Work(c) /\ ~GiveBack(c) /\ ~Quit(c)) \/ SearchFails(c)
  PROVE  UNCHANGED <<AskedMap, AnswerMap, job>>
<1>1. CASE TakeIdle(c)
  <2>1. PICK e : task' = [task EXCEPT ![c].pc = FirstStep(c), ![c].proc = e]
    BY <1>1 DEF TakeIdle
  <2>2. /\ OthersSame(c) /\ task'[c].pc = FirstStep(c)
        /\ task'[c].pos = task[c].pos /\ task'[c].want = task[c].want
    BY <2>1 DEF OthersSame, Types, TaskStates
  <2>3. FirstStep(c) \in InCall /\ task[c].pc \in InCall /\ job' = job
    BY <1>1 DEF FirstStep, TakeIdle, InCall, Permitted, Owning, Searching
  <2> QED  BY <2>2, <2>3, SilentStep
<1>2. CASE \E e \in Procs : StartSpawn(c, e)
  <2>1. PICK e \in Procs : StartSpawn(c, e)
    BY <1>2
  <2>2. /\ OthersSame(c) /\ task'[c].pc = "spawn"
        /\ task'[c].pos = task[c].pos /\ task'[c].want = task[c].want
    BY <2>1 DEF StartSpawn, OthersSame, Types, TaskStates
  <2>3. task[c].pc \in InCall /\ "spawn" \in InCall /\ job' = job
    BY <2>1 DEF StartSpawn, InCall, Permitted, Owning
  <2> QED  BY <2>2, <2>3, SilentStep
<1>3. CASE Receive(c)
  <2>1. PICK r : \/ task' = [task EXCEPT ![c].pc = "giveback", ![c].got = r]
                 \/ task' = task
    BY <1>3 DEF Receive
  <2>2. task[c].pc = "search" /\ job' = job
    BY <1>3 DEF Receive
  <2>3. /\ OthersSame(c) /\ task'[c].pc \in {"search", "giveback"}
        /\ task'[c].pos = task[c].pos /\ task'[c].want = task[c].want
    BY <2>1, <2>2 DEF OthersSame, Types, TaskStates
  <2> QED  BY <2>2, <2>3, SilentStep DEF InCall, Permitted, Owning, Searching
<1>4. CASE Acquire(c)
  <2>1. Goto(c, "checkout") /\ c = Head(waiting) /\ waiting # << >> /\ job' = job
    BY <1>4 DEF Acquire
  <2>2. task[c].pc = "queue"
    BY <2>1 DEF QueueOK, Types
  <2> QED  BY <2>1, <2>2, GotoEffect, SilentStep DEF InCall, Permitted
<1>5. CASE \/ Enqueue(c) \/ Handshake(c) \/ SetOptions(c) \/ AwaitReady(c) \/ Go(c)
           \/ SearchFails(c)
  <2>1. FirstStep(c) \in InCall
    BY DEF FirstStep, InCall, Permitted, Owning, Searching
  <2>2. \E pc \in InCall : Goto(c, pc)
    BY <1>5, <2>1 DEF Enqueue, Handshake, SetOptions, AwaitReady, Go, SearchFails,
                     InCall, Permitted, Owning, Searching
  <2>3. task[c].pc \in InCall /\ job' = job
    BY <1>5 DEF Enqueue, Handshake, SetOptions, AwaitReady, Go, SearchFails,
                InCall, Permitted, Owning, Searching
  <2> QED  BY <2>2, <2>3, GotoEffect, SilentStep
<1> QED  BY <1>1, <1>2, <1>3, <1>4, <1>5 DEF Work

\* The steps that a caller sees.
LEMMA SeenStep ==
  ASSUME PoolAssumption, IInv, NEW c \in Callers,
         \/ Ask(c) \/ TakeAnswer(c) \/ GiveBack(c) \/ Quit(c) \/ SpawnFails(c) \/ CutOff(c)
         \/ Abandon(c) \/ StartJob(c) \/ BudgetEnds(c) \/ FinishJob(c)
  PROVE  Calls!CallsNext
<1> USE DEF Calls!CallsNext
<1>a. Types /\ Protocol /\ CallState(c)
  BY DEF IInv, Protocol
<1>b. Calls!Pending = NoAnswer /\ Calls!Failed = Failed /\ Calls!Empty = Empty
      /\ Calls!NoJob = NoJob
  BY DEF Calls!Pending, NoAnswer, Calls!Failed, Failed, Calls!Empty, Empty,
         Calls!NoJob, NoJob
<1>1. CASE Ask(c)
  <2>1. PICK p \in Positions, n \in MultiPVs : Call(c, p, n)
    BY <1>1 DEF Ask
  <2>2. /\ OthersSame(c) /\ job' = job /\ task[c].pc = "idle"
        /\ task'[c] = [NoTask EXCEPT !.pc = "called", !.pos = p, !.want = n]
    BY <1>a, <2>1 DEF Call, OthersSame, Types
  <2>3. Asked(c) = None /\ Asked(c)' = [pos |-> p, want |-> n]
        /\ Answered(c) = NoAnswer /\ Answered(c)' = NoAnswer
    BY <2>2 DEF Asked, Answered, NoTask
  <2>4. [pos |-> p, want |-> n] \in Calls!Asks
    BY DEF Calls!Asks
  <2>5. AskedMap[c] = None /\ AskedMap' = [AskedMap EXCEPT ![c] = [pos |-> p, want |-> n]]
        /\ AnswerMap' = AnswerMap
    <3>1. AskedMap[c] = None /\ AskedMap' = [AskedMap EXCEPT ![c] = [pos |-> p, want |-> n]]
      BY <2>2, <2>3, OneCaller
    <3>2. AnswerMap[c] = NoAnswer /\ AnswerMap' = [AnswerMap EXCEPT ![c] = NoAnswer]
      BY <2>2, <2>3, OneCaller
    <3>3. AnswerMap' = AnswerMap
      BY <3>2 DEF AnswerMap
    <3> QED  BY <3>1, <3>3
  <2>6. Calls!Ask(c)
    BY <2>2, <2>4, <2>5 DEF Calls!Ask, AskedMap, AnswerMap
  <2> QED  BY <2>6
<1>2. CASE TakeAnswer(c)
  <2>1. /\ OthersSame(c) /\ job' = job /\ task[c].pc = "done" /\ task'[c].pc = "idle"
    BY <1>2, <1>a DEF TakeAnswer, OthersSame, Types, NoTask
  <2>2. Asked(c)' = None /\ Answered(c)' = NoAnswer /\ Answered(c) # NoAnswer
    BY <1>a, <2>1 DEF Asked, Answered, CallState, NoAnswer, Failed, Empty, Lines
  <2>3. /\ AnswerMap[c] # NoAnswer /\ AnswerMap' = [AnswerMap EXCEPT ![c] = NoAnswer]
        /\ AskedMap' = [AskedMap EXCEPT ![c] = None]
    BY <2>1, <2>2, OneCaller
  <2>4. Calls!Take(c)
    BY <1>b, <2>1, <2>3 DEF Calls!Take, AskedMap, AnswerMap
  <2> QED  BY <2>4
<1>3. ASSUME NEW r, Return(c, r), task[c].pc \in InCall
      PROVE  /\ AskedMap[c] # None /\ AnswerMap[c] = NoAnswer
             /\ AskedMap[c] = [pos |-> task[c].pos, want |-> task[c].want]
             /\ AskedMap' = AskedMap /\ AnswerMap' = [AnswerMap EXCEPT ![c] = r]
  <2>1. /\ OthersSame(c) /\ task'[c].pc = "done" /\ task'[c].got = r
        /\ task'[c].pos = task[c].pos /\ task'[c].want = task[c].want
    BY <1>a, <1>3, ReturnEffect
  <2>2. task[c].pc # "idle" /\ task[c].pc # "done"
    BY <1>3 DEF InCall, Permitted, Owning, Searching
  <2>3. Asked(c)' = Asked(c) /\ Answered(c) = NoAnswer /\ Answered(c)' = r
    BY <2>1, <2>2 DEF Asked, Answered
  <2> QED  BY <1>a, <2>1, <2>2, <2>3, OneCaller, AskedSomething DEF AskedMap
<1>4. CASE GiveBack(c)
  <2>1. Return(c, task[c].got) /\ task[c].pc = "giveback" /\ job' = job
    BY <1>4 DEF GiveBack
  <2>2. task[c].pc \in InCall
    BY <2>1 DEF InCall, Permitted, Owning
  <2>3. task[c].got = Calls!LinesOf([pos |-> task[c].pos, want |-> task[c].want])
    BY <1>a, <2>1 DEF CallState, Calls!LinesOf, Lines
  <2>4. Calls!Answer(c)
    BY <1>b, <1>3, <2>1, <2>2, <2>3 DEF Calls!Answer, AskedMap, AnswerMap
  <2> QED  BY <2>4
<1>5. CASE Quit(c) \/ SpawnFails(c)
  <2>1. Return(c, Failed) /\ task[c].pc \in InCall /\ job' = job
    BY <1>5 DEF Quit, SpawnFails, InCall, Permitted, Owning
  <2>2. Calls!Answer(c)
    BY <1>b, <1>3, <2>1 DEF Calls!Answer, AskedMap, AnswerMap
  <2> QED  BY <2>2
<1>6. CASE CutOff(c)
  <2>1. /\ Return(c, Empty) /\ task[c].pc \in InCall /\ job[c].budget = "spent"
        /\ job' = [job EXCEPT ![c].truncated = TRUE]
    BY <1>6 DEF CutOff
  <2>2. Calls!CutShort(c)
    BY <1>b, <1>3, <2>1 DEF Calls!CutShort, AskedMap, AnswerMap
  <2> QED  BY <2>2
<1>7. CASE Abandon(c)
  <2>1. /\ OthersSame(c) /\ task'[c].pc = "idle" /\ job' = [job EXCEPT ![c] = NoJob]
    BY <1>7, <1>a DEF Abandon, OthersSame, Types, NoTask
  <2>2. Asked(c)' = None /\ Answered(c)' = NoAnswer
    BY <2>1 DEF Asked, Answered
  <2>3. Calls!EndTask(c)
    BY <1>b, <2>1, <2>2, OneCaller DEF Calls!EndTask, AskedMap, AnswerMap
  <2> QED  BY <2>3
<1>8. CASE StartJob(c) \/ BudgetEnds(c) \/ FinishJob(c)
  <2>1. AskedMap' = AskedMap /\ AnswerMap' = AnswerMap
    BY <1>8 DEF StartJob, BudgetEnds, FinishJob, AskedMap, AnswerMap, Asked, Answered
  <2>2. CASE StartJob(c)
    <3>1. Calls!BeginJob(c)
      BY <1>b, <2>1, <2>2 DEF StartJob, Calls!BeginJob, AskedMap, AnswerMap, Asked
    <3> QED  BY <3>1
  <2>3. CASE BudgetEnds(c)
    <3>1. Calls!SpendBudget(c)
      BY <2>1, <2>3 DEF BudgetEnds, Calls!SpendBudget, AskedMap, AnswerMap
    <3> QED  BY <3>1
  <2>4. CASE FinishJob(c)
    <3>1. task[c].pc = "idle" /\ job' = [job EXCEPT ![c] = NoJob]
      BY <2>4 DEF FinishJob
    <3>2. AskedMap' = [AskedMap EXCEPT ![c] = None]
          /\ AnswerMap' = [AnswerMap EXCEPT ![c] = NoAnswer]
      BY <2>1, <3>1 DEF AskedMap, AnswerMap, Asked, Answered
    <3>3. Calls!EndTask(c)
      BY <1>b, <3>1, <3>2 DEF Calls!EndTask, AskedMap, AnswerMap
    <3> QED  BY <3>3
  <2> QED  BY <1>8, <2>2, <2>3, <2>4
<1> QED  BY <1>1, <1>2, <1>4, <1>5, <1>6, <1>7, <1>8

LEMMA CallsStep ==
  ASSUME PoolAssumption, IInv, [Next]_vars
  PROVE  Calls!CallsNext \/ UNCHANGED <<AskedMap, AnswerMap, job>>
<1>1. CASE UNCHANGED vars
  BY <1>1 DEF vars, AskedMap, AnswerMap, Asked, Answered
<1>2. ASSUME NEW e \in Procs, Finish(e) \/ Exit(e)
      PROVE  UNCHANGED <<AskedMap, AnswerMap, job>>
  BY <1>2 DEF Finish, Exit, AskedMap, AnswerMap, Asked, Answered
<1>3. Types /\ Protocol /\ Hands /\ QueueOK
  BY DEF IInv, Places
<1> QED  BY <1>1, <1>2, <1>3, SeenStep, WorkIsSilent DEF Next, Work, Fails

\* Pool, permits, processes, deadlines and budgets together give callers what
\* the abstract service promises: one answer to each call, of its own search,
\* and an empty one only to a job that is told so.
THEOREM RefinesCalls == Spec => ImplementsCalls
<1>1. Init => Calls!CallsInit
  BY DEF Init, Calls!CallsInit, Asked, Answered, NoTask, Calls!Pending, NoAnswer,
         Calls!NoJob, NoJob
<1>2. IInv /\ [Next]_vars => [Calls!CallsNext]_(Calls!callVars)
  BY CallsStep, PoolAssumption DEF Calls!callVars, AskedMap, AnswerMap
<1> QED  BY <1>1, <1>2, Inductive, PTL DEF Spec, ImplementsCalls, Calls!CallsSpec

-----------------------------------------------------------------------------
(***************************************************************************)
(* Engines, for every set of editors and servers and every catalog.  The   *)
(* invariant has two halves: what requests on the registry hold in their   *)
(* hands between two statements, and what servers that start have done of  *)
(* the plan.  engineRace names the overlaps; each part holds without its   *)
(* own.                                                                    *)
(***************************************************************************)
EngineRequesters == EngineEditors \cup Servers
FileStates == {"absent", "half", "whole"}
ServerRec  == [pc : {"down", "seed", "asset", "fetched", "writing", "rename", "up"},
               todo : Seq(EngineFiles)]

RegistryTypeOK ==
  /\ engines \subseteq EditedNames
  /\ engineReq \in [EngineRequesters -> EngineRequests \cup {NoEngine}]
InstallTypeOK ==
  /\ server \in [Servers -> ServerRec]
  /\ disk \in [EngineFiles -> FileStates]
  /\ partial \in [EngineFiles -> FileStates]

\* The list as a request's edit makes it of a list.
EditOf(r, list) == IF r.op = "remove" THEN WithoutEngine(list, r.name) ELSE WithEngine(list, r.name)

\* A request about to save holds the list that is there, with its edit made.
ListsCurrent ==
  "list" \notin engineRace =>
    /\ engines = asEdited
    /\ \A c \in EngineRequesters : EditingEngines(c) /\ engineReq[c].pc = "save" =>
         engineReq[c].list = EditOf(engineReq[c], engines)

\* A request past its save knows whether its engine is in the list, and one
\* about to point the selector at its engine knows that it is.
NameKnown(r) ==
  /\ r.pc = "check" => (r.name \in engines <=> r.op # "remove")
  /\ r.pc = "point" => r.name \in engines

\* A removal about to find that the selector names what it took out, or to clear it.
ClearsDefault(r) == r.pc \in {"check", "clear"} /\ r.op = "remove" /\ r.name = defaultEngine

SelectorSound ==
  engineRace \cap {"default", "list", "cut"} = {} =>
    /\ \A c \in EngineRequesters : EditingEngines(c) => NameKnown(engineReq[c])
    /\ \/ defaultEngine \in engines \cup {NoEngine}
       \/ \E c \in EngineRequesters : EditingEngines(c) /\ ClearsDefault(engineReq[c])

\* A server only adds --engine: its death leaves no removal half done.
ServersUpsert == \A p \in Servers : EditingEngines(p) => engineReq[p].op = "upsert"

Held(p) == server[p].pc \in {"fetched", "writing", "rename"}
HandsFull == \A p \in Servers : Held(p) => server[p].todo # <<>>

\* Who writes a file writes it alone, and nothing half written has its final name.
Writing(p) == server[p].pc \in {"writing", "rename"}
FilesSound ==
  "file" \notin engineRace =>
    /\ \A f \in EngineFiles : disk[f] # "half"
    /\ \A p \in Servers :
         /\ server[p].pc = "writing" => partial[Installing(p)] = "half"
         /\ server[p].pc = "rename" => partial[Installing(p)] = "whole"
    /\ \A p, q \in Servers : Writing(p) /\ Writing(q) /\ p # q => Installing(p) # Installing(q)

\* Each file of the plan is in place or still to do.
ToDo(p, f) == \E i \in DOMAIN server[p].todo : server[p].todo[i] = f
PlanProgress ==
  "file" \notin engineRace /\ ~Bundled =>
    \A p \in Servers : server[p].pc = "asset" \/ Held(p) =>
      \A f \in ToSet(CatalogPlan) : disk[f] = "whole" \/ ToDo(p, f)

RegistryIInv == RegistryTypeOK /\ ListsCurrent /\ SelectorSound /\ ServersUpsert
InstallIInv  == InstallTypeOK /\ HandsFull /\ FilesSound /\ PlanProgress /\ DownloadedIsInstalled
EnginesIInv  == RegistryIInv /\ InstallIInv

(***************************************************************************)
(* The registry: one request's record changes, and the list or the         *)
(* selector with it.                                                       *)
(***************************************************************************)
Others(c) == {d \in EngineRequesters \ {c} : EditingEngines(d)}

LEMMA RegistryStep ==
  ASSUME RegistryIInv, NEW c \in EngineRequesters, NEW r \in EngineRequests \cup {NoEngine},
         engineReq' = [engineReq EXCEPT ![c] = r],
         engineRace \subseteq engineRace', engines' \subseteq EditedNames,
         c \in Servers /\ r # NoEngine => r.op = "upsert",
         "list" \notin engineRace' =>
           /\ engines' = asEdited'
           /\ r # NoEngine /\ r.pc = "save" => r.list = EditOf(r, engines')
           /\ \A d \in Others(c) : engineReq[d].pc = "save" => engines' = engines,
         engineRace' \cap {"default", "list", "cut"} = {} =>
           /\ r # NoEngine => NameKnown(r)'
           /\ \A d \in Others(c) : engineReq[d].pc \in {"check", "point"} =>
                (engineReq[d].name \in engines' <=> engineReq[d].name \in engines)
           /\ \/ defaultEngine' \in engines' \cup {NoEngine}
              \/ r # NoEngine /\ ClearsDefault(r)'
              \/ defaultEngine' = defaultEngine /\ \E d \in Others(c) : ClearsDefault(engineReq[d])
  PROVE  RegistryIInv'
<1>0. /\ engineReq' \in [EngineRequesters -> EngineRequests \cup {NoEngine}]
      /\ engineReq'[c] = r
      /\ \A d \in EngineRequesters \ {c} : engineReq'[d] = engineReq[d]
  BY DEF RegistryIInv, RegistryTypeOK
<1>1. \A d \in EngineRequesters \ {c} : EditingEngines(d)' <=> d \in Others(c)
  BY <1>0 DEF EditingEngines, Others
<1>2. EditingEngines(c)' <=> r # NoEngine  BY <1>0 DEF EditingEngines
<1>3. \A d \in Others(c) : d \in EngineRequesters /\ d # c /\ EditingEngines(d)  BY DEF Others
<1>4. RegistryTypeOK'  BY <1>0 DEF RegistryTypeOK
<1>5. ListsCurrent'
  <2>1. SUFFICES ASSUME "list" \notin engineRace' PROVE ListsCurrent'  BY DEF ListsCurrent
  <2>2. ASSUME NEW d \in Others(c), engineReq[d].pc = "save"
        PROVE  engineReq[d].list = EditOf(engineReq[d], engines')
    BY <2>1, <2>2, <1>3 DEF RegistryIInv, ListsCurrent
  <2> QED  BY <2>1, <2>2, <1>0, <1>1, <1>2 DEF ListsCurrent
<1>6. SelectorSound'
  <2>1. SUFFICES ASSUME engineRace' \cap {"default", "list", "cut"} = {} PROVE SelectorSound'
    BY DEF SelectorSound
  <2>2. engineRace \cap {"default", "list", "cut"} = {}  BY <2>1
  <2>3. ASSUME NEW d \in EngineRequesters, EditingEngines(d)' PROVE NameKnown(engineReq[d])'
    <3>1. CASE d = c  BY <2>1, <2>3, <3>1, <1>0, <1>2 DEF NameKnown
    <3>2. CASE d # c
      <4>1. d \in Others(c) /\ engineReq'[d] = engineReq[d]  BY <2>3, <3>2, <1>0, <1>1
      <4>2. NameKnown(engineReq[d])  BY <4>1, <1>3, <2>2 DEF RegistryIInv, SelectorSound
      <4> QED  BY <2>1, <4>1, <4>2 DEF NameKnown
    <3> QED  BY <3>1, <3>2
  <2>4. ASSUME NEW d \in Others(c), defaultEngine' = defaultEngine, ClearsDefault(engineReq[d])
        PROVE  EditingEngines(d)' /\ ClearsDefault(engineReq[d])'
    BY <2>4, <1>0, <1>1, <1>3 DEF ClearsDefault
  <2>5. ASSUME r # NoEngine, ClearsDefault(r)' PROVE EditingEngines(c)' /\ ClearsDefault(engineReq[c])'
    BY <2>5, <1>0, <1>2 DEF ClearsDefault
  <2> QED  BY <2>1, <2>3, <2>4, <2>5, <1>3 DEF SelectorSound
<1>7. ServersUpsert'  BY <1>0, <1>1, <1>2, <1>3 DEF RegistryIInv, ServersUpsert, EditingEngines, EngineRequesters
<1> QED  BY <1>4, <1>5, <1>6, <1>7 DEF RegistryIInv

\* With no request moving, the registry stays sound whatever a server installs.
LEMMA RegistryStays ==
  ASSUME RegistryIInv, UNCHANGED registryVars,
         \A race \in {"default", "list", "cut"} : race \in engineRace => race \in engineRace'
  PROVE  RegistryIInv'
BY DEF RegistryIInv, registryVars, RegistryTypeOK, ListsCurrent, SelectorSound, ServersUpsert,
       EditingEngines, NameKnown, ClearsDefault

LEMMA EditBegins ==
  ASSUME RegistryIInv, NEW c \in EngineRequesters, NEW name \in EditedNames,
         ~EditingEngines(c) \/ c \in Servers,
         \/ UpsertEngine(c, name)
         \/ c \notin Servers /\ (RemoveEngine(c, name) \/ SetDefaultEngine(c, name))
  PROVE  RegistryIInv'
<1>1. PICK r \in EngineRequests :
        /\ engineReq' = [engineReq EXCEPT ![c] = r]
        /\ c \in Servers => r.op = "upsert"
        /\ r.pc = "save" => r.list = EditOf(r, engines)
        /\ r.pc \in {"save", "point"}
        /\ r.pc = "point" => r.name \in engines
  <2>0. engines \subseteq EditedNames  BY DEF RegistryIInv, RegistryTypeOK
  <2> DEFINE rec(op, pc, list) == [op |-> op, name |-> name, pc |-> pc, list |-> list]
  <2>1. CASE UpsertEngine(c, name)
    <3> rec("upsert", "save", WithEngine(engines, name)) \in EngineRequests  BY <2>0 DEF EngineRequests, WithEngine
    <3> WITNESS rec("upsert", "save", WithEngine(engines, name)) \in EngineRequests
    <3> QED  BY <2>0, <2>1 DEF UpsertEngine, ReadEngines, EngineRequests, EditOf, WithEngine
  <2>2. CASE c \notin Servers /\ RemoveEngine(c, name)
    <3> rec("remove", "save", WithoutEngine(engines, name)) \in EngineRequests  BY <2>0 DEF EngineRequests, WithoutEngine
    <3> WITNESS rec("remove", "save", WithoutEngine(engines, name)) \in EngineRequests
    <3> QED  BY <2>0, <2>2 DEF RemoveEngine, ReadEngines, EngineRequests, EditOf, WithoutEngine
  <2>3. CASE c \notin Servers /\ SetDefaultEngine(c, name)
    <3> rec("set", "point", engines) \in EngineRequests  BY <2>0 DEF EngineRequests
    <3> WITNESS rec("set", "point", engines) \in EngineRequests
    <3> QED  BY <2>0, <2>3 DEF SetDefaultEngine, ReadEngines, EngineRequests
  <2> QED  BY <2>1, <2>2, <2>3
<1>2. UNCHANGED <<engines, defaultEngine, engineRace, asEdited>>
  BY DEF UpsertEngine, RemoveEngine, SetDefaultEngine, ReadEngines
<1>3. engines \subseteq EditedNames /\ ("list" \notin engineRace => engines = asEdited)
  BY DEF RegistryIInv, RegistryTypeOK, ListsCurrent
<1>4. ASSUME engineRace \cap {"default", "list", "cut"} = {}
      PROVE  \/ defaultEngine \in engines \cup {NoEngine}
             \/ \E d \in Others(c) : ClearsDefault(engineReq[d])
  <2>1. ~(EditingEngines(c) /\ ClearsDefault(engineReq[c]))
    BY DEF RegistryIInv, ServersUpsert, ClearsDefault
  <2> QED  BY <1>4, <2>1 DEF RegistryIInv, SelectorSound, Others
<1>5. NameKnown(r)'  BY <1>1, <1>2 DEF NameKnown
<1> QED  BY <1>1, <1>2, <1>3, <1>4, <1>5, RegistryStep

LEMMA SaveStep ==
  ASSUME RegistryIInv, NEW c \in EngineRequesters, SaveEngines(c)
  PROVE  RegistryIInv'
<1> PICK r \in EngineRequests : r = engineReq[c]
  BY DEF RegistryIInv, RegistryTypeOK, SaveEngines, EditingEngines
<1> PICK s : s = [r EXCEPT !.pc = "check"]  OBVIOUS
<1>1. /\ EditingEngines(c) /\ r.pc = "save"
      /\ engines' = r.list /\ asEdited' = EditOf(r, asEdited)
      /\ defaultEngine' = defaultEngine
      /\ engineRace' = engineRace \cup EnginesOvertaken(c)
  BY DEF SaveEngines, EditOf
<1>2. engineReq' = [engineReq EXCEPT ![c] = s]
  BY DEF SaveEngines, RegistryIInv, RegistryTypeOK
<1>3. /\ s \in EngineRequests /\ engines' \subseteq EditedNames
      /\ s.op = r.op /\ s.name = r.name /\ s.pc = "check"
  BY <1>1 DEF EngineRequests
<1>4. c \in Servers => s.op = "upsert"  BY <1>1, <1>3 DEF RegistryIInv, ServersUpsert
<1>5. DOMAIN engineReq = EngineRequesters  BY DEF RegistryIInv, RegistryTypeOK
<1>6. ASSUME "list" \notin engineRace'
      PROVE  /\ engines = asEdited /\ engines' = EditOf(r, engines)
             /\ \A d \in Others(c) : engineReq[d].pc # "save"
  <2>1. "list" \notin engineRace /\ "list" \notin EnginesOvertaken(c)  BY <1>1, <1>6
  <2> QED  BY <2>1, <1>1, <1>5 DEF RegistryIInv, ListsCurrent, EnginesOvertaken, Others
<1>7. ASSUME engineRace' \cap {"default", "list", "cut"} = {}
      PROVE  /\ NameKnown(s)'
             /\ \A d \in Others(c) : engineReq[d].pc \in {"check", "point"} =>
                  (engineReq[d].name \in engines' <=> engineReq[d].name \in engines)
             /\ \/ defaultEngine' \in engines' \cup {NoEngine}
                \/ ClearsDefault(s)'
                \/ defaultEngine' = defaultEngine /\ \E d \in Others(c) : ClearsDefault(engineReq[d])
  <2>1. engineRace \cap {"default", "list", "cut"} = {}  BY <1>1, <1>7
  <2>2. "list" \notin engineRace'  BY <1>7
  <2>3. "default" \notin EnginesOvertaken(c)  BY <1>1, <1>7
  <2>4. engines' = EditOf(r, engines)  BY <1>6, <2>2
  <2>5. \A d \in Others(c) : /\ engineReq[d].pc \notin {"point", "clear"}
                             /\ engineReq[d].pc = "check" => engineReq[d].name # r.name
    BY <2>3, <1>5 DEF EnginesOvertaken, Others
  <2>6. NameKnown(s)'  BY <1>3, <2>4 DEF NameKnown, EditOf, WithEngine, WithoutEngine
  <2>7. \A d \in Others(c) : engineReq[d].pc \in {"check", "point"} =>
          (engineReq[d].name \in engines' <=> engineReq[d].name \in engines)
    BY <2>4, <2>5 DEF EditOf, WithEngine, WithoutEngine
  <2>8. CASE defaultEngine \in engines \cup {NoEngine}
    <3>1. defaultEngine \in engines' \cup {NoEngine} \/ (r.op = "remove" /\ r.name = defaultEngine)
      BY <2>4, <2>8 DEF EditOf, WithEngine, WithoutEngine
    <3> QED  BY <3>1, <2>6, <2>7, <1>1, <1>3 DEF ClearsDefault
  <2>9. CASE defaultEngine \notin engines \cup {NoEngine}
    <3>1. PICK d \in EngineRequesters : EditingEngines(d) /\ ClearsDefault(engineReq[d])
      BY <2>1, <2>9 DEF RegistryIInv, SelectorSound
    <3>2. d \in Others(c)  BY <1>1, <3>1 DEF ClearsDefault, Others
    <3> QED  BY <3>1, <3>2, <2>6, <2>7, <1>1
  <2> QED  BY <2>8, <2>9
<1>8. "list" \notin engineRace' =>
        /\ engines' = asEdited'
        /\ s # NoEngine /\ s.pc = "save" => s.list = EditOf(s, engines')
        /\ \A d \in Others(c) : engineReq[d].pc = "save" => engines' = engines
  BY <1>1, <1>3, <1>6
<1>9. engineRace \subseteq engineRace' /\ s \in EngineRequests \cup {NoEngine} /\ s # NoEngine
  BY <1>1, <1>3, EngineAssumption
<1> QED  BY <1>2, <1>3, <1>4, <1>7, <1>8, <1>9, RegistryStep

LEMMA CheckDefaultStep ==
  ASSUME RegistryIInv, NEW c \in EngineRequesters, CheckDefaultEngine(c)
  PROVE  RegistryIInv'
<1> PICK r \in EngineRequests : r = engineReq[c]
  BY DEF RegistryIInv, RegistryTypeOK, CheckDefaultEngine, EditingEngines
<1> DEFINE hit == IF r.op = "remove" THEN defaultEngine = r.name ELSE defaultEngine = NoEngine
<1> PICK s : s = IF hit THEN [r EXCEPT !.pc = IF r.op = "remove" THEN "clear" ELSE "point"] ELSE NoEngine
  OBVIOUS
<1>1. /\ EditingEngines(c) /\ r.pc = "check"
      /\ engineReq' = [engineReq EXCEPT ![c] = s]
      /\ UNCHANGED <<engines, defaultEngine, engineRace, asEdited>>
  BY DEF CheckDefaultEngine
<1>2. /\ s \in EngineRequests \cup {NoEngine}
      /\ s # NoEngine => /\ hit /\ s.op = r.op /\ s.name = r.name
                         /\ s.pc = IF r.op = "remove" THEN "clear" ELSE "point"
  BY EngineAssumption DEF EngineRequests
<1>3. c \in Servers /\ s # NoEngine => s.op = "upsert"
  BY <1>1, <1>2 DEF RegistryIInv, ServersUpsert
<1>4. engines \subseteq EditedNames /\ ("list" \notin engineRace => engines = asEdited)
  BY DEF RegistryIInv, RegistryTypeOK, ListsCurrent
<1>5. s # NoEngine => s.pc # "save"  BY <1>2
<1>6. ASSUME engineRace \cap {"default", "list", "cut"} = {}
      PROVE  /\ s # NoEngine => NameKnown(s)
             /\ \/ defaultEngine \in engines \cup {NoEngine}
                \/ s # NoEngine /\ ClearsDefault(s)
                \/ \E d \in Others(c) : ClearsDefault(engineReq[d])
  <2>1. NameKnown(r)  BY <1>1, <1>6 DEF RegistryIInv, SelectorSound
  <2>2. s # NoEngine => NameKnown(s)  BY <1>1, <1>2, <2>1 DEF NameKnown
  <2>3. ClearsDefault(r) => s # NoEngine /\ ClearsDefault(s)
    <3>1. ASSUME ClearsDefault(r) PROVE s # NoEngine
      <4>1. hit /\ r.op = "remove"  BY <3>1 DEF ClearsDefault
      <4>2. [r EXCEPT !.pc = "clear"] \in EngineRequests  BY DEF EngineRequests
      <4> QED  BY <4>1, <4>2, EngineAssumption
    <3> QED  BY <3>1, <1>2 DEF ClearsDefault
  <2>4. CASE defaultEngine \in engines \cup {NoEngine}  BY <2>2, <2>4
  <2>5. CASE defaultEngine \notin engines \cup {NoEngine}
    <3>1. PICK d \in EngineRequesters : EditingEngines(d) /\ ClearsDefault(engineReq[d])
      BY <1>6, <2>5 DEF RegistryIInv, SelectorSound
    <3>2. d = c \/ d \in Others(c)  BY <3>1 DEF Others
    <3> QED  BY <3>1, <3>2, <2>2, <2>3
  <2> QED  BY <2>4, <2>5
<1>7. NameKnown(s)' <=> NameKnown(s)  BY <1>1 DEF NameKnown
<1>8. ClearsDefault(s)' <=> ClearsDefault(s)  BY <1>1 DEF ClearsDefault
<1> QED  BY <1>1, <1>2, <1>3, <1>4, <1>5, <1>6, <1>7, <1>8, RegistryStep

LEMMA WriteDefaultStep ==
  ASSUME RegistryIInv, NEW c \in EngineRequesters, WriteDefaultEngine(c)
  PROVE  RegistryIInv'
<1> PICK r \in EngineRequests : r = engineReq[c]
  BY DEF RegistryIInv, RegistryTypeOK, WriteDefaultEngine, EditingEngines
<1>1. /\ EditingEngines(c) /\ r.pc \in {"point", "clear"}
      /\ defaultEngine' = IF r.pc = "point" THEN r.name ELSE NoEngine
      /\ engineReq' = [engineReq EXCEPT ![c] = NoEngine]
      /\ engineRace \subseteq engineRace' /\ UNCHANGED <<engines, asEdited>>
  BY DEF WriteDefaultEngine
<1>2. engines \subseteq EditedNames /\ ("list" \notin engineRace => engines = asEdited)
  BY DEF RegistryIInv, RegistryTypeOK, ListsCurrent
<1>3. ASSUME engineRace' \cap {"default", "list", "cut"} = {}
      PROVE  defaultEngine' \in engines' \cup {NoEngine}
  <2>1. NameKnown(r)  BY <1>1, <1>3 DEF RegistryIInv, SelectorSound
  <2> QED  BY <1>1, <2>1 DEF NameKnown
<1> QED  BY <1>1, <1>2, <1>3, RegistryStep

\* A request that is cut short between its two statements says so.
LEMMA AbandonStep ==
  ASSUME RegistryIInv, NEW c \in EngineRequesters, engineReq' = [engineReq EXCEPT ![c] = NoEngine],
         UNCHANGED <<engines, defaultEngine, asEdited>>, engineRace \subseteq engineRace',
         \/ c \in Servers
         \/ EditingEngines(c) /\ engineReq[c].pc \in {"check", "clear"} => "cut" \in engineRace'
  PROVE  RegistryIInv'
<1>1. engines \subseteq EditedNames /\ ("list" \notin engineRace => engines = asEdited)
  BY DEF RegistryIInv, RegistryTypeOK, ListsCurrent
<1>2. ASSUME engineRace' \cap {"default", "list", "cut"} = {}
      PROVE  \/ defaultEngine \in engines \cup {NoEngine}
             \/ \E d \in Others(c) : ClearsDefault(engineReq[d])
  <2>1. engineRace \cap {"default", "list", "cut"} = {} /\ "cut" \notin engineRace'  BY <1>2
  <2>2. ~(EditingEngines(c) /\ ClearsDefault(engineReq[c]))
    BY <2>1 DEF RegistryIInv, ServersUpsert, ClearsDefault
  <2> QED  BY <2>1, <2>2 DEF RegistryIInv, SelectorSound, Others
<1> QED  BY <1>1, <1>2, RegistryStep

(***************************************************************************)
(* The servers: one server's step, and the file in its hands with it.      *)
(***************************************************************************)
LEMMA ServerMoved ==
  ASSUME InstallTypeOK, NEW p \in Servers, NEW pc \in {"down", "seed", "asset", "fetched", "writing", "rename", "up"},
         NEW todo \in Seq(EngineFiles), ServerTo(p, pc, todo)
  PROVE  /\ server' \in [Servers -> ServerRec]
         /\ server'[p].pc = pc /\ server'[p].todo = todo
         /\ \A q \in Servers \ {p} : server'[q] = server[q]
<1> PICK s \in ServerRec : s = [pc |-> pc, todo |-> todo]  BY DEF ServerRec
<1> QED  BY DEF InstallTypeOK, ServerTo

\* A file in hand is a file of the plan or the bundle.
LEMMA FileInHand ==
  ASSUME InstallTypeOK, NEW p \in Servers, server[p].todo # <<>>
  PROVE  /\ server[p].todo \in Seq(EngineFiles) /\ Installing(p) \in EngineFiles
         /\ Tail(server[p].todo) \in Seq(EngineFiles)
         /\ \A f : ToDo(p, f) => f = Installing(p) \/ \E i \in DOMAIN Tail(server[p].todo) : Tail(server[p].todo)[i] = f
<1>1. PICK t : t = server[p].todo  OBVIOUS
<1>2. t \in Seq(EngineFiles) /\ t # <<>>  BY <1>1 DEF InstallTypeOK, ServerRec
<1>3. Head(t) \in EngineFiles /\ Tail(t) \in Seq(EngineFiles)  BY <1>2
<1>4. ASSUME NEW i \in DOMAIN t PROVE t[i] = Head(t) \/ \E j \in DOMAIN Tail(t) : Tail(t)[j] = t[i]
  <2>1. CASE i = 1  BY <1>2, <2>1
  <2>2. CASE i # 1
    <3>1. i - 1 \in DOMAIN Tail(t) /\ Tail(t)[i - 1] = t[i]  BY <1>2, <2>2
    <3> QED  BY <3>1
  <2> QED  BY <2>1, <2>2
<1> QED  BY <1>1, <1>2, <1>3, <1>4 DEF Installing, ToDo

\* A server goes where it has no file in its hands; on disk all stays as it is.
LEMMA ServerStep ==
  ASSUME InstallIInv, NEW p \in Servers,
         NEW pc \in {"down", "seed", "asset", "fetched", "up"}, NEW todo \in Seq(EngineFiles),
         ServerTo(p, pc, todo), UNCHANGED <<disk, partial>>,
         "file" \in engineRace => "file" \in engineRace',
         pc = "fetched" => todo # <<>>,
         "file" \notin engineRace' /\ ~Bundled /\ pc \in {"asset", "fetched"} =>
           \A f \in ToSet(CatalogPlan) : disk[f] = "whole" \/ \E i \in DOMAIN todo : todo[i] = f,
         downloaded' /\ ~downloaded /\ "file" \notin engineRace' =>
           \A f \in ToSet(CatalogPlan) : disk[f] = "whole"
  PROVE  InstallIInv'
<1> USE DEF InstallIInv
<1>1. /\ server' \in [Servers -> ServerRec]
      /\ server'[p].pc = pc /\ server'[p].todo = todo
      /\ \A q \in Servers \ {p} : server'[q] = server[q]
  BY ServerMoved
<1>2. InstallTypeOK'  BY <1>1 DEF InstallTypeOK
<1>3. HandsFull'  BY <1>1 DEF HandsFull, Held
<1>4. FilesSound'  BY <1>1 DEF FilesSound, Writing, Installing
<1>5. PlanProgress'  BY <1>1 DEF PlanProgress, Held, ToDo
<1>6. DownloadedIsInstalled'  BY DEF DownloadedIsInstalled
<1> QED  BY <1>2, <1>3, <1>4, <1>5, <1>6

\* While no server installs, nothing of this changes.
LEMMA InstallStays ==
  ASSUME InstallIInv, UNCHANGED installVars, "file" \in engineRace => "file" \in engineRace'
  PROVE  InstallIInv'
BY DEF InstallIInv, installVars, InstallTypeOK, HandsFull, Held, FilesSound, Writing, Installing,
       PlanProgress, ToDo, DownloadedIsInstalled

LEMMA SeededStep ==
  ASSUME InstallIInv, NEW p \in Servers, EngineSeeded(p)
  PROVE  InstallIInv'
<1>1. BundleFile \in EngineFiles /\ ToSet(CatalogPlan) \subseteq EngineFiles  BY DEF EngineFiles
<1>2. <<BundleFile>> \in Seq(EngineFiles) /\ <<>> \in Seq(EngineFiles)  BY <1>1
<1>3. CatalogPlan \in Seq(EngineFiles)
  <2>1. CatalogPlan \in Seq(ToSet(CatalogPlan))  BY EngineAssumption
  <2> QED  BY <1>1, <2>1
<1>4. \A f \in ToSet(CatalogPlan) : \E i \in DOMAIN CatalogPlan : CatalogPlan[i] = f  BY DEF ToSet
<1>5. UNCHANGED <<disk, partial, downloaded, engineRace>>  BY DEF EngineSeeded
<1>6. CASE Bundled /\ ServerTo(p, "asset", <<BundleFile>>)  BY <1>2, <1>5, <1>6, ServerStep
<1>7. CASE ServerTo(p, "asset", CatalogPlan)  BY <1>3, <1>4, <1>5, <1>7, ServerStep
<1>8. CASE ServerTo(p, "up", <<>>)  BY <1>2, <1>5, <1>8, ServerStep
<1> QED  BY <1>6, <1>7, <1>8 DEF EngineSeeded

LEMMA EnsureStep ==
  ASSUME InstallIInv, NEW p \in Servers, EnsureAsset(p)
  PROVE  InstallIInv'
<1> USE DEF InstallIInv
<1>0. PICK t \in Seq(EngineFiles) : t = server[p].todo  BY DEF InstallTypeOK, ServerRec
<1>1. server[p].pc = "asset" /\ UNCHANGED <<disk, partial, engineRace>>  BY DEF EnsureAsset, ServerAt
<1>2. ASSUME "file" \notin engineRace, ~Bundled
      PROVE  \A f \in ToSet(CatalogPlan) : disk[f] = "whole" \/ ToDo(p, f)
  BY <1>1, <1>2 DEF PlanProgress
<1>3. <<>> \in Seq(EngineFiles)  OBVIOUS
<1>4. CASE t = <<>>
  <2>1. ServerTo(p, "up", <<>>) /\ downloaded' = ~Bundled  BY <1>0, <1>4 DEF EnsureAsset
  <2>2. \A f : ~ToDo(p, f)  BY <1>0, <1>4 DEF ToDo
  <2> QED  BY <1>1, <1>2, <1>3, <2>1, <2>2, ServerStep
<1>5. CASE t # <<>>
  <2>0. downloaded' = downloaded  BY <1>0, <1>5 DEF EnsureAsset
  <2>1. /\ Installing(p) \in EngineFiles /\ Tail(t) \in Seq(EngineFiles)
        /\ \A f : ToDo(p, f) => f = Installing(p) \/ \E i \in DOMAIN Tail(t) : Tail(t)[i] = f
    BY <1>0, <1>5, FileInHand
  <2>2. CASE AlreadyPresent(Installing(p)) /\ ServerTo(p, "asset", Tail(t))
    <3>1. "file" \notin engineRace => disk[Installing(p)] = "whole"
      BY <2>1, <2>2 DEF FilesSound, AlreadyPresent, InstallTypeOK, FileStates
    <3>2. "file" \notin engineRace' /\ ~Bundled =>
            \A f \in ToSet(CatalogPlan) : disk[f] = "whole" \/ \E i \in DOMAIN Tail(t) : Tail(t)[i] = f
      BY <1>1, <1>2, <2>1, <3>1
    <3> QED  BY <1>1, <2>0, <2>1, <2>2, <3>2, ServerStep
  <2>3. CASE ServerTo(p, "fetched", t)
    <3>1. "file" \notin engineRace' /\ ~Bundled =>
            \A f \in ToSet(CatalogPlan) : disk[f] = "whole" \/ \E i \in DOMAIN t : t[i] = f
      BY <1>0, <1>1, <1>2 DEF ToDo
    <3> QED  BY <1>1, <1>5, <2>0, <2>3, <3>1, ServerStep
  <2>4. CASE ServerTo(p, "up", <<>>)  BY <1>1, <1>3, <2>0, <2>4, ServerStep
  <2> QED  BY <1>0, <1>5, <2>2, <2>3, <2>4 DEF EnsureAsset
<1> QED  BY <1>4, <1>5

\* A file is created, written out and renamed: it is whole when it gets its name.
LEMMA WriteStep ==
  ASSUME InstallIInv, NEW p \in Servers, WriteFile(p), UNCHANGED downloaded
  PROVE  InstallIInv'
<1> USE DEF InstallIInv
<1>a. PICK t \in Seq(EngineFiles) : t = server[p].todo  BY DEF InstallTypeOK, ServerRec
<1>b. PICK f : f = Installing(p)  OBVIOUS
<1>0. t = server[p].todo /\ f = Installing(p)  BY <1>a, <1>b
<1>1. t # <<>>  BY <1>0 DEF WriteFile, ServerAt, HandsFull, Held
<1>2. /\ f \in EngineFiles /\ Tail(t) \in Seq(EngineFiles)
      /\ \A g : ToDo(p, g) => g = f \/ \E i \in DOMAIN Tail(t) : Tail(t)[i] = g
  BY <1>0, <1>1, FileInHand
<1>3. f = Head(t) /\ Held(p)  BY <1>0 DEF Installing, WriteFile, ServerAt, Held
<1>4. engineRace \subseteq engineRace'  BY DEF WriteFile
<1>5. ASSUME "file" \notin engineRace' PROVE "file" \notin engineRace  BY <1>4, <1>5
<1>6. ASSUME NEW pc \in {"writing", "rename"}, ServerTo(p, pc, t), UNCHANGED disk,
             NEW state \in {"half", "whole"}, pc = "writing" <=> state = "half",
             "file" \notin engineRace' => partial' = [partial EXCEPT ![f] = state],
             partial' \in [EngineFiles -> FileStates],
             "file" \notin engineRace' => \A q \in Servers \ {p} : Writing(q) => Installing(q) # f
      PROVE  InstallIInv'
  <2>1. /\ server' \in [Servers -> ServerRec]
        /\ server'[p].pc = pc /\ server'[p].todo = t
        /\ \A q \in Servers \ {p} : server'[q] = server[q]
    BY <1>6, ServerMoved
  <2>2. InstallTypeOK'  BY <1>6, <2>1 DEF InstallTypeOK
  <2>3. HandsFull'  BY <1>1, <2>1 DEF HandsFull, Held
  <2>4. ASSUME "file" \notin engineRace' PROVE FilesSound'
    <3>1. "file" \notin engineRace /\ partial' = [partial EXCEPT ![f] = state]  BY <1>5, <1>6, <2>4
    <3>2. Installing(p)' = f  BY <1>3, <2>1 DEF Installing
    <3>3. \A q \in Servers \ {p} : Installing(q)' = Installing(q) /\ (Writing(q)' <=> Writing(q))
      BY <2>1 DEF Installing, Writing
    <3>4. \A q \in Servers \ {p} : Writing(q) => Installing(q) # f  BY <1>6, <2>4
    <3>5. partial'[f] = state  BY <3>1, <1>2 DEF InstallTypeOK
    <3>6. \A g : g # f => partial'[g] = partial[g]  BY <3>1
    <3>7. ASSUME NEW q \in Servers
          PROVE  /\ server'[q].pc = "writing" => partial'[Installing(q)'] = "half"
                 /\ server'[q].pc = "rename" => partial'[Installing(q)'] = "whole"
      <4>1. CASE q = p  BY <4>1, <3>2, <3>5, <2>1, <1>6
      <4>2. CASE q # p
        <5>1. server'[q] = server[q] /\ Installing(q)' = Installing(q)  BY <4>2, <2>1, <3>3
        <5>2. Writing(q) => partial'[Installing(q)] = partial[Installing(q)]  BY <4>2, <3>4, <3>6
        <5> QED  BY <5>1, <5>2, <3>1 DEF FilesSound, Writing
      <4> QED  BY <4>1, <4>2
    <3>8. ASSUME NEW q \in Servers, NEW s \in Servers, Writing(q)', Writing(s)', q # s
          PROVE  Installing(q)' # Installing(s)'
      BY <3>8, <3>1, <3>2, <3>3, <3>4 DEF FilesSound
    <3>9. \A g \in EngineFiles : disk'[g] # "half"  BY <3>1, <1>6 DEF FilesSound
    <3> QED  BY <3>7, <3>8, <3>9 DEF FilesSound
  <2>5. PlanProgress'
    <3>1. \A q \in Servers : server'[q].todo = server[q].todo /\ (Held(q)' => Held(q))
                             /\ (server'[q].pc = "asset" => server[q].pc = "asset")
      BY <2>1, <1>0, <1>3, <1>6 DEF Held
    <3> QED  BY <3>1, <1>5, <1>6 DEF PlanProgress, ToDo
  <2>6. DownloadedIsInstalled'  BY <1>5, <1>6 DEF DownloadedIsInstalled
  <2>7. FilesSound'  BY <2>4 DEF FilesSound
  <2> QED  BY <2>2, <2>3, <2>5, <2>6, <2>7
<1>7. CASE ServerAt(p, "fetched")
  <2>1. /\ partial' = [partial EXCEPT ![f] = "half"] /\ ServerTo(p, "writing", t) /\ UNCHANGED disk
        /\ engineRace' = engineRace \cup
             (IF \E q \in Servers \ {p} : server[q].pc \in {"writing", "rename"} /\ Installing(q) = f
              THEN {"file"} ELSE {})
    BY <1>0, <1>7 DEF WriteFile, ServerAt
  <2>2. "file" \notin engineRace' => \A q \in Servers \ {p} : Writing(q) => Installing(q) # f
    BY <2>1 DEF Writing
  <2>3. partial' \in [EngineFiles -> FileStates]  BY <2>1 DEF InstallTypeOK, FileStates
  <2> QED  BY <1>6, <2>1, <2>2, <2>3
<1>8. CASE ServerAt(p, "writing")
  <2>1. /\ partial' = [partial EXCEPT ![f] = IF partial[f] = "absent" THEN "absent" ELSE "whole"]
        /\ ServerTo(p, "rename", t) /\ UNCHANGED <<disk, engineRace>>
    BY <1>0, <1>2, <1>8 DEF WriteFile, ServerAt, InstallTypeOK
  <2>2. "file" \notin engineRace' => /\ partial[f] = "half"
                                    /\ \A q \in Servers \ {p} : Writing(q) => Installing(q) # f
    BY <1>0, <1>8, <2>1 DEF FilesSound, Writing, ServerAt
  <2>3. partial' \in [EngineFiles -> FileStates]  BY <2>1 DEF InstallTypeOK, FileStates
  <2>4. "file" \notin engineRace' => partial' = [partial EXCEPT ![f] = "whole"]  BY <2>1, <2>2
  <2> QED  BY <1>6, <2>1, <2>2, <2>3, <2>4
<1>9. CASE ServerAt(p, "rename")
  <2>1. /\ partial' = [partial EXCEPT ![f] = "absent"] /\ UNCHANGED engineRace
        /\ disk' = [disk EXCEPT ![f] = IF partial[f] = "absent" THEN disk[f] ELSE partial[f]]
        /\ \/ partial[f] = "absent" /\ ServerTo(p, "up", <<>>)
           \/ partial[f] # "absent" /\ ServerTo(p, "asset", Tail(t))
    BY <1>0, <1>2, <1>9 DEF WriteFile, ServerAt, InstallTypeOK
  <2>2. PICK pc \in {"up", "asset"}, todo \in Seq(EngineFiles) :
          /\ ServerTo(p, pc, todo)
          /\ partial[f] # "absent" => todo = Tail(t)
          /\ pc = "asset" => partial[f] # "absent"
    <3>1. CASE partial[f] = "absent"
      <4>1. <<>> \in Seq(EngineFiles) /\ ServerTo(p, "up", <<>>)  BY <2>1, <3>1
      <4> QED  BY <3>1, <4>1
    <3>2. CASE partial[f] # "absent"  BY <1>2, <2>1, <3>2
    <3> QED  BY <3>1, <3>2
  <2>3. /\ server' \in [Servers -> ServerRec]
        /\ server'[p].pc = pc /\ server'[p].todo = todo
        /\ \A q \in Servers \ {p} : server'[q] = server[q]
    BY <2>2, ServerMoved
  <2>4. /\ disk' \in [EngineFiles -> FileStates] /\ partial' \in [EngineFiles -> FileStates]
        /\ \A g : g # f => disk'[g] = disk[g] /\ partial'[g] = partial[g]
    BY <1>2, <2>1 DEF InstallTypeOK, FileStates
  <2>5. InstallTypeOK'  BY <2>3, <2>4 DEF InstallTypeOK
  <2>6. HandsFull'  BY <2>2, <2>3 DEF HandsFull, Held
  <2>7. "file" \notin engineRace => partial[f] = "whole" /\ disk'[f] = "whole"
    BY <1>0, <1>2, <1>9, <2>1 DEF FilesSound, ServerAt, InstallTypeOK
  <2>8. ASSUME "file" \notin engineRace PROVE FilesSound'
    <3>1. \A q \in Servers : Writing(q)' => q # p  BY <2>2, <2>3 DEF Writing
    <3>2. \A q \in Servers \ {p} : Installing(q)' = Installing(q) /\ (Writing(q)' <=> Writing(q))
      BY <2>3 DEF Installing, Writing
    <3>3. \A q \in Servers \ {p} : Writing(q) => Installing(q) # f
      BY <2>8, <1>0, <1>9 DEF FilesSound, Writing, ServerAt
    <3>4. \A g \in EngineFiles : disk'[g] # "half"  BY <2>4, <2>7, <2>8 DEF FilesSound
    <3>5. ASSUME NEW q \in Servers
          PROVE  /\ server'[q].pc = "writing" => partial'[Installing(q)'] = "half"
                 /\ server'[q].pc = "rename" => partial'[Installing(q)'] = "whole"
      <4>1. CASE q = p  BY <4>1, <2>2, <2>3
      <4>2. CASE q # p
        <5>1. server'[q] = server[q] /\ Installing(q)' = Installing(q)  BY <4>2, <2>3, <3>2
        <5>2. Writing(q) => partial'[Installing(q)] = partial[Installing(q)]  BY <4>2, <3>3, <2>4
        <5> QED  BY <5>1, <5>2, <2>8 DEF FilesSound, Writing
      <4> QED  BY <4>1, <4>2
    <3>6. ASSUME NEW q \in Servers, NEW s \in Servers, Writing(q)', Writing(s)', q # s
          PROVE  Installing(q)' # Installing(s)'
      BY <3>6, <3>1, <3>2, <2>8 DEF FilesSound
    <3> QED  BY <3>4, <3>5, <3>6 DEF FilesSound
  <2>9. ASSUME "file" \notin engineRace
        PROVE  \A g : disk[g] = "whole" => disk'[g] = "whole"
    BY <2>4, <2>7, <2>9
  <2>10. PlanProgress'
    <3>1. SUFFICES ASSUME "file" \notin engineRace', ~Bundled, NEW q \in Servers,
                          server'[q].pc = "asset" \/ Held(q)', NEW g \in ToSet(CatalogPlan)
                   PROVE  disk'[g] = "whole" \/ ToDo(q, g)'
      BY DEF PlanProgress
    <3>2. "file" \notin engineRace  BY <1>5, <3>1
    <3>3. CASE q = p
      <4>1. pc = "asset"  BY <3>1, <3>3, <2>2, <2>3 DEF Held
      <4>2. todo = Tail(t)  BY <4>1, <2>2
      <4>3. disk[g] = "whole" \/ ToDo(p, g)  BY <3>1, <3>2, <1>3 DEF PlanProgress
      <4>4. disk[g] = "whole" => disk'[g] = "whole"  BY <3>2, <2>9
      <4>5. ToDo(p, g) => g = f \/ \E i \in DOMAIN todo : todo[i] = g  BY <4>2, <1>2
      <4>6. (\E i \in DOMAIN todo : todo[i] = g) => ToDo(q, g)'  BY <3>3, <2>3 DEF ToDo
      <4> QED  BY <4>3, <4>4, <4>5, <4>6, <3>2, <2>7
    <3>4. CASE q # p
      <4>1. server'[q] = server[q]  BY <3>4, <2>3
      <4> QED  BY <4>1, <3>1, <3>2, <2>9 DEF PlanProgress, Held, ToDo
    <3> QED  BY <3>3, <3>4
  <2>11. DownloadedIsInstalled'  BY <1>5, <2>9 DEF DownloadedIsInstalled
  <2>12. FilesSound'  BY <1>5, <2>8 DEF FilesSound
  <2> QED  BY <2>5, <2>6, <2>10, <2>11, <2>12
<1> QED  BY <1>7, <1>8, <1>9 DEF WriteFile

(***************************************************************************)
(* The two halves together.                                                *)
(***************************************************************************)
LEMMA EngineInitInductive ==
  ASSUME EngineInit
  PROVE  EnginesIInv
<1> USE DEF EngineInit
<1>1. \A c \in EngineRequesters : ~EditingEngines(c)  BY DEF EditingEngines, EngineRequesters
<1>2. RegistryTypeOK  BY DEF RegistryTypeOK, EngineRequesters
<1>3. ListsCurrent /\ SelectorSound /\ ServersUpsert
  BY <1>1 DEF ListsCurrent, SelectorSound, ServersUpsert, EngineRequesters
<1>4. \A p \in Servers : server[p].pc = "down" /\ server[p].todo = <<>>  OBVIOUS
<1>5. InstallTypeOK
  <2>1. <<>> \in Seq(EngineFiles)  OBVIOUS
  <2> QED  BY <2>1 DEF InstallTypeOK, ServerRec, FileStates
<1>6. HandsFull /\ FilesSound /\ PlanProgress /\ DownloadedIsInstalled
  BY <1>4 DEF HandsFull, Held, FilesSound, Writing, PlanProgress, DownloadedIsInstalled
<1> QED  BY <1>2, <1>3, <1>5, <1>6 DEF EnginesIInv, RegistryIInv, InstallIInv

LEMMA EngineNextInductive ==
  ASSUME EnginesIInv, [EngineNext]_engineVars
  PROVE  EnginesIInv'
<1> USE DEF EnginesIInv
<1>1. CASE UNCHANGED engineVars
  <2>1. UNCHANGED registryVars /\ UNCHANGED installVars /\ UNCHANGED engineRace
    BY <1>1 DEF engineVars, registryVars, installVars
  <2> QED  BY <2>1, RegistryStays, InstallStays
<1>2. ASSUME NEW c \in EngineEditors, AbandonEdit(c) PROVE EnginesIInv'
  <2>1. c \in EngineRequesters  BY DEF EngineRequesters
  <2>2. /\ engineReq' = [engineReq EXCEPT ![c] = NoEngine]
        /\ UNCHANGED <<engines, defaultEngine, asEdited>> /\ UNCHANGED installVars
        /\ engineRace' = engineRace \cup (IF engineReq[c].pc \in {"check", "clear"} THEN {"cut"} ELSE {})
    BY <1>2 DEF AbandonEdit, installVars
  <2>3. RegistryIInv'  BY <2>1, <2>2, AbandonStep
  <2>4. InstallIInv'  BY <2>2, InstallStays
  <2> QED  BY <2>3, <2>4
<1>3. ASSUME NEW c \in EngineEditors, NEW u \in EngineUsers, EditEngines(c, u) PROVE EnginesIInv'
  <2>1. c \in EngineRequesters /\ c \notin Servers  BY EngineAssumption DEF EngineRequesters
  <2>2. PICK name \in EngineNames : UpsertEngine(c, name) \/ RemoveEngine(c, name) \/ SetDefaultEngine(c, name)
    BY <1>3 DEF EditEngines
  <2>3. name \in EditedNames /\ ~EditingEngines(c)  BY <1>3 DEF EditEngines, EditedNames
  <2>4. RegistryIInv'  BY <2>1, <2>2, <2>3, EditBegins
  <2>5. UNCHANGED engineRace
    BY <2>2 DEF UpsertEngine, RemoveEngine, SetDefaultEngine, ReadEngines
  <2>6. InstallIInv'  BY <1>3, <2>5, InstallStays DEF EditEngines
  <2> QED  BY <2>4, <2>6
<1>4. ASSUME NEW c \in EngineRequesters, SaveEngines(c) \/ CheckDefaultEngine(c) \/ WriteDefaultEngine(c)
      PROVE  EnginesIInv'
  <2>1. RegistryIInv'  BY <1>4, SaveStep, CheckDefaultStep, WriteDefaultStep
  <2>2. UNCHANGED installVars /\ engineRace \subseteq engineRace'
    BY <1>4 DEF SaveEngines, CheckDefaultEngine, WriteDefaultEngine, installVars
  <2>3. "file" \in engineRace => "file" \in engineRace'  BY <2>2
  <2>4. InstallIInv'  BY <2>2, <2>3, InstallStays
  <2> QED  BY <2>1, <2>4
<1>5. ASSUME NEW p \in Servers, StartServer(p) PROVE EnginesIInv'
  <2>1. p \in EngineRequesters /\ OperatorEngine \in EditedNames  BY DEF EngineRequesters, EditedNames
  <2>2. RegistryIInv' /\ UNCHANGED engineRace
    <3>1. CASE UpsertEngine(p, OperatorEngine)
      BY <2>1, <3>1, EditBegins DEF UpsertEngine, ReadEngines
    <3>2. CASE UNCHANGED <<registryVars, engineRace>>  BY <3>2, RegistryStays
    <3> QED  BY <1>5, <3>1, <3>2 DEF StartServer
  <2>3. <<>> \in Seq(EngineFiles)  OBVIOUS
  <2>4. ServerTo(p, "seed", <<>>) /\ UNCHANGED <<downloaded, disk, partial>>  BY <1>5 DEF StartServer
  <2>5. InstallIInv'  BY <2>2, <2>3, <2>4, ServerStep
  <2> QED  BY <2>2, <2>5
<1>6. ASSUME NEW p \in Servers, EngineSeeded(p) PROVE EnginesIInv'
  <2>1. UNCHANGED registryVars /\ UNCHANGED engineRace  BY <1>6 DEF EngineSeeded
  <2> QED  BY <1>6, <2>1, RegistryStays, SeededStep
<1>7. ASSUME NEW p \in Servers, EnsureAsset(p) PROVE EnginesIInv'
  <2>1. UNCHANGED registryVars /\ UNCHANGED engineRace  BY <1>7 DEF EnsureAsset
  <2> QED  BY <1>7, <2>1, RegistryStays, EnsureStep
<1>8. ASSUME NEW p \in Servers, InstallAsset(p) PROVE EnginesIInv'
  <2>1. UNCHANGED registryVars /\ UNCHANGED downloaded /\ WriteFile(p)  BY <1>8 DEF InstallAsset
  <2>2. engineRace \subseteq engineRace'  BY <2>1 DEF WriteFile
  <2>3. \A race \in {"default", "list", "cut"} : race \in engineRace' => race \in engineRace
    BY <2>1 DEF WriteFile
  <2> QED  BY <2>1, <2>2, RegistryStays, WriteStep
<1>9. ASSUME NEW p \in Servers, CrashServer(p) PROVE EnginesIInv'
  <2>1. p \in EngineRequesters /\ <<>> \in Seq(EngineFiles)  BY DEF EngineRequesters
  <2>2. /\ engineReq' = [engineReq EXCEPT ![p] = NoEngine] /\ ServerTo(p, "down", <<>>)
        /\ UNCHANGED <<engines, defaultEngine, asEdited, downloaded, disk, partial, engineRace>>
    BY <1>9 DEF CrashServer
  <2>3. RegistryIInv'  BY <2>1, <2>2, AbandonStep
  <2>4. InstallIInv'  BY <2>1, <2>2, ServerStep
  <2> QED  BY <2>3, <2>4
<1> QED  BY <1>1, <1>2, <1>3, <1>4, <1>5, <1>6, <1>7, <1>8, <1>9 DEF EngineNext, EngineRequesters

\* What requests hold in their hands is what the registry says, and what servers
\* have done of the plan is on disk, but for the overlaps that engineRace names.
THEOREM EnginesInductive == EngineSpec => []EnginesIInv
<1>1. EngineInit => EnginesIInv  BY EngineInitInductive
<1>2. EnginesIInv /\ [EngineNext]_engineVars => EnginesIInv'  BY EngineNextInductive
<1> QED  BY <1>1, <1>2, PTL DEF EngineSpec

\* Edits, restarts and crashes leave a list with every edit in it, a default and a
\* downloaded slot that name something, and no half-written engine: whatever
\* the number of editors and servers, an edit can be lost only to an edit that
\* overtook it, a default can dangle only after an overlap or a removal cut short,
\* and a file can be half only after two servers wrote it at once.
THEOREM EnginesSettled == EngineSpec => []EnginesSettle
<1>1. ASSUME EnginesIInv PROVE EnginesSettle
  <2> USE <1>1 DEF EnginesIInv, RegistryIInv, InstallIInv
  <2>1. EngineEditsLand  BY DEF EngineEditsLand, ListsCurrent
  <2>2. DefaultNamesAnEngine
    <3>1. DOMAIN engineReq = EngineRequesters  BY DEF RegistryTypeOK
    <3> QED  BY <3>1 DEF DefaultNamesAnEngine, SelectorSound
  <2>3. AcceptedIsWhole  BY DEF AcceptedIsWhole, FilesSound
  <2>4. DownloadedIsInstalled  OBVIOUS
  <2> QED  BY <2>1, <2>2, <2>3, <2>4 DEF EnginesSettle
<1> QED  BY <1>1, EnginesInductive, PTL
=============================================================================
