-------------------------- MODULE LiveAnalysisProofs --------------------------
(***************************************************************************)
(* Theorems about LiveAnalysis for every number of sockets, positions and  *)
(* actions of the user, with their proofs: the types, then the invariant   *)
(* that ties each session's state to what its engine has left to read and  *)
(* to say, which the first two safety theorems follow from, and the one    *)
(* that ties what the store claims to the frames and the session behind it *)
(* for the third.                                                          *)
(***************************************************************************)
EXTENDS LiveAnalysis, SequenceTheorems, TLAPS

\* The frames, commands and lines the code makes have their types.
LEMMA FrameTypes ==
  /\ \A p \in Positions : Analyse(p) \in ClientFrames
  /\ Stop \in ClientFrames /\ Close \in ClientFrames /\ Stop \in Commands
  /\ [type |-> "isready"] \in Commands
  /\ \A p \in Positions : [type |-> "go", pos |-> p] \in Commands
  /\ \A t \in {"ready", "error"} : Word(t) \in ServerFrames
  /\ \A p, q \in Positions \cup {None} : Info(p, q) \in ServerFrames
  /\ \A p \in Positions \cup {None} : BestMove(p) \in ServerFrames
  /\ \A t \in {"readyok", "info", "bestmove"} : \A p \in Positions \cup {None} :
       [type |-> t, pos |-> p, plan |-> None] \in Output
<1>1. /\ \A p \in Positions : Analyse(p) \in ClientFrames
      /\ Stop \in ClientFrames /\ Close \in ClientFrames /\ Stop \in Commands
  BY DEF Analyse, Stop, Close, ClientFrames, Commands
<1>2. /\ [type |-> "isready"] \in Commands
      /\ \A p \in Positions : [type |-> "go", pos |-> p] \in Commands
  BY DEF Commands
<1>3. \A t \in {"ready", "error"} : Word(t) \in ServerFrames
  BY DEF Word, ServerFrames
<1>4. \A p, q \in Positions \cup {None} : Info(p, q) \in ServerFrames
  BY DEF Info, ServerFrames
<1>5. \A p \in Positions \cup {None} : BestMove(p) \in ServerFrames
  BY DEF BestMove, Word, ServerFrames
<1>6. \A t \in {"readyok", "info", "bestmove"} : \A p \in Positions \cup {None} :
        [type |-> t, pos |-> p, plan |-> None] \in Output
  BY DEF Output
<1> QED  BY <1>1, <1>2, <1>3, <1>4, <1>5, <1>6

\* An engine record with another queue, search or count has its type.
LEMMA EngineFields ==
  ASSUME NEW e \in Engines
  PROVE  /\ e.stdin \in Seq(Commands) /\ e.out \in Seq(Output)
         /\ e.search \in Positions \cup {None} /\ e.infos \in 0 .. MaxInfos
         /\ \A q \in Seq(Commands) : [e EXCEPT !.stdin = q] \in Engines
         /\ \A q \in Seq(Output) : [e EXCEPT !.out = q] \in Engines
         /\ \A p \in Positions \cup {None} : [e EXCEPT !.search = p] \in Engines
         /\ \A n \in 0 .. MaxInfos : [e EXCEPT !.infos = n] \in Engines
         /\ [e EXCEPT !.alive = TRUE] \in Engines
BY DEF Engines

\* The queues of an engine, longer by one or without their first.
LEMMA QueueTypes ==
  ASSUME NEW e \in Engines
  PROVE  /\ \A c \in Commands : Append(e.stdin, c) \in Seq(Commands)
         /\ \A l \in Output : e.out \o <<l>> \in Seq(Output)
         /\ e.stdin # << >> => Head(e.stdin) \in Commands /\ Tail(e.stdin) \in Seq(Commands)
         /\ e.out # << >> => Head(e.out) \in Output /\ Tail(e.out) \in Seq(Output)
<1>1. e.stdin \in Seq(Commands) /\ e.out \in Seq(Output)
  BY EngineFields
<1> HIDE DEF Commands, Output
<1>2. \A c \in Commands : Append(e.stdin, c) \in Seq(Commands)
  BY <1>1
<1>3. \A l \in Output : e.out \o <<l>> \in Seq(Output)
  BY <1>1
<1>4. e.stdin # << >> => Head(e.stdin) \in Commands /\ Tail(e.stdin) \in Seq(Commands)
  BY <1>1
<1>5. e.out # << >> => Head(e.out) \in Output /\ Tail(e.out) \in Seq(Output)
  BY <1>1
<1> QED  BY <1>2, <1>3, <1>4, <1>5

LEMMA NoEngineType == SocketAssumption => NoEngine \in Engines
<1>1. << >> \in Seq(Commands) /\ << >> \in Seq(Output)
  OBVIOUS
<1> QED  BY <1>1 DEF NoEngine, Engines, SocketAssumption

\* What each kind of step does to the variables of its socket.
LEMMA SendType ==
  ASSUME SocketTypes, NEW s \in Sockets, NEW m \in ServerFrames, Send(s, m)
  PROVE  s2c' \in [Sockets -> Seq(ServerFrames)]
BY DEF SocketTypes, Send

LEMMA GotoType ==
  ASSUME SocketTypes, NEW s \in Sockets, NEW pc \in {"spawn", "loop", "quit", "over"},
         Goto(s, pc)
  PROVE  /\ session' \in [Sockets -> Sessions]
         /\ session' = [session EXCEPT ![s].pc = pc]
<1>1. [session[s] EXCEPT !.pc = pc] \in Sessions
  BY DEF SocketTypes, Sessions
<1> QED  BY <1>1 DEF Goto, SocketTypes

LEMMA CommandType ==
  ASSUME SocketTypes, NEW s \in Sockets, NEW c \in Commands, Command(s, c)
  PROVE  engine' \in [Sockets -> Engines]
<1>1. engine[s] \in Engines
  BY DEF SocketTypes
<1>2. [engine[s] EXCEPT !.stdin = Append(engine[s].stdin, c)] \in Engines
  BY <1>1, EngineFields, QueueTypes
<1> QED  BY <1>2 DEF Command, SocketTypes

LEMMA ReadLineType ==
  ASSUME SocketTypes, NEW s \in Sockets, Unread(s), ReadLine(s)
  PROVE  engine' \in [Sockets -> Engines]
<1>1. engine[s] \in Engines
  BY DEF SocketTypes
<1>2. Tail(engine[s].out) \in Seq(Output)
  BY <1>1, QueueTypes DEF Unread
<1>3. [engine[s] EXCEPT !.out = Tail(@)] \in Engines
  BY <1>1, <1>2, EngineFields
<1> QED  BY <1>3 DEF ReadLine, SocketTypes

LEMMA FailedType ==
  ASSUME SocketTypes, NEW s \in Sockets, NEW late \in BOOLEAN, Failed(s, late)
  PROVE  s2c' \in [Sockets -> Seq(ServerFrames)] /\ session' \in [Sockets -> Sessions]
<1>1. s2c' \in [Sockets -> Seq(ServerFrames)]
  BY SendType, FrameTypes DEF Failed
<1>2. [session[s] EXCEPT !.pc = "loop", !.analysing = FALSE, !.watchdog = "off",
                         !.next = None, !.late = @ \/ late] \in Sessions
  BY DEF SocketTypes, Sessions
<1> QED  BY <1>1, <1>2 DEF Failed, SocketTypes

\* A session with a new state of its type; the position a wait is for stays
\* known.
Waits == \A s \in Sockets : session[s].pc \in {"drain", "ready"} => session[s].next # None

LEMMA SessionStep ==
  ASSUME SocketTypes, Waits, NEW s \in Sockets, NEW x \in Sessions,
         x.pc \in {"drain", "ready"} => x.next # None,
         session' = [session EXCEPT ![s] = x]
  PROVE  session' \in [Sockets -> Sessions] /\ Waits'
<1>1. session' \in [Sockets -> Sessions] /\ session'[s] = x
      /\ \A t \in Sockets \ {s} : session'[t] = session[t]
  BY DEF SocketTypes
<1> QED  BY <1>1 DEF Waits

LEMMA GotoStep ==
  ASSUME SocketTypes, Waits, NEW s \in Sockets, NEW pc \in {"spawn", "loop", "ready", "quit", "over"},
         Goto(s, pc), pc = "ready" => session[s].next # None
  PROVE  session' \in [Sockets -> Sessions] /\ Waits'
<1> DEFINE x == [session[s] EXCEPT !.pc = pc]
<1>1. x \in Sessions /\ (x.pc \in {"drain", "ready"} => x.next # None)
  BY DEF SocketTypes, Sessions
<1>2. session' = [session EXCEPT ![s] = x]
  BY DEF Goto
<1> QED
  <2> HIDE DEF x
  <2> QED  BY <1>1, <1>2, SessionStep

LEMMA FailedStep ==
  ASSUME SocketTypes, Waits, NEW s \in Sockets, NEW late \in BOOLEAN, Failed(s, late)
  PROVE  /\ s2c' \in [Sockets -> Seq(ServerFrames)]
         /\ session' \in [Sockets -> Sessions] /\ Waits'
<1> DEFINE x == [session[s] EXCEPT !.pc = "loop", !.analysing = FALSE, !.watchdog = "off",
                                   !.next = None, !.late = @ \/ late]
<1>1. s2c' \in [Sockets -> Seq(ServerFrames)]
  BY SendType, FrameTypes DEF Failed
<1>2. x \in Sessions /\ x.pc = "loop"
  BY DEF SocketTypes, Sessions
<1>3. session' = [session EXCEPT ![s] = x]
  BY DEF Failed
<1> QED
  <2> HIDE DEF x
  <2> QED  BY <1>1, <1>2, <1>3, SessionStep

\* The steps of a session.
LEMMA StartTypes ==
  ASSUME SocketAssumption, SocketTypes, Waits, NEW s \in Sockets,
         Spawned(s) \/ SpawnFails(s) \/ Quit(s)
  PROVE  SocketTypes' /\ Waits'
<1>1. CASE Spawned(s)
  <2>1. engine[s] \in Engines  BY DEF SocketTypes
  <2>2. engine' \in [Sockets -> Engines]
    BY <1>1, <2>1, EngineFields DEF Spawned, SocketTypes
  <2>3. s2c' \in [Sockets -> Seq(ServerFrames)]
    BY <1>1, SendType, FrameTypes DEF Spawned, Silent, SocketTypes
  <2>4. session' \in [Sockets -> Sessions] /\ Waits'
    BY <1>1, GotoStep DEF Spawned
  <2> QED  BY <1>1, <2>2, <2>3, <2>4 DEF Spawned, SocketTypes
<1>2. CASE SpawnFails(s)
  <2>1. s2c' \in [Sockets -> Seq(ServerFrames)]
    BY <1>2, SendType, FrameTypes DEF SpawnFails
  <2>2. session' \in [Sockets -> Sessions] /\ Waits'
    BY <1>2, GotoStep DEF SpawnFails
  <2> QED  BY <1>2, <2>1, <2>2 DEF SpawnFails, SocketTypes
<1>3. CASE Quit(s)
  <2>1. engine' \in [Sockets -> Engines]
    BY <1>3, NoEngineType DEF Quit, SocketTypes
  <2>2. session' \in [Sockets -> Sessions] /\ Waits'
    BY <1>3, GotoStep DEF Quit
  <2> QED  BY <1>3, <2>1, <2>2 DEF Quit, SocketTypes
<1> QED  BY <1>1, <1>2, <1>3

LEMMA HandleTypes ==
  ASSUME SocketAssumption, SocketTypes, Waits, NEW s \in Sockets, Handle(s)
  PROVE  SocketTypes' /\ Waits'
<1>1. c2s[s] \in Seq(ClientFrames) /\ c2s[s] # << >> /\ link' = link
      /\ c2s' = [c2s EXCEPT ![s] = Tail(@)]
  BY DEF Handle, StartAnalysis, StopSearch, ClientCloses, Receive, SocketTypes
<1>2. Head(c2s[s]) \in ClientFrames /\ c2s' \in [Sockets -> Seq(ClientFrames)]
  <2>1. Tail(c2s[s]) \in Seq(ClientFrames) /\ Head(c2s[s]) \in ClientFrames
    BY <1>1
  <2> QED  BY <1>1, <2>1 DEF SocketTypes
<1>3. CASE StartAnalysis(s)
  <2> DEFINE p == Head(c2s[s]).pos
  <2>1. p \in Positions
    BY <1>2, <1>3 DEF StartAnalysis, ClientFrames
  <2>2. CASE Stopping(s, p)
    <3> DEFINE x == [session[s] EXCEPT !.pc = "drain", !.next = p]
    <3>1. x \in Sessions /\ x.next # None
      BY <2>1 DEF SocketTypes, Sessions, SocketAssumption
    <3>2. session' = [session EXCEPT ![s] = x]
      BY <2>2 DEF Stopping
    <3>3. session' \in [Sockets -> Sessions] /\ Waits'
      <4> HIDE DEF x
      <4> QED  BY <3>1, <3>2, SessionStep
    <3>4. engine' \in [Sockets -> Engines]
      BY <2>2, CommandType, FrameTypes DEF Stopping
    <3> QED  BY <1>1, <1>2, <2>2, <3>3, <3>4 DEF Stopping, Silent, SocketTypes
  <2>3. CASE Configuring(s, p)
    <3> DEFINE x == [session[s] EXCEPT !.pc = "ready", !.next = p]
    <3>1. x \in Sessions /\ x.next # None
      BY <2>1 DEF SocketTypes, Sessions, SocketAssumption
    <3>2. session' = [session EXCEPT ![s] = x]
      BY <2>3 DEF Configuring
    <3>3. session' \in [Sockets -> Sessions] /\ Waits'
      <4> HIDE DEF x
      <4> QED  BY <3>1, <3>2, SessionStep
    <3>4. engine' \in [Sockets -> Engines]
      BY <2>3, CommandType, FrameTypes DEF Configuring
    <3> QED  BY <1>1, <1>2, <2>3, <3>3, <3>4 DEF Configuring, Silent, SocketTypes
  <2>4. CASE Failed(s, FALSE) /\ UNCHANGED engine
    BY <1>1, <1>2, <2>4, FailedStep DEF SocketTypes
  <2> QED  BY <1>3, <2>2, <2>3, <2>4 DEF StartAnalysis
<1>4. CASE StopSearch(s)
  <2>1. engine' \in [Sockets -> Engines]
    BY <1>4, CommandType, FrameTypes DEF StopSearch, SocketTypes
  <2>2. UNCHANGED <<s2c, session>>
    BY <1>4 DEF StopSearch
  <2> QED  BY <1>1, <1>2, <2>1, <2>2 DEF SocketTypes, Waits
<1>5. CASE ClientCloses(s)
  <2>1. session' \in [Sockets -> Sessions] /\ Waits'
    BY <1>5, GotoStep DEF ClientCloses
  <2>2. UNCHANGED <<s2c, engine>>
    BY <1>5 DEF ClientCloses
  <2> QED  BY <1>1, <1>2, <2>1, <2>2 DEF SocketTypes
<1> QED  BY <1>3, <1>4, <1>5 DEF Handle

LEMMA WaitingTypes ==
  ASSUME SocketAssumption, SocketTypes, Waits, NEW s \in Sockets, Waiting(s)
  PROVE  SocketTypes' /\ Waits'
<1>1. engine[s] \in Engines /\ session[s] \in Sessions
  BY DEF SocketTypes
<1>2. CASE Drain(s)
  <2>1. engine' \in [Sockets -> Engines]
    <3>1. CASE ReadLine(s)
      BY <1>2, <3>1, ReadLineType DEF Drain
    <3>2. CASE engine' = [engine EXCEPT ![s].out = Tail(@),
                                        ![s].stdin = Append(@, [type |-> "isready"])]
      <4>1. Tail(engine[s].out) \in Seq(Output)
            /\ Append(engine[s].stdin, [type |-> "isready"]) \in Seq(Commands)
        BY <1>1, <1>2, QueueTypes, FrameTypes DEF Drain, Unread
      <4>2. [engine[s] EXCEPT !.out = Tail(@), !.stdin = Append(@, [type |-> "isready"])]
              \in Engines
        BY <1>1, <4>1 DEF Engines
      <4> QED  BY <3>2, <4>2 DEF SocketTypes
    <3> QED  BY <1>2, <3>1, <3>2 DEF Drain
  <2>2. /\ s2c' \in [Sockets -> Seq(ServerFrames)]
        /\ session' \in [Sockets -> Sessions] /\ Waits'
    <3>1. CASE UNCHANGED session /\ Silent
      BY <3>1 DEF Silent, SocketTypes, Waits
    <3>2. CASE Goto(s, "ready") /\ Silent
      BY <1>2, <3>2, GotoStep DEF Drain, Waits, Silent, SocketTypes
    <3>3. CASE Failed(s, FALSE)
      BY <3>3, FailedStep
    <3> QED  BY <1>2, <3>1, <3>2, <3>3 DEF Drain
  <2> QED  BY <1>2, <2>1, <2>2 DEF Drain, SocketTypes
<1>3. CASE AwaitReady(s)
  <2>1. CASE Go(s)
    <3> DEFINE go == [type |-> "go", pos |-> session[s].next]
               x == [session[s] EXCEPT !.pc = "loop", !.analysing = TRUE,
                       !.watchdog = "armed", !.fen = session[s].next, !.next = None]
    <3>1. session[s].next \in Positions
      BY <1>1, <1>3 DEF AwaitReady, Waits, Sessions
    <3>2. Tail(engine[s].out) \in Seq(Output) /\ Append(engine[s].stdin, go) \in Seq(Commands)
      BY <1>1, <1>3, <3>1, QueueTypes, FrameTypes DEF AwaitReady, Unread
    <3>3. [engine[s] EXCEPT !.out = Tail(@), !.stdin = Append(@, go)] \in Engines
      BY <1>1, <3>2 DEF Engines
    <3>4. engine' \in [Sockets -> Engines]
      BY <2>1, <3>3 DEF Go, SocketTypes
    <3>5. x \in Sessions /\ x.pc = "loop"
      BY <1>1, <3>1 DEF Sessions
    <3>6. session' = [session EXCEPT ![s] = x]
      BY <2>1 DEF Go
    <3>7. session' \in [Sockets -> Sessions] /\ Waits'
      <4> HIDE DEF x
      <4> QED  BY <3>5, <3>6, SessionStep
    <3> QED  BY <1>3, <2>1, <3>4, <3>7 DEF AwaitReady, Go, Silent, SocketTypes
  <2>2. CASE ReadLine(s) /\ UNCHANGED session /\ Silent
    BY <1>3, <2>2, ReadLineType DEF AwaitReady, Silent, SocketTypes, Waits
  <2>3. CASE ReadLine(s) /\ Failed(s, FALSE)
    BY <1>3, <2>3, ReadLineType, FailedStep DEF AwaitReady, SocketTypes
  <2> QED  BY <1>3, <2>1, <2>2, <2>3 DEF AwaitReady
<1>4. CASE WaitTimesOut(s) \/ WaitEnds(s)
  <2>1. \E late \in BOOLEAN : Failed(s, late)
    BY <1>4 DEF WaitTimesOut, WaitEnds
  <2> QED  BY <1>4, <2>1, FailedStep DEF WaitTimesOut, WaitEnds, SocketTypes
<1> QED  BY <1>2, <1>3, <1>4 DEF Waiting

LEMMA RelayTypes ==
  ASSUME SocketAssumption, SocketTypes, Waits, NEW s \in Sockets, Relay(s) \/ Watch(s)
  PROVE  SocketTypes' /\ Waits'
<1>1. engine[s] \in Engines /\ session[s] \in Sessions
  BY DEF SocketTypes
<1>2. CASE Relay(s)
  <2>1. engine' \in [Sockets -> Engines]
    BY <1>2, ReadLineType DEF Relay
  <2>2. Line(s).pos \in Positions \cup {None} /\ session[s].fen \in Positions \cup {None}
    <3>1. Head(engine[s].out) \in Output
      BY <1>1, <1>2, QueueTypes DEF Relay, Unread
    <3> QED  BY <1>1, <3>1 DEF Line, Output, Sessions
  <2>3. /\ s2c' \in [Sockets -> Seq(ServerFrames)]
        /\ session' \in [Sockets -> Sessions] /\ Waits'
    <3>1. CASE Send(s, Info(Line(s).pos, session[s].fen)) /\ UNCHANGED session
      BY <2>2, <3>1, SendType, FrameTypes DEF SocketTypes, Waits
    <3>2. CASE /\ Send(s, BestMove(Line(s).pos))
               /\ session' = [session EXCEPT ![s].analysing = FALSE, ![s].watchdog = "off"]
               /\ session[s].pc = "loop"
      <4> DEFINE x == [session[s] EXCEPT !.analysing = FALSE, !.watchdog = "off"]
      <4>1. x \in Sessions /\ x.pc = "loop"
        BY <1>1, <3>2 DEF Sessions
      <4>2. session' = [session EXCEPT ![s] = x]
        BY <3>2
      <4>3. session' \in [Sockets -> Sessions] /\ Waits'
        <5> HIDE DEF x
        <5> QED  BY <4>1, <4>2, SessionStep
      <4> QED  BY <2>2, <3>2, <4>3, SendType, FrameTypes
    <3>3. CASE UNCHANGED <<s2c, session>>
      BY <3>3 DEF SocketTypes, Waits
    <3>4. CASE Goto(s, "quit") /\ Silent
      BY <3>4, GotoStep DEF Silent, SocketTypes
    <3> QED  BY <1>2, <3>1, <3>2, <3>3, <3>4 DEF Relay, Watching
  <2> QED  BY <1>2, <2>1, <2>3 DEF Relay, SocketTypes
<1>3. CASE EngineGone(s) \/ WatchdogEnds(s)
  <2>1. /\ Send(s, Word("error")) /\ Goto(s, "quit") /\ UNCHANGED <<link, c2s, engine>>
    BY <1>3 DEF EngineGone, WatchdogEnds
  <2> QED  BY <2>1, SendType, FrameTypes, GotoStep DEF SocketTypes
<1>4. CASE WatchdogStops(s)
  <2> DEFINE x == [session[s] EXCEPT !.watchdog = "stopping"]
  <2>1. x \in Sessions /\ x.pc = "loop"
    BY <1>1, <1>4 DEF Sessions, WatchdogStops, Watching
  <2>2. session' = [session EXCEPT ![s] = x]
    BY <1>4 DEF WatchdogStops
  <2>3. session' \in [Sockets -> Sessions] /\ Waits'
    <3> HIDE DEF x
    <3> QED  BY <2>1, <2>2, SessionStep
  <2>4. engine' \in [Sockets -> Engines]
    BY <1>4, CommandType, FrameTypes DEF WatchdogStops, SocketTypes
  <2> QED  BY <1>4, <2>3, <2>4 DEF WatchdogStops, SocketTypes
<1> QED  BY <1>2, <1>3, <1>4 DEF Watch

LEMMA ServeTypes ==
  ASSUME SocketAssumption, SocketTypes, Waits, NEW s \in Sockets, Serve(s)
  PROVE  SocketTypes' /\ Waits'
BY StartTypes, HandleTypes, WaitingTypes, RelayTypes DEF Serve

\* The steps of an engine.
LEMMA EndSearchType ==
  ASSUME SocketAssumption, NEW e \in Engines
  PROVE  EndSearch(e) \in Engines
<1>1. CASE e.search = None  BY <1>1 DEF EndSearch
<1>2. CASE e.search # None
  <2> DEFINE m == [type |-> "bestmove", pos |-> e.search, plan |-> None]
  <2>1. m \in Output  BY EngineFields, FrameTypes
  <2>2. e.out \o <<m>> \in Seq(Output)
    <3> HIDE DEF m
    <3> QED  BY <2>1, QueueTypes
  <2>3. EndSearch(e) = [e EXCEPT !.search = None, !.infos = 0, !.out = e.out \o <<m>>]
    BY <1>2 DEF EndSearch, Says, Engines
  <2>4. 0 \in 0 .. MaxInfos
    BY DEF SocketAssumption
  <2>5. \A q \in Seq(Output) :
          [e EXCEPT !.search = None, !.infos = 0, !.out = q] \in Engines
    BY <2>4 DEF Engines
  <2> QED
    <3> HIDE DEF m
    <3> QED  BY <2>2, <2>3, <2>5
<1> QED  BY <1>1, <1>2

LEMMA UciTypes ==
  ASSUME SocketAssumption, SocketTypes, Waits, NEW s \in Sockets, Uci(s)
  PROVE  SocketTypes' /\ Waits'
<1> DEFINE e == engine[s]
<1>1. e \in Engines
  BY DEF SocketTypes
<1>2. UNCHANGED <<link, c2s, s2c, session>>
  BY DEF Uci, TakeCommand, PrintInfo, Finish, Exit
<1>3. \E x \in Engines : engine' = [engine EXCEPT ![s] = x]
  <2>1. CASE TakeCommand(s)
    <3> DEFINE read == [e EXCEPT !.stdin = Tail(@)]
    <3>2. Tail(e.stdin) \in Seq(Commands) /\ Head(e.stdin) \in Commands
      BY <1>1, <2>1, QueueTypes DEF TakeCommand
    <3>3. read \in Engines
      BY <1>1, <3>2, EngineFields
    <3>4. CASE Head(e.stdin).type = "stop"
      <4>1. engine' = [engine EXCEPT ![s] = EndSearch(read)]
        BY <2>1, <3>4 DEF TakeCommand
      <4> HIDE DEF read
      <4> QED  BY <3>3, <4>1, EndSearchType
    <3>5. CASE Head(e.stdin).type = "isready"
      <4> DEFINE m == [type |-> "readyok", pos |-> None, plan |-> None]
                 x == [read EXCEPT !.out = read.out \o <<m>>]
      <4>1. engine' = [engine EXCEPT ![s] = x]
        BY <2>1, <3>5 DEF TakeCommand, Says
      <4>2. x \in Engines
        <5>1. m \in Output  BY FrameTypes
        <5> HIDE DEF m, read
        <5>3. read.out \o <<m>> \in Seq(Output)  BY <3>3, <5>1, QueueTypes
        <5> QED  BY <3>3, <5>3, EngineFields
      <4> QED  BY <4>1, <4>2
    <3>6. CASE Head(e.stdin).type = "go"
      <4>1. Head(e.stdin).pos \in Positions
        BY <3>2, <3>6 DEF Commands
      <4>2. engine' = [engine EXCEPT ![s] = [read EXCEPT !.search = Head(e.stdin).pos]]
        BY <2>1, <3>6 DEF TakeCommand
      <4>3. [read EXCEPT !.search = Head(e.stdin).pos] \in Engines
        <5> HIDE DEF read
        <5> QED  BY <3>3, <4>1, EngineFields
      <4> QED  BY <4>2, <4>3
    <3> QED  BY <3>2, <3>4, <3>5, <3>6 DEF Commands
  <2>2. CASE PrintInfo(s)
    <3> DEFINE m == [type |-> "info", pos |-> e.search, plan |-> None]
               x == [e EXCEPT !.infos = @ + 1, !.out = e.out \o <<m>>]
    <3>1. engine' = [engine EXCEPT ![s] = x]
      BY <1>1, <2>2 DEF PrintInfo, Says, Engines
    <3>2. m \in Output
      BY <1>1, EngineFields, FrameTypes
    <3>3. e.out \o <<m>> \in Seq(Output)
      <4> HIDE DEF m
      <4> QED  BY <1>1, <3>2, QueueTypes
    <3>4. e.infos + 1 \in 0 .. MaxInfos
      <4>1. e.infos \in 0 .. MaxInfos  BY <1>1 DEF Engines
      <4>2. e.infos < MaxInfos  BY <2>2 DEF PrintInfo
      <4> HIDE DEF e
      <4> QED  BY <4>1, <4>2 DEF SocketAssumption
    <3>5. x \in Engines
      <4> HIDE DEF m
      <4> QED  BY <1>1, <3>3, <3>4 DEF Engines
    <3> QED  BY <3>1, <3>5
  <2>3. CASE Finish(s)
    BY <1>1, <2>3, EndSearchType DEF Finish
  <2>4. CASE Exit(s)
    <3>1. [NoEngine EXCEPT !.out = e.out] \in Engines
      BY <1>1, NoEngineType, EngineFields
    <3> QED  BY <2>4, <3>1 DEF Exit
  <2> QED  BY <2>1, <2>2, <2>3, <2>4 DEF Uci
<1> QED  BY <1>2, <1>3 DEF SocketTypes, Waits

-------------------------------------------------------------------------------
(***************************************************************************)
(* The client's steps.                                                     *)
(***************************************************************************)
ClientTypes == store \in Stores /\ panel \in Panels /\ asks \in 0 .. MaxAsks
Asked ==
  /\ store.pending => store.current # None
  /\ panel.mounted => panel.fen # None

LEMMA SentType ==
  ASSUME SocketTypes, NEW st \in Stores, st.socket # None, NEW m \in ClientFrames, Sent(st, m)
  PROVE  c2s' \in [Sockets -> Seq(ClientFrames)]
<1>1. st.socket \in Sockets
  BY DEF Stores
<1>2. Append(c2s[st.socket], m) \in Seq(ClientFrames)
  BY <1>1 DEF SocketTypes
<1> QED  BY <1>1, <1>2 DEF Sent, SocketTypes

LEMMA SendAnalyseType ==
  ASSUME SocketTypes, NEW st \in Stores, st.socket # None, st.current # None, SendAnalyse(st)
  PROVE  /\ c2s' \in [Sockets -> Seq(ClientFrames)]
         /\ store' \in Stores /\ store'.current # None /\ store'.pending = st.pending
<1>1. st.current \in Positions
  BY DEF Stores
<1>2. c2s' \in [Sockets -> Seq(ClientFrames)]
  BY <1>1, SentType, FrameTypes DEF SendAnalyse
<1>3. store' = [st EXCEPT !.status = "analysing"]
  BY DEF SendAnalyse
<1> QED  BY <1>2, <1>3 DEF Stores

LEMMA RequestType ==
  ASSUME SocketAssumption, SocketTypes, NEW st \in Stores, NEW p \in Positions, Request(st, p)
  PROVE  /\ c2s' \in [Sockets -> Seq(ClientFrames)]
         /\ store' \in Stores /\ store'.current # None
<1> DEFINE new == [st EXCEPT !.current = p]
<1>1. new \in Stores /\ new.current # None
  BY DEF Stores, SocketAssumption
<1>2. CASE CanSend(st, link)
  <2>1. SendAnalyse(new) /\ new.socket # None
    BY <1>2 DEF Request, CanSend, Stores
  <2> HIDE DEF new
  <2> QED  BY <1>1, <2>1, SendAnalyseType
<1>3. CASE ~CanSend(st, link)
  <2>1. store' = [new EXCEPT !.pending = TRUE] /\ UNCHANGED c2s
    BY <1>3 DEF Request
  <2> HIDE DEF new
  <2> QED  BY <1>1, <2>1 DEF Stores, SocketTypes
<1> QED  BY <1>2, <1>3

LEMMA PageTypes ==
  ASSUME SocketAssumption, LiveAssumption, SocketTypes, ClientTypes, Asked, Waits,
         (\E p \in Positions : Mount(p)) \/ Unmount
  PROVE  SocketTypes' /\ ClientTypes' /\ Asked' /\ Waits'
<1>1. ASSUME NEW p \in Positions, Mount(p)
      PROVE  SocketTypes' /\ ClientTypes' /\ Asked' /\ Waits'
  <2>1. UNCHANGED <<c2s, s2c, session, engine, asks>>
    BY <1>1 DEF Mount
  <2>2. PICK s \in Sockets :
          /\ link' = [link EXCEPT ![s] = "connecting"]
          /\ store' = [store EXCEPT !.status = "connecting", !.socket = s, !.error = FALSE]
    BY <1>1 DEF Mount
  <2>3. panel' \in Panels /\ panel'.fen # None
    BY <1>1 DEF Mount, Panels, SocketAssumption
  <2>4. store' \in Stores /\ store'.pending = store.pending /\ store'.current = store.current
    BY <2>2 DEF ClientTypes, Stores
  <2> QED  BY <2>1, <2>2, <2>3, <2>4 DEF SocketTypes, ClientTypes, Asked, Waits
<1>2. CASE Unmount
  <2>1. UNCHANGED <<s2c, session, engine, asks>>
    BY <1>2 DEF Unmount
  <2>2. panel' \in Panels /\ ~panel'.mounted
    BY <1>2 DEF Unmount, Panels, ClientTypes
  <2>3. store' \in Stores /\ ~store'.pending
    BY <1>2 DEF Unmount, Stores, ClientTypes
  <2>4. link' \in [Sockets -> {"none", "connecting", "open", "closing", "closed"}]
    BY <1>2 DEF Unmount, SocketTypes
  <2>5. c2s' \in [Sockets -> Seq(ClientFrames)]
    <3>1. CASE UNCHANGED c2s
      BY <3>1 DEF SocketTypes
    <3>2. CASE c2s' = [c2s EXCEPT ![store.socket] = @ \o <<Stop, Close>>] /\ store.socket # None
      <4>1. store.socket \in Sockets
        BY <3>2 DEF ClientTypes, Stores
      <4>2. <<Stop, Close>> \in Seq(ClientFrames)
        BY FrameTypes
      <4>3. c2s[store.socket] \o <<Stop, Close>> \in Seq(ClientFrames)
        BY <4>1, <4>2 DEF SocketTypes
      <4> QED  BY <3>2, <4>3 DEF SocketTypes
    <3>3. \/ UNCHANGED c2s
          \/ /\ c2s' = [c2s EXCEPT ![store.socket] = @ \o <<Stop, Close>>]
             /\ store.socket # None
      BY <1>2 DEF Unmount, SocketTypes
    <3> QED  BY <3>1, <3>2, <3>3
  <2> QED  BY <2>1, <2>2, <2>3, <2>4, <2>5 DEF SocketTypes, ClientTypes, Asked, Waits
<1> QED  BY <1>1, <1>2

LEMMA AskTypes ==
  ASSUME SocketAssumption, LiveAssumption, SocketTypes, ClientTypes, Asked, Waits,
         (\E p \in Positions : Show(p)) \/ Toggle \/ Reconfigure
  PROVE  SocketTypes' /\ ClientTypes' /\ Asked' /\ Waits'
<1>1. UNCHANGED <<link, s2c, session, engine>> /\ panel.mounted /\ asks' \in 0 .. MaxAsks
  BY DEF Show, Toggle, Reconfigure, Ask, LiveAssumption, ClientTypes
<1>2. ASSUME NEW p \in Positions, Show(p)
      PROVE  SocketTypes' /\ ClientTypes' /\ Asked' /\ Waits'
  <2>1. panel' \in Panels /\ panel'.fen # None
    BY <1>2 DEF Show, Panels, ClientTypes, SocketAssumption
  <2>2. /\ c2s' \in [Sockets -> Seq(ClientFrames)] /\ store' \in Stores
        /\ store'.pending => store'.current # None
    BY <1>2, RequestType DEF Show, ClientTypes, SocketTypes, Asked
  <2> QED  BY <1>1, <2>1, <2>2 DEF SocketTypes, ClientTypes, Asked, Waits
<1>3. CASE Toggle
  <2>1. panel' \in Panels /\ panel'.fen # None /\ panel.fen \in Positions
    BY <1>1, <1>3 DEF Toggle, Panels, ClientTypes, Asked
  <2>2. /\ c2s' \in [Sockets -> Seq(ClientFrames)] /\ store' \in Stores
        /\ store'.pending => store'.current # None
    <3>1. CASE Request(store, panel.fen)
      BY <2>1, <3>1, RequestType DEF ClientTypes
    <3>2. CASE UNCHANGED store /\ (UNCHANGED c2s \/ (CanSend(store, link) /\ Sent(store, Stop)))
      BY <3>2, SentType, FrameTypes DEF CanSend, ClientTypes, SocketTypes, Asked
    <3> QED  BY <1>3, <3>1, <3>2 DEF Toggle
  <2> QED  BY <1>1, <2>1, <2>2 DEF SocketTypes, ClientTypes, Asked, Waits
<1>4. CASE Reconfigure
  <2>1. /\ c2s' \in [Sockets -> Seq(ClientFrames)] /\ store' \in Stores
        /\ store'.current # None /\ UNCHANGED panel
    BY <1>4, SendAnalyseType DEF Reconfigure, CanSend, ClientTypes
  <2> QED  BY <1>1, <2>1 DEF SocketTypes, ClientTypes, Asked, Waits
<1> QED  BY <1>2, <1>3, <1>4

LEMMA EventTypes ==
  ASSUME SocketAssumption, LiveAssumption, SocketTypes, ClientTypes, Asked, Waits,
         NEW s \in Sockets, Open(s) \/ Message(s) \/ Closed(s)
  PROVE  SocketTypes' /\ ClientTypes' /\ Asked' /\ Waits'
<1>1. CASE Open(s)
  <2>1. /\ link' \in [Sockets -> {"none", "connecting", "open", "closing", "closed"}]
        /\ UNCHANGED <<s2c, engine, panel, asks>>
    BY <1>1 DEF Open, Accept, SocketTypes
  <2>2. session' \in [Sockets -> Sessions] /\ Waits'
    BY <1>1, GotoStep DEF Open, Accept
  <2>3. /\ c2s' \in [Sockets -> Seq(ClientFrames)] /\ store' \in Stores
        /\ ~store'.pending
    <3> DEFINE st == [store EXCEPT !.pending = FALSE]
    <3>1. st \in Stores /\ ~st.pending /\ st.current = store.current /\ st.socket = store.socket
      BY DEF ClientTypes, Stores
    <3>2. CASE store.pending /\ CanSend(store, link') /\ SendAnalyse(st)
      <4>1. st.current # None /\ st.socket # None
        BY <3>1, <3>2 DEF Asked, CanSend
      <4> HIDE DEF st
      <4> QED  BY <3>1, <3>2, <4>1, SendAnalyseType
    <3>3. CASE store' = st /\ UNCHANGED c2s
      BY <3>1, <3>3 DEF SocketTypes
    <3> QED  BY <1>1, <3>2, <3>3 DEF Open
  <2> QED  BY <2>1, <2>2, <2>3 DEF SocketTypes, ClientTypes, Asked
<1>2. CASE Message(s)
  <2>1. UNCHANGED <<link, session, engine, panel, asks>>
    BY <1>2 DEF Message
  <2>2. s2c' \in [Sockets -> Seq(ServerFrames)] /\ Head(s2c[s]) \in ServerFrames
    <3>1. s2c[s] \in Seq(ServerFrames) /\ s2c[s] # << >> /\ s2c' = [s2c EXCEPT ![s] = Tail(@)]
      BY <1>2 DEF Message, SocketTypes
    <3>2. Tail(s2c[s]) \in Seq(ServerFrames) /\ Head(s2c[s]) \in ServerFrames
      BY <3>1
    <3> QED  BY <3>1, <3>2 DEF SocketTypes
  <2>3. /\ c2s' \in [Sockets -> Seq(ClientFrames)] /\ store' \in Stores
        /\ store'.pending => store'.current # None
    <3>1. CASE Head(s2c[s]).type = "ready"
      <4> DEFINE st == [store EXCEPT !.status = IF @ = "connecting" THEN "ready" ELSE @]
      <4>1. st \in Stores /\ st.pending = store.pending /\ st.current = store.current
        BY DEF ClientTypes, Stores
      <4>2. CASE Request(st, panel.fen) /\ panel.mounted
        <5>1. panel.fen \in Positions
          BY <4>2 DEF ClientTypes, Panels, Asked
        <5> HIDE DEF st
        <5> QED  BY <4>1, <4>2, <5>1, RequestType
      <4>3. CASE store' = st /\ UNCHANGED c2s
        BY <4>1, <4>3 DEF SocketTypes, Asked
      <4> QED  BY <1>2, <3>1, <4>2, <4>3 DEF Message
    <3>2. CASE Head(s2c[s]).type = "info"
      <4>1. UNCHANGED <<store, c2s>>
        BY <1>2, <3>2 DEF Message
      <4> QED  BY <4>1 DEF SocketTypes, ClientTypes, Asked
    <3>3. CASE Head(s2c[s]).type = "bestmove"
      <4>1. /\ store' = [store EXCEPT !.status = IF @ = "analysing" THEN "ready" ELSE @]
            /\ UNCHANGED c2s
        BY <1>2, <3>3 DEF Message
      <4> QED  BY <4>1 DEF SocketTypes, ClientTypes, Asked, Stores
    <3>4. CASE Head(s2c[s]).type = "error"
      <4>1. store' = [store EXCEPT !.error = TRUE] /\ UNCHANGED c2s
        BY <1>2, <3>4 DEF Message
      <4> QED  BY <4>1 DEF SocketTypes, ClientTypes, Asked, Stores
    <3> QED  BY <2>2, <3>1, <3>2, <3>3, <3>4 DEF ServerFrames
  <2> QED  BY <2>1, <2>2, <2>3 DEF SocketTypes, ClientTypes, Asked, Waits
<1>3. CASE Closed(s)
  <2>1. /\ link' = [link EXCEPT ![s] = "closed"]
        /\ UNCHANGED <<c2s, s2c, session, engine, panel, asks>>
    BY <1>3 DEF Closed
  <2>2. store' \in Stores /\ store'.pending = store.pending /\ store'.current = store.current
    BY <1>3 DEF Closed, ClientTypes, Stores
  <2> QED  BY <2>1, <2>2 DEF SocketTypes, ClientTypes, Asked, Waits
<1> QED  BY <1>1, <1>2, <1>3

TInv == SocketTypes /\ ClientTypes /\ Asked /\ Waits

LEMMA InitTypes ==
  ASSUME SocketAssumption, LiveAssumption, Init
  PROVE  TInv
<1>1. NoEngine \in Engines /\ NoSession \in Sessions
  BY NoEngineType DEF NoSession, Sessions
<1>2. SocketTypes /\ Waits
  BY <1>1 DEF Init, SocketInit, SocketTypes, Waits, NoSession
<1>3. ClientTypes /\ Asked
  BY DEF Init, ClientTypes, Asked, Stores, Panels, LiveAssumption
<1> QED  BY <1>2, <1>3 DEF TInv

LEMMA NextTypes ==
  ASSUME SocketAssumption, LiveAssumption, TInv, [Next]_vars
  PROVE  TInv'
<1> USE DEF TInv
<1>1. CASE User
  BY <1>1, PageTypes, AskTypes DEF User
<1>2. ASSUME NEW s \in Sockets, Open(s) \/ Message(s) \/ Closed(s)
      PROVE  TInv'
  BY <1>2, EventTypes
<1>3. ASSUME NEW s \in Sockets, Server(s) \/ (Uci(s) /\ UNCHANGED clientVars)
      PROVE  TInv'
  <2>1. SocketTypes' /\ Waits'
    BY <1>3, ServeTypes, UciTypes DEF Server
  <2>2. UNCHANGED clientVars
    BY <1>3 DEF Server
  <2> QED  BY <2>1, <2>2 DEF ClientTypes, Asked, clientVars
<1>4. CASE UNCHANGED vars
  BY <1>4 DEF vars, SocketTypes, ClientTypes, Asked, Waits
<1> QED  BY <1>1, <1>2, <1>3, <1>4 DEF Next

\* The types hold: the panel always shows a position, a request kept for the
\* socket to open has one, and a session that waits for its engine knows the
\* position it will search (engine.ts, engine_ws.rs).
THEOREM TypeCorrect == Spec => []TypeOK
<1>1. Init => TInv
  BY SocketAssumption, LiveAssumption, InitTypes
<1>2. TInv /\ [Next]_vars => TInv'
  BY SocketAssumption, LiveAssumption, NextTypes
<1>3. TInv => TypeOK
  BY DEF TInv, ClientTypes, TypeOK
<1> QED  BY <1>1, <1>2, <1>3, PTL DEF Spec

-------------------------------------------------------------------------------
(***************************************************************************)
(* What a session's state says of its engine.                              *)
(***************************************************************************)
StopsOnly(q) == \A i \in DOMAIN q : q[i] = Stop
GoFor(p) == [type |-> "go", pos |-> p]
IsReady == [type |-> "isready"]
ReadyOk == [type |-> "readyok", pos |-> None, plan |-> None]

\* An engine that has nothing to do and has said nothing.
Quiet(e) == e.search = None /\ e.out = << >> /\ StopsOnly(e.stdin)

\* An engine that is about to search p, searches it, or has found a move.
Due(e, p) ==
  /\ e.search = None /\ e.out = << >>
  /\ e.stdin # << >> /\ Head(e.stdin) = GoFor(p) /\ StopsOnly(Tail(e.stdin))
Searches(e, p) ==
  /\ e.search \in {None, p} /\ StopsOnly(e.stdin)
  /\ \A i \in DOMAIN e.out :
       /\ e.out[i].type # "readyok"
       /\ e.out[i].type = "bestmove" => i = Len(e.out) /\ e.search = None
Running(e, p) == Due(e, p) \/ Searches(e, p)

\* An engine that will answer isready, or has answered it.
Asking(q) == q # << >> /\ \A i \in DOMAIN q : q[i] = IF i = Len(q) THEN IsReady ELSE Stop
Configured(e) ==
  /\ e.search = None
  /\ \/ e.out = << >> /\ Asking(e.stdin)
     \/ e.out = <<ReadyOk>> /\ e.stdin = << >>

InfosOf(q, p) == \A i \in DOMAIN q : q[i].type = "info" => q[i].pos = p
Traced(q) == \A i \in DOMAIN q : q[i].type = "info" => q[i].plan = q[i].pos

Inside(ss) == ss.pc = "drain" \/ (ss.pc = "loop" /\ ss.analysing)
Trusted(ss, e) ==
  /\ ss.pc = "loop" /\ ~ss.analysing /\ e.alive => Quiet(e)
  /\ Inside(ss) => InfosOf(e.out, ss.fen) /\ (e.alive => Running(e, ss.fen))
  /\ ss.pc = "ready" /\ e.alive => Configured(e)
Stage(l, ss, e) ==
  /\ l \in {"none", "connecting"} => ss.pc = "none"
  /\ ss.pc \in {"none", "spawn", "over"} => e = NoEngine
  /\ ss.pc \in {"none", "spawn"} => ~ss.analysing
  /\ ss.pc = "drain" => ss.analysing

\* The guarantee is lost when a wait runs out of time: a line of the search
\* before may then be taken for one of the next.
Kept(s) == session[s].late \/ (Trusted(session[s], engine[s]) /\ Traced(s2c[s]))
Faithful(s) == Stage(link[s], session[s], engine[s]) /\ Kept(s)

(***************************************************************************)
(* Lemmas about the engine.                                                *)
(***************************************************************************)
LEMMA SearchesTail ==
  ASSUME NEW e \in Engines, NEW p, Searches(e, p), e.out # << >>
  PROVE  Searches([e EXCEPT !.out = Tail(@)], p)
<1>1. e.out \in Seq(Output)
  BY EngineFields
<1> DEFINE q == Tail(e.out)
           x == [e EXCEPT !.out = q]
<1>2. Len(q) = Len(e.out) - 1 /\ \A i \in DOMAIN q : i + 1 \in DOMAIN e.out /\ q[i] = e.out[i + 1]
  BY <1>1
<1>3. x.search = e.search /\ x.stdin = e.stdin /\ x.out = q
  BY DEF Engines
<1>4. Len(e.out) \in Nat /\ DOMAIN q \subseteq Nat
  BY <1>1, <1>2
<1>5. ASSUME NEW i \in DOMAIN q
      PROVE  q[i].type # "readyok" /\ (q[i].type = "bestmove" => i = Len(q) /\ e.search = None)
  <2>1. i + 1 \in DOMAIN e.out /\ q[i] = e.out[i + 1] /\ i \in Nat
    BY <1>2, <1>4, <1>5
  <2> QED  BY <1>2, <1>4, <2>1 DEF Searches
<1>6. Searches(x, p)
  <2> HIDE DEF q
  <2> QED  BY <1>3, <1>5 DEF Searches
<1> QED  BY <1>6

LEMMA InfosTail ==
  ASSUME NEW q \in Seq(Output), NEW p, InfosOf(q, p), q # << >>
  PROVE  InfosOf(Tail(q), p)
<1>1. \A i \in DOMAIN Tail(q) : i + 1 \in DOMAIN q /\ Tail(q)[i] = q[i + 1]
  OBVIOUS
<1> QED  BY <1>1 DEF InfosOf

LEMMA InfosMore ==
  ASSUME NEW q \in Seq(Output), NEW p, NEW m \in Output, InfosOf(q, p),
         m.type = "info" => m.pos = p
  PROVE  InfosOf(q \o <<m>>, p)
<1>1. \A i \in DOMAIN (q \o <<m>>) :
        (i \in DOMAIN q /\ (q \o <<m>>)[i] = q[i]) \/ (q \o <<m>>)[i] = m
  OBVIOUS
<1> QED  BY <1>1 DEF InfosOf

LEMMA StopsMore ==
  ASSUME NEW q \in Seq(Commands), StopsOnly(q)
  PROVE  /\ StopsOnly(Append(q, Stop))
         /\ Asking(Append(q, IsReady))
         /\ q # << >> => Head(q) = Stop /\ StopsOnly(Tail(q))
<1>1. /\ DOMAIN Append(q, Stop) = 1 .. Len(q) + 1 /\ Append(q, Stop)[Len(q) + 1] = Stop
      /\ \A i \in 1 .. Len(q) : Append(q, Stop)[i] = q[i]
  OBVIOUS
<1>2. /\ DOMAIN Append(q, IsReady) = 1 .. Len(q) + 1
      /\ Append(q, IsReady)[Len(q) + 1] = IsReady
      /\ \A i \in 1 .. Len(q) : Append(q, IsReady)[i] = q[i]
      /\ Append(q, IsReady) # << >> /\ Len(Append(q, IsReady)) = Len(q) + 1
  OBVIOUS
<1>3. DOMAIN q = 1 .. Len(q) /\ Len(q) \in Nat
  OBVIOUS
<1>4. StopsOnly(Append(q, Stop))
  BY <1>1, <1>3 DEF StopsOnly
<1>5. Asking(Append(q, IsReady))
  BY <1>2, <1>3 DEF StopsOnly, Asking
<1>6. ASSUME q # << >>
      PROVE  Head(q) = Stop /\ StopsOnly(Tail(q))
  <2>1. 1 \in DOMAIN q /\ Head(q) = q[1]
    BY <1>6
  <2>2. \A i \in DOMAIN Tail(q) : i + 1 \in DOMAIN q /\ Tail(q)[i] = q[i + 1]
    BY <1>6
  <2> QED  BY <2>1, <2>2 DEF StopsOnly
<1> QED  BY <1>4, <1>5, <1>6

LEMMA AskingHead ==
  ASSUME NEW q \in Seq(Commands), Asking(q)
  PROVE  \/ Head(q) = Stop /\ Asking(Tail(q))
         \/ Head(q) = IsReady /\ Tail(q) = << >>
<1>1. q # << >> /\ 1 \in DOMAIN q /\ Head(q) = q[1] /\ DOMAIN q = 1 .. Len(q) /\ Len(q) \in Nat \ {0}
  BY DEF Asking
<1>2. CASE Len(q) = 1
  <2>1. Tail(q) = << >>
    <3>1. Tail(q) \in Seq(Commands) /\ Len(Tail(q)) = 0
      BY <1>1, <1>2
    <3> QED  BY <3>1, EmptySeq
  <2>2. q[1] = IsReady
    BY <1>1, <1>2 DEF Asking
  <2> QED  BY <1>1, <2>1, <2>2
<1>3. CASE Len(q) > 1
  <2>1. /\ Tail(q) # << >> /\ Len(Tail(q)) = Len(q) - 1 /\ DOMAIN Tail(q) = 1 .. Len(q) - 1
        /\ \A i \in 1 .. Len(q) - 1 : Tail(q)[i] = q[i + 1]
    BY <1>1, <1>3
  <2>2. ASSUME NEW i \in 1 .. Len(q) - 1
        PROVE  Tail(q)[i] = IF i = Len(Tail(q)) THEN IsReady ELSE Stop
    <3>1. i + 1 \in DOMAIN q /\ Tail(q)[i] = q[i + 1]
      BY <1>1, <2>1
    <3>2. q[i + 1] = IF i + 1 = Len(q) THEN IsReady ELSE Stop
      BY <3>1 DEF Asking
    <3>3. i + 1 = Len(q) <=> i = Len(Tail(q))
      BY <1>1, <2>1
    <3> QED  BY <3>1, <3>2, <3>3
  <2>3. Asking(Tail(q))
    BY <2>1, <2>2 DEF Asking
  <2>4. Head(q) = Stop
    BY <1>1, <1>3 DEF Asking
  <2> QED  BY <2>3, <2>4
<1> QED  BY <1>1, <1>2, <1>3

LEMMA RunningStop ==
  ASSUME NEW e \in Engines, NEW p, Running(e, p)
  PROVE  Running([e EXCEPT !.stdin = Append(@, Stop)], p)
<1> DEFINE q == Append(e.stdin, Stop)
           x == [e EXCEPT !.stdin = q]
<1>1. x.search = e.search /\ x.out = e.out /\ x.stdin = q /\ e.stdin \in Seq(Commands)
  BY DEF Engines
<1>2. CASE Searches(e, p)
  <2>1. StopsOnly(q)
    BY <1>1, <1>2, StopsMore DEF Searches
  <2>2. Searches(x, p)
    <3> HIDE DEF q
    <3> QED  BY <1>1, <1>2, <2>1 DEF Searches
  <2> QED  BY <2>2 DEF Running
<1>3. CASE Due(e, p)
  <2>1. e.stdin # << >> /\ Tail(e.stdin) \in Seq(Commands)
    BY <1>1, <1>3 DEF Due
  <2>2. q # << >> /\ Head(q) = Head(e.stdin) /\ Tail(q) = Append(Tail(e.stdin), Stop)
    <3>1. e.stdin \in Seq(Commands) /\ e.stdin # << >> /\ Stop \in Commands
      BY <1>1, <2>1, FrameTypes
    <3> QED  BY <3>1
  <2>3. StopsOnly(Tail(q))
    BY <1>3, <2>1, <2>2, StopsMore DEF Due
  <2>4. Due(x, p)
    <3> HIDE DEF q
    <3> QED  BY <1>1, <1>3, <2>2, <2>3 DEF Due
  <2> QED  BY <2>4 DEF Running
<1> QED  BY <1>2, <1>3 DEF Running

LEMMA EndSearchSearches ==
  ASSUME SocketAssumption, NEW e \in Engines, NEW p, Searches(e, p), InfosOf(e.out, p)
  PROVE  Searches(EndSearch(e), p) /\ InfosOf(EndSearch(e).out, p)
<1>1. CASE e.search = None
  BY <1>1 DEF EndSearch
<1>2. CASE e.search # None
  <2> DEFINE m == [type |-> "bestmove", pos |-> e.search, plan |-> None]
             q == e.out \o <<m>>
             x == [e EXCEPT !.search = None, !.infos = 0, !.out = q]
  <2>1. EndSearch(e) = x
    BY <1>2 DEF EndSearch, Says, Engines
  <2>2. m \in Output /\ e.out \in Seq(Output) /\ m.type = "bestmove"
    BY EngineFields, FrameTypes
  <2>3. x.search = None /\ x.stdin = e.stdin /\ x.out = q
    BY DEF Engines
  <2> HIDE DEF m
  <2>4. /\ Len(q) = Len(e.out) + 1
        /\ \A i \in DOMAIN q : (i \in DOMAIN e.out /\ q[i] = e.out[i]) \/ (i = Len(q) /\ q[i] = m)
    BY <2>2
  <2>5. \A i \in DOMAIN e.out : e.out[i].type # "bestmove" /\ e.out[i].type # "readyok"
    BY <1>2 DEF Searches
  <2>6. InfosOf(q, p)
    BY <2>2, InfosMore
  <2> HIDE DEF q
  <2>7. Searches(x, p)
    BY <2>2, <2>3, <2>4, <2>5 DEF Searches
  <2> QED  BY <2>1, <2>3, <2>6, <2>7
<1> QED  BY <1>1, <1>2

LEMMA PrintSearches ==
  ASSUME NEW e \in Engines, NEW p, Searches(e, p), InfosOf(e.out, p), e.search # None,
         NEW x, x.search = e.search, x.stdin = e.stdin,
         x.out = e.out \o <<[type |-> "info", pos |-> e.search, plan |-> None]>>
  PROVE  Searches(x, p) /\ InfosOf(x.out, p)
<1> DEFINE m == [type |-> "info", pos |-> e.search, plan |-> None]
           q == e.out \o <<m>>
<1>1. m \in Output /\ e.out \in Seq(Output) /\ m.type = "info" /\ m.pos = p
  BY EngineFields, FrameTypes DEF Searches
<1>2. x.out = q
  OBVIOUS
<1> HIDE DEF m
<1>3. \A i \in DOMAIN q : (i \in DOMAIN e.out /\ q[i] = e.out[i]) \/ q[i] = m
  BY <1>1
<1>4. \A i \in DOMAIN e.out : e.out[i].type # "bestmove" /\ e.out[i].type # "readyok"
  BY DEF Searches
<1>5. InfosOf(q, p)
  BY <1>1, InfosMore
<1> HIDE DEF q
<1>6. \A i \in DOMAIN x.out : x.out[i].type # "bestmove" /\ x.out[i].type # "readyok"
  BY <1>1, <1>2, <1>3, <1>4
<1> QED  BY <1>2, <1>5, <1>6 DEF Searches

\* A command read by an engine whose session knows what it does.
Taken(e, x) ==
  LET read == [e EXCEPT !.stdin = Tail(@)]
  IN /\ e.stdin # << >>
     /\ x = CASE Head(e.stdin).type = "stop" -> EndSearch(read)
              [] Head(e.stdin).type = "isready" -> Says(read, <<ReadyOk>>)
              [] Head(e.stdin).type = "go" -> [read EXCEPT !.search = Head(e.stdin).pos]

LEMMA QuietTakes ==
  ASSUME NEW e \in Engines, NEW x, Quiet(e), Taken(e, x)
  PROVE  Quiet(x)
<1> DEFINE read == [e EXCEPT !.stdin = Tail(@)]
<1>1. e.stdin \in Seq(Commands) /\ e.stdin # << >>
  BY DEF Engines, Taken
<1>2. Head(e.stdin) = Stop /\ StopsOnly(Tail(e.stdin))
  BY <1>1, StopsMore DEF Quiet
<1>3. read.search = None /\ read.out = << >> /\ read.stdin = Tail(e.stdin)
  BY DEF Quiet, Engines
<1>4. x = EndSearch(read)
  BY <1>2 DEF Taken, Stop
<1> HIDE DEF read
<1> QED  BY <1>2, <1>3, <1>4 DEF EndSearch, Quiet

LEMMA ConfiguredTakes ==
  ASSUME NEW e \in Engines, NEW x, Configured(e), Taken(e, x)
  PROVE  Configured(x)
<1> DEFINE read == [e EXCEPT !.stdin = Tail(@)]
<1>1. e.stdin \in Seq(Commands) /\ e.stdin # << >> /\ e.out = << >> /\ Asking(e.stdin)
  BY DEF Engines, Taken, Configured
<1>2. read.search = None /\ read.out = << >> /\ read.stdin = Tail(e.stdin)
  BY <1>1 DEF Configured, Engines
<1>3. CASE Head(e.stdin) = Stop /\ Asking(Tail(e.stdin))
  <2>1. x = EndSearch(read)
    BY <1>3 DEF Taken, Stop
  <2> HIDE DEF read
  <2> QED  BY <1>2, <1>3, <2>1 DEF EndSearch, Configured
<1>4. CASE Head(e.stdin) = IsReady /\ Tail(e.stdin) = << >>
  <2>1. x = [read EXCEPT !.out = read.out \o <<ReadyOk>>]
    BY <1>4 DEF Taken, IsReady, Says
  <2>2. read \in [alive : BOOLEAN, search : {None}, infos : 0 .. MaxInfos,
                  stdin : {<< >>}, out : {<< >>}]
    BY <1>1, <1>2, <1>4 DEF Engines, Configured
  <2> HIDE DEF read
  <2>3. read.out \o <<ReadyOk>> = <<ReadyOk>>
    BY <1>2
  <2> QED  BY <2>1, <2>2, <2>3 DEF Configured
<1> QED  BY <1>1, <1>3, <1>4, AskingHead

LEMMA RunningTakes ==
  ASSUME SocketAssumption, NEW e \in Engines, NEW x, NEW p, Running(e, p), InfosOf(e.out, p),
         Taken(e, x)
  PROVE  Running(x, p) /\ InfosOf(x.out, p)
<1> DEFINE read == [e EXCEPT !.stdin = Tail(@)]
<1>1. e.stdin \in Seq(Commands) /\ e.stdin # << >> /\ Tail(e.stdin) \in Seq(Commands)
  BY DEF Engines, Taken
<1>2. /\ read \in Engines
      /\ read.search = e.search /\ read.out = e.out /\ read.stdin = Tail(e.stdin)
  BY <1>1 DEF Engines
<1>3. CASE Searches(e, p)
  <2>1. Head(e.stdin) = Stop /\ StopsOnly(Tail(e.stdin))
    BY <1>1, <1>3, StopsMore DEF Searches
  <2>2. x = EndSearch(read)
    BY <2>1 DEF Taken, Stop
  <2> HIDE DEF read
  <2>3. Searches(read, p)
    BY <1>2, <1>3, <2>1 DEF Searches
  <2> QED  BY <1>2, <2>2, <2>3, EndSearchSearches DEF Running
<1>4. CASE Due(e, p)
  <2>1. Head(e.stdin) = GoFor(p) /\ StopsOnly(Tail(e.stdin)) /\ e.out = << >>
    BY <1>4 DEF Due
  <2>2. x = [read EXCEPT !.search = p]
    <3>1. Head(e.stdin).type = "go" /\ Head(e.stdin).pos = p
      BY <2>1 DEF GoFor
    <3> QED  BY <3>1 DEF Taken
  <2>3. x.search = p /\ x.out = << >> /\ x.stdin = Tail(e.stdin)
    BY <1>2, <2>1, <2>2 DEF Engines
  <2>4. DOMAIN x.out = {}
    BY <2>3
  <2> QED  BY <2>1, <2>3, <2>4 DEF Running, Searches, InfosOf
<1> QED  BY <1>3, <1>4 DEF Running

(***************************************************************************)
(* The steps of one socket.                                                *)
(***************************************************************************)
Others(s) ==
  \A t \in Sockets \ {s} :
    link'[t] = link[t] /\ session'[t] = session[t] /\ engine'[t] = engine[t] /\ s2c'[t] = s2c[t]

LEMMA GotoFields ==
  ASSUME SocketTypes, NEW s \in Sockets, NEW pc, Goto(s, pc)
  PROVE  /\ session'[s].pc = pc /\ session'[s].analysing = session[s].analysing
         /\ session'[s].late = session[s].late
BY DEF Goto, SocketTypes, Sessions

LEMMA SendTraced ==
  ASSUME SocketTypes, NEW s \in Sockets, NEW m \in ServerFrames, Send(s, m),
         m.type = "info" => m.plan = m.pos, Traced(s2c[s])
  PROVE  Traced(s2c'[s])
<1>1. CASE link[s] = "open"
  <2>1. s2c'[s] = Append(s2c[s], m) /\ s2c[s] \in Seq(ServerFrames)
    BY <1>1 DEF Send, SocketTypes
  <2>2. \A i \in DOMAIN Append(s2c[s], m) :
          (i \in DOMAIN s2c[s] /\ Append(s2c[s], m)[i] = s2c[s][i]) \/ Append(s2c[s], m)[i] = m
    BY <2>1
  <2> QED  BY <2>1, <2>2 DEF Traced
<1>2. CASE link[s] # "open"
  BY <1>2 DEF Send, SocketTypes
<1> QED  BY <1>1, <1>2

LEMMA WordTraced ==
  ASSUME SocketTypes, NEW s \in Sockets, NEW t \in {"ready", "error"}, Send(s, Word(t)),
         Traced(s2c[s])
  PROVE  Traced(s2c'[s])
<1>1. Word(t) \in ServerFrames /\ Word(t).type # "info"
  BY FrameTypes DEF Word
<1> QED  BY <1>1, SendTraced

LEMMA SilentTraced ==
  ASSUME NEW s \in Sockets, Silent, Traced(s2c[s])
  PROVE  Traced(s2c'[s])
BY DEF Silent

\* After an error the session does not analyse; its engine matters only if it
\* still runs.
LEMMA FailedKeeps ==
  ASSUME SocketTypes, NEW s \in Sockets, NEW late \in BOOLEAN, Failed(s, late), Traced(s2c[s]),
         late \/ ~engine'[s].alive
  PROVE  Kept(s)'
<1>1. /\ session'[s].pc = "loop" /\ ~session'[s].analysing
      /\ session'[s].late = (session[s].late \/ late)
  BY DEF Failed, SocketTypes, Sessions
<1>2. Traced(s2c'[s])
  BY WordTraced DEF Failed
<1> QED  BY <1>1, <1>2 DEF Kept, Trusted, Inside

LEMMA StartKeeps ==
  ASSUME SocketTypes, NEW s \in Sockets, Faithful(s), ~session[s].late,
         Spawned(s) \/ SpawnFails(s) \/ Quit(s) \/ ClientCloses(s)
  PROVE  Kept(s)'
<1>1. session[s] \in Sessions /\ engine[s] \in Engines
  BY DEF SocketTypes
<1>2. CASE Spawned(s)
  <2>1. engine[s] = NoEngine /\ ~session[s].analysing
    BY <1>2 DEF Spawned, Faithful, Stage
  <2>2. engine'[s] = [NoEngine EXCEPT !.alive = TRUE]
    BY <1>2, <2>1 DEF Spawned, SocketTypes
  <2>3. Quiet(engine'[s])
    BY <2>2 DEF NoEngine, Quiet, StopsOnly
  <2>4. /\ session'[s].pc \in {"loop", "quit"} /\ ~session'[s].analysing
        /\ session'[s].late = session[s].late
    <3>1. Goto(s, "loop") \/ Goto(s, "quit")
      BY <1>2 DEF Spawned
    <3> QED  BY <2>1, <3>1, GotoFields
  <2>5. Traced(s2c'[s])
    BY <1>2, WordTraced, SilentTraced DEF Spawned, Faithful, Kept
  <2> QED  BY <2>3, <2>4, <2>5 DEF Kept, Trusted, Inside
<1>3. CASE SpawnFails(s) \/ Quit(s) \/ ClientCloses(s)
  <2>1. session'[s].pc \in {"quit", "over"}
    BY <1>1, <1>3 DEF SpawnFails, Quit, ClientCloses, Goto, SocketTypes, Sessions
  <2>2. Traced(s2c'[s])
    BY <1>3, WordTraced DEF SpawnFails, Quit, ClientCloses, Faithful, Kept
  <2> QED  BY <2>1, <2>2 DEF Kept, Trusted, Inside
<1> QED  BY <1>2, <1>3

LEMMA AskKeeps ==
  ASSUME SocketTypes, NEW s \in Sockets, Faithful(s), ~session[s].late,
         StartAnalysis(s) \/ StopSearch(s)
  PROVE  Kept(s)'
<1>1. session[s] \in Sessions /\ engine[s] \in Engines /\ session[s].pc = "loop"
  BY DEF SocketTypes, StartAnalysis, StopSearch, Receive
<1>2. Trusted(session[s], engine[s]) /\ Traced(s2c[s])
  BY DEF Faithful, Kept
<1>3. ASSUME NEW p, Stopping(s, p)
      PROVE  Kept(s)'
  <2>1. InfosOf(engine[s].out, session[s].fen) /\ Running(engine[s], session[s].fen)
    BY <1>1, <1>2, <1>3 DEF Stopping, Trusted, Inside
  <2>2. engine'[s] = [engine[s] EXCEPT !.stdin = Append(@, Stop)]
    BY <1>3 DEF Stopping, Command, SocketTypes
  <2>3. Running(engine'[s], session[s].fen) /\ engine'[s].out = engine[s].out
    BY <1>1, <2>1, <2>2, RunningStop DEF Engines
  <2>4. session'[s].pc = "drain" /\ session'[s].fen = session[s].fen
    BY <1>1, <1>3 DEF Stopping, SocketTypes, Sessions
  <2>5. Traced(s2c'[s])
    BY <1>2, <1>3, SilentTraced DEF Stopping
  <2> QED  BY <2>1, <2>3, <2>4, <2>5 DEF Kept, Trusted, Inside
<1>4. ASSUME NEW p, Configuring(s, p)
      PROVE  Kept(s)'
  <2>1. Quiet(engine[s])
    BY <1>1, <1>2, <1>4 DEF Configuring, Trusted
  <2>2. engine'[s] = [engine[s] EXCEPT !.stdin = Append(@, IsReady)]
    BY <1>4 DEF Configuring, Command, IsReady, SocketTypes
  <2>3. Asking(Append(engine[s].stdin, IsReady))
    BY <1>1, <2>1, StopsMore DEF Quiet, Engines
  <2>4. Configured(engine'[s])
    BY <1>1, <2>1, <2>2, <2>3 DEF Configured, Quiet, Engines
  <2>5. session'[s].pc = "ready"
    BY <1>1, <1>4 DEF Configuring, SocketTypes, Sessions
  <2>6. Traced(s2c'[s])
    BY <1>2, <1>4, SilentTraced DEF Configuring
  <2> QED  BY <2>4, <2>5, <2>6 DEF Kept, Trusted, Inside
<1>5. CASE StartAnalysis(s)
  <2>1. CASE ~engine[s].alive /\ Failed(s, FALSE) /\ UNCHANGED engine
    BY <1>2, <2>1, FailedKeeps
  <2> QED  BY <1>3, <1>4, <1>5, <2>1 DEF StartAnalysis
<1>6. CASE StopSearch(s)
  <2>1. session' = session /\ s2c' = s2c
    BY <1>6 DEF StopSearch
  <2>2. CASE UNCHANGED engine
    BY <1>2, <2>1, <2>2 DEF Kept
  <2>3. CASE session[s].analysing /\ engine[s].alive /\ Command(s, Stop)
    <3>1. engine'[s] = [engine[s] EXCEPT !.stdin = Append(@, Stop)]
      BY <2>3 DEF Command, SocketTypes
    <3>2. InfosOf(engine[s].out, session[s].fen) /\ Running(engine[s], session[s].fen)
      BY <1>1, <1>2, <2>3 DEF Trusted, Inside
    <3>3. Running(engine'[s], session[s].fen) /\ engine'[s].out = engine[s].out
      BY <1>1, <3>1, <3>2, RunningStop DEF Engines
    <3> QED  BY <1>1, <1>2, <2>1, <2>3, <3>2, <3>3 DEF Kept, Trusted, Inside
  <2> QED  BY <1>6, <2>2, <2>3 DEF StopSearch
<1> QED  BY <1>5, <1>6

\* The next line of an engine that runs, and of any engine in a search.
LEMMA NextLine ==
  ASSUME NEW e \in Engines, NEW p, e.out # << >>, InfosOf(e.out, p), e.alive => Running(e, p)
  PROVE  /\ Head(e.out).type = "info" => Head(e.out).pos = p
         /\ InfosOf(Tail(e.out), p)
         /\ e.alive =>
              /\ Head(e.out).type # "readyok"
              /\ Searches([e EXCEPT !.out = Tail(@)], p)
              /\ Head(e.out).type = "bestmove" =>
                   Tail(e.out) = << >> /\ e.search = None /\ StopsOnly(e.stdin)
<1>1. e.out \in Seq(Output)
  BY DEF Engines
<1>2. 1 \in DOMAIN e.out /\ Head(e.out) = e.out[1]
  BY <1>1
<1>3. InfosOf(Tail(e.out), p) /\ (Head(e.out).type = "info" => Head(e.out).pos = p)
  BY <1>1, <1>2, InfosTail DEF InfosOf
<1>4. ASSUME e.alive
      PROVE  /\ Head(e.out).type # "readyok"
             /\ Searches([e EXCEPT !.out = Tail(@)], p)
             /\ Head(e.out).type = "bestmove" =>
                  Tail(e.out) = << >> /\ e.search = None /\ StopsOnly(e.stdin)
  <2>1. Searches(e, p)
    BY <1>4 DEF Running, Due
  <2>2. Head(e.out).type # "readyok" /\ StopsOnly(e.stdin)
    BY <1>2, <2>1 DEF Searches
  <2>3. ASSUME Head(e.out).type = "bestmove"
        PROVE  Tail(e.out) = << >> /\ e.search = None
    <3>1. Len(e.out) = 1 /\ e.search = None
      BY <1>2, <2>1, <2>3 DEF Searches
    <3>2. Tail(e.out) \in Seq(Output) /\ Len(Tail(e.out)) = 0
      BY <1>1, <3>1
    <3> QED  BY <3>1, <3>2, EmptySeq
  <2> QED  BY <2>1, <2>2, <2>3, SearchesTail
<1> QED  BY <1>3, <1>4

LEMMA DrainKeeps ==
  ASSUME SocketTypes, NEW s \in Sockets, Faithful(s), ~session[s].late, Drain(s)
  PROVE  Kept(s)'
<1> DEFINE e == engine[s]
           p == session[s].fen
<1>1. session[s] \in Sessions /\ e \in Engines /\ session[s].pc = "drain" /\ e.out # << >>
  BY DEF SocketTypes, Drain, Unread
<1>2. /\ InfosOf(e.out, p) /\ (e.alive => Running(e, p)) /\ Traced(s2c[s])
  BY <1>1 DEF Faithful, Kept, Trusted, Inside
<1>3. CASE Line(s).type # "bestmove"
  <2>1. engine'[s] = [e EXCEPT !.out = Tail(@)] /\ session' = session /\ Silent
    BY <1>3 DEF Drain, ReadLine, SocketTypes
  <2>2. engine'[s].out = Tail(e.out) /\ engine'[s].alive = e.alive
    BY <1>1, <2>1 DEF Engines
  <2>3. InfosOf(engine'[s].out, p) /\ (engine'[s].alive => Running(engine'[s], p))
    BY <1>1, <1>2, <2>1, <2>2, NextLine DEF Running
  <2>4. Traced(s2c'[s])
    BY <1>2, <2>1, SilentTraced
  <2> QED  BY <1>1, <2>1, <2>3, <2>4 DEF Kept, Trusted, Inside
<1>4. CASE Line(s).type = "bestmove" /\ e.alive
  <2>1. /\ engine'[s] = [e EXCEPT !.out = Tail(@), !.stdin = Append(@, IsReady)]
        /\ Goto(s, "ready") /\ Silent
    BY <1>4 DEF Drain, IsReady, SocketTypes
  <2>2. Tail(e.out) = << >> /\ e.search = None /\ StopsOnly(e.stdin)
    BY <1>1, <1>2, <1>4, NextLine DEF Line
  <2>3. Asking(Append(e.stdin, IsReady))
    BY <1>1, <2>2, StopsMore DEF Engines
  <2>4. Configured(engine'[s])
    BY <1>1, <2>1, <2>2, <2>3 DEF Configured, Engines
  <2>5. session'[s].pc = "ready"
    BY <1>1, <2>1 DEF Goto, SocketTypes, Sessions
  <2>6. Traced(s2c'[s])
    BY <1>2, <2>1, SilentTraced
  <2> QED  BY <2>4, <2>5, <2>6 DEF Kept, Trusted, Inside
<1>5. CASE Line(s).type = "bestmove" /\ ~e.alive
  <2>1. ReadLine(s) /\ Failed(s, FALSE)
    BY <1>5 DEF Drain
  <2>2. ~engine'[s].alive
    BY <1>1, <1>5, <2>1 DEF ReadLine, SocketTypes, Engines
  <2> QED  BY <1>2, <2>1, <2>2, FailedKeeps
<1> QED  BY <1>3, <1>4, <1>5

LEMMA AwaitKeeps ==
  ASSUME SocketTypes, NEW s \in Sockets, Faithful(s), ~session[s].late, AwaitReady(s)
  PROVE  Kept(s)'
<1> DEFINE e == engine[s]
<1>1. session[s] \in Sessions /\ e \in Engines /\ session[s].pc = "ready" /\ e.out # << >>
  BY DEF SocketTypes, AwaitReady, Unread
<1>2. Traced(s2c[s]) /\ (e.alive => Configured(e))
  BY <1>1 DEF Faithful, Kept, Trusted
<1>3. e.alive => /\ e.search = None /\ e.out = <<ReadyOk>> /\ e.stdin = << >>
                 /\ Line(s) = ReadyOk
  BY <1>1, <1>2 DEF Configured, Line
<1>4. CASE ReadLine(s) /\ UNCHANGED session /\ Silent /\ Line(s).type # "readyok"
  <2>1. ~e.alive
    BY <1>3, <1>4 DEF ReadyOk
  <2>2. ~engine'[s].alive
    BY <1>1, <1>4, <2>1 DEF ReadLine, SocketTypes, Engines
  <2>3. Traced(s2c'[s])
    BY <1>2, <1>4, SilentTraced
  <2> QED  BY <1>1, <1>4, <2>2, <2>3 DEF Kept, Trusted, Inside
<1>5. CASE e.alive /\ Go(s)
  <2> DEFINE p == session[s].next
             go == GoFor(p)
  <2>1. engine'[s] = [e EXCEPT !.out = Tail(@), !.stdin = Append(@, go)]
    BY <1>5 DEF Go, GoFor, SocketTypes
  <2>2. Append(<< >>, go) = <<go>> /\ Tail(<<ReadyOk>>) = << >>
    OBVIOUS
  <2>3. engine'[s].search = None /\ engine'[s].out = << >> /\ engine'[s].stdin = <<go>>
    BY <1>1, <1>3, <1>5, <2>1, <2>2 DEF Engines
  <2>4. Head(<<go>>) = go /\ <<go>> # << >> /\ DOMAIN Tail(<<go>>) = {}
    OBVIOUS
  <2>5. Due(engine'[s], p) /\ InfosOf(engine'[s].out, p)
    BY <2>3, <2>4 DEF Due, StopsOnly, InfosOf
  <2>6. session'[s].pc = "loop" /\ session'[s].analysing /\ session'[s].fen = p
    BY <1>1, <1>5 DEF Go, SocketTypes, Sessions
  <2>7. Traced(s2c'[s])
    BY <1>2, <1>5, SilentTraced DEF Go
  <2> QED  BY <2>5, <2>6, <2>7 DEF Kept, Trusted, Inside, Running
<1>6. CASE ReadLine(s) /\ Failed(s, FALSE) /\ ~e.alive
  <2>1. ~engine'[s].alive
    BY <1>1, <1>6 DEF ReadLine, SocketTypes, Engines
  <2> QED  BY <1>2, <1>6, <2>1, FailedKeeps
<1>7. CASE ReadLine(s) /\ Failed(s, FALSE) /\ e.alive
  <2>1. /\ session'[s].pc = "loop" /\ ~session'[s].analysing
        /\ session'[s].late = session[s].late
    BY <1>7 DEF Failed, SocketTypes, Sessions
  <2>2. engine'[s] = [e EXCEPT !.out = Tail(@)] /\ Tail(<<ReadyOk>>) = << >>
    BY <1>7 DEF ReadLine, SocketTypes
  <2>3. engine'[s].search = None /\ engine'[s].out = << >> /\ engine'[s].stdin = << >>
    BY <1>1, <1>3, <1>7, <2>2 DEF Engines
  <2>4. Quiet(engine'[s])
    BY <2>3 DEF Quiet, StopsOnly
  <2>5. Traced(s2c'[s])
    BY <1>2, <1>7, WordTraced DEF Failed
  <2> QED  BY <2>1, <2>4, <2>5 DEF Kept, Trusted, Inside
<1> QED  BY <1>4, <1>5, <1>6, <1>7 DEF AwaitReady

LEMMA EndKeeps ==
  ASSUME SocketTypes, NEW s \in Sockets, Faithful(s), ~session[s].late,
         WaitTimesOut(s) \/ WaitEnds(s)
  PROVE  Kept(s)'
<1>1. Traced(s2c[s])
  BY DEF Faithful, Kept
<1>2. CASE WaitTimesOut(s)
  BY <1>1, <1>2, FailedKeeps DEF WaitTimesOut
<1>3. CASE WaitEnds(s)
  <2>1. Failed(s, FALSE) /\ ~engine'[s].alive
    BY <1>3 DEF WaitEnds, Eof
  <2> QED  BY <1>1, <2>1, FailedKeeps
<1> QED  BY <1>2, <1>3

LEMMA RelayKeeps ==
  ASSUME SocketTypes, NEW s \in Sockets, Faithful(s), ~session[s].late, Relay(s)
  PROVE  Kept(s)'
<1> DEFINE e == engine[s]
           p == session[s].fen
           l == Line(s)
<1>1. /\ session[s] \in Sessions /\ e \in Engines /\ e.out # << >>
      /\ session[s].pc = "loop" /\ session[s].analysing
  BY DEF SocketTypes, Relay, Watching, Unread
<1>2. /\ InfosOf(e.out, p) /\ (e.alive => Running(e, p)) /\ Traced(s2c[s])
  BY <1>1 DEF Faithful, Kept, Trusted, Inside
<1>3. /\ engine'[s] = [e EXCEPT !.out = Tail(@)]
      /\ engine'[s].out = Tail(e.out) /\ engine'[s].alive = e.alive
      /\ engine'[s].search = e.search /\ engine'[s].stdin = e.stdin
  BY <1>1 DEF Relay, ReadLine, SocketTypes, Engines
<1>4. InfosOf(engine'[s].out, p) /\ (engine'[s].alive => Running(engine'[s], p))
  BY <1>1, <1>2, <1>3, NextLine DEF Running
<1>5. l \in Output /\ p \in Positions \cup {None}
  BY <1>1, QueueTypes DEF Line, Sessions
<1>6. CASE l.type = "info" /\ Send(s, Info(l.pos, p)) /\ UNCHANGED session
  <2>1. l.pos = p
    BY <1>1, <1>2, <1>6, NextLine DEF Line
  <2>2. Info(l.pos, p) \in ServerFrames /\ Info(l.pos, p).plan = Info(l.pos, p).pos
    BY <1>5, <2>1, FrameTypes DEF Info
  <2>3. Traced(s2c'[s])
    BY <1>2, <1>6, <2>2, SendTraced
  <2> QED  BY <1>1, <1>4, <1>6, <2>3 DEF Kept, Trusted, Inside
<1>7. CASE /\ l.type = "bestmove" /\ Send(s, BestMove(l.pos))
           /\ session' = [session EXCEPT ![s].analysing = FALSE, ![s].watchdog = "off"]
  <2>1. session'[s].pc = "loop" /\ ~session'[s].analysing
    BY <1>1, <1>7 DEF SocketTypes, Sessions
  <2>2. e.alive => Quiet(engine'[s])
    BY <1>1, <1>2, <1>3, <1>7, NextLine DEF Quiet, Line
  <2>3. BestMove(l.pos) \in ServerFrames /\ BestMove(l.pos).type # "info"
    BY <1>5, FrameTypes DEF Output, BestMove, Word
  <2>4. Traced(s2c'[s])
    BY <1>2, <1>7, <2>3, SendTraced
  <2> QED  BY <1>3, <2>1, <2>2, <2>4 DEF Kept, Trusted, Inside
<1>8. CASE UNCHANGED <<s2c, session>>
  BY <1>1, <1>2, <1>4, <1>8 DEF Kept, Trusted, Inside
<1>9. CASE Goto(s, "quit") /\ Silent
  <2>1. session'[s].pc = "quit" /\ Traced(s2c'[s])
    BY <1>2, <1>9, GotoFields, SilentTraced
  <2> QED  BY <2>1 DEF Kept, Trusted, Inside
<1> QED  BY <1>6, <1>7, <1>8, <1>9 DEF Relay

LEMMA WatchKeeps ==
  ASSUME SocketTypes, NEW s \in Sockets, Faithful(s), ~session[s].late, Watch(s)
  PROVE  Kept(s)'
<1>1. /\ session[s] \in Sessions /\ engine[s] \in Engines
      /\ session[s].pc = "loop" /\ session[s].analysing
  BY DEF SocketTypes, Watch, EngineGone, WatchdogStops, WatchdogEnds, Watching
<1>2. /\ InfosOf(engine[s].out, session[s].fen) /\ Traced(s2c[s])
      /\ engine[s].alive => Running(engine[s], session[s].fen)
  BY <1>1 DEF Faithful, Kept, Trusted, Inside
<1>3. CASE EngineGone(s) \/ WatchdogEnds(s)
  <2>1. Send(s, Word("error")) /\ Goto(s, "quit")
    BY <1>3 DEF EngineGone, WatchdogEnds
  <2>2. session'[s].pc = "quit" /\ Traced(s2c'[s])
    BY <1>2, <2>1, GotoFields, WordTraced
  <2> QED  BY <2>2 DEF Kept, Trusted, Inside
<1>4. CASE WatchdogStops(s)
  <2>1. /\ session'[s].pc = "loop" /\ session'[s].analysing
        /\ session'[s].fen = session[s].fen /\ s2c' = s2c
    BY <1>1, <1>4 DEF WatchdogStops, SocketTypes, Sessions
  <2>2. CASE ~engine[s].alive /\ UNCHANGED engine
    BY <1>2, <2>1, <2>2 DEF Kept, Trusted, Inside
  <2>3. CASE engine[s].alive /\ Command(s, Stop)
    <3>1. engine'[s] = [engine[s] EXCEPT !.stdin = Append(@, Stop)]
      BY <2>3 DEF Command, SocketTypes
    <3>2. Running(engine'[s], session[s].fen) /\ engine'[s].out = engine[s].out
      BY <1>1, <1>2, <2>3, <3>1, RunningStop DEF Engines
    <3> QED  BY <1>2, <2>1, <3>2 DEF Kept, Trusted, Inside
  <2> QED  BY <1>4, <2>2, <2>3 DEF WatchdogStops
<1> QED  BY <1>3, <1>4 DEF Watch

\* A step of an engine keeps what its session knows of it.
LEMMA UciKeeps ==
  ASSUME SocketAssumption, SocketTypes, NEW s \in Sockets, Faithful(s), ~session[s].late, Uci(s)
  PROVE  Kept(s)'
<1> DEFINE e == engine[s]
           p == session[s].fen
<1>1. e \in Engines /\ e.alive /\ session' = session /\ s2c' = s2c
  BY DEF SocketTypes, Uci, TakeCommand, PrintInfo, Finish, Exit
<1>2. Trusted(session[s], e) /\ Traced(s2c[s])
  BY DEF Faithful, Kept
<1>3. ASSUME Taken(e, engine'[s])
      PROVE  Kept(s)'
  <2>1. session[s].pc = "loop" /\ ~session[s].analysing => Quiet(engine'[s])
    BY <1>1, <1>2, <1>3, QuietTakes DEF Trusted
  <2>2. Inside(session[s]) => Running(engine'[s], p) /\ InfosOf(engine'[s].out, p)
    BY <1>1, <1>2, <1>3, RunningTakes DEF Trusted
  <2>3. session[s].pc = "ready" => Configured(engine'[s])
    BY <1>1, <1>2, <1>3, ConfiguredTakes DEF Trusted
  <2> QED  BY <1>1, <1>2, <2>1, <2>2, <2>3 DEF Kept, Trusted
<1>4. CASE TakeCommand(s)
  <2>1. Taken(e, engine'[s])
    BY <1>4 DEF TakeCommand, Taken, ReadyOk, SocketTypes
  <2> QED  BY <1>3, <2>1
<1>5. ASSUME e.search # None, ~Exit(s)
      PROVE  Kept(s)'
  <2>1. /\ ~(session[s].pc = "loop" /\ ~session[s].analysing) /\ session[s].pc # "ready"
        /\ Inside(session[s]) => Searches(e, p) /\ InfosOf(e.out, p)
    BY <1>1, <1>2, <1>5 DEF Trusted, Quiet, Configured, Running, Due
  <2>2. CASE PrintInfo(s)
    <3>1. engine'[s] = Says([e EXCEPT !.infos = e.infos + 1],
                            <<[type |-> "info", pos |-> e.search, plan |-> None]>>)
      BY <2>2 DEF PrintInfo, SocketTypes
    <3>2. /\ engine'[s].search = e.search /\ engine'[s].stdin = e.stdin
          /\ engine'[s].out = e.out \o <<[type |-> "info", pos |-> e.search, plan |-> None]>>
      BY <1>1, <3>1 DEF Says, Engines
    <3>3. Inside(session[s]) => Searches(engine'[s], p) /\ InfosOf(engine'[s].out, p)
      BY <1>1, <1>5, <2>1, <3>2, PrintSearches
    <3> QED  BY <1>1, <1>2, <2>1, <3>3 DEF Kept, Trusted, Running
  <2>3. CASE Finish(s)
    <3>1. engine'[s] = EndSearch(e)
      BY <2>3 DEF Finish, SocketTypes
    <3>2. Inside(session[s]) => Searches(engine'[s], p) /\ InfosOf(engine'[s].out, p)
      BY <1>1, <2>1, <3>1, EndSearchSearches
    <3> QED  BY <1>1, <1>2, <2>1, <3>2 DEF Kept, Trusted, Running
  <2> QED  BY <1>4, <1>5, <2>2, <2>3 DEF Uci
<1>6. CASE Exit(s)
  <2>1. engine'[s] = [NoEngine EXCEPT !.out = e.out]
    BY <1>6 DEF Exit, SocketTypes
  <2>2. ~engine'[s].alive /\ engine'[s].out = e.out
    BY <2>1 DEF NoEngine
  <2> QED  BY <1>1, <1>2, <2>2 DEF Kept, Trusted
<1> QED  BY <1>4, <1>5, <1>6 DEF Uci, PrintInfo, Finish

LEMMA LateStays ==
  ASSUME SocketTypes, NEW s \in Sockets, Serve(s) \/ Uci(s), session[s].late
  PROVE  session'[s].late
<1>1. session[s] \in Sessions
  BY DEF SocketTypes
<1>2. ASSUME NEW pc, Goto(s, pc)
      PROVE  session'[s].late
  BY <1>2, GotoFields
<1>3. ASSUME NEW late \in BOOLEAN, Failed(s, late)
      PROVE  session'[s].late
  BY <1>1, <1>3 DEF Failed, SocketTypes, Sessions
<1>4. CASE Spawned(s) \/ SpawnFails(s) \/ Quit(s) \/ ClientCloses(s) \/ EngineGone(s)
           \/ WatchdogEnds(s)
  BY <1>2, <1>4 DEF Spawned, SpawnFails, Quit, ClientCloses, EngineGone, WatchdogEnds
<1>5. CASE StartAnalysis(s)
  <2>1. ASSUME NEW p, Stopping(s, p) \/ Configuring(s, p)
        PROVE  session'[s].late
    <3>1. \/ session' = [session EXCEPT ![s].pc = "drain", ![s].next = p]
          \/ session' = [session EXCEPT ![s].pc = "ready", ![s].next = p]
      BY <2>1 DEF Stopping, Configuring
    <3>2. CASE session' = [session EXCEPT ![s].pc = "drain", ![s].next = p]
      BY <1>1, <3>2 DEF SocketTypes, Sessions
    <3>3. CASE session' = [session EXCEPT ![s].pc = "ready", ![s].next = p]
      BY <1>1, <3>3 DEF SocketTypes, Sessions
    <3> QED  BY <3>1, <3>2, <3>3
  <2> QED  BY <1>3, <1>5, <2>1 DEF StartAnalysis
<1>6. CASE StopSearch(s) \/ Uci(s)
  BY <1>6 DEF StopSearch, Uci, TakeCommand, PrintInfo, Finish, Exit
<1>7. CASE Drain(s)
  BY <1>2, <1>3, <1>7 DEF Drain
<1>8. CASE AwaitReady(s)
  <2>1. CASE Go(s)
    BY <1>1, <2>1 DEF Go, SocketTypes, Sessions
  <2> QED  BY <1>3, <1>8, <2>1 DEF AwaitReady
<1>9. CASE WaitTimesOut(s) \/ WaitEnds(s)
  BY <1>3, <1>9 DEF WaitTimesOut, WaitEnds
<1>10. CASE Relay(s)
  <2>1. CASE session' = [session EXCEPT ![s].analysing = FALSE, ![s].watchdog = "off"]
    BY <1>1, <2>1 DEF SocketTypes, Sessions
  <2> QED  BY <1>2, <1>10, <2>1 DEF Relay
<1>11. CASE WatchdogStops(s)
  BY <1>1, <1>11 DEF WatchdogStops, SocketTypes, Sessions
<1> QED
  BY <1>4, <1>5, <1>6, <1>7, <1>8, <1>9, <1>10, <1>11 DEF Serve, Waiting, Handle, Watch

LEMMA ServerKeeps ==
  ASSUME SocketAssumption, SocketTypes, NEW s \in Sockets, Faithful(s), Serve(s) \/ Uci(s)
  PROVE  Kept(s)'
<1>1. CASE session[s].late
  BY <1>1, LateStays DEF Kept
<1>2. CASE ~session[s].late
  <2>1. CASE Serve(s)
    BY <1>2, <2>1, StartKeeps, AskKeeps, DrainKeeps, AwaitKeeps, EndKeeps, RelayKeeps, WatchKeeps
       DEF Serve, Waiting, Handle
  <2> QED  BY <1>2, <2>1, UciKeeps
<1> QED  BY <1>1, <1>2

LEMMA ServerStage ==
  ASSUME SocketTypes, NEW s \in Sockets, Faithful(s), Serve(s) \/ Uci(s)
  PROVE  Stage(link[s], session[s], engine[s])' /\ link' = link
<1> DEFINE ss == session[s]
<1>1. ss \in Sessions /\ engine[s] \in Engines /\ Stage(link[s], ss, engine[s])
  BY DEF SocketTypes, Faithful
<1>2. CASE Uci(s)
  <2>1. engine[s] # NoEngine /\ session' = session /\ link' = link
    BY <1>2 DEF Uci, TakeCommand, PrintInfo, Finish, Exit, NoEngine
  <2> QED  BY <1>1, <2>1 DEF Stage
<1>3. CASE Serve(s)
  <2>1. link' = link
    BY <1>3 DEF Serve, Spawned, SpawnFails, Waiting, Drain, AwaitReady, WaitTimesOut, WaitEnds,
                Handle, StartAnalysis, StopSearch, ClientCloses, Receive, Relay, Watch,
                EngineGone, WatchdogStops, WatchdogEnds, Quit
  <2>2. ss.pc # "none"
    BY <1>3 DEF Serve, Spawned, SpawnFails, Waiting, Drain, AwaitReady, WaitTimesOut, WaitEnds,
                Handle, StartAnalysis, StopSearch, ClientCloses, Receive, Relay, Watch, Watching,
                EngineGone, WatchdogStops, WatchdogEnds, Quit
  <2>3. link'[s] \notin {"none", "connecting"}
    BY <1>1, <2>1, <2>2 DEF Stage
  <2>4. ASSUME session'[s].pc \in {"loop", "ready", "quit"}
        PROVE  Stage(link[s], ss, engine[s])'
    BY <2>3, <2>4 DEF Stage
  <2>5. ASSUME NEW late \in BOOLEAN, Failed(s, late)
        PROVE  Stage(link[s], ss, engine[s])'
    BY <1>1, <2>4, <2>5 DEF Failed, SocketTypes, Sessions
  <2>6. ASSUME NEW pc \in {"loop", "ready", "quit"}, Goto(s, pc)
        PROVE  Stage(link[s], ss, engine[s])'
    BY <2>4, <2>6, GotoFields
  <2>7. ASSUME session'[s] = ss, ss.pc \in {"loop", "drain", "ready", "quit"}
        PROVE  Stage(link[s], ss, engine[s])'
    BY <1>1, <2>3, <2>7 DEF Stage
  <2>8. CASE Spawned(s) \/ ClientCloses(s) \/ EngineGone(s) \/ WatchdogEnds(s)
    <3>1. Goto(s, "loop") \/ Goto(s, "quit")
      BY <2>8 DEF Spawned, ClientCloses, EngineGone, WatchdogEnds
    <3> QED  BY <2>1, <2>6, <3>1
  <2>9. CASE SpawnFails(s) \/ Quit(s)
    <3>1. session'[s].pc = "over"
      BY <2>9, GotoFields DEF SpawnFails, Quit
    <3>2. engine'[s] = NoEngine
      BY <1>1, <2>9 DEF SpawnFails, Quit, Stage, SocketTypes
    <3>3. session'[s].pc \notin {"none", "spawn", "drain"}
      BY <3>1
    <3> QED  BY <2>1, <2>3, <3>2, <3>3 DEF Stage
  <2>10. CASE StartAnalysis(s)
    <3>1. ASSUME NEW p, Stopping(s, p)
          PROVE  Stage(link[s], ss, engine[s])'
      <4>1. session'[s].pc = "drain" /\ session'[s].analysing
        BY <1>1, <3>1 DEF Stopping, SocketTypes, Sessions
      <4> QED  BY <2>3, <4>1 DEF Stage
    <3>2. ASSUME NEW p, Configuring(s, p)
          PROVE  Stage(link[s], ss, engine[s])'
      BY <1>1, <2>4, <3>2 DEF Configuring, SocketTypes, Sessions
    <3>3. \/ \E p : Stopping(s, p) \/ Configuring(s, p)
          \/ Failed(s, FALSE)
      BY <2>10 DEF StartAnalysis
    <3> QED  BY <2>1, <2>5, <3>1, <3>2, <3>3
  <2>11. CASE StopSearch(s)
    BY <2>7, <2>11 DEF StopSearch, Receive
  <2>12. CASE Drain(s)
    BY <2>5, <2>6, <2>7, <2>12 DEF Drain
  <2>13. CASE AwaitReady(s)
    <3>1. CASE Go(s)
      <4>1. session'[s].pc = "loop"
        BY <1>1, <3>1 DEF Go, SocketTypes, Sessions
      <4> QED  BY <2>1, <2>4, <4>1
    <3> QED  BY <2>5, <2>7, <2>13, <3>1 DEF AwaitReady
  <2>14. CASE WaitTimesOut(s) \/ WaitEnds(s)
    BY <2>5, <2>14 DEF WaitTimesOut, WaitEnds
  <2>15. CASE Relay(s)
    <3>1. CASE session' = [session EXCEPT ![s].analysing = FALSE, ![s].watchdog = "off"]
      BY <1>1, <2>4, <2>15, <3>1 DEF Relay, Watching, SocketTypes, Sessions
    <3> QED  BY <2>6, <2>7, <2>15, <3>1 DEF Relay, Watching
  <2>16. CASE WatchdogStops(s)
    BY <1>1, <2>4, <2>16 DEF WatchdogStops, Watching, SocketTypes, Sessions
  <2> QED
    BY <1>3, <2>1, <2>8, <2>9, <2>10, <2>11, <2>12, <2>13, <2>14, <2>15, <2>16
       DEF Serve, Waiting, Handle, Watch
<1> QED  BY <1>2, <1>3

\* A session leaves the other sockets alone.
LEMMA ServerOthers ==
  ASSUME SocketTypes, NEW s \in Sockets, Serve(s) \/ Uci(s)
  PROVE  Others(s)
<1> USE DEF Others, SocketTypes
<1>1. ASSUME NEW pc, Goto(s, pc)
      PROVE  \A t \in Sockets \ {s} : session'[t] = session[t]
  BY <1>1 DEF Goto
<1>2. ASSUME NEW m, Send(s, m)
      PROVE  \A t \in Sockets \ {s} : s2c'[t] = s2c[t]
  BY <1>2 DEF Send
<1>3. ASSUME NEW c, Command(s, c)
      PROVE  \A t \in Sockets \ {s} : engine'[t] = engine[t]
  BY <1>3 DEF Command
<1>4. ASSUME ReadLine(s)
      PROVE  \A t \in Sockets \ {s} : engine'[t] = engine[t]
  BY <1>4 DEF ReadLine
<1>5. ASSUME NEW late, Failed(s, late)
      PROVE  \A t \in Sockets \ {s} : session'[t] = session[t] /\ s2c'[t] = s2c[t]
  BY <1>2, <1>5 DEF Failed
<1>6. CASE Spawned(s) \/ SpawnFails(s) \/ Quit(s)
  BY <1>1, <1>2, <1>6 DEF Spawned, SpawnFails, Quit, Silent
<1>7. CASE StartAnalysis(s)
  <2>1. ASSUME NEW p, Stopping(s, p) \/ Configuring(s, p)
        PROVE  \A t \in Sockets \ {s} :
                 session'[t] = session[t] /\ engine'[t] = engine[t] /\ s2c'[t] = s2c[t]
    <3>1. session' = [session EXCEPT ![s].pc = "drain", ![s].next = p]
          \/ session' = [session EXCEPT ![s].pc = "ready", ![s].next = p]
      BY <2>1 DEF Stopping, Configuring
    <3> QED  BY <1>3, <2>1, <3>1 DEF Stopping, Configuring, Silent
  <2> QED  BY <1>5, <1>7, <2>1 DEF StartAnalysis, Receive
<1>8. CASE StopSearch(s) \/ ClientCloses(s)
  BY <1>1, <1>3, <1>8 DEF StopSearch, ClientCloses, Receive
<1>9. CASE Drain(s)
  <2>1. \A t \in Sockets \ {s} : engine'[t] = engine[t]
    BY <1>4, <1>9 DEF Drain
  <2>2. \A t \in Sockets \ {s} : session'[t] = session[t] /\ s2c'[t] = s2c[t]
    BY <1>1, <1>5, <1>9 DEF Drain, Silent
  <2> QED  BY <1>9, <2>1, <2>2 DEF Drain
<1>10. CASE AwaitReady(s)
  <2>1. \A t \in Sockets \ {s} : engine'[t] = engine[t]
    BY <1>4, <1>10 DEF AwaitReady, Go
  <2>2. \A t \in Sockets \ {s} : session'[t] = session[t] /\ s2c'[t] = s2c[t]
    BY <1>5, <1>10 DEF AwaitReady, Go, Silent
  <2> QED  BY <1>10, <2>1, <2>2 DEF AwaitReady
<1>11. CASE WaitTimesOut(s) \/ WaitEnds(s)
  BY <1>5, <1>11 DEF WaitTimesOut, WaitEnds
<1>12. CASE Relay(s)
  <2>1. \A t \in Sockets \ {s} : engine'[t] = engine[t]
    BY <1>4, <1>12 DEF Relay
  <2>2. \A t \in Sockets \ {s} : session'[t] = session[t] /\ s2c'[t] = s2c[t]
    BY <1>1, <1>2, <1>12 DEF Relay, Silent
  <2> QED  BY <1>12, <2>1, <2>2 DEF Relay
<1>13. CASE Watch(s)
  BY <1>1, <1>2, <1>3, <1>13 DEF Watch, EngineGone, WatchdogStops, WatchdogEnds
<1>14. CASE Uci(s)
  BY <1>14 DEF Uci, TakeCommand, PrintInfo, Finish, Exit
<1> QED
  BY <1>6, <1>7, <1>8, <1>9, <1>10, <1>11, <1>12, <1>13, <1>14 DEF Serve, Waiting, Handle

(***************************************************************************)
(* The inductive invariant and the theorems.                               *)
(***************************************************************************)
IInv == TInv /\ \A s \in Sockets : Faithful(s)

LEMMA ClientKeeps ==
  ASSUME IInv, UNCHANGED <<session, engine>>, NEW t \in Sockets,
         \/ link'[t] = link[t]
         \/ link[t] = "none"
         \/ link'[t] \notin {"none", "connecting"},
         s2c'[t] = s2c[t] \/ (s2c[t] # << >> /\ s2c'[t] = Tail(s2c[t]))
  PROVE  Faithful(t)'
<1>1. Stage(link[t], session[t], engine[t]) /\ Kept(t)
  BY DEF IInv, Faithful
<1>2. Stage(link[t], session[t], engine[t])'
  BY <1>1 DEF Stage
<1>3. Traced(s2c[t]) => Traced(s2c'[t])
  <2>1. CASE s2c[t] # << >> /\ s2c'[t] = Tail(s2c[t])
    <3>1. s2c[t] \in Seq(ServerFrames)
      BY DEF IInv, TInv, SocketTypes
    <3>2. \A i \in DOMAIN Tail(s2c[t]) :
            i + 1 \in DOMAIN s2c[t] /\ Tail(s2c[t])[i] = s2c[t][i + 1]
      BY <2>1, <3>1
    <3> QED  BY <2>1, <3>2 DEF Traced
  <2> QED  BY <2>1
<1> QED  BY <1>1, <1>2, <1>3 DEF Faithful, Kept

LEMMA InitFaithful ==
  ASSUME Init
  PROVE  \A s \in Sockets : Faithful(s)
<1> SUFFICES ASSUME NEW s \in Sockets
             PROVE  Faithful(s)
  OBVIOUS
<1>1. link[s] = "none" /\ session[s] = NoSession /\ engine[s] = NoEngine /\ s2c[s] = << >>
  BY DEF Init, SocketInit
<1>2. NoSession.pc = "none" /\ ~NoSession.analysing
  BY DEF NoSession
<1> QED  BY <1>1, <1>2 DEF Faithful, Stage, Kept, Trusted, Inside, Traced

LEMMA NextFaithful ==
  ASSUME SocketAssumption, LiveAssumption, IInv, [Next]_vars
  PROVE  \A s \in Sockets : Faithful(s)'
<1> SocketTypes
  BY DEF IInv, TInv
<1>1. ASSUME NEW s \in Sockets, Serve(s) \/ Uci(s), NEW t \in Sockets
      PROVE  Faithful(t)'
  <2>1. CASE t = s
    BY <1>1, <2>1, ServerKeeps, ServerStage DEF IInv, Faithful
  <2>2. CASE t # s
    <3>1. Others(s)
      BY <1>1, ServerOthers
    <3>2. /\ link'[t] = link[t] /\ session'[t] = session[t] /\ engine'[t] = engine[t]
          /\ s2c'[t] = s2c[t]
      BY <2>2, <3>1 DEF Others
    <3> QED  BY <3>2 DEF IInv, Faithful, Kept
  <2> QED  BY <2>1, <2>2
<1>2. ASSUME NEW s \in Sockets, Open(s), NEW t \in Sockets
      PROVE  Faithful(t)'
  <2>1. link[s] = "connecting" /\ link' = [link EXCEPT ![s] = "open"] /\ Goto(s, "spawn")
        /\ UNCHANGED <<s2c, engine>>
    BY <1>2 DEF Open, Accept
  <2>2. CASE t = s
    <3>1. engine[s] = NoEngine /\ ~session[s].analysing /\ Kept(s)
      BY <2>1 DEF IInv, Faithful, Stage
    <3>2. session'[s].pc = "spawn" /\ ~session'[s].analysing
          /\ session'[s].late = session[s].late
      BY <2>1, <3>1, GotoFields
    <3>3. link'[s] = "open"
      BY <2>1 DEF SocketTypes
    <3> QED  BY <2>1, <2>2, <3>1, <3>2, <3>3 DEF Faithful, Stage, Kept, Trusted, Inside
  <2>3. CASE t # s
    <3>1. /\ link'[t] = link[t] /\ session'[t] = session[t] /\ engine'[t] = engine[t]
          /\ s2c'[t] = s2c[t]
      BY <2>1, <2>3 DEF Goto, SocketTypes
    <3> QED  BY <3>1 DEF IInv, Faithful, Kept
  <2> QED  BY <2>2, <2>3
<1>3. ASSUME NEW s \in Sockets, Message(s) \/ Closed(s), NEW t \in Sockets
      PROVE  Faithful(t)'
  <2>1. CASE Message(s)
    <3>1. /\ UNCHANGED <<session, engine, link>>
          /\ s2c[s] # << >> /\ s2c' = [s2c EXCEPT ![s] = Tail(@)]
      BY <2>1 DEF Message
    <3>2. s2c'[t] = s2c[t] \/ (s2c[t] # << >> /\ s2c'[t] = Tail(s2c[t]))
      BY <3>1 DEF SocketTypes
    <3> QED  BY <3>1, <3>2, ClientKeeps
  <2>2. CASE Closed(s)
    <3>1. /\ UNCHANGED <<session, engine, s2c>> /\ link' = [link EXCEPT ![s] = "closed"]
      BY <2>2 DEF Closed
    <3>2. link'[t] = link[t] \/ link'[t] = "closed"
      BY <3>1 DEF SocketTypes
    <3> QED  BY <3>1, <3>2, ClientKeeps
  <2> QED  BY <1>3, <2>1, <2>2
<1>4. ASSUME User, NEW t \in Sockets
      PROVE  Faithful(t)'
  <2>1. UNCHANGED <<session, engine, s2c>>
    BY <1>4 DEF User, Mount, Show, Unmount, Toggle, Reconfigure
  <2>2. link'[t] = link[t] \/ link[t] = "none" \/ link'[t] \notin {"none", "connecting"}
    <3>1. ASSUME NEW p \in Positions, Mount(p)
          PROVE  link'[t] = link[t] \/ link[t] = "none"
      BY <3>1 DEF Mount, SocketTypes
    <3>2. CASE Unmount
      BY <3>2 DEF Unmount, SocketTypes
    <3>3. ASSUME (\E p \in Positions : Show(p)) \/ Toggle \/ Reconfigure
          PROVE  link'[t] = link[t]
      BY <3>3 DEF Show, Toggle, Reconfigure
    <3> QED  BY <1>4, <3>1, <3>2, <3>3 DEF User
  <2> QED  BY <2>1, <2>2, ClientKeeps
<1>5. ASSUME UNCHANGED vars, NEW t \in Sockets
      PROVE  Faithful(t)'
  BY <1>5, ClientKeeps DEF vars
<1> QED  BY <1>1, <1>2, <1>3, <1>4, <1>5 DEF Next, Server

\* The inductive invariant holds: types, and for each socket what the state of
\* its session says of its engine.
THEOREM Inductive == Spec => []IInv
<1>1. Init => IInv
  BY SocketAssumption, LiveAssumption, InitTypes, InitFaithful DEF IInv
<1>2. IInv /\ [Next]_vars => IInv'
  BY SocketAssumption, LiveAssumption, NextTypes, NextFaithful DEF IInv
<1> QED  BY <1>1, <1>2, PTL DEF Spec

\* However requests, stops, the watchdog and the end of a search cross, a
\* planline is traced from the position its search is of, until a wait for
\* the engine has run out of time (engine_ws.rs, handle_engine_line).
THEOREM PlansTraced == Spec => []PlansAreTracedFromTheirSearch
<1>1. IInv => PlansAreTracedFromTheirSearch
  BY DEF IInv, Faithful, Kept, Traced, PlansAreTracedFromTheirSearch
<1> QED  BY <1>1, Inductive, PTL

\* A session that does not analyse leaves no search, no line and no command
\* but stray stops behind for the next one (engine_ws.rs, start_analysis).
THEOREM QuietSession == Spec => []QuietWhenNotAnalysing
<1>1. IInv => QuietWhenNotAnalysing
  BY DEF IInv, Faithful, Kept, Trusted, Quiet, StopsOnly, QuietWhenNotAnalysing
<1> QED  BY <1>1, Inductive, PTL

(***************************************************************************)
(* The store's word.  While it says "analysing", its last request is on    *)
(* its way to the search that the loop relays, or the news that it is not  *)
(* is on its way back.                                                     *)
(***************************************************************************)
NoAsk(q)     == \A i \in DOMAIN q : q[i].type # "analyse"
Latest(q, p) == \E i \in DOMAIN q : q[i] = Analyse(p) /\ \A j \in i + 1 .. Len(q) : q[j].type # "analyse"
Told(q)      == \E i \in DOMAIN q : q[i].type \in {"error", "bestmove"}

AtWork(ss, p) ==
  \/ ss.pc \in {"drain", "ready"} /\ ss.next = p
  \/ ss.pc = "loop" /\ ss.analysing /\ ss.fen = p
OnItsWay(q, ss, p) == Latest(q, p) \/ (NoAsk(q) /\ AtWork(ss, p))

Serving == {"spawn", "loop", "drain", "ready"}
Claims(s) == store.socket = s /\ store.status = "analysing" /\ ~store.error

OpenWhileAnalysing ==
  store.status = "analysing" => store.socket \in Sockets /\ link[store.socket] = "open"
Truthful(s) ==
  Claims(s) /\ session[s].pc \in Serving => Told(s2c[s]) \/ OnItsWay(c2s[s], session[s], store.current)

\* A request is the last of its queue until the next one; other frames leave
\* it so, and the head of the queue goes to the session.
LEMMA NewRequest ==
  ASSUME NEW q \in Seq(ClientFrames), NEW p \in Positions
  PROVE  Latest(Append(q, Analyse(p)), p)
<1> DEFINE r == Append(q, Analyse(p))
<1>1. Len(r) = Len(q) + 1 /\ Len(r) \in DOMAIN r /\ r[Len(r)] = Analyse(p)
  BY FrameTypes
<1>2. \A j \in Len(r) + 1 .. Len(r) : FALSE
  BY <1>1
<1> HIDE DEF r
<1> QED  BY <1>1, <1>2 DEF Latest

LEMMA OtherFrame ==
  ASSUME NEW q \in Seq(ClientFrames), NEW f \in ClientFrames, f.type # "analyse", NEW p
  PROVE  /\ Latest(q, p) => Latest(Append(q, f), p)
         /\ NoAsk(q) => NoAsk(Append(q, f))
<1> HIDE DEF ClientFrames
<1> PICK r : r = Append(q, f)
  OBVIOUS
<1>1. /\ Len(q) \in Nat /\ Len(r) = Len(q) + 1
      /\ DOMAIN q = 1 .. Len(q) /\ DOMAIN r = 1 .. Len(q) + 1
      /\ \A i \in 1 .. Len(q) : r[i] = q[i]
      /\ r[Len(q) + 1] = f
  OBVIOUS
<1>2. Latest(q, p) => Latest(r, p)
  BY <1>1 DEF Latest
<1>3. NoAsk(q) => NoAsk(r)
  BY <1>1 DEF NoAsk
<1> QED  BY <1>2, <1>3

LEMMA NextFrame ==
  ASSUME NEW q \in Seq(ClientFrames), q # << >>, NEW p
  PROVE  /\ Latest(q, p) => Latest(Tail(q), p) \/ (Head(q) = Analyse(p) /\ NoAsk(Tail(q)))
         /\ NoAsk(q) => NoAsk(Tail(q)) /\ Head(q).type # "analyse"
<1> HIDE DEF ClientFrames
<1> PICK r : r = Tail(q)
  OBVIOUS
<1>1. /\ Len(q) \in Nat /\ Len(q) > 0 /\ Len(r) = Len(q) - 1
      /\ DOMAIN q = 1 .. Len(q) /\ DOMAIN r = 1 .. Len(q) - 1
      /\ \A i \in 1 .. Len(q) - 1 : r[i] = q[i + 1]
      /\ Head(q) = q[1]
  OBVIOUS
<1>2. ASSUME Latest(q, p)
      PROVE  Latest(r, p) \/ (q[1] = Analyse(p) /\ NoAsk(r))
  <2>1. PICK i \in 1 .. Len(q) :
          q[i] = Analyse(p) /\ \A j \in i + 1 .. Len(q) : q[j].type # "analyse"
    BY <1>1, <1>2 DEF Latest
  <2>2. CASE i = 1
    <3>1. \A j \in 1 .. Len(q) - 1 : r[j].type # "analyse"
      BY <1>1, <2>1, <2>2
    <3> QED  BY <1>1, <2>1, <2>2, <3>1 DEF NoAsk
  <2>3. CASE i # 1
    <3>1. i - 1 \in 1 .. Len(q) - 1 /\ r[i - 1] = Analyse(p)
      BY <1>1, <2>1, <2>3
    <3>2. \A j \in i - 1 + 1 .. Len(r) : r[j].type # "analyse"
      BY <1>1, <2>1, <2>3
    <3> QED  BY <1>1, <3>1, <3>2 DEF Latest
  <2> QED  BY <2>2, <2>3
<1>3. NoAsk(q) => NoAsk(r) /\ q[1].type # "analyse"
  BY <1>1 DEF NoAsk
<1> QED  BY <1>1, <1>2, <1>3

\* News stays on its way until the client reads it.
LEMMA MoreNews ==
  ASSUME SocketTypes, NEW s \in Sockets, link[s] = "open", NEW m \in ServerFrames, Send(s, m)
  PROVE  /\ Told(s2c[s]) => Told(s2c'[s])
         /\ m.type \in {"error", "bestmove"} => Told(s2c'[s])
<1> PICK q : q = s2c[s]
  OBVIOUS
<1> PICK r : r = s2c'[s]
  OBVIOUS
<1>1. r = Append(q, m) /\ q \in Seq(ServerFrames)
  BY DEF Send, SocketTypes
<1> HIDE DEF ServerFrames
<1>2. /\ \A i \in DOMAIN q : i \in DOMAIN r /\ r[i] = q[i]
      /\ Len(q) + 1 \in DOMAIN r /\ r[Len(q) + 1] = m
  BY <1>1
<1>3. (Told(q) => Told(r)) /\ (m.type \in {"error", "bestmove"} => Told(r))
  BY <1>2 DEF Told
<1> QED  BY <1>3

LEMMA NewsRead ==
  ASSUME NEW q \in Seq(ServerFrames), q # << >>, Told(q), Head(q).type \notin {"error", "bestmove"}
  PROVE  Told(Tail(q))
<1> HIDE DEF ServerFrames
<1>1. /\ DOMAIN q = 1 .. Len(q) /\ Len(q) \in Nat /\ Head(q) = q[1]
      /\ DOMAIN Tail(q) = 1 .. Len(q) - 1
      /\ \A i \in 1 .. Len(q) - 1 : Tail(q)[i] = q[i + 1]
  OBVIOUS
<1>2. PICK i \in 1 .. Len(q) : q[i].type \in {"error", "bestmove"}
  BY <1>1 DEF Told
<1>3. i # 1 /\ i - 1 \in 1 .. Len(q) - 1 /\ Tail(q)[i - 1] = q[i]
  BY <1>1, <1>2
<1> QED  BY <1>1, <1>2, <1>3 DEF Told

\* The server's steps keep the store's word true: a request that leaves the
\* queue is taken up, and one that cannot be is answered with an error.
LEMMA ServerTruth ==
  ASSUME SocketTypes, NEW s \in Sockets, Serve(s) \/ Uci(s), UNCHANGED clientVars,
         link' = link, store.status = "analysing" => link[store.socket] = "open",
         Truthful(s)
  PROVE  Truthful(s)'
<1> DEFINE p == store.current
           Goal == Told(s2c'[s]) \/ OnItsWay(c2s'[s], session'[s], p)
<1> SUFFICES ASSUME Claims(s), session'[s].pc \in Serving
             PROVE  Goal
  BY DEF Truthful, Claims, clientVars
<1>1. /\ link[s] = "open"
      /\ session[s] \in Sessions /\ c2s[s] \in Seq(ClientFrames)
  BY DEF Claims, SocketTypes
<1>2. session[s].pc \in Serving => Told(s2c[s]) \/ OnItsWay(c2s[s], session[s], p)
  BY DEF Truthful
<1>3. Told(s2c[s]) => Told(s2c'[s])
  <2>1. s2c' = s2c \/ \E m \in ServerFrames : Send(s, m)
    <3>1. \A late \in BOOLEAN : Failed(s, late) => \E m \in ServerFrames : Send(s, m)
      BY FrameTypes DEF Failed
    <3>2. CASE Relay(s)
      <4>1. Head(engine[s].out) \in Output
        BY <3>2, QueueTypes DEF Relay, Unread, SocketTypes
      <4>2. Line(s).pos \in Positions \cup {None} /\ session[s].fen \in Positions \cup {None}
        BY <1>1, <4>1 DEF Line, Output, Sessions
      <4> QED  BY <3>2, <4>2, FrameTypes DEF Relay, Silent
    <3>3. CASE Waiting(s)
      BY <3>1, <3>3 DEF Waiting, Drain, AwaitReady, Go, WaitTimesOut, WaitEnds, Silent
    <3>4. CASE Handle(s)
      BY <3>1, <3>4 DEF Handle, StartAnalysis, Stopping, Configuring, StopSearch, ClientCloses, Silent
    <3>5. CASE Watch(s)
      BY <3>5, FrameTypes DEF Watch, EngineGone, WatchdogStops, WatchdogEnds
    <3>6. CASE Spawned(s) \/ SpawnFails(s) \/ Quit(s)
      BY <3>6, FrameTypes DEF Spawned, SpawnFails, Quit, Silent
    <3>7. CASE Uci(s)
      BY <3>7 DEF Uci, TakeCommand, PrintInfo, Finish, Exit
    <3> QED  BY <3>2, <3>3, <3>4, <3>5, <3>6, <3>7 DEF Serve
  <2> QED  BY <1>1, <2>1, MoreNews
<1>4. CASE Told(s2c[s])
  BY <1>3, <1>4
<1>5. ASSUME session[s].pc \in Serving
      PROVE  OnItsWay(c2s[s], session[s], p) \/ Goal
  BY <1>2, <1>3, <1>5
<1>6. ASSUME NEW late \in BOOLEAN, Failed(s, late)
      PROVE  Goal
  <2>1. Word("error") \in ServerFrames /\ Word("error").type = "error"
    BY FrameTypes DEF Word
  <2> QED  BY <1>1, <1>6, <2>1, MoreNews DEF Failed
<1>7. ASSUME c2s' = c2s, session[s].pc \in Serving,
             AtWork(session[s], p) => AtWork(session'[s], p)
      PROVE  Goal
  BY <1>5, <1>7 DEF OnItsWay
<1>8. ASSUME NEW pc \in {"quit", "over"}, Goto(s, pc)
      PROVE  FALSE
  BY <1>8, GotoFields DEF Serving
<1>9. CASE Spawned(s) \/ SpawnFails(s) \/ Quit(s)
  <2>1. CASE Spawned(s) /\ Goto(s, "loop")
    BY <1>7, <2>1 DEF Spawned, AtWork, Serving
  <2> QED  BY <1>8, <1>9, <2>1 DEF Spawned, SpawnFails, Quit
<1>10. CASE Handle(s)
  <2>1. /\ session[s].pc = "loop" /\ c2s[s] # << >> /\ c2s'[s] = Tail(c2s[s])
        /\ Head(c2s[s]) \in ClientFrames
    <3>1. /\ session[s].pc = "loop" /\ c2s[s] # << >> /\ c2s' = [c2s EXCEPT ![s] = Tail(@)]
      BY <1>10 DEF Handle, StartAnalysis, StopSearch, ClientCloses, Receive
    <3>2. Head(c2s[s]) \in ClientFrames
      BY <1>1, <3>1
    <3> QED  BY <3>1, <3>2 DEF SocketTypes
  <2>2. OnItsWay(c2s[s], session[s], p) \/ Goal
    BY <1>5, <2>1 DEF Serving
  <2>3. CASE StartAnalysis(s)
    <3> DEFINE a == Head(c2s[s]).pos
    <3>1. Head(c2s[s]).type = "analyse"
      BY <2>3 DEF StartAnalysis
    <3>2. CASE Stopping(s, a) \/ Configuring(s, a)
      <4>1. session'[s].pc \in {"drain", "ready"} /\ session'[s].next = a
        BY <1>1, <3>2 DEF Stopping, Configuring, SocketTypes, Sessions
      <4>2. Latest(c2s[s], p) => Latest(c2s'[s], p) \/ (Head(c2s[s]) = Analyse(p) /\ NoAsk(c2s'[s]))
        BY <1>1, <2>1, NextFrame
      <4>3. NoAsk(c2s[s]) => FALSE
        BY <1>1, <2>1, <3>1, NextFrame
      <4>4. Head(c2s[s]) = Analyse(p) => a = p
        BY DEF Analyse
      <4> QED  BY <2>2, <4>1, <4>2, <4>3, <4>4 DEF OnItsWay, AtWork
    <3> QED  BY <1>6, <2>3, <3>2 DEF StartAnalysis
  <2>4. CASE StopSearch(s)
    <3>1. session' = session /\ Head(c2s[s]) = Stop /\ Stop.type # "analyse"
      BY <2>4 DEF StopSearch, Stop
    <3>2. Head(c2s[s]) # Analyse(p)
      BY <3>1 DEF Analyse
    <3>3. Latest(c2s[s], p) => Latest(c2s'[s], p)
      BY <1>1, <2>1, <3>2, NextFrame
    <3>4. NoAsk(c2s[s]) => NoAsk(c2s'[s])
      BY <1>1, <2>1, NextFrame
    <3> QED  BY <2>2, <3>1, <3>3, <3>4 DEF OnItsWay
  <2>5. CASE ClientCloses(s)
    BY <1>8, <2>5 DEF ClientCloses
  <2> QED  BY <1>10, <2>3, <2>4, <2>5 DEF Handle
<1>11. CASE Waiting(s)
  <2>1. CASE WaitTimesOut(s) \/ WaitEnds(s)
    BY <1>6, <2>1 DEF WaitTimesOut, WaitEnds
  <2>2. CASE Drain(s)
    <3>1. c2s' = c2s /\ session[s].pc = "drain"
      BY <2>2 DEF Drain
    <3>2. CASE Goto(s, "ready")
      <4>1. session'[s].pc = "ready" /\ session'[s].next = session[s].next
        BY <1>1, <3>2 DEF Goto, SocketTypes, Sessions
      <4> QED  BY <1>7, <3>1, <4>1 DEF AtWork, Serving
    <3>3. CASE UNCHANGED session
      BY <1>7, <3>1, <3>3 DEF Serving
    <3> QED  BY <1>6, <2>2, <3>2, <3>3 DEF Drain
  <2>3. CASE AwaitReady(s)
    <3>1. c2s' = c2s /\ session[s].pc = "ready"
      BY <2>3 DEF AwaitReady
    <3>2. CASE Go(s)
      <4>1. session'[s].pc = "loop" /\ session'[s].analysing /\ session'[s].fen = session[s].next
        BY <1>1, <3>2 DEF Go, SocketTypes, Sessions
      <4> QED  BY <1>7, <3>1, <4>1 DEF AtWork, Serving
    <3>3. CASE UNCHANGED session
      BY <1>7, <3>1, <3>3 DEF Serving
    <3> QED  BY <1>6, <2>3, <3>2, <3>3 DEF AwaitReady
  <2> QED  BY <1>11, <2>1, <2>2, <2>3 DEF Waiting
<1>12. CASE Relay(s)
  <2>1. c2s' = c2s /\ session[s].pc = "loop"
    BY <1>12 DEF Relay, Watching
  <2>2. CASE UNCHANGED session
    BY <1>7, <2>1, <2>2 DEF Serving
  <2>3. CASE Line(s).type = "bestmove" /\ Send(s, BestMove(Line(s).pos))
    <3>1. Head(engine[s].out) \in Output
      BY <1>12, QueueTypes DEF Relay, Unread, SocketTypes
    <3>2. BestMove(Line(s).pos) \in ServerFrames /\ BestMove(Line(s).pos).type = "bestmove"
      <4>1. Line(s).pos \in Positions \cup {None}
        BY <3>1 DEF Line, Output
      <4> QED  BY <4>1, FrameTypes DEF BestMove, Word
    <3> QED  BY <1>1, <2>3, <3>2, MoreNews
  <2> QED  BY <1>8, <1>12, <2>2, <2>3 DEF Relay
<1>13. CASE Watch(s)
  <2>1. CASE WatchdogStops(s)
    <3>1. c2s' = c2s /\ session[s].pc = "loop"
      BY <2>1 DEF WatchdogStops, Watching
    <3>2. /\ session'[s].pc = session[s].pc /\ session'[s].analysing = session[s].analysing
          /\ session'[s].fen = session[s].fen /\ session'[s].next = session[s].next
      BY <1>1, <2>1 DEF WatchdogStops, SocketTypes, Sessions
    <3> QED  BY <1>7, <3>1, <3>2 DEF AtWork, Serving
  <2> QED  BY <1>8, <1>13, <2>1 DEF Watch, EngineGone, WatchdogEnds
<1>14. CASE Uci(s)
  BY <1>7, <1>14 DEF Uci, TakeCommand, PrintInfo, Finish, Exit
<1> QED  BY <1>9, <1>10, <1>11, <1>12, <1>13, <1>14 DEF Serve

\* A session leaves the other sockets' frames alone.
LEMMA ServerOtherFrames ==
  ASSUME SocketTypes, NEW s \in Sockets, Serve(s) \/ Uci(s), NEW t \in Sockets \ {s}
  PROVE  c2s'[t] = c2s[t]
<1>1. CASE Handle(s)
  BY <1>1 DEF Handle, StartAnalysis, StopSearch, ClientCloses, Receive, SocketTypes
<1>2. CASE ~Handle(s)
  BY <1>2 DEF Serve, Spawned, SpawnFails, Waiting, Drain, AwaitReady, WaitTimesOut, WaitEnds,
              Relay, Watch, EngineGone, WatchdogStops, WatchdogEnds, Quit,
              Uci, TakeCommand, PrintInfo, Finish, Exit
<1> QED  BY <1>1, <1>2

\* The client's steps: a request that is sent is the latest of its queue, and
\* one that cannot be sent is not claimed.
LEMMA AskTruth ==
  ASSUME SocketTypes, NEW st \in Stores, st.socket \in Sockets, st.current \in Positions,
         SendAnalyse(st), link'[st.socket] = "open"
  PROVE  OpenWhileAnalysing' /\ \A s \in Sockets : Truthful(s)'
<1>1. /\ store' = [st EXCEPT !.status = "analysing"]
      /\ c2s' = [c2s EXCEPT ![st.socket] = Append(@, Analyse(st.current))]
  BY DEF SendAnalyse, Sent
<1>2. store'.socket = st.socket /\ store'.current = st.current
  BY <1>1 DEF Stores
<1>3. ASSUME NEW s \in Sockets, s = st.socket
      PROVE  Latest(c2s'[s], st.current)
  <2>1. c2s'[s] = Append(c2s[s], Analyse(st.current)) /\ c2s[s] \in Seq(ClientFrames)
    BY <1>1, <1>3 DEF SocketTypes
  <2> QED  BY <2>1, NewRequest
<1> QED  BY <1>2, <1>3 DEF OpenWhileAnalysing, Truthful, Claims, OnItsWay

LEMMA RequestTruth ==
  ASSUME SocketTypes, NEW st \in Stores, NEW p \in Positions, Request(st, p), link' = link,
         st.status = "analysing" => st.socket \in Sockets /\ link[st.socket] = "open",
         SocketAssumption, LiveAssumption
  PROVE  OpenWhileAnalysing' /\ \A s \in Sockets : Truthful(s)'
<1> DEFINE new == [st EXCEPT !.current = p]
<1>1. /\ new \in Stores /\ new.current = p /\ new.socket = st.socket /\ new.status = st.status
      /\ st.socket \in Sockets \cup {None}
  BY DEF Stores
<1>2. CASE CanSend(st, link)
  <2>1. SendAnalyse(new) /\ new.socket \in Sockets /\ link'[new.socket] = "open"
    BY <1>1, <1>2 DEF Request, CanSend
  <2> HIDE DEF new
  <2> QED  BY <1>1, <2>1, AskTruth
<1>3. CASE ~CanSend(st, link)
  <2>1. store' = [new EXCEPT !.pending = TRUE]
    BY <1>3 DEF Request
  <2>2. st.status # "analysing"
    BY <1>3 DEF CanSend, LiveAssumption
  <2>3. store'.status # "analysing"
    <3> HIDE DEF new
    <3> QED  BY <1>1, <2>1, <2>2 DEF Stores
  <2> QED  BY <2>3 DEF OpenWhileAnalysing, Truthful, Claims
<1> QED  BY <1>2, <1>3

\* Whatever else the client does, a store that still says "analysing" said it
\* before, of the same socket and position.
LEMMA Undisturbed ==
  ASSUME OpenWhileAnalysing, \A s \in Sockets : Truthful(s),
         store'.status = "analysing" =>
           /\ store.status = "analysing" /\ store'.socket = store.socket
           /\ store'.current = store.current /\ store'.error = store.error
           /\ link'[store.socket] = link[store.socket]
           /\ session'[store.socket] = session[store.socket]
           /\ Told(s2c[store.socket]) => Told(s2c'[store.socket])
           /\ \A q : Latest(c2s[store.socket], q) => Latest(c2s'[store.socket], q)
           /\ NoAsk(c2s[store.socket]) => NoAsk(c2s'[store.socket])
  PROVE  OpenWhileAnalysing' /\ \A s \in Sockets : Truthful(s)'
<1>1. OpenWhileAnalysing'
  BY DEF OpenWhileAnalysing
<1>2. ASSUME NEW s \in Sockets, Claims(s)', session'[s].pc \in Serving
      PROVE  Told(s2c'[s]) \/ OnItsWay(c2s'[s], session'[s], store'.current)
  <2>1. store.socket = s /\ store.status = "analysing" /\ Claims(s) /\ session'[s] = session[s]
    BY <1>2 DEF Claims
  <2>2. Told(s2c[s]) \/ OnItsWay(c2s[s], session[s], store.current)
    BY <1>2, <2>1 DEF Truthful
  <2>3. /\ Told(s2c[s]) => Told(s2c'[s])
        /\ \A q : Latest(c2s[s], q) => Latest(c2s'[s], q)
        /\ NoAsk(c2s[s]) => NoAsk(c2s'[s])
        /\ store'.current = store.current
    BY <1>2, <2>1 DEF Claims
  <2> QED  BY <2>1, <2>2, <2>3 DEF OnItsWay
<1> QED  BY <1>1, <1>2 DEF Truthful

LEMMA UserTruth ==
  ASSUME SocketAssumption, LiveAssumption, TInv, OpenWhileAnalysing,
         \A s \in Sockets : Truthful(s), User
  PROVE  OpenWhileAnalysing' /\ \A s \in Sockets : Truthful(s)'
<1> USE DEF TInv
<1>1. store \in Stores /\ panel \in Panels /\ SocketTypes
  BY DEF ClientTypes
<1>2. ASSUME (\E p \in Positions : Mount(p)) \/ Unmount
      PROVE  store'.status # "analysing"
  BY <1>1, <1>2 DEF Mount, Unmount, Stores
<1>3. store.status = "analysing" => store.socket \in Sockets /\ link[store.socket] = "open"
  BY DEF OpenWhileAnalysing
<1>4. ASSUME NEW p \in Positions, Show(p)
      PROVE  OpenWhileAnalysing' /\ \A s \in Sockets : Truthful(s)'
  <2>1. CASE Request(store, p)
    BY <1>1, <1>3, <1>4, <2>1, RequestTruth DEF Show
  <2>2. CASE UNCHANGED <<store, c2s>>
    BY <1>4, <2>2, Undisturbed DEF Show
  <2> QED  BY <1>4, <2>1, <2>2 DEF Show
<1>5. CASE Toggle
  <2>0. UNCHANGED <<link, s2c, session, engine>> /\ panel.mounted
    BY <1>5 DEF Toggle
  <2>1. CASE Request(store, panel.fen)
    <3>1. panel.fen \in Positions
      BY <1>1, <2>0 DEF Panels, Asked
    <3> QED  BY <1>1, <1>3, <2>0, <2>1, <3>1, RequestTruth
  <2>2. CASE UNCHANGED store /\ CanSend(store, link) /\ Sent(store, Stop)
    <3>1. store.socket \in Sockets
      BY <1>1, <2>2 DEF CanSend, Stores
    <3>2. c2s'[store.socket] = Append(c2s[store.socket], Stop)
          /\ c2s[store.socket] \in Seq(ClientFrames)
      BY <1>1, <2>2, <3>1 DEF Sent, SocketTypes
    <3>3. Stop \in ClientFrames /\ Stop.type # "analyse"
      BY FrameTypes DEF Stop
    <3>4. /\ \A q : Latest(c2s[store.socket], q) => Latest(c2s'[store.socket], q)
          /\ NoAsk(c2s[store.socket]) => NoAsk(c2s'[store.socket])
      BY <3>2, <3>3, OtherFrame
    <3> QED  BY <2>0, <2>2, <3>4, Undisturbed
  <2>3. CASE UNCHANGED <<store, c2s>>
    BY <2>0, <2>3, Undisturbed
  <2> QED  BY <1>5, <2>1, <2>2, <2>3 DEF Toggle
<1>6. CASE Reconfigure
  <2>1. /\ store.socket \in Sockets /\ store.current \in Positions /\ SendAnalyse(store)
        /\ link'[store.socket] = "open"
    BY <1>1, <1>6 DEF Reconfigure, CanSend, Stores
  <2> QED  BY <1>1, <2>1, AskTruth
<1>7. CASE (\E p \in Positions : Mount(p)) \/ Unmount
  BY <1>2, <1>7, Undisturbed
<1> QED  BY <1>4, <1>5, <1>6, <1>7 DEF User

LEMMA EventTruth ==
  ASSUME SocketAssumption, LiveAssumption, TInv, OpenWhileAnalysing,
         \A s \in Sockets : Truthful(s), NEW s \in Sockets,
         link[s] \in {"none", "connecting"} => session[s].pc = "none",
         Open(s) \/ Message(s) \/ Closed(s)
  PROVE  OpenWhileAnalysing' /\ \A t \in Sockets : Truthful(t)'
<1> USE DEF TInv
<1>1. store \in Stores /\ panel \in Panels /\ SocketTypes
  BY DEF ClientTypes
<1>2. store.status = "analysing" => store.socket \in Sockets /\ link[store.socket] = "open"
  BY DEF OpenWhileAnalysing
<1>3. CASE Open(s)
  <2> DEFINE st == [store EXCEPT !.pending = FALSE]
  <2>1. /\ st \in Stores /\ st.socket = store.socket /\ st.current = store.current
        /\ st.status = store.status /\ st.error = store.error
    BY <1>1 DEF Stores
  <2>2. link[s] = "connecting" /\ link' = [link EXCEPT ![s] = "open"] /\ Goto(s, "spawn")
        /\ UNCHANGED s2c
    BY <1>3 DEF Open, Accept
  <2>3. CASE store.pending /\ CanSend(store, link') /\ SendAnalyse(st)
    <3>1. st.socket \in Sockets /\ st.current \in Positions /\ link'[st.socket] = "open"
      BY <1>1, <2>1, <2>3 DEF CanSend, Asked, Stores
    <3> HIDE DEF st
    <3> QED  BY <1>1, <2>1, <2>3, <3>1, AskTruth
  <2>4. CASE store' = st /\ UNCHANGED c2s
    <3>1. store.status = "analysing" => store.socket # s
      BY <1>2, <2>2
    <3>2. store.status = "analysing" => /\ link'[store.socket] = link[store.socket]
                                        /\ session'[store.socket] = session[store.socket]
      BY <1>1, <1>2, <2>2, <3>1 DEF Goto, SocketTypes
    <3> HIDE DEF st
    <3> QED  BY <2>1, <2>2, <2>4, <3>2, Undisturbed
  <2> QED  BY <1>3, <2>3, <2>4 DEF Open
<1>4. CASE Message(s)
  <2>1. /\ UNCHANGED <<link, session, engine, panel, asks>>
        /\ s2c[s] # << >> /\ s2c' = [s2c EXCEPT ![s] = Tail(@)]
    BY <1>4 DEF Message
  <2>2. s2c[s] \in Seq(ServerFrames) /\ Head(s2c[s]) \in ServerFrames
    <3>1. s2c[s] \in Seq(ServerFrames)
      BY <1>1 DEF SocketTypes
    <3> QED  BY <2>1, <3>1
  <2>3. ASSUME Head(s2c[s]).type \notin {"error", "bestmove"}, NEW t \in Sockets, Told(s2c[t])
        PROVE  Told(s2c'[t])
    BY <1>1, <2>1, <2>2, <2>3, NewsRead DEF SocketTypes
  <2>4. CASE Head(s2c[s]).type = "ready"
    <3> DEFINE st == [store EXCEPT !.status = IF @ = "connecting" THEN "ready" ELSE @]
    <3>1. /\ st \in Stores /\ st.socket = store.socket /\ st.current = store.current
          /\ st.error = store.error
          /\ st.status = "analysing" => store.status = "analysing"
      BY <1>1 DEF Stores
    <3>2. CASE Request(st, panel.fen) /\ panel.mounted
      <4>1. panel.fen \in Positions
        BY <1>1, <3>2 DEF Panels, Asked
      <4> HIDE DEF st
      <4> QED  BY <1>1, <1>2, <2>1, <3>1, <3>2, <4>1, RequestTruth
    <3>3. CASE store' = st /\ UNCHANGED c2s
      <4> HIDE DEF st
      <4> QED  BY <1>2, <2>1, <2>3, <2>4, <3>1, <3>3, Undisturbed
    <3> QED  BY <1>4, <2>4, <3>2, <3>3 DEF Message
  <2>5. CASE Head(s2c[s]).type = "info"
    <3>1. UNCHANGED <<store, c2s>>
      BY <1>4, <2>5 DEF Message
    <3> QED  BY <1>2, <2>1, <2>3, <2>5, <3>1, Undisturbed
  <2>6. CASE Head(s2c[s]).type = "bestmove"
    <3>1. store' = [store EXCEPT !.status = IF @ = "analysing" THEN "ready" ELSE @]
      BY <1>4, <2>6 DEF Message
    <3>2. store'.status # "analysing"
      BY <1>1, <3>1 DEF Stores
    <3> QED  BY <3>2, Undisturbed
  <2>7. CASE Head(s2c[s]).type = "error"
    <3>1. store' = [store EXCEPT !.error = TRUE]
      BY <1>4, <2>7 DEF Message
    <3>2. store'.error /\ store'.status = store.status /\ store'.socket = store.socket
      BY <1>1, <3>1 DEF Stores
    <3> QED  BY <1>2, <2>1, <3>2 DEF OpenWhileAnalysing, Truthful, Claims
  <2> QED  BY <2>2, <2>4, <2>5, <2>6, <2>7 DEF ServerFrames
<1>5. CASE Closed(s)
  <2>1. store'.status # "analysing"
    BY <1>1, <1>5 DEF Closed, Stores
  <2> QED  BY <2>1, Undisturbed
<1> QED  BY <1>3, <1>4, <1>5

\* The invariant of the store's word.
AInv == OpenWhileAnalysing /\ \A s \in Sockets : Truthful(s)

LEMMA NextTruth ==
  ASSUME SocketAssumption, LiveAssumption, IInv, AInv, [Next]_vars
  PROVE  AInv'
<1>1. TInv /\ SocketTypes /\ OpenWhileAnalysing /\ \A s \in Sockets : Truthful(s)
  BY DEF IInv, TInv, AInv
<1>2. CASE User
  BY <1>1, <1>2, UserTruth DEF AInv
<1>3. ASSUME NEW s \in Sockets, Open(s) \/ Message(s) \/ Closed(s)
      PROVE  AInv'
  <2>1. link[s] \in {"none", "connecting"} => session[s].pc = "none"
    BY DEF IInv, Faithful, Stage
  <2> QED  BY <1>1, <1>3, <2>1, EventTruth DEF AInv
<1>4. ASSUME NEW s \in Sockets, Serve(s) \/ Uci(s), UNCHANGED clientVars
      PROVE  AInv'
  <2>1. link' = link
    BY <1>1, <1>4, ServerStage DEF IInv
  <2>2. OpenWhileAnalysing'
    BY <1>1, <1>4, <2>1 DEF OpenWhileAnalysing, clientVars
  <2>3. store.status = "analysing" => link[store.socket] = "open"
    BY <1>1 DEF OpenWhileAnalysing
  <2>4. Truthful(s)'
    BY <1>1, <1>4, <2>1, <2>3, ServerTruth
  <2>5. ASSUME NEW t \in Sockets \ {s}
        PROVE  Truthful(t)'
    <3>1. session'[t] = session[t] /\ s2c'[t] = s2c[t]
      BY <1>1, <1>4, ServerOthers DEF Others
    <3>2. c2s'[t] = c2s[t] /\ store' = store
      BY <1>1, <1>4, ServerOtherFrames DEF clientVars
    <3> QED  BY <1>1, <3>1, <3>2 DEF Truthful, Claims
  <2> QED  BY <2>2, <2>4, <2>5 DEF AInv
<1>5. CASE UNCHANGED vars
  BY <1>1, <1>5 DEF vars, AInv, OpenWhileAnalysing, Truthful, Claims
<1> QED  BY <1>2, <1>3, <1>4, <1>5 DEF Next, Server

\* A panel that says "analysing" is right once nothing is in flight, for any
\* number of pages, however requests, stops, failures and the engine's death
\* cross (engine.ts, engine_ws.rs).
THEOREM AnalysingTrue == Spec => []AnalysingIsTrue
<1>1. Init => AInv
  BY DEF Init, AInv, OpenWhileAnalysing, Truthful, Claims
<1>2. IInv /\ AInv /\ [Next]_vars => AInv'
  BY SocketAssumption, LiveAssumption, NextTruth
<1>3. AInv => AnalysingIsTrue
  BY DEF AInv, AnalysingIsTrue, Truthful, Claims, Serving, Told, OnItsWay, Latest, AtWork
<1> QED  BY <1>1, <1>2, <1>3, Inductive, PTL DEF Spec
=============================================================================
