---------------------------- MODULE AnalysisSocket ----------------------------
(***************************************************************************)
(* The server's side of live analysis: one task per WebSocket              *)
(* (src/src/server/engine_ws.rs) that owns one engine process              *)
(* (src/src/engine/manager.rs) and interleaves the client's messages, the  *)
(* engine's output and a watchdog in one select! loop.                     *)
(*                                                                         *)
(* The engine is the operating system's: it reads its commands in order,   *)
(* prints lines, may fall silent for ever and may exit at any moment.      *)
(* Clocks are abstract: a time limit may end whenever the code waits for   *)
(* it.  Who sends on the socket is left to the module that extends this    *)
(* one.                                                                    *)
(***************************************************************************)
EXTENDS Naturals, Sequences, FiniteSets

CONSTANTS
  Sockets,    \* WebSocket connections, each used once
  Positions,  \* FENs
  Invalid,    \* those that set_position rejects
  MaxInfos,   \* bound: info lines an engine prints in one search
  None        \* "no position"

ASSUME SocketAssumption ==
  /\ Invalid \subseteq Positions
  /\ MaxInfos \in Nat
  /\ None \notin Positions

VARIABLES
  link,     \* link[s]: the connection as the client has it
  c2s,      \* c2s[s]: frames on their way to the server
  s2c,      \* s2c[s]: frames on their way to the client
  session,  \* session[s]: the server's task
  engine    \* engine[s]: the task's engine process

(***************************************************************************)
(* Frames.  An info frame stands for the info event and the planline sent  *)
(* with it: pos is the position the engine searched, plan the one the      *)
(* trajectories are traced from.                                           *)
(***************************************************************************)
ClientFrames == [type : {"analyse"}, pos : Positions] \cup [type : {"stop", "close"}]
Analyse(p) == [type |-> "analyse", pos |-> p]
Stop == [type |-> "stop"]
Close == [type |-> "close"]

Word(t) == [type |-> t, pos |-> None, plan |-> None]
Info(p, plan) == [type |-> "info", pos |-> p, plan |-> plan]
BestMove(p) == [Word("bestmove") EXCEPT !.pos = p]
ServerFrames == [type : {"ready", "info", "bestmove", "error"},
                 pos : Positions \cup {None}, plan : Positions \cup {None}]

Commands == [type : {"go"}, pos : Positions] \cup [type : {"stop", "isready"}]
Output == [type : {"readyok", "info", "bestmove"}, pos : Positions \cup {None}, plan : {None}]

NoEngine == [alive |-> FALSE, search |-> None, infos |-> 0, stdin |-> << >>, out |-> << >>]
NoSession == [pc |-> "none", analysing |-> FALSE, fen |-> None, watchdog |-> "off",
              next |-> None, late |-> FALSE]

Engines == [alive : BOOLEAN, search : Positions \cup {None}, infos : 0 .. MaxInfos,
            stdin : Seq(Commands), out : Seq(Output)]
\* late is a history variable: a wait of this session has run out of time.
Sessions == [pc : {"none", "spawn", "loop", "drain", "ready", "quit", "over"},
             analysing : BOOLEAN, fen : Positions \cup {None},
             watchdog : {"off", "armed", "stopping"},
             next : Positions \cup {None}, late : BOOLEAN]

SocketTypes ==
  /\ link \in [Sockets -> {"none", "connecting", "open", "closing", "closed"}]
  /\ c2s \in [Sockets -> Seq(ClientFrames)]
  /\ s2c \in [Sockets -> Seq(ServerFrames)]
  /\ session \in [Sockets -> Sessions]
  /\ engine \in [Sockets -> Engines]

SocketInit ==
  /\ link = [s \in Sockets |-> "none"]
  /\ c2s = [s \in Sockets |-> << >>]
  /\ s2c = [s \in Sockets |-> << >>]
  /\ session = [s \in Sockets |-> NoSession]
  /\ engine = [s \in Sockets |-> NoEngine]

\* What the server writes after the client has closed is not delivered.
Send(s, m) == s2c' = [s2c EXCEPT ![s] = IF link[s] = "open" THEN Append(@, m) ELSE @]
Silent == UNCHANGED s2c

Goto(s, pc) == session' = [session EXCEPT ![s].pc = pc]
Command(s, c) == engine' = [engine EXCEPT ![s].stdin = Append(@, c)]
Unread(s) == engine[s].out # << >>
Line(s) == Head(engine[s].out)
ReadLine(s) == engine' = [engine EXCEPT ![s].out = Tail(@)]
Eof(s) == ~engine[s].alive /\ ~Unread(s)

(***************************************************************************)
(* The session's start: on_upgrade, then the engine's handshake.           *)
(***************************************************************************)
Accept(s) ==
  /\ link[s] = "connecting"
  /\ link' = [link EXCEPT ![s] = "open"]
  /\ Goto(s, "spawn")
  /\ UNCHANGED <<s2c, engine>>

Spawned(s) ==
  /\ session[s].pc = "spawn"
  /\ engine' = [engine EXCEPT ![s].alive = TRUE]
  /\ \/ Goto(s, "loop") /\ Send(s, Word("ready"))
     \/ link[s] # "open" /\ Goto(s, "quit") /\ Silent
  /\ UNCHANGED <<link, c2s>>

SpawnFails(s) ==
  /\ session[s].pc = "spawn"
  /\ Send(s, Word("error"))
  /\ Goto(s, "over")
  /\ UNCHANGED <<link, c2s, engine>>

(***************************************************************************)
(* The client's messages.  start_analysis stops and drains the search in   *)
(* progress, sets the options and waits for readyok (MultiPV is always     *)
(* set), and starts the search.  An error on the way is reported and the   *)
(* session goes on; current_fen keeps its value.                           *)
(***************************************************************************)
Receive(s) ==
  /\ session[s].pc = "loop"
  /\ c2s[s] # << >>
  /\ c2s' = [c2s EXCEPT ![s] = Tail(@)]
  /\ UNCHANGED link

\* Mutant: the error is not reported.
Failed_Silently(s, late) ==
  /\ Silent
  /\ session' = [session EXCEPT ![s].pc = "loop", ![s].analysing = FALSE,
                                ![s].watchdog = "off", ![s].next = None,
                                ![s].late = @ \/ late]

Failed(s, late) ==
  /\ Send(s, Word("error"))
  /\ session' = [session EXCEPT ![s].pc = "loop", ![s].analysing = FALSE,
                                ![s].watchdog = "off", ![s].next = None,
                                ![s].late = @ \/ late]

\* Mutant: the search in progress is neither stopped nor drained.
Stopping_Running(s, p) ==
  /\ session[s].analysing
  /\ engine[s].alive
  /\ Command(s, [type |-> "isready"])
  /\ session' = [session EXCEPT ![s].pc = "ready", ![s].next = p]
  /\ Silent

Stopping(s, p) ==
  /\ session[s].analysing
  /\ engine[s].alive
  /\ Command(s, Stop)
  /\ session' = [session EXCEPT ![s].pc = "drain", ![s].next = p]
  /\ Silent

Configuring(s, p) ==
  /\ ~session[s].analysing
  /\ engine[s].alive
  /\ Command(s, [type |-> "isready"])
  /\ session' = [session EXCEPT ![s].pc = "ready", ![s].next = p]
  /\ Silent

StartAnalysis(s) ==
  /\ Receive(s)
  /\ Head(c2s[s]).type = "analyse"
  /\ LET p == Head(c2s[s]).pos IN
       \/ Stopping(s, p)
       \/ Configuring(s, p)
       \/ ~engine[s].alive /\ Failed(s, FALSE) /\ UNCHANGED engine

\* Mutant: the session forgets the search before its bestmove has come.
StopSearch_Forgets(s) ==
  /\ Receive(s)
  /\ Head(c2s[s]) = Stop
  /\ IF session[s].analysing /\ engine[s].alive THEN Command(s, Stop) ELSE UNCHANGED engine
  /\ session' = [session EXCEPT ![s].analysing = FALSE]
  /\ UNCHANGED s2c

StopSearch(s) ==
  /\ Receive(s)
  /\ Head(c2s[s]) = Stop
  /\ IF session[s].analysing /\ engine[s].alive THEN Command(s, Stop) ELSE UNCHANGED engine
  /\ UNCHANGED <<s2c, session>>

ClientCloses(s) ==
  /\ Receive(s)
  /\ Head(c2s[s]) = Close
  /\ Goto(s, "quit")
  /\ UNCHANGED <<s2c, engine>>

(***************************************************************************)
(* Waiting for the engine inside start_analysis.                           *)
(***************************************************************************)
Drain(s) ==
  /\ session[s].pc = "drain"
  /\ Unread(s)
  /\ IF Line(s).type # "bestmove"
       THEN ReadLine(s) /\ UNCHANGED session /\ Silent
     ELSE IF engine[s].alive
       THEN /\ engine' = [engine EXCEPT ![s].out = Tail(@),
                                        ![s].stdin = Append(@, [type |-> "isready"])]
            /\ Goto(s, "ready")
            /\ Silent
     ELSE ReadLine(s) /\ Failed(s, FALSE)
  /\ UNCHANGED <<link, c2s>>

Go(s) ==
  /\ engine' = [engine EXCEPT ![s].out = Tail(@),
                  ![s].stdin = Append(@, [type |-> "go", pos |-> session[s].next])]
  /\ session' = [session EXCEPT ![s].pc = "loop", ![s].analysing = TRUE,
                                ![s].watchdog = "armed", ![s].fen = session[s].next,
                                ![s].next = None]
  /\ Silent

AwaitReady(s) ==
  /\ session[s].pc = "ready"
  /\ Unread(s)
  /\ IF Line(s).type # "readyok"
       THEN ReadLine(s) /\ UNCHANGED session /\ Silent
     ELSE IF engine[s].alive /\ session[s].next \notin Invalid
       THEN Go(s)
     ELSE ReadLine(s) /\ Failed(s, FALSE)
  /\ UNCHANGED <<link, c2s>>

\* DRAIN_TIMEOUT, HANDSHAKE_TIMEOUT; at the end of the output the drain is
\* satisfied, but the next write fails.
WaitTimesOut(s) ==
  /\ session[s].pc \in {"drain", "ready"}
  /\ Failed(s, TRUE)
  /\ UNCHANGED <<link, c2s, engine>>

WaitEnds(s) ==
  /\ session[s].pc \in {"drain", "ready"}
  /\ Eof(s)
  /\ Failed(s, FALSE)
  /\ UNCHANGED <<link, c2s, engine>>

(***************************************************************************)
(* The other branches of the loop: engine output while a search runs, and  *)
(* the watchdog, which sends one stop and then ends the session.           *)
(***************************************************************************)
Watching(s) == session[s].pc = "loop" /\ session[s].analysing

Relay(s) ==
  /\ Watching(s)
  /\ Unread(s)
  /\ ReadLine(s)
  /\ \/ /\ Line(s).type = "info"
        /\ Send(s, Info(Line(s).pos, session[s].fen))
        /\ UNCHANGED session
     \/ /\ Line(s).type = "bestmove"
        /\ Send(s, BestMove(Line(s).pos))
        /\ session' = [session EXCEPT ![s].analysing = FALSE, ![s].watchdog = "off"]
     \/ /\ Line(s).type = "readyok"
        /\ UNCHANGED <<s2c, session>>
     \/ /\ Line(s).type # "readyok"
        /\ link[s] # "open"
        /\ Goto(s, "quit")
        /\ Silent
  /\ UNCHANGED <<link, c2s>>

EngineGone(s) ==
  /\ Watching(s)
  /\ Eof(s)
  /\ Send(s, Word("error"))
  /\ Goto(s, "quit")
  /\ UNCHANGED <<link, c2s, engine>>

WatchdogStops(s) ==
  /\ Watching(s)
  /\ session[s].watchdog = "armed"
  /\ session' = [session EXCEPT ![s].watchdog = "stopping"]
  /\ IF engine[s].alive THEN Command(s, Stop) ELSE UNCHANGED engine
  /\ UNCHANGED <<link, c2s, s2c>>

\* Mutant: the watchdog is armed again instead of ending the session.
WatchdogEnds_Rearms(s) ==
  /\ Watching(s)
  /\ session[s].watchdog = "stopping"
  /\ Send(s, Word("error"))
  /\ session' = [session EXCEPT ![s].watchdog = "armed"]
  /\ UNCHANGED <<link, c2s, engine>>

WatchdogEnds(s) ==
  /\ Watching(s)
  /\ session[s].watchdog = "stopping"
  /\ Send(s, Word("error"))
  /\ Goto(s, "quit")
  /\ UNCHANGED <<link, c2s, engine>>

\* Mutant: quit waits for the engine to exit.
Quit_Waits(s) ==
  /\ session[s].pc = "quit"
  /\ ~engine[s].alive
  /\ engine' = [engine EXCEPT ![s] = NoEngine]
  /\ Goto(s, "over")
  /\ UNCHANGED <<link, c2s, s2c>>

\* Engine::quit waits two seconds at most, then the process is killed.
Quit(s) ==
  /\ session[s].pc = "quit"
  /\ engine' = [engine EXCEPT ![s] = NoEngine]
  /\ Goto(s, "over")
  /\ UNCHANGED <<link, c2s, s2c>>

(***************************************************************************)
(* The engine: commands in the order written; go waits for the search in   *)
(* progress to end, and isready is answered at any time.                   *)
(***************************************************************************)
Says(e, ls) == [e EXCEPT !.out = @ \o ls]
EndSearch(e) ==
  IF e.search = None THEN e
  ELSE Says([e EXCEPT !.search = None, !.infos = 0],
             <<[type |-> "bestmove", pos |-> e.search, plan |-> None]>>)

TakeCommand(s) ==
  LET e == engine[s]
      read == [e EXCEPT !.stdin = Tail(@)]
  IN /\ e.alive
     /\ e.stdin # << >>
     /\ engine' = [engine EXCEPT ![s] =
          CASE Head(e.stdin).type = "stop" -> EndSearch(read)
            [] Head(e.stdin).type = "isready" ->
                 Says(read, <<[type |-> "readyok", pos |-> None, plan |-> None]>>)
            [] Head(e.stdin).type = "go" ->
                 [read EXCEPT !.search = Head(e.stdin).pos]]
     /\ Head(e.stdin).type = "go" => e.search = None
     /\ UNCHANGED <<link, c2s, s2c, session>>

PrintInfo(s) ==
  /\ engine[s].alive
  /\ engine[s].search # None
  /\ engine[s].infos < MaxInfos
  /\ LET e == engine[s] IN
       engine' = [engine EXCEPT ![s] =
         Says([e EXCEPT !.infos = e.infos + 1],
              <<[type |-> "info", pos |-> e.search, plan |-> None]>>)]
  /\ UNCHANGED <<link, c2s, s2c, session>>

Finish(s) ==
  /\ engine[s].alive
  /\ engine[s].search # None
  /\ engine' = [engine EXCEPT ![s] = EndSearch(@)]
  /\ UNCHANGED <<link, c2s, s2c, session>>

Exit(s) ==
  /\ engine[s].alive
  /\ engine' = [engine EXCEPT ![s] = [NoEngine EXCEPT !.out = engine[s].out]]
  /\ UNCHANGED <<link, c2s, s2c, session>>

Waiting(s) == Drain(s) \/ AwaitReady(s) \/ WaitTimesOut(s) \/ WaitEnds(s)
Handle(s) == StartAnalysis(s) \/ StopSearch(s) \/ ClientCloses(s)
Watch(s) == EngineGone(s) \/ WatchdogStops(s) \/ WatchdogEnds(s)
Serve(s) == Spawned(s) \/ SpawnFails(s) \/ Waiting(s) \/ Handle(s) \/ Relay(s) \/ Watch(s)
              \/ Quit(s)
Uci(s) == TakeCommand(s) \/ PrintInfo(s) \/ Finish(s) \/ Exit(s)

(***************************************************************************)
(* Properties.                                                             *)
(***************************************************************************)

\* The trajectories of a planline are traced from the position its search is
\* of, however new requests, stops and the end of the search cross; a wait
\* that ran out of time loses the guarantee.
PlansAreTracedFromTheirSearch ==
  \A s \in Sockets :
    ~session[s].late =>
      \A i \in DOMAIN s2c[s] : s2c[s][i].type = "info" => s2c[s][i].plan = s2c[s][i].pos

\* A session that does not analyse has a quiet engine: the next search is not
\* ended or answered by what the last one left behind.
QuietWhenNotAnalysing ==
  \A s \in Sockets :
    /\ session[s].pc = "loop"
    /\ ~session[s].analysing
    /\ ~session[s].late
    /\ engine[s].alive
    =>
      /\ engine[s].search = None
      /\ engine[s].out = << >>
      /\ \A i \in DOMAIN engine[s].stdin : engine[s].stdin[i] = Stop

\* A search never outlives the watchdog, whatever the engine does.
EverySearchEnds ==
  \A s \in Sockets : session[s].analysing ~> ~session[s].analysing \/ session[s].pc = "over"

\* When the client has gone, the task ends and its engine process with it,
\* whatever the engine does.
EngineIsFreed ==
  \A s \in Sockets :
    link[s] \in {"closing", "closed"} ~>
      session[s].pc \in {"none", "over"} /\ ~engine[s].alive
=============================================================================
