----------------------------- MODULE LiveAnalysis -----------------------------
(***************************************************************************)
(* Live analysis as the user has it: the engine store of the browser       *)
(* (src/frontend/src/stores/engine.ts) and the panel that drives it        *)
(* (src/frontend/src/components/EnginePanel.vue) over the sockets of       *)
(* AnalysisSocket.                                                         *)
(*                                                                         *)
(* A panel is mounted for a board, analyses each position shown while its  *)
(* toggle is on, and is unmounted when the user leaves the page; the next  *)
(* page mounts another one.  The store outlives them all.                  *)
(***************************************************************************)
EXTENDS AnalysisSocket

CONSTANT MaxAsks   \* bound: positions shown, toggles and reconfigurations

ASSUME LiveAssumption == MaxAsks \in Nat /\ Sockets \subseteq Nat /\ None \notin Sockets

VARIABLES
  store,  \* the engine store
  panel,  \* the mounted panel
  asks    \* what the user has done so far, up to MaxAsks

vars == <<link, c2s, s2c, session, engine, store, panel, asks>>
clientVars == <<store, panel, asks>>

Stores == [status : {"idle", "connecting", "ready", "analysing", "closed"},
           socket : Sockets \cup {None}, current : Positions \cup {None},
           pending : BOOLEAN, error : BOOLEAN]
Panels == [mounted : BOOLEAN, on : BOOLEAN, fen : Positions \cup {None}]

TypeOK ==
  /\ SocketTypes
  /\ store \in Stores
  /\ panel \in Panels
  /\ asks \in 0 .. MaxAsks

Init ==
  /\ SocketInit
  /\ store = [status |-> "idle", socket |-> None, current |-> None,
              pending |-> FALSE, error |-> FALSE]
  /\ panel = [mounted |-> FALSE, on |-> FALSE, fen |-> None]
  /\ asks = 0

Ask == asks < MaxAsks /\ asks' = asks + 1
Ready(st) == st.status \in {"ready", "analysing"}

(***************************************************************************)
(* Sending: _send needs the store's own socket, open.                      *)
(***************************************************************************)
CanSend(st, links) == st.socket # None /\ links[st.socket] = "open"
Sent(st, frame) == c2s' = [c2s EXCEPT ![st.socket] = Append(@, frame)]

\* _sendAnalyse, which reports whether it could send.
SendAnalyse(st) ==
  /\ Sent(st, Analyse(st.current))
  /\ store' = [st EXCEPT !.status = "analysing"]

\* analyse(fen): sent at once, or kept until the socket opens.
Request(st, p) ==
  LET new == [st EXCEPT !.current = p] IN
    IF CanSend(st, link)
      THEN SendAnalyse(new)
      ELSE store' = [new EXCEPT !.pending = TRUE] /\ UNCHANGED c2s

(***************************************************************************)
(* The panel.                                                              *)
(***************************************************************************)
\* connect(): the store has no socket, or one that is neither connecting nor
\* ready; a new one takes its place.
Mount(p) ==
  /\ ~panel.mounted
  /\ panel' = [mounted |-> TRUE, on |-> TRUE, fen |-> p]
  /\ \E s \in Sockets :
       /\ link[s] = "none"
       /\ \A t \in Sockets : link[t] = "none" => s <= t
       /\ link' = [link EXCEPT ![s] = "connecting"]
       /\ store' = [store EXCEPT !.status = "connecting", !.socket = s, !.error = FALSE]
  /\ UNCHANGED <<c2s, s2c, session, engine, asks>>

\* stop() and disconnect(); closing a socket that is still connecting sends
\* nothing.
Unmount ==
  /\ panel.mounted
  /\ panel' = [panel EXCEPT !.mounted = FALSE]
  /\ store' = [store EXCEPT !.status = "idle", !.socket = None, !.pending = FALSE]
  /\ IF store.socket = None THEN UNCHANGED <<link, c2s>>
     ELSE /\ link' = [link EXCEPT ![store.socket] = IF @ = "closed" THEN @ ELSE "closing"]
          /\ c2s' = [c2s EXCEPT ![store.socket] =
                       IF CanSend(store, link) THEN @ \o <<Stop, Close>> ELSE @]
  /\ UNCHANGED <<s2c, session, engine, asks>>

Show(p) ==
  /\ Ask
  /\ panel.mounted
  /\ p # panel.fen
  /\ panel' = [panel EXCEPT !.fen = p]
  /\ IF panel.on THEN Request(store, p) ELSE UNCHANGED <<store, c2s>>
  /\ UNCHANGED <<link, s2c, session, engine>>

Toggle ==
  /\ Ask
  /\ panel.mounted
  /\ panel' = [panel EXCEPT !.on = ~@]
  /\ IF ~panel.on THEN Request(store, panel.fen)
     ELSE /\ IF CanSend(store, link) THEN Sent(store, Stop) ELSE UNCHANGED c2s
          /\ UNCHANGED store
  /\ UNCHANGED <<link, s2c, session, engine>>

\* An engine option has changed.
Reconfigure ==
  /\ Ask
  /\ panel.mounted
  /\ store.current # None
  /\ store.status = "analysing"
  /\ CanSend(store, link)
  /\ SendAnalyse(store)
  /\ UNCHANGED <<link, s2c, session, engine, panel>>

(***************************************************************************)
(* The socket's events.                                                    *)
(***************************************************************************)
\* onopen sends what is pending, on the store's socket.
Open(s) ==
  /\ Accept(s)
  /\ IF store.pending /\ CanSend(store, link')
       THEN SendAnalyse([store EXCEPT !.pending = FALSE])
       ELSE store' = [store EXCEPT !.pending = FALSE] /\ UNCHANGED c2s
  /\ UNCHANGED <<panel, asks>>

\* onmessage, and the panel's watch on engine.ready: a frame is delivered
\* while the socket is open.
Message(s) ==
  /\ link[s] = "open"
  /\ s2c[s] # << >>
  /\ s2c' = [s2c EXCEPT ![s] = Tail(@)]
  /\ CASE Head(s2c[s]).type = "ready" ->
            LET st == [store EXCEPT !.status = IF @ = "connecting" THEN "ready" ELSE @] IN
              IF panel.mounted /\ panel.on /\ st.status = "ready" /\ ~Ready(store)
                THEN Request(st, panel.fen)
                ELSE store' = st /\ UNCHANGED c2s
       [] Head(s2c[s]).type = "info" -> UNCHANGED <<store, c2s>>
       [] Head(s2c[s]).type = "bestmove" ->
            /\ store' = [store EXCEPT !.status = IF @ = "analysing" THEN "ready" ELSE @]
            /\ UNCHANGED c2s
       [] Head(s2c[s]).type = "error" ->
            store' = [store EXCEPT !.error = TRUE] /\ UNCHANGED c2s
  /\ UNCHANGED <<link, session, engine, panel, asks>>

\* onclose, of whichever socket: the connection was refused, the server's
\* task is over and its frames are delivered, or the client closed it.
Closed(s) ==
  /\ \/ link[s] = "connecting"
     \/ link[s] = "open" /\ session[s].pc = "over" /\ s2c[s] = << >>
     \/ link[s] = "closing"
  /\ link' = [link EXCEPT ![s] = "closed"]
  /\ store' = [store EXCEPT !.socket = None, !.status = "closed",
                             !.error = @ \/ link[s] = "connecting"]
  /\ UNCHANGED <<c2s, s2c, session, engine, panel, asks>>

-------------------------------------------------------------------------------
User == (\E p \in Positions : Mount(p) \/ Show(p)) \/ Unmount \/ Toggle \/ Reconfigure

Server(s) == Serve(s) /\ UNCHANGED clientVars
Next ==
  \/ User
  \/ \E s \in Sockets :
       Open(s) \/ Message(s) \/ Closed(s) \/ Server(s) \/ (Uci(s) /\ UNCHANGED clientVars)

Spec == Init /\ [][Next]_vars

(***************************************************************************)
(* Fairness: select! polls its branches in random order, so none that      *)
(* stays ready is put off for ever, and every wait of the server has a     *)
(* time limit.  The engine and the user owe nothing.                       *)
(***************************************************************************)
Fairness ==
  \A s \in Sockets :
    /\ WF_vars((Spawned(s) \/ SpawnFails(s)) /\ UNCHANGED clientVars)
    /\ WF_vars(Handle(s) /\ UNCHANGED clientVars)
    /\ WF_vars(Waiting(s) /\ UNCHANGED clientVars)
    /\ WF_vars(Watch(s) /\ UNCHANGED clientVars)
    /\ WF_vars(Quit(s) /\ UNCHANGED clientVars)

FairSpec == Spec /\ Fairness

(***************************************************************************)
(* Properties.                                                             *)
(***************************************************************************)

\* A panel that says "analysing" is right once nothing is in flight: the
\* server searches the position the store asked for last.
AnalysingIsTrue ==
  \A s \in Sockets :
    /\ store.socket = s
    /\ store.status = "analysing"
    /\ ~store.error
    /\ link[s] = "open"
    /\ session[s].pc = "loop"
    /\ c2s[s] = << >>
    /\ s2c[s] = << >>
    => session[s].analysing /\ session[s].fen = store.current

\* The store owns its socket: while a page shows the panel, the connection
\* made for it stays the store's own.
StoreOwnsItsSocket ==
  \A s \in Sockets : link[s] \in {"connecting", "open"} => store.socket = s
=============================================================================
