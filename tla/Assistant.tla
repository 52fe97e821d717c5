------------------------------ MODULE Assistant ------------------------------
(***************************************************************************)
(* The assistant's conversations: their service (ai/agent/sessions.rs),    *)
(* the writer of their event log (persistence.rs), the subscriber that     *)
(* keeps the index of what is live (engine.rs) and the socket's verbs      *)
(* (server/assistant_ws.rs).  The agent engine and its persistence tap are *)
(* a library: what is modelled of them is what this code relies on.        *)
(***************************************************************************)
EXTENDS Integers, FiniteSets, SequencesExt

CONSTANTS ChatClients, ChatUsers,  \* sockets' handlers, users
          SinkCapacity,            \* of the writer's channel
          Broadcast,               \* how far a subscriber may fall behind
          MaxChats, MaxEvents,     \* bounds: conversations, events
          MaxChatCalls, MaxCrashes,
          NoChatCall

\* A handler between two of its statements.
ChatCalls == [pc : {"spawn", "load", "mark", "hibernate", "events", "row"}, root : Nat]

ASSUME AssistantAssumption ==
  /\ SinkCapacity \in Nat \ {0} /\ Broadcast \in Nat \ {0}
  /\ {MaxChats, MaxEvents, MaxChatCalls, MaxCrashes} \subseteq Nat
  /\ NoChatCall \notin ChatCalls

VARIABLES owner,      \* Seq(user): root -> the user its id names
          index,      \* the rows of agent_sessions: set of roots
          log,        \* root -> set of [ord, upto, gap]: the rows of agent_events
          registered, \* SessionUserRegistry: roots whose user it knows
          live,       \* SessionService.live
          inbox,      \* Seq([kind, root]): what the engine has not handled
          memory,     \* the roots the engine holds
          stream,     \* Seq([kind, root]): the engine's broadcast; an event is its place
          heard,      \* subscriber -> how much of stream it has taken
          backlog,    \* the writer's channel: Seq([root, upto, gap])
          nextOrd,    \* the writer's cache: root -> ord, a partial function
          chatCall,   \* client -> its handler, or NoChatCall
          chatCalls, crashes,
          excused,    \* history: events shed, not written, cut off by a crash, or deleted
          chatRaces   \* history: what the index subscriber cannot know of
tables      == <<owner, index, log>>
process     == <<registered, live, inbox, memory, heard, backlog, nextOrd>>
chatHistory == <<chatCalls, crashes, excused, chatRaces>>
assistantVars == <<tables, process, stream, chatCall, chatHistory>>

Roots   == DOMAIN owner
OfRoot(root) == {n \in DOMAIN stream : stream[n].root = root}

On(c, root)    == chatCall[c] # NoChatCall /\ chatCall[c].root = root
Waiting(c, pc) == chatCall[c] # NoChatCall /\ chatCall[c].pc = pc

AssistantInit ==
  /\ owner = <<>> /\ index = {} /\ log = <<>>
  /\ registered = {} /\ live = {} /\ inbox = <<>> /\ memory = {}
  /\ stream = <<>> /\ heard = [tap |-> 0, index |-> 0]
  /\ backlog = <<>> /\ nextOrd = <<>>
  /\ chatCall = [c \in ChatClients |-> NoChatCall]
  /\ chatCalls = 0 /\ crashes = 0 /\ excused = {} /\ chatRaces = {}

(***************************************************************************)
(* The engine: it takes its messages in order, and says what it does.      *)
(***************************************************************************)
Emit(kinds, root) == stream' = stream \o [i \in DOMAIN kinds |-> [kind |-> kinds[i], root |-> root]]
MayEmit(n) == Len(stream) + n <= MaxEvents

EngineTakes ==
  /\ inbox # <<>> /\ MayEmit(2)
  /\ LET m == Head(inbox) IN
     IF m.kind = "hibernate"
     THEN /\ memory' = memory \ {m.root}
          /\ Emit(IF m.root \in memory THEN <<"hibernated">> ELSE <<>>, m.root)
     ELSE /\ memory' = memory \cup {m.root}
          /\ Emit(IF m.root \in memory THEN <<"out">> ELSE <<"started", "out">>, m.root)
  /\ inbox' = Tail(inbox)
  /\ UNCHANGED <<tables, registered, live, heard, backlog, nextOrd, chatCall, chatHistory>>

\* A settled session is put away; an open may be about to call it live.
EngineIdles(root) ==
  /\ root \in memory /\ MayEmit(1)
  /\ memory' = memory \ {root} /\ Emit(<<"hibernated">>, root)
  /\ chatRaces' = chatRaces \cup
       {"unheard" : c \in {x \in ChatClients : Waiting(x, "mark") /\ On(x, root)}}
  /\ UNCHANGED <<tables, registered, live, inbox, heard, backlog, nextOrd, chatCall, chatCalls, crashes, excused>>

(***************************************************************************)
(* The log.                                                                *)
(***************************************************************************)
\* The events a record tells of.
EventsOf(r) == IF r.gap THEN {n \in OfRoot(r.root) : n <= r.upto} ELSE {r.upto}

\* DbRecordSink::append: try_send; what does not fit is dropped.
Appended(records) ==
  LET room == SinkCapacity - Len(backlog)
      sent == SubSeq(records, 1, IF Len(records) < room THEN Len(records) ELSE room)
  IN /\ backlog' = backlog \o sent
     /\ excused' = excused \cup UNION {EventsOf(records[i]) : i \in (DOMAIN records) \ DOMAIN sent}

\* The tap records each event; after a lag, a tombstone in every log it writes.
TapRecords ==
  /\ heard.tap < Len(stream)
  /\ LET lagged == Len(stream) - heard.tap > Broadcast
         next   == IF lagged THEN Len(stream) - Broadcast ELSE heard.tap + 1
         gaps   == SetToSeq({stream[n].root : n \in 1 .. next})
     IN /\ heard' = [heard EXCEPT !.tap = next]
        /\ Appended(IF lagged THEN [i \in DOMAIN gaps |-> [root |-> gaps[i], upto |-> next, gap |-> TRUE]]
                    ELSE <<[root |-> stream[next].root, upto |-> next, gap |-> FALSE]>>)
  /\ UNCHANGED <<tables, registered, live, inbox, memory, nextOrd, stream, chatCall, chatCalls, crashes, chatRaces>>

\* Mutant: the writer counts from zero when it starts.
SeedOrd_Zero(root) == 0

\* ORDER BY ord, the first of them and the last.
FirstRow(rows) == CHOOSE r \in rows : \A x \in rows : r.ord <= x.ord
LastRow(rows)  == CHOOSE r \in rows : \A x \in rows : x.ord <= r.ord
SeedOrd(root)  == IF log[root] = {} THEN 0 ELSE LastRow(log[root]).ord + 1

NextOrd(root)  == IF root \in DOMAIN nextOrd THEN nextOrd[root] ELSE SeedOrd(root)
Insert(r, ord) ==
  /\ log' = [log EXCEPT ![r.root] = @ \cup {[ord |-> ord, upto |-> r.upto, gap |-> r.gap]}]
  /\ nextOrd' = [x \in DOMAIN nextOrd \cup {r.root} |-> IF x = r.root THEN ord + 1 ELSE nextOrd[x]]

\* Mutant: the newest record of the channel is stored first.
WriterStores_Newest ==
  /\ backlog # <<>>
  /\ Insert(Last(backlog), NextOrd(Last(backlog).root))
  /\ backlog' = Front(backlog)
  /\ UNCHANGED <<owner, index, registered, live, inbox, memory, heard, stream, chatCall, chatHistory>>

\* A query of the writer fails, or the record does not serialize: it leaves no
\* trace in the log, and its ord goes to the next record.
WriterDrops ==
  /\ backlog # <<>>
  /\ backlog' = Tail(backlog)
  /\ excused' = excused \cup EventsOf(Head(backlog))
  /\ UNCHANGED <<tables, registered, live, inbox, memory, heard, nextOrd, stream, chatCall, chatCalls, crashes, chatRaces>>

\* writer_loop, for one record that it can store.  (root, ord) is unique.
WriterStores ==
  /\ backlog # <<>>
  /\ LET r   == Head(backlog)
         ord == NextOrd(r.root)
     IN IF \E x \in log[r.root] : x.ord = ord THEN UNCHANGED <<log, nextOrd>> ELSE Insert(r, ord)
  /\ backlog' = Tail(backlog)
  /\ UNCHANGED <<owner, index, registered, live, inbox, memory, heard, stream, chatCall, chatHistory>>

(***************************************************************************)
(* fold_event: what is live, as the broadcast tells.                       *)
(***************************************************************************)
\* Mutant: what is put away stays listed.
IndexFolds_KeepsHibernated ==
  /\ heard.index < Len(stream)
  /\ IF Len(stream) - heard.index > Broadcast
     THEN /\ heard' = [heard EXCEPT !.index = Len(stream) - Broadcast]
          /\ chatRaces' = chatRaces \cup {"lag"}
          /\ UNCHANGED <<registered, live>>
     ELSE LET e == stream[heard.index + 1] IN
          /\ heard' = [heard EXCEPT !.index = @ + 1]
          /\ registered' = IF e.kind = "started" THEN registered \cup {e.root} ELSE registered
          /\ live' = IF e.kind = "started" THEN live \cup {e.root} ELSE live
          /\ UNCHANGED chatRaces
  /\ UNCHANGED <<tables, inbox, memory, backlog, nextOrd, stream, chatCall, chatCalls, crashes, excused>>

IndexFolds ==
  /\ heard.index < Len(stream)
  /\ IF Len(stream) - heard.index > Broadcast
     THEN /\ heard' = [heard EXCEPT !.index = Len(stream) - Broadcast]
          /\ chatRaces' = chatRaces \cup {"lag"}
          /\ UNCHANGED <<registered, live>>
     ELSE LET e == stream[heard.index + 1] IN
          /\ heard' = [heard EXCEPT !.index = @ + 1]
          /\ registered' = CASE e.kind = "started" -> registered \cup {e.root}
                             [] e.kind = "hibernated" -> registered \ {e.root}
                             [] OTHER -> registered
          /\ live' = CASE e.kind = "started" -> live \cup {e.root}
                       [] e.kind = "hibernated" -> live \ {e.root}
                       [] OTHER -> live
          /\ UNCHANGED chatRaces
  /\ UNCHANGED <<tables, inbox, memory, backlog, nextOrd, stream, chatCall, chatCalls, crashes, excused>>

(***************************************************************************)
(* The verbs.  A handler goes on after each of its statements.             *)
(***************************************************************************)
Proceed(c, pc)   == chatCall' = [chatCall EXCEPT ![c].pc = pc]
Reply(c)         == chatCall' = [chatCall EXCEPT ![c] = NoChatCall]
OwnedRow(u, root) == root \in index /\ owner[root] = u
Send(kind, root) == inbox' = Append(inbox, [kind |-> kind, root |-> root])
EngineAside == UNCHANGED <<memory, heard, backlog, nextOrd, stream, chatHistory>>

Accept(c, pc, root) ==
  /\ chatCall[c] = NoChatCall /\ chatCalls < MaxChatCalls
  /\ chatCalls' = chatCalls + 1
  /\ chatCall' = [chatCall EXCEPT ![c] = [pc |-> pc, root |-> root]]
  /\ chatRaces' = chatRaces \cup {"handlers" : d \in {x \in ChatClients : On(x, root)}}
  /\ UNCHANGED <<process, stream, crashes, excused>>

\* create, with the provider found (Providers.tla): the row first, then the
\* owner is known and the session live before the engine hears of it.
NewChat(c, u) ==
  /\ Len(owner) < MaxChats
  /\ Accept(c, "spawn", Len(owner) + 1)
  /\ owner' = Append(owner, u)
  /\ index' = index \cup {Len(owner) + 1}
  /\ log' = Append(log, {})

SpawnSession(c) ==
  LET root == chatCall[c].root IN
  /\ Waiting(c, "spawn")
  /\ registered' = registered \cup {root} /\ live' = live \cup {root}
  /\ Send("spawn", root) /\ Reply(c)
  /\ UNCHANGED tables /\ EngineAside

OpenChat(c, u, root) == OwnedRow(u, root) /\ Accept(c, "load", root) /\ UNCHANGED tables

\* What is before the first gap is replayed, unless the session is live.
Replayable(root) == log[root] # {} /\ ~FirstRow(log[root]).gap

LoadRecords(c) ==
  LET root == chatCall[c].root IN
  /\ Waiting(c, "load")
  /\ IF root \in live THEN Reply(c) /\ UNCHANGED <<registered, inbox>>
     ELSE /\ registered' = registered \cup {root}
          /\ IF Replayable(root) THEN Send("resume", root) /\ Proceed(c, "mark")
             ELSE Reply(c) /\ UNCHANGED inbox
  /\ UNCHANGED <<tables, live>> /\ EngineAside

MarkLive(c) ==
  /\ Waiting(c, "mark")
  /\ live' = live \cup {chatCall[c].root} /\ Reply(c)
  /\ UNCHANGED <<tables, registered, inbox>> /\ EngineAside

DeleteChat(c, u, root) == OwnedRow(u, root) /\ Accept(c, "hibernate", root) /\ UNCHANGED tables

HibernateSession(c) ==
  LET root == chatCall[c].root IN
  /\ Waiting(c, "hibernate") /\ Proceed(c, "events")
  /\ IF root \in live THEN Send("hibernate", root) /\ UNCHANGED chatRaces
     ELSE /\ chatRaces' = chatRaces \cup {"unheard" : x \in {root} \cap (memory \cup {inbox[i].root : i \in DOMAIN inbox})}
          /\ UNCHANGED inbox
  /\ UNCHANGED <<tables, registered, live, memory, heard, backlog, nextOrd, stream, chatCalls, crashes, excused>>

DeleteEvents(c) ==
  /\ Waiting(c, "events") /\ Proceed(c, "row")
  /\ log' = [log EXCEPT ![chatCall[c].root] = {}]
  /\ excused' = excused \cup OfRoot(chatCall[c].root)
  /\ UNCHANGED <<owner, index, process, stream, chatCalls, crashes, chatRaces>>

DeleteRow(c) ==
  LET root == chatCall[c].root IN
  /\ Waiting(c, "row") /\ Reply(c)
  /\ index' = index \ {root}
  /\ registered' = registered \ {root} /\ live' = live \ {root}
  /\ UNCHANGED <<owner, log, inbox>> /\ EngineAside

\* A prompt passes if the registry, or else the index, says it is the caller's;
\* the engine starts a session it does not hold.
PromptChat(c, u, root) ==
  /\ IF root \in registered THEN owner[root] = u ELSE OwnedRow(u, root)
  /\ chatCall[c] = NoChatCall /\ chatCalls < MaxChatCalls
  /\ chatCalls' = chatCalls + 1
  /\ Send("prompt", root)
  /\ chatRaces' = chatRaces \cup {"handlers" : d \in {x \in ChatClients : On(x, root)}}
  /\ UNCHANGED <<tables, registered, live, memory, heard, backlog, nextOrd, stream, chatCall, crashes, excused>>

\* The process dies: only the tables are left.
CrashProcess ==
  /\ crashes < MaxCrashes /\ crashes' = crashes + 1
  /\ registered' = {} /\ live' = {} /\ inbox' = <<>> /\ memory' = {}
  /\ heard' = [tap |-> Len(stream), index |-> Len(stream)]
  /\ backlog' = <<>> /\ nextOrd' = <<>>
  /\ chatCall' = [c \in ChatClients |-> NoChatCall]
  /\ excused' = excused \cup {n \in DOMAIN stream : n > heard.tap}
                \cup UNION {{n \in OfRoot(backlog[i].root) : backlog[i].gap \/ n = backlog[i].upto} : i \in DOMAIN backlog}
  /\ UNCHANGED <<tables, stream, chatCalls, chatRaces>>

AssistantNext ==
  \/ EngineTakes \/ TapRecords \/ WriterStores \/ WriterDrops \/ IndexFolds \/ CrashProcess
  \/ \E root \in memory : EngineIdles(root)
  \/ \E c \in ChatClients :
       \/ SpawnSession(c) \/ LoadRecords(c) \/ MarkLive(c)
       \/ HibernateSession(c) \/ DeleteEvents(c) \/ DeleteRow(c)
       \/ \E u \in ChatUsers :
            \/ NewChat(c, u)
            \/ \E root \in Roots : OpenChat(c, u, root) \/ DeleteChat(c, u, root) \/ PromptChat(c, u, root)

AssistantSpec == AssistantInit /\ [][AssistantNext]_assistantVars

(***************************************************************************)
(* Properties.                                                             *)
(***************************************************************************)

\* By ord, a log tells its conversation in the order it took place, across
\* deletions, hibernations and restarts of the writer.
LogTellsInOrder ==
  \A root \in Roots : \A r, s \in log[root] :
    /\ r.ord < s.ord => r.upto <= s.upto
    /\ r.ord = s.ord => r = s

\* What tells of a conversation: its log, and what is on its way there.
Kept(root)    == log[root] \cup {backlog[i] : i \in {x \in DOMAIN backlog : backlog[x].root = root}}
Tells(r, n)   == r.upto = n \/ (r.gap /\ n <= r.upto)
Marked(root, n) == \E r \in Kept(root) : Tells(r, n)

\* Every event of a conversation is logged, on its way to the log, or behind a
\* tombstone; only what a full channel shed, the writer failed to store, a crash
\* cut off or a deletion took is not.
LossIsMarked ==
  \A root \in index : \A n \in OfRoot(root) :
    n > heard.tap \/ n \in excused \/ Marked(root, n)

\* Once the engine has handled its messages and the index heard its events, the
\* sessions listed as live are those the engine holds, whatever handlers are under
\* way, unless the subscriber lagged, a session started or ended unheard under a
\* delete or an open, or two handlers worked on one conversation.
LiveIsHeld ==
  inbox = <<>> /\ heard.index = Len(stream) /\ chatRaces = {} => live = memory

\* The log is the conversation: in order, and what is missing is marked.
LogIsFaithful == LogTellsInOrder /\ LossIsMarked
=============================================================================
