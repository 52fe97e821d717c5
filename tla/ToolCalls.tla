----------------------------- MODULE ToolCalls -----------------------------
(***************************************************************************)
(* The two ways to a tool (ToolPrograms): the /mcp transport               *)
(* (server/routes/mcp/mod.rs), which admits a caller by its token, and the *)
(* embedded assistant (ai/agent/policy.rs, ai/agent/tools.rs), whose       *)
(* engine asks the user before a gated tool runs and remembers the answer  *)
(* for the session or, in agent_grants, for good.                          *)
(*                                                                         *)
(* The engine around the policy (asking, waiting for the answer, forgetting *)
(* a session) is external; `answers` is a history variable.                *)
(***************************************************************************)
EXTENDS ToolPrograms, FiniteSets, Identity

CONSTANTS
  McpCallers,     \* the clients of /mcp
  TokenUser,      \* the CurrentUser each one's token resolves to
  ChatSessions,   \* the assistant's sessions
  ChatUser,       \* the user each is registered for, or "nobody"
  AgentTools,     \* the tools the model calls (a bound)
  MaxConsents,    \* bounds the answers given
  MaxChatLives    \* bounds how often a session is ended and resumed

\* bridge_registry: the model is offered the tools of the registry, 1:1.
ASSUME AgentToolsAssumption == AgentTools \subseteq ToolNames

VARIABLES
  session_grants, \* the tools approved for the rest of each session
  agent_grants,   \* the rows <<user, tool>> of agent_grants, with their number
  asking,         \* the tool each session waits for an answer about, or NoTool
  persisting,     \* an Always answer between its check and its insert
  answers,        \* every answer given
  life,           \* how often each session was ended
  called          \* the last call and what it came to

tvars == <<session_grants, agent_grants, asking, persisting, answers, life,
           called>>

NoTool    == "none"
NotCalled == [by |-> NoTool, tool |-> NoTool, outcome |-> "ok", did |-> {}, grade |-> "none"]

ToolsInit ==
  /\ session_grants = [s \in ChatSessions |-> {}]
  /\ agent_grants = <<>>
  /\ asking = [s \in ChatSessions |-> NoTool]
  /\ persisting = [s \in ChatSessions |-> NoTool]
  /\ answers = {}
  /\ life = [s \in ChatSessions |-> 0]
  /\ called = NotCalled

Wrote == {s \in called.did : s.kind = "write"}
Searched == {s \in called.did : s.kind = "search"}

-----------------------------------------------------------------------------
(* The transport.                                                          *)

\* tools_call: the two refusals
Admitted(user, name) ==
  /\ ~(user.public /\ name \notin ANONYMOUS_ALLOWLIST)
  /\ ~(user.read_only /\ requires_approval(name))

\* The ways a call of each tool can end, whatever optional arguments it gives
\* and with or without an engine service.
Outcomes ==
  [name \in ToolNames |->
     UNION {Ends(name, given, hasEngine) :
              given \in SUBSET Optional(name), hasEngine \in BOOLEAN}]

\* Tool::invoke
Handle(c, name, grade, ends) ==
  called' = [by |-> c, tool |-> name, outcome |-> ends.outcome,
             did |-> ends.did, grade |-> grade]

\* tools_call.  It neither reads nor changes what the policy keeps, so it is
\* only explored before the first answer (a bound).
CallTool(c, name) ==
  /\ answers = {}
  /\ \/ /\ Admitted(TokenUser[c], name)
        /\ \E ends \in Outcomes[name] : Handle(c, name, "token", ends)
     \/ /\ ~Admitted(TokenUser[c], name)
        /\ Handle(c, name, "token", [outcome |-> "refused", did |-> {}])
  /\ UNCHANGED <<session_grants, agent_grants, asking, persisting, answers,
                 life>>

-----------------------------------------------------------------------------
(* The assistant's policy.                                                 *)

Persisted(user, name) ==
  \E i \in DOMAIN agent_grants : agent_grants[i] = <<user, name>>

\* persisted_granted
PersistedGranted(user, name) == Persisted(user, name)

\* resolve: the grades the policy can answer.  A failed lookup asks.
Resolve(s, name) ==
  IF ~requires_approval(name) \/ name \in session_grants[s] THEN {"allow"}
  ELSE IF ChatUser[s] # "nobody" /\ PersistedGranted(ChatUser[s], name)
       THEN {"allow", "ask"}
       ELSE {"ask"}

\* run_for_session: the session's user, the arguments, then the tool.
RunForSession(s, name, grade) ==
  \/ Handle(s, name, grade, [outcome |-> "failed", did |-> {}])
  \/ /\ ChatUser[s] # "nobody"
     /\ \E ends \in Outcomes[name] : Handle(s, name, grade, ends)

AgentCalls(s, name) ==
  /\ asking[s] = NoTool /\ persisting[s] = NoTool
  /\ \/ /\ "allow" \in Resolve(s, name)
        /\ RunForSession(s, name, "allow")
        /\ UNCHANGED asking
     \/ /\ "ask" \in Resolve(s, name)
        /\ asking' = [asking EXCEPT ![s] = name]
        /\ UNCHANGED called
  /\ UNCHANGED <<session_grants, agent_grants, persisting, answers, life>>

Consent(s, scope) ==
  [session |-> s, user |-> ChatUser[s], tool |-> asking[s], scope |-> scope,
   life |-> life[s]]

\* record, ApprovalScope::Session and SessionDir
RecordSession(s, name) ==
  session_grants' = [session_grants EXCEPT ![s] = @ \cup {name}]

\* The user allows the tool the session asks about; record keeps the answer as
\* far as its scope goes, and the tool runs.
Approve(s, scope) ==
  /\ asking[s] # NoTool /\ Cardinality(answers) < MaxConsents
  /\ answers' = answers \cup {Consent(s, scope)}
  /\ IF scope = "session" THEN RecordSession(s, asking[s])
     ELSE UNCHANGED session_grants
  /\ persisting' = IF scope = "always" /\ ChatUser[s] # "nobody"
                      /\ ~PersistedGranted(ChatUser[s], asking[s])
                   THEN [persisting EXCEPT ![s] = asking[s]] ELSE persisting
  /\ RunForSession(s, asking[s], "asked")
  /\ asking' = [asking EXCEPT ![s] = NoTool]
  /\ UNCHANGED <<agent_grants, life>>

Reject(s) ==
  /\ asking[s] # NoTool
  /\ asking' = [asking EXCEPT ![s] = NoTool]
  /\ UNCHANGED <<session_grants, agent_grants, persisting, answers, life,
                 called>>

\* persist_always, past its check: the unique index does not see a NULL
\* argument, so the insert always adds a row; it may also fail.
PersistAlways(s) ==
  /\ persisting[s] # NoTool
  /\ \/ agent_grants' = Append(agent_grants, <<ChatUser[s], persisting[s]>>)
     \/ UNCHANGED agent_grants
  /\ persisting' = [persisting EXCEPT ![s] = NoTool]
  /\ UNCHANGED <<session_grants, asking, answers, life, called>>

\* Mutant: an ended session keeps what was approved for it.
ForgetSession_Keeps(s) == UNCHANGED session_grants

\* forget_session
ForgetSession(s) == session_grants' = [session_grants EXCEPT ![s] = {}]

\* The engine ends the session; its conversation can be resumed under its id.
EndSession(s) ==
  /\ life[s] < MaxChatLives /\ persisting[s] = NoTool
  /\ ForgetSession(s)
  /\ asking' = [asking EXCEPT ![s] = NoTool]
  /\ life' = [life EXCEPT ![s] = @ + 1]
  /\ called' = NotCalled
  /\ UNCHANGED <<agent_grants, persisting, answers>>

ToolsNext ==
  \/ \E c \in McpCallers, name \in ToolNames : CallTool(c, name)
  \/ \E s \in ChatSessions :
       \/ \E name \in AgentTools : AgentCalls(s, name)
       \/ \E scope \in {"once", "session", "always"} : Approve(s, scope)
       \/ Reject(s) \/ PersistAlways(s) \/ EndSession(s)

ToolsSpec == ToolsInit /\ [][ToolsNext]_tvars

-----------------------------------------------------------------------------
\* A gated tool runs unasked only under an approval that reaches it: given for
\* this session since it was last ended, or for good by the user the session
\* is registered for.  (policy.rs: session_grants is keyed by the session and
\* forgotten with it, agent_grants by the user.)
ApprovalsStayInScope ==
  called.grade = "allow" /\ requires_approval(called.tool) =>
    \E a \in answers :
      /\ a.tool = called.tool
      /\ \/ /\ a.scope = "session" /\ a.session = called.by
            /\ a.life = life[called.by]
         \/ a.scope = "always" /\ a.user = ChatUser[called.by]

\* A call refused for its arguments cost no search: everything a handler
\* checks, it checks before it asks the engine.
BadArgumentsAreCheap ==
  called.outcome = "bad_arguments" => Searched = {}

\* A call answered as wrong in its arguments has changed nothing, so that the
\* model can correct it and call again.
BadArgumentsChangeNothing ==
  called.outcome = "bad_arguments" => Wrote = {}

\* A call that is refused for its arguments has no effect: no search, no write.
BadArgumentsAreHarmless == BadArgumentsAreCheap /\ BadArgumentsChangeNothing
=============================================================================
