------------------------------ MODULE MCAccess ------------------------------
(***************************************************************************)
(* Accounts, the engines and the assistant on small instances, one at a    *)
(* time (focus), as in MCCollections.                                      *)
(***************************************************************************)
EXTENDS Accounts, EngineRegistry, Providers, Assistant, ToolCalls

CONSTANTS c1, c2, q1, q2, alice, bob, pw1, pw2

VARIABLE focus

Plain(name)  == Caller(name, FALSE, FALSE, FALSE, FALSE)
MCUsers      == {LocalAdmin, Plain("bob")}
MCCatalogPlan == <<"stockfish", "weights">>

MCTokenUser == [m \in McpCallers |-> IF m = "nobody" THEN Anonymous
                                     ELSE Caller("alice", FALSE, FALSE, TRUE, FALSE)]
MCChatUser  == [s \in ChatSessions |-> IF s = "s1" THEN "alice" ELSE "bob"]

Init ==
  /\ focus \in {"accounts", "engines", "providers", "chats", "tools"}
  /\ AccountsInit /\ EngineInit /\ ProvidersInit /\ AssistantInit /\ ToolsInit
  /\ focus # "accounts"  => serverMode /\ users = <<>>
  /\ focus # "providers" => providers = <<>>

In(component, next, others) == focus = component /\ next /\ UNCHANGED <<focus, others>>

Next ==
  \/ In("accounts", AccountsNext, <<engineVars, providerVars, assistantVars, tvars>>)
  \/ In("engines", EngineNext, <<accountVars, providerVars, assistantVars, tvars>>)
  \/ In("providers", ProvidersNext, <<accountVars, engineVars, assistantVars, tvars>>)
  \/ In("chats", AssistantNext, <<accountVars, engineVars, providerVars, tvars>>)
  \/ In("tools", ToolsNext, <<accountVars, engineVars, providerVars, assistantVars>>)

Spec == Init /\ [][Next]_<<focus, accountVars, engineVars, providerVars, assistantVars, tvars>>

Symmetry == Permutations({c1, c2}) \cup Permutations({alice, bob})
=============================================================================
