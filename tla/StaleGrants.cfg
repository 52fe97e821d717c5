\* Two handlers at a time on accounts, on the engines beside two servers that
\* start, on providers and on one conversation; two token callers, two sessions.
CONSTANTS
  c1 = c1
  c2 = c2
  q1 = q1
  q2 = q2
  alice = alice
  bob = bob
  pw1 = pw1
  pw2 = pw2
  AccountClients = {c1, c2}
  UserNames = {alice, bob}
  Passwords = {pw1, pw2}
  TokenScopes = {"read_only", "other"}
  MaxAccountRequests = 3
  NoHandler = NoHandler
  EngineNames = {"A", "B"}
  EngineEditors = {c1, c2}
  EngineUsers <- MCUsers
  Servers = {q1, q2}
  OperatorEngine = "A"
  Bundled = FALSE
  CatalogPlan <- MCCatalogPlan
  MaxEngineEdits = 3
  NoEngine = NoEngine
  ProviderClients = {c1, c2}
  ProviderUsers <- MCUsers
  ProviderNames = {"anthropic", "x"}
  EnvKey = TRUE
  MaxProviderCalls = 2
  NoProviderCall = NoProviderCall
  ChatClients = {c1, c2}
  ChatUsers = {"u"}
  SinkCapacity = 2
  Broadcast = 2
  MaxChats = 1
  MaxEvents = 4
  MaxChatCalls = 3
  MaxCrashes = 1
  NoChatCall = NoChatCall
  McpCallers = {"nobody", "reader"}
  TokenUser <- MCTokenUser
  ChatSessions = {"s1", "s3"}
  ChatUser <- MCChatUser
  AgentTools = {"study_add_move", "opening_tree"}
  MaxConsents = 2
  MaxChatLives = 1
SPECIFICATION Spec
SYMMETRY Symmetry
CHECK_DEADLOCK FALSE
INVARIANT ReplacedPasswordLeavesNoGrant
