\* One user who keeps syncing; two failures; either provider.
CONSTANTS
  User = User
  NoGame = NoGame
SPECIFICATION FairSpec
PROPERTY EveryGameArrives
