SPECIFICATION Spec
CONSTANTS
  Collectors = {"a", "b"}
  Enabled = {"a", "b"}
  RetryAttempts = 1
  MaxLives <- MCLives
  FaultSets = {{}, {"late"}, {"crash"}, {"publish", "conflict"}}
INVARIANTS
  RunningIsRegistered
  SettledIsServed
  ReadyMeansAdmitted
  NobodyTurnedAway
PROPERTIES
  FoundStaysFound
  AskingEnds
CHECK_DEADLOCK FALSE
