CONSTANTS
  NoOwner = NoOwner
  Objects <- FourObjects
  Matching <- PodMatches
  Scopes <- OneNamespace
  MaxActs = 3
SPECIFICATION JobRunsSpec
INVARIANTS NothingLost EmptySaysWhy 
CHECK_DEADLOCK FALSE
