SPECIFICATION Spec
CONSTANTS
  LoadWords = 2
  Rounds = 8
  MaxReads = 1
  MaxWords = 4
INVARIANTS
  NoWordLost
  HashReady
  ResponsesMatch
PROPERTIES
  BlocksHashed
