SPECIFICATION Spec
CONSTANTS
  LoadWords = 2
  Rounds = 4
  MaxReads = 1
  MaxWords = 4
INVARIANTS
  NoWordLost
  PollIsFinal
PROPERTIES
  WordsAccepted
