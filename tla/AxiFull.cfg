SPECIFICATION Spec
CONSTANTS
  LoadWords = 4
  Rounds = 6
  MaxWrites = 1
  MaxReads = 1
  MaxWords = 8
INVARIANTS
  NoWordLost
  BurstAddresses
  ReadBeats
  AnnouncedIsFinal
  ResponseMatchesBurst
PROPERTIES
  RequestsAnswered
