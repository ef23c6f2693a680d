SPECIFICATION FairSpec
CONSTANTS
  Chunks <- MCChunks
  MaxChunks = 5
INVARIANTS TypeOK EventsAsRead NothingWithheld
PROPERTY StreamEnds
