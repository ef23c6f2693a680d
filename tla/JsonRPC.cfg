SPECIFICATION FairSpec
CONSTANTS
  Calls <- Ordinary
  MaxTokens = 7
  Numerals <- Digits
INVARIANTS TypeOK TextIsJson StatusTellsOutcome EventsNumbered EventsCarryAnswers
PROPERTIES RunEnds ImplementsService
