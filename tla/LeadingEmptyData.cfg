\* An event's data begins with an empty line, whose line feed is lost.
SPECIFICATION Spec
CONSTANTS
  Chunks <- DataLines
  MaxChunks = 4
INVARIANT EventsAsStandard
