\* A call's parameters do not parse, and the calls behind it in its batch are dropped.
SPECIFICATION Spec
CONSTANTS
  Calls <- WithBadParams
  MaxTokens = 5
  Numerals <- Digits
INVARIANT OnlyBadJsonEndsBatch
