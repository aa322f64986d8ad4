SPECIFICATION Spec
CONSTANTS
  Scripts <- Streams
  MaxCalls = 1
INVARIANT AnswerIsIntact
