SPECIFICATION Spec
CONSTANTS
  Scripts <- Streams
  MaxCalls = 2
INVARIANTS TypeOK ChunkingIsInvisible ErrorIsNeverAnAnswer
