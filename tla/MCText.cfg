CONSTANTS
    Messages <- AllMessages
    Limit = 12
    Word = 64
    Base = 3
    MaxLen = 4
    MaxFrame = 11
SPECIFICATION MCSpec
INVARIANT Contiguous
INVARIANT ChunksFit
INVARIANT OneChunk
INVARIANT FrameRead
INVARIANT ArgsKept
INVARIANT EngineEchoKept
INVARIANT SentIsClean
INVARIANT StringsArrive
PROPERTY Returns
