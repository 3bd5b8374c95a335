SPECIFICATION Spec
CONSTANTS
    HeaderSize = 2
    MaxPayload = 1
    StreamSize = 8
    PayloadLens = {0, 1, 2}
INVARIANTS BufferBounded CutsAreInvisible
PROPERTY FramesAnswered
CHECK_DEADLOCK FALSE
