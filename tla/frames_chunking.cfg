SPECIFICATION DecoderSpec
CONSTANTS
    MaxFrame = 3
    MaxStream = 6
INVARIANTS
    ChunkingIrrelevant
    FailsExactlyOnBadFrames
CHECK_DEADLOCK FALSE
