SPECIFICATION BufferSpec
CONSTANTS
    b0 = b0
    b1 = b1
    b2 = b2
    BufferByte <- MCByte
    Chunks <- MCChunks
    Configs <- MCConfigs
INVARIANTS
    BufferTypeOK
    WithinBounds
    OneActive
PROPERTY ImplementsOneBuffer
