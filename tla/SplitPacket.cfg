SPECIFICATION Spec
CONSTANTS
    OutputBufferLen = 2
    InputBufferLen = 4
    HeaderLen = 1
    BodyLens = {0, 2}
    Modulus = 2
    MaxPackets = 2
INVARIANTS KeepsSequence
CHECK_DEADLOCK FALSE
