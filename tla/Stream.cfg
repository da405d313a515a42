SPECIFICATION FairSpec
CONSTANTS
    OutputBufferLen = 2
    InputBufferLen = 3
    HeaderLen = 1
    BodyLens = {0, 1, 2}
    Modulus = 2
    MaxPackets = 3
INVARIANTS TypeOK InOrder AtPacketStart
PROPERTIES TakenForClosed ImplementsPipe PacketsArrive
CHECK_DEADLOCK FALSE
