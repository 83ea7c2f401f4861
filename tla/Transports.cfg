SPECIFICATION FairSpec
CONSTANTS
    Implementation = {"loopback", "hub", "rtc"}
    Script <- MCScript
    Every = {0, 2}
    MaxCloses = 1
    kMaxNetworkPayloadBytes = 150
    maxBufferedAmountBytes = 200
INVARIANTS
    TypeOK
    QueuedEnvelopesAreValid
    EveryFrameArrives
    PayloadsDecodeWhole
PROPERTIES
    ImplementsLossyChannel
    QueuesDrain
    HandshakeCompletes
