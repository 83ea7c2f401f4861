SPECIFICATION FairSpec
CONSTANTS
    Implementation = {"rtc"}
    Script <- MCScript
    Every = {0}
    MaxCloses = 2
    kMaxNetworkPayloadBytes = 150
    maxBufferedAmountBytes = 200
PROPERTIES
    HandshakeCompletes
