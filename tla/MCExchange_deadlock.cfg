\* A reply is queued behind a payload that waits for the slot the reply would free.
SPECIFICATION FairSpec
CONSTANTS
    CAP = 3
    SeqNoMod = 12
    InitialSeqNo = 11
    ResendInterval = 0
    MaxTime = 1
    None = None
    Data <- MCData
    Peer <- MCPeer
    MaxPayloads <- MCMaxPayloads
    MaxReplies <- MCMaxReplies
    PayloadsA = 3
    PayloadsB = 1
    RepliesA = 0
    RepliesB = 1
    MaxDeliveries = 5
    MaxLosses = 0
    SeqCstModes = {TRUE}
PROPERTY EveryPacketAnswered
