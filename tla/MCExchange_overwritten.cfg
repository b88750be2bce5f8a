\* Unordered packets, long enough for a slot of the send window to be used again.
SPECIFICATION Spec
CONSTANTS
    CAP = 3
    SeqNoMod = 32
    InitialSeqNo = 0
    ResendInterval = 0
    MaxTime = 1
    None = None
    Data <- MCData
    Peer <- MCPeer
    MaxPayloads <- MCMaxPayloads
    MaxReplies <- MCMaxReplies
    PayloadsA = 6
    PayloadsB = 1
    RepliesA = 1
    RepliesB = 1
    MaxDeliveries = 6
    MaxLosses = 0
    SeqCstModes = {FALSE}
INVARIANT Lossless
