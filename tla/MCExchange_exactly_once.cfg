\* Unordered packets over a transport that duplicates.
SPECIFICATION Spec
CONSTANTS
    CAP = 4
    SeqNoMod = 16
    InitialSeqNo = 15
    ResendInterval = 0
    MaxTime = 1
    None = None
    Data <- MCData
    Peer <- MCPeer
    MaxPayloads <- MCMaxPayloads
    MaxReplies <- MCMaxReplies
    PayloadsA = 2
    PayloadsB = 0
    RepliesA = 0
    RepliesB = 0
    MaxDeliveries = 4
    MaxLosses = 0
    SeqCstModes = {FALSE}
INVARIANT ExactlyOnce
