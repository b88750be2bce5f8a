\* Packets of both kinds, duplicated and reordered.
SPECIFICATION Spec
CONSTANTS
    CAP = 4
    SeqNoMod = 16
    InitialSeqNo = 15
    ResendInterval = 0
    MaxTime = 1
    None = None
    Data <- MCData
    Peer <- MCPeer
    MaxPayloads <- MCMaxPayloads
    MaxReplies <- MCMaxReplies
    PayloadsA = 3
    PayloadsB = 0
    RepliesA = 0
    RepliesB = 1
    MaxDeliveries = 4
    MaxLosses = 0
    SeqCstModes = {TRUE, FALSE}
INVARIANTS SeqCstExclusive SeqCstInOrder GuardsReserved NoOtherRepeat LinksAgree
PROPERTY ChannelUntilRepeated
