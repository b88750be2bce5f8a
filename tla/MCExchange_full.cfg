\* Every packet SeqCst: A fills its send window while replies are promised, numbers wrap.
SPECIFICATION Spec
CONSTANTS
    CAP = 4
    SeqNoMod = 16
    InitialSeqNo = 15
    ResendInterval = 0
    MaxTime = 1
    None = None
    Data <- MCData
    Peer <- MCPeer
    MaxPayloads <- MCMaxPayloads
    MaxReplies <- MCMaxReplies
    PayloadsA = 4
    PayloadsB = 1
    RepliesA = 1
    RepliesB = 1
    MaxDeliveries = 7
    MaxLosses = 0
    SeqCstModes = {TRUE}
INVARIANTS TypeOK Lossless AnswerAwaited ReplySlotsFree OwnRecvSlot LinksAgree EndsAgree ExactlyOnce
PROPERTY ImplementsChannel
