\* Dropped futures, two waiting senders at a time, and both kinds of packets.
SPECIFICATION Spec
CONSTANTS
    CAP = 4
    SeqNoMod = 12
    InitialSeqNo = 0
    ResendInterval = 0
    MaxTime = 1
    None = None
    Data <- MCData
    Nobody = Nobody
    QueueSize = 8
    MaxWaiters = 2
    Remote <- MCRemote
    Senders = {s1, s2}
    Receivers = {s2, r1}
    Handlers = {s1}
    Droppable = {s1, r1}
    SeqCstModes = {TRUE}
    MaxPackets = 5
    FirstReplyNo = 0
    RemoteSeqCst = {1}
    RemoteCount = 2
CHECK_DEADLOCK FALSE
INVARIANTS TypeOK GuardsMatch RepliesMatch RecvWakeUpDue ReplyWakeUpDue ServiceScheduled OneUpdate
