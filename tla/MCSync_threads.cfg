\* Threads that send, receive and hold guards, until one of them closes.
SPECIFICATION FairSpec
CONSTANTS
    CAP = 3
    SeqNoMod = 12
    InitialSeqNo = 0
    ResendInterval = 0
    MaxTime = 0
    None = None
    Data = {d1}
    Senders = {s1, s2}
    TimedSenders = {s2}
    Receivers = {s2, r1}
    Handlers = {h1}
    SeqCstModes = {TRUE}
    MaxPackets = 4
    Remote <- MCRemote
    FirstReplies = TRUE
    SecondSeqCst = FALSE
INVARIANTS TypeOK RecvWaitersCounted OnePumpWaiter ReplyWakeUpDue GuardsMatch
PROPERTIES SendReturns PumpReturns
