\* Two senders wait for an answer when the SeqEx is closed.
SPECIFICATION FairSpec
CONSTANTS
    CAP = 3
    SeqNoMod = 12
    InitialSeqNo = 0
    ResendInterval = 0
    MaxTime = 1
    None = None
    Data = {d1}
    Senders = {s1, s2}
    TimedSenders = {}
    Receivers = {r1}
    Handlers = {h1}
    SeqCstModes = {TRUE}
    MaxPackets = 4
    Remote <- MCRemote
    FirstReplies = FALSE
    SecondSeqCst = TRUE
PROPERTY CloseUnblocksSenders
