\* A send_timeout gives up while another sender waits for an answer.
SPECIFICATION FairSpec
CONSTANTS
    CAP = 3
    SeqNoMod = 12
    InitialSeqNo = 0
    ResendInterval = 0
    MaxTime = 1
    None = None
    Data = {d1}
    Senders = {s1, s2}
    TimedSenders = {s2}
    Receivers = {r1}
    Handlers = {h1}
    SeqCstModes = {TRUE}
    MaxPackets = 4
    Remote <- MCRemote
    FirstReplies = FALSE
    SecondSeqCst = TRUE
PROPERTY BlocksUntilNotFull
