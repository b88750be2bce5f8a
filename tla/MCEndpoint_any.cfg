\* Arbitrary packets and calls around the wrap of sequence numbers, while time passes.
SPECIFICATION WalkSpec
CONSTANTS
    CAP = 3
    SeqNoMod = 12
    InitialSeqNo = 11
    ResendInterval = 2
    MaxTime = 5
    MaxClock = 3
    SeqCstModes = {FALSE}
    None = None
    Data = {d1}
    Wire <- MCWire
    WireSeqNos = {11, 0, 2}
    WireReplyNos = {11}
    WireSeqCst = {TRUE, FALSE}
    WireAckNos = {11}
INVARIANTS TypeOK ReservationBound OwnSendSlot OwnRecvSlot ResendOnTime WalkMissesNone
PROPERTY SavedUntilIssued
