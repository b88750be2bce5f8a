------------------------------ MODULE Endpoint ------------------------------
(***************************************************************************)
(* One SeqEx (src/no_std.rs) with its clock, against an environment that   *)
(* may do anything: whatever packets of Wire arrive, in any order and any  *)
(* number, stale or never sent by anyone, and the application calls the    *)
(* raw methods with any reply number.  What holds here holds without any   *)
(* help from the peer.  "wake" is the time the caller of service has       *)
(* agreed to call it again: the call before told it how long to sleep.     *)
(***************************************************************************)
EXTENDS SeqExWindows

CONSTANTS
    Wire,         \* the packets that may arrive
    SeqCstModes,  \* the values of the seq_cst argument of the application
    MaxClock      \* bound: the clock stops here

ASSUME WireAssumption == Wire \subseteq Packet /\ SeqCstModes \subseteq BOOLEAN
ASSUME ClockAssumption == MaxClock \in Nat /\ MaxClock + ResendInterval <= MaxTime

VARIABLES seq, clock, wake
vars == <<seq, clock, wake>>

Init == seq = NewSeqEx /\ clock = 0 /\ wake = 0

\* try_send_direct, try_send_direct_with
SendDirect(seq_cst, d) ==
    /\ CanSend(seq)
    /\ seq' = TrySend(seq, clock, seq_cst, d)
    /\ UNCHANGED <<clock, wake>>

\* try_receive_raw_and_direct of a payload or a reply ...
ReceiveDirect(m) ==
    /\ m \in DataPacket
    /\ seq' = Receive(seq, m)
    /\ UNCHANGED <<clock, wake>>

\* ... and of an Ack.
ReceiveAckDirect(m) ==
    /\ m \in AckPacket
    /\ seq' = TakeSend(seq, m.reply_no)
    /\ UNCHANGED <<clock, wake>>

\* try_pump_raw
PumpDirect ==
    /\ seq' = Pump(seq)
    /\ UNCHANGED <<clock, wake>>

\* reply_raw_and_direct; unlocking what is not locked is a misuse it asserts against.
ReplyDirect(r, unlock, seq_cst, d) ==
    /\ unlock => seq.is_locked
    /\ seq' = ReplyRaw(seq, clock, r, unlock, seq_cst, d)
    /\ UNCHANGED <<clock, wake>>

\* ack_raw_and_direct
AckDirect(r, unlock) ==
    /\ unlock => seq.is_locked
    /\ seq' = AckRaw(seq, r, unlock)
    /\ UNCHANGED <<clock, wake>>

\* unlock_raw
UnlockDirect ==
    /\ seq' = UnlockRaw(seq)
    /\ UNCHANGED <<clock, wake>>

\* service, called when the caller wakes or earlier; it says how long to sleep.
ServiceDirect ==
    /\ seq' = Service(seq, clock)
    /\ wake' = clock + ServiceDelay(seq', clock)
    /\ UNCHANGED clock

\* Time passes, but not past the moment service is called again.
Tick ==
    /\ clock < wake /\ clock < MaxClock
    /\ clock' = clock + 1
    /\ UNCHANGED <<seq, wake>>

Next ==
    \/ \E c \in SeqCstModes, d \in Data : SendDirect(c, d)
    \/ \E m \in Wire : ReceiveDirect(m) \/ ReceiveAckDirect(m)
    \/ PumpDirect
    \/ \E r \in SeqNo, u \in BOOLEAN, c \in SeqCstModes, d \in Data : ReplyDirect(r, u, c, d)
    \/ \E r \in SeqNo, u \in BOOLEAN : AckDirect(r, u)
    \/ UnlockDirect
    \/ ServiceDirect
    \/ Tick

Spec == Init /\ [][Next]_vars

----------------------------------------------------------------------------
\* Every variable has its type.
TypeOK == seq \in SeqExState /\ clock \in Nat /\ wake \in Nat

\* Whatever arrives, at most CAP - 2 reply numbers are out at a time: the write to
\* concurrent_replies[concurrent_replies_total] stays inside the array.
ReservationBound == Len(seq.concurrent_replies) <= CAP - 2

\* An entry of the send window sits in the slot of its own number, and is one of the
\* last CAP numbers given out: the walk of service_direct meets all of them.
OwnSendSlot == SendSlots(seq)

\* An entry of the receive window sits in the slot of its own number, less than CAP
\* ahead of next_recv_seq_no: the three assert_eq on slots cannot fire.
OwnRecvSlot == RecvSlots(seq)

\* Nothing in the send window is due before the deadline service works by, nor before
\* the caller of service wakes: no packet is ever resent late.
ResendOnTime == NotDueBefore(seq, seq.next_service_timestamp) /\ NotDueBefore(seq, wake)

\* A step never forgets a packet it still has to process: an Occupied entry leaves the
\* receive window only when its number has been issued as a reply number.
SavedUntilIssued == [][\A i \in 0 .. CAP - 1 :
    (seq.recv_window[i].tag = "Occupied" /\ seq'.recv_window[i] # seq.recv_window[i])
        => Reserved(seq', seq.recv_window[i].seq_no)]_vars
=============================================================================
