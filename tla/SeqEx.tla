------------------------------- MODULE SeqEx -------------------------------
(***************************************************************************)
(* The SEQEX state machine of src/no_std.rs: one value of the Rust struct  *)
(* SeqEx as a record, and one operator per method.  An operator takes the  *)
(* state "s" before the call and gives the state after it; what the call   *)
(* returns or hands to the transport is a second operator of "s".  There   *)
(* are no variables here: Endpoint runs one such record under an           *)
(* arbitrary environment, Exchange two of them over a network, and Sync    *)
(* one behind a mutex, called by several threads.                          *)
(***************************************************************************)
EXTENDS Integers, Sequences, FiniteSets, FiniteSetsExt

CONSTANTS
    CAP,             \* the const generic CAP: slots in each window
    SeqNoMod,        \* sequence numbers wrap here (2^32 for a u32)
    InitialSeqNo,    \* the argument initial_seq_no of new
    ResendInterval,  \* the field resend_interval
    MaxTime,         \* i64::MAX
    Data,            \* what the application sends
    None             \* Rust's Option::None

SeqNo == 0 .. SeqNoMod - 1
OptSeqNo == SeqNo \cup {None}

\* SendEntry and Option<SendEntry>.
SendEntry == [seq_no : SeqNo, reply_no : OptSeqNo, seq_cst : BOOLEAN,
              next_resend_time : Nat, data : Data]

(***************************************************************************)
(* The four data-carrying variants of Packet are one record: reply_no is   *)
(* None in Payload and SeqCstPayload, seq_cst tells the SeqCst variants.   *)
(* An Ack carries a reply number only.                                     *)
(***************************************************************************)
DataPacket == [type : {"Data"}, seq_no : SeqNo, reply_no : OptSeqNo,
               seq_cst : BOOLEAN, data : Data]
AckPacket  == [type : {"Ack"}, reply_no : SeqNo]
Packet     == DataPacket \cup AckPacket

\* RecvEntry: Occupied keeps the packet, Unlocked only its sequence number.
Occupied(m)      == [tag |-> "Occupied", seq_no |-> m.seq_no, reply_no |-> m.reply_no,
                     seq_cst |-> m.seq_cst, data |-> m.data]
Unlocked(seq_no) == [tag |-> "Unlocked", seq_no |-> seq_no]
Empty            == [tag |-> "Empty"]

OccupiedEntry == [tag : {"Occupied"}, seq_no : SeqNo, reply_no : OptSeqNo,
                  seq_cst : BOOLEAN, data : Data]
UnlockedEntry == [tag : {"Unlocked"}, seq_no : SeqNo]
RecvEntry     == OccupiedEntry \cup UnlockedEntry \cup {Empty}

\* The struct.  concurrent_replies stands for the first
\* concurrent_replies_total elements of the array of that name.
SeqExState == [next_service_timestamp : Nat,
               next_send_seq_no       : SeqNo,
               next_recv_seq_no       : SeqNo,
               send_window            : [0 .. CAP - 1 -> SendEntry \cup {None}],
               recv_window            : [0 .. CAP - 1 -> RecvEntry],
               concurrent_replies     : Seq(SeqNo),
               is_locked              : BOOLEAN]

\* new() only asserts CAP > 1; a u32 range is far larger than the window, and even.
ASSUME CapAssumption == CAP \in Nat /\ CAP > 1
ASSUME SeqNoAssumption ==
    /\ SeqNoMod \in Nat /\ SeqNoMod % 2 = 0 /\ SeqNoMod > 2 * CAP
    /\ InitialSeqNo \in SeqNo
ASSUME TimeAssumption == ResendInterval \in Nat /\ MaxTime \in Nat
ASSUME NoneAssumption == None \notin SeqNo /\ None \notin SendEntry /\ None \notin Data

----------------------------------------------------------------------------
\* A mistake: arithmetic that does not wrap.
Wrap_Not(n) == n
\* Wrapping u32 arithmetic and the slot of a sequence number in a window.
Wrap(n)     == n % SeqNoMod
Idx(seq_no) == seq_no % CAP

\* SeqEx::new
NewSeqEx ==
    [next_service_timestamp |-> MaxTime,
     next_send_seq_no       |-> InitialSeqNo,
     next_recv_seq_no       |-> InitialSeqNo,
     send_window            |-> [i \in 0 .. CAP - 1 |-> None],
     recv_window            |-> [i \in 0 .. CAP - 1 |-> Empty],
     concurrent_replies     |-> << >>,
     is_locked              |-> FALSE]

\* A mistake: a reply leaves as a payload.
ToPacket_DropsReplyNo(e) == [type |-> "Data", seq_no |-> e.seq_no, reply_no |-> None,
                             seq_cst |-> e.seq_cst, data |-> e.data]
\* SendEntry::to_packet
ToPacket(e) == [type |-> "Data", seq_no |-> e.seq_no, reply_no |-> e.reply_no,
                seq_cst |-> e.seq_cst, data |-> e.data]

\* Packet::Ack
Ack(r) == [type |-> "Ack", reply_no |-> r]

----------------------------------------------------------------------------
(***************************************************************************)
(* is_full_inner: may one more sequence number be promised?  Every issued  *)
(* reply number owns one of the slots that follow next_send_seq_no, so     *)
(* 1 + total slots must be free; the slot that the packet being received   *)
(* frees by replying to it (reply_no) counts as free.                      *)
(***************************************************************************)
\* What has to happen first, if it may not: the remote peer answers, or a guard goes.
TryError == {"WaitingForRecv", "WaitingForReply"}

SlotBlocked_RepliesPass(s, i, reply_no) ==  \* a mistake: any reply may be processed
    reply_no = None /\ s.send_window[Idx(Wrap(s.next_send_seq_no + i))] # None
SlotBlocked(s, i, reply_no) ==
    LET idx == Idx(Wrap(s.next_send_seq_no + i))
    IN  s.send_window[idx] # None /\ (reply_no = None \/ idx # Idx(reply_no))

\* Mistakes: one reservation too many; no slot is kept for what was promised.
ReservationsExhausted_OffByOne(s) == Len(s.concurrent_replies) > CAP - 2
ReservedSlotBlocked_Never(s, reply_no) == FALSE

ReservationsExhausted(s) == Len(s.concurrent_replies) >= CAP - 2
ReservedSlotBlocked(s, reply_no) ==
    \E i \in 1 .. Len(s.concurrent_replies) : SlotBlocked(s, i, reply_no)

IsFullInner(s, reply_no) ==
    IF ReservationsExhausted(s) THEN "WaitingForReply"
    ELSE IF SlotBlocked(s, 0, reply_no) THEN "WaitingForRecv"
    ELSE IF ReservedSlotBlocked(s, reply_no) THEN "WaitingForReply"
    ELSE "Ok"

\* take_send: the entry a reply number names, if it is still in the window ...
SentEntry(s, r) ==
    LET e == s.send_window[Idx(r)]
    IN  IF e # None /\ e.seq_no = r THEN e ELSE None
TakenData(s, r) == IF r # None /\ SentEntry(s, r) # None THEN SentEntry(s, r).data ELSE None
\* ... without the comparison of sequence numbers (a mistake) ...
TakeSend_AnySeqNo(s, r) == [s EXCEPT !.send_window[Idx(r)] = None]
\* ... and the window without it.
TakeSend(s, r) ==
    IF SentEntry(s, r) = None THEN s ELSE [s EXCEPT !.send_window[Idx(r)] = None]

Reserved(s, r) == \E i \in 1 .. Len(s.concurrent_replies) : s.concurrent_replies[i] = r

\* remove_reservation: swap remove of the first occurrence.
RemoveReservation(s, r) ==
    LET cr == s.concurrent_replies
        i  == CHOOSE i \in 1 .. Len(cr) : cr[i] = r /\ \A j \in 1 .. i - 1 : cr[j] # r
    IN  [s EXCEPT !.concurrent_replies = SubSeq([cr EXCEPT ![i] = cr[Len(cr)]], 1, Len(cr) - 1)]

----------------------------------------------------------------------------
(***************************************************************************)
(* What try_send_direct_with and reply_raw_and_direct do once they may     *)
(* send: take next_send_seq_no, pull the service deadline forward, fill    *)
(* the slot (whatever it holds: debug_assert!(slot.is_none()) is not in a  *)
(* release build).  NewEntry is the entry, InsertSend the state after it.  *)
(***************************************************************************)
NewEntry_AfterIncrement(s, now, reply_no, seq_cst, d) ==  \* a mistake: swapped order
    [seq_no |-> Wrap(s.next_send_seq_no + 1), reply_no |-> reply_no, seq_cst |-> seq_cst,
     next_resend_time |-> now + ResendInterval, data |-> d]
NewEntry(s, now, reply_no, seq_cst, d) ==
    [seq_no |-> s.next_send_seq_no, reply_no |-> reply_no, seq_cst |-> seq_cst,
     next_resend_time |-> now + ResendInterval, data |-> d]
InsertSend(s, e) ==
    [s EXCEPT !.next_send_seq_no = Wrap(@ + 1),
              !.next_service_timestamp = IF @ > e.next_resend_time THEN e.next_resend_time ELSE @,
              !.send_window[Idx(e.seq_no)] = e]

\* try_send_direct, try_send_direct_with (when is_full_inner is Ok).
CanSend(s) == IsFullInner(s, None) = "Ok"
TrySend(s, now, seq_cst, d) == InsertSend(s, NewEntry(s, now, None, seq_cst, d))

\* reply_raw_and_direct: nothing happens for a number that is not reserved.
ReplyRaw(s, now, r, unlock, seq_cst, d) ==
    IF Reserved(s, r)
    THEN [InsertSend(RemoveReservation(s, r), NewEntry(s, now, r, seq_cst, d))
            EXCEPT !.is_locked = @ /\ ~unlock]
    ELSE s

\* A mistake: the reservation is not given back.
AckRaw_KeepsReservation(s, r, unlock) ==
    IF Reserved(s, r) THEN [s EXCEPT !.is_locked = @ /\ ~unlock] ELSE s

\* ack_raw_and_direct: the Ack is sent exactly if r was reserved.
AckRaw(s, r, unlock) ==
    IF Reserved(s, r)
    THEN [RemoveReservation(s, r) EXCEPT !.is_locked = @ /\ ~unlock]
    ELSE s

\* unlock_raw
UnlockRaw(s) == [s EXCEPT !.is_locked = FALSE]

----------------------------------------------------------------------------
(***************************************************************************)
(* fast_forward: skip the run of Unlocked entries at next_recv_seq_no,     *)
(* emptying each slot on the way.  Run(k): the loop makes at least k turns *)
(* (a slot it has already emptied stops it).                               *)
(***************************************************************************)
FastForwardLength_SkipsOccupied(s) ==  \* a mistake: only an Empty slot ends the loop
    LET at(j)  == Idx(Wrap(s.next_recv_seq_no + j))
        Run(k) == \A j \in 0 .. k - 1 : s.recv_window[at(j)].tag # "Empty"
    IN  Cardinality({k \in 1 .. CAP : Run(k)})
FastForwardLength(s) ==
    LET at(j)  == Idx(Wrap(s.next_recv_seq_no + j))
        Run(k) == \A j \in 0 .. k - 1 : /\ s.recv_window[at(j)].tag = "Unlocked"
                                        /\ \A l \in 0 .. j - 1 : at(l) # at(j)
    IN  Cardinality({k \in 1 .. CAP : Run(k)})

FastForward(s) ==
    LET n == FastForwardLength(s)
        skipped == {Idx(Wrap(s.next_recv_seq_no + j)) : j \in 0 .. n - 1}
    IN  [s EXCEPT !.next_recv_seq_no = Wrap(@ + n),
                  !.recv_window = [i \in 0 .. CAP - 1 |-> IF i \in skipped THEN Empty ELSE @[i]]]

\* Mistakes: an early packet stays Occupied, to be pumped again; the slot of a packet
\* processed in its turn is not emptied.
Advance_LeavesOccupied(s, m, is_next) ==
    IF is_next
    THEN FastForward([s EXCEPT !.recv_window[Idx(s.next_recv_seq_no)] = Empty,
                               !.next_recv_seq_no = Wrap(@ + 1)])
    ELSE [s EXCEPT !.recv_window[Idx(m.seq_no)] = Occupied(m)]
Advance_KeepsSlot(s, m, is_next) ==
    IF is_next THEN FastForward([s EXCEPT !.next_recv_seq_no = Wrap(@ + 1)])
    ELSE [s EXCEPT !.recv_window[Idx(m.seq_no)] = Unlocked(m.seq_no)]

\* A packet that is next in order moves the receive window, an early one
\* leaves Unlocked behind ...
Advance(s, m, is_next) ==
    IF is_next
    THEN FastForward([s EXCEPT !.recv_window[Idx(s.next_recv_seq_no)] = Empty,
                               !.next_recv_seq_no = Wrap(@ + 1)])
    ELSE [s EXCEPT !.recv_window[Idx(m.seq_no)] = Unlocked(m.seq_no)]

\* ... its number is issued as a reply number, and SeqCst takes the lock ...
IssueReplyNo(s, m) == [s EXCEPT !.concurrent_replies = Append(@, m.seq_no),
                                !.is_locked = @ \/ m.seq_cst]

\* ... and the packet it replies to leaves the send window: the common tail of
\* try_receive_raw_and_direct and try_pump_raw, which hands m to the application.
Accept(s, m, is_next) ==
    LET issued == IssueReplyNo(Advance(s, m, is_next), m)
    IN  IF m.reply_no = None THEN issued ELSE TakeSend(issued, m.reply_no)

----------------------------------------------------------------------------
\* The range check of try_receive_raw_and_direct.
Normalized(s, seq_no)   == Wrap(seq_no - s.next_recv_seq_no)
IsBelowRange(s, seq_no) == Normalized(s, seq_no) > (SeqNoMod - 1) \div 2
\* A mistake: the window accepts one sequence number too many.
IsAboveRange_OffByOne(s, seq_no) == ~IsBelowRange(s, seq_no) /\ Normalized(s, seq_no) > CAP
IsAboveRange(s, seq_no) == ~IsBelowRange(s, seq_no) /\ Normalized(s, seq_no) >= CAP
IsNext(s, seq_no)       == Normalized(s, seq_no) = 0

\* Mistakes: every old packet is acked again; none is.
WillReply_Never(s, seq_no)  == FALSE
WillReply_Always(s, seq_no) == TRUE

\* Will a reply or an ack to packet seq_no still be sent (again) from here?
WillReply(s, seq_no) ==
    \/ \E i \in 0 .. CAP - 1 : s.send_window[i] # None /\ s.send_window[i].reply_no = seq_no
    \/ Reserved(s, seq_no)

IsDuplicate_Never(s, seq_no) == FALSE  \* a mistake: the slot is not looked at
IsDuplicate(s, seq_no) == s.recv_window[Idx(seq_no)].tag \in {"Occupied", "Unlocked"}

\* Mistakes: a SeqCst packet waits neither for its turn nor for the lock.
AwaitsTurn_Never(s, m) == FALSE
AwaitsLock_Never(s, m) == FALSE
\* What only a SeqCst packet waits for: its turn, and the lock.
AwaitsTurn(s, m) == m.seq_cst /\ ~IsNext(s, m.seq_no)
AwaitsLock(s, m) == m.seq_cst /\ s.is_locked

\* try_receive_raw_and_direct for a data packet: which of its exits is taken.
\* A packet already processed out of order (Unlocked) goes the same way as a new one.
ReceiveOutcome(s, m) ==
    IF IsBelowRange(s, m.seq_no)
    THEN IF WillReply(s, m.seq_no) THEN "DroppedDuplicate" ELSE "DroppedDuplicateResendAck"
    ELSE IF IsAboveRange(s, m.seq_no) THEN "DroppedTooEarly"
    ELSE IF IsFullInner(s, m.reply_no) # "Ok" THEN IsFullInner(s, m.reply_no)
    ELSE IF AwaitsTurn(s, m) THEN "WaitingForRecv"
    ELSE IF AwaitsLock(s, m) THEN "WaitingForReply"
    ELSE "Deliver"

\* ... and the state it leaves: a packet that has to wait is saved in its slot.
Receive(s, m) ==
    CASE ReceiveOutcome(s, m) = "Deliver" -> Accept(s, m, IsNext(s, m.seq_no))
      [] ReceiveOutcome(s, m) \in TryError /\ ~IsDuplicate(s, m.seq_no)
            -> [s EXCEPT !.recv_window[Idx(m.seq_no)] = Occupied(m)]
      [] OTHER -> s

\* try_pump_raw
NextEntry(s) == s.recv_window[Idx(s.next_recv_seq_no)]
PumpOutcome(s) ==
    IF NextEntry(s).tag # "Occupied" THEN "WaitingForRecv"
    ELSE IF IsFullInner(s, NextEntry(s).reply_no) # "Ok" THEN IsFullInner(s, NextEntry(s).reply_no)
    ELSE IF AwaitsLock(s, NextEntry(s)) THEN "WaitingForReply"
    ELSE "Deliver"
Pump(s) == IF PumpOutcome(s) = "Deliver" THEN Accept(s, NextEntry(s), TRUE) ELSE s

----------------------------------------------------------------------------
(***************************************************************************)
(* service: run the service_direct iterator to its end at time now.  It    *)
(* visits the slots of the last CAP sequence numbers, resends what is due, *)
(* and sets the deadline to the earliest resend time it has seen.          *)
(***************************************************************************)
Visited(s) == {Idx(Wrap(s.next_send_seq_no - k)) : k \in 1 .. CAP}
Due(s, now) == {i \in Visited(s) : s.send_window[i] # None
                                   /\ s.send_window[i].next_resend_time <= now}
IsServiceTime(s, now) == s.next_service_timestamp <= now
Resent(s, now) == IF IsServiceTime(s, now) THEN {ToPacket(s.send_window[i]) : i \in Due(s, now)}
                  ELSE {}
Rescheduled(s, now) ==
    [i \in 0 .. CAP - 1 |->
        IF i \in Due(s, now) THEN [s.send_window[i] EXCEPT !.next_resend_time = now + ResendInterval]
        ELSE s.send_window[i]]
\* A mistake: only the entries resent now set the next deadline.
Service_ForgetsWaiting(s, now) ==
    IF IsServiceTime(s, now)
    THEN [s EXCEPT !.send_window = Rescheduled(s, now),
                   !.next_service_timestamp =
                        IF Due(s, now) = {} THEN MaxTime ELSE now + ResendInterval]
    ELSE s
Service(s, now) ==
    IF IsServiceTime(s, now)
    THEN LET window == Rescheduled(s, now)
             times  == {window[i].next_resend_time : i \in {j \in Visited(s) : window[j] # None}}
         IN  [s EXCEPT !.send_window = window,
                       !.next_service_timestamp = Min(times \cup {MaxTime})]
    ELSE s

\* The return value of service: how long the caller may sleep.
ServiceDelay(s, now) ==
    IF ResendInterval < s.next_service_timestamp - now THEN ResendInterval
    ELSE s.next_service_timestamp - now
=============================================================================
