--------------------------- MODULE EndpointProofs ---------------------------
(***************************************************************************)
(* Proofs about Endpoint and ServiceWalk, for every window size, range of  *)
(* sequence numbers, resend interval and set of packets that the           *)
(* assumptions allow.                                                      *)
(***************************************************************************)
EXTENDS ServiceWalk, WindowProofs

----------------------------------------------------------------------------
(***************************************************************************)
(* The inductive invariant.  ReservationBound needs the check of           *)
(* is_full_inner, OwnSendSlot and OwnRecvSlot need the types, and          *)
(* ResendOnTime needs that service meets every entry (OwnSendSlot) and     *)
(* that the caller never sleeps longer than resend_interval.               *)
(***************************************************************************)
Sleep ==
    /\ clock \in Nat /\ wake \in Nat
    /\ clock <= MaxClock
    /\ wake <= clock + ResendInterval
IInv == Windows(seq) /\ ResendOnTime /\ Sleep

\* The state that new() returns.
LEMMA InitIInv == Init => IInv
<1> SUFFICES ASSUME Init PROVE IInv
  OBVIOUS
<1>1. seq \in SeqExState
  BY CapAssumption, SeqNoAssumption, TimeAssumption, RecvEntryFacts
    DEF Init, NewSeqEx, SeqExState
<1>2. /\ \A i \in 0 .. CAP - 1 : seq.send_window[i] = None /\ seq.recv_window[i] = Empty
      /\ seq.concurrent_replies = << >>
  BY DEF Init, NewSeqEx
<1>3. Windows(seq)
  BY <1>1, <1>2, CapAssumption DEF Windows, SendSlots, RecvSlots
<1>4. ResendOnTime
  BY <1>2 DEF ResendOnTime, NotDueBefore
<1>5. Sleep
  BY TimeAssumption, ClockAssumption DEF Init, Sleep
<1> QED
  BY <1>3, <1>4, <1>5 DEF IInv

\* Every call, every packet and every tick of the clock preserves the invariant.
LEMMA NextIInv == IInv /\ [Next]_vars => IInv'
<1> SUFFICES ASSUME IInv, [Next]_vars PROVE IInv'
  OBVIOUS
<1>1. /\ Windows(seq) /\ clock \in Nat /\ wake \in Nat /\ clock <= MaxClock
      /\ wake <= clock + ResendInterval
      /\ NotDueBefore(seq, seq.next_service_timestamp) /\ NotDueBefore(seq, wake)
  BY DEF IInv, ResendOnTime, Sleep
<1>2. ASSUME UNCHANGED <<clock, wake>>, Windows(seq'),
             NotDueBefore(seq', seq'.next_service_timestamp), NotDueBefore(seq', wake)
      PROVE  IInv'
  BY <1>1, <1>2 DEF IInv, ResendOnTime, Sleep
<1>3. ASSUME UNCHANGED <<clock, wake>>, Windows(seq'), OnlyTakes(seq, seq')
      PROVE  IInv'
  BY <1>1, <1>2, <1>3, OnlyTakesTimer
<1>4. ASSUME NEW c \in SeqCstModes, NEW d \in Data, SendDirect(c, d) PROVE IInv'
  <2>1. c \in BOOLEAN
    BY WireAssumption
  <2> QED
    BY <1>1, <1>2, <1>4, <2>1, TrySendWindows DEF SendDirect
<1>5. ASSUME NEW m \in Wire, ReceiveDirect(m) PROVE IInv'
  BY <1>1, <1>3, <1>5, ReceiveWindows DEF ReceiveDirect
<1>6. ASSUME NEW m \in Wire, ReceiveAckDirect(m) PROVE IInv'
  <2>1. m.reply_no \in SeqNo
    BY <1>6 DEF ReceiveAckDirect, AckPacket
  <2> QED
    BY <1>1, <1>3, <1>6, <2>1, TakeSendWindows DEF ReceiveAckDirect
<1>7. CASE PumpDirect
  BY <1>1, <1>3, <1>7, PumpWindows DEF PumpDirect
<1>8. ASSUME NEW r \in SeqNo, NEW u \in BOOLEAN, NEW c \in SeqCstModes, NEW d \in Data,
             ReplyDirect(r, u, c, d)
      PROVE  IInv'
  <2>1. c \in BOOLEAN
    BY WireAssumption
  <2> QED
    BY <1>1, <1>2, <1>8, <2>1, ReplyRawWindows DEF ReplyDirect
<1>9. ASSUME NEW r \in SeqNo, NEW u \in BOOLEAN, AckDirect(r, u) PROVE IInv'
  <2>1. Windows(seq') /\ SameSendSide(seq, seq')
    BY <1>1, <1>9, AckRawWindows DEF AckDirect
  <2>2. OnlyTakes(seq, seq')
    BY <2>1 DEF OnlyTakes, SameSendSide, Shrunk
  <2> QED
    BY <1>3, <1>9, <2>1, <2>2 DEF AckDirect
<1>10. CASE UnlockDirect
  <2>1. Windows(seq') /\ SameSendSide(seq, seq')
    BY <1>1, <1>10, LockWindows DEF UnlockDirect, UnlockRaw
  <2>2. OnlyTakes(seq, seq')
    BY <2>1 DEF OnlyTakes, SameSendSide, Shrunk
  <2> QED
    BY <1>3, <1>10, <2>1, <2>2 DEF UnlockDirect
<1>11. CASE ServiceDirect
  <2> DEFINE n == seq'.next_service_timestamp
  <2>1. clock <= MaxTime
    BY <1>1, TimeAssumption, ClockAssumption
  <2>2. Windows(seq') /\ NotDueBefore(seq', n) /\ clock <= n
    BY <1>1, <1>11, <2>1, ServiceWindows DEF ServiceDirect
  <2>3. n \in Nat /\ seq' \in SeqExState
    BY <2>2 DEF Windows, SeqExState
  <2>4. clock' = clock /\ wake' = clock + ServiceDelay(seq', clock)
    BY <1>11 DEF ServiceDirect
  <2>5. wake' \in Nat /\ wake' <= n /\ wake' <= clock' + ResendInterval
    BY <1>1, <2>2, <2>3, <2>4, TimeAssumption DEF ServiceDelay
  <2>6. NotDueBefore(seq', wake')
    <3>1. ASSUME NEW i \in 0 .. CAP - 1, seq'.send_window[i] # None
          PROVE  wake' <= seq'.send_window[i].next_resend_time
      <4>1. seq'.send_window[i] \in SendEntry
        BY <2>3, <3>1 DEF SeqExState
      <4>2. seq'.send_window[i].next_resend_time \in Nat
        BY <4>1 DEF SendEntry
      <4>3. n <= seq'.send_window[i].next_resend_time
        BY <2>2, <3>1 DEF NotDueBefore
      <4> QED
        BY <2>3, <2>5, <4>2, <4>3
    <3> QED
      BY <3>1 DEF NotDueBefore
  <2> QED
    BY <1>1, <2>2, <2>4, <2>5, <2>6 DEF IInv, ResendOnTime, Sleep
<1>12. CASE Tick
  <2>1. seq' = seq /\ wake' = wake /\ clock' = clock + 1 /\ clock < MaxClock
    BY <1>12 DEF Tick
  <2>2. clock' \in Nat /\ clock' <= MaxClock /\ wake <= clock' + ResendInterval
    BY <1>1, <2>1, TimeAssumption, ClockAssumption
  <2> QED
    BY <1>1, <2>1, <2>2 DEF IInv, ResendOnTime, Sleep
<1>13. CASE UNCHANGED vars
  BY <1>1, <1>13 DEF vars, IInv, ResendOnTime, Sleep
<1> QED
  BY <1>4, <1>5, <1>6, <1>7, <1>8, <1>9, <1>10, <1>11, <1>12, <1>13 DEF Next

\* IInv holds in every state the endpoint can reach.
THEOREM Invariance == Spec => []IInv
BY InitIInv, NextIInv, PTL DEF Spec

\* The struct keeps its type: no window slot, sequence number or timestamp goes out of
\* range in any sequence of calls.
THEOREM TypeCorrect == Spec => []TypeOK
<1>1. IInv => TypeOK
  BY DEF IInv, Windows, Sleep, TypeOK
<1> QED
  BY <1>1, Invariance, PTL

\* No packet and no call makes concurrent_replies overflow: for every window size and
\* any traffic, is_full_inner stops at CAP - 2 reply numbers.
THEOREM ReservationsBounded == Spec => []ReservationBound
<1>1. IInv => ReservationBound
  BY DEF IInv, Windows, ReservationBound
<1> QED
  BY <1>1, Invariance, PTL

\* The walk of service_direct over the last CAP sequence numbers meets every unanswered
\* packet, each in its own slot.
THEOREM SendWindowOrdered == Spec => []OwnSendSlot
<1>1. IInv => OwnSendSlot
  BY DEF IInv, Windows, OwnSendSlot
<1> QED
  BY <1>1, Invariance, PTL

\* "Due to the range check these should always be equal": the assertions on the slots of
\* the receive window hold for every window size that divides the sequence number range.
THEOREM RecvWindowOrdered == Spec => []OwnRecvSlot
<1>1. IInv => OwnRecvSlot
  BY DEF IInv, Windows, OwnRecvSlot
<1> QED
  BY <1>1, Invariance, PTL

\* A caller who sleeps as long as service says never resends late, whatever is sent,
\* received and answered in the meantime.
THEOREM ResendsOnTime == Spec => []ResendOnTime
<1>1. IInv => ResendOnTime
  BY DEF IInv
<1> QED
  BY <1>1, Invariance, PTL

----------------------------------------------------------------------------
(* What is saved is not forgotten.                                         *)

\* The step that hands over a packet loses no other one.
LEMMA AcceptSaves ==
    ASSUME NEW s, Windows(s), NEW m \in Acceptable, NEW is_next \in BOOLEAN,
           IF is_next THEN Normalized(s, m.seq_no) = 0
                      ELSE Normalized(s, m.seq_no) \in 0 .. CAP - 1,
           NEW i \in 0 .. CAP - 1, s.recv_window[i].tag = "Occupied",
           Accept(s, m, is_next).recv_window[i] # s.recv_window[i]
    PROVE  Reserved(Accept(s, m, is_next), s.recv_window[i].seq_no)
<1> DEFINE a == s.next_recv_seq_no
           b == s.recv_window[i].seq_no
<1>1. s \in SeqExState /\ RecvSlots(s) /\ a \in SeqNo /\ CAP \in Nat /\ CAP > 1
  BY CapAssumption DEF Windows, SeqExState
<1>2. m.seq_no \in SeqNo
  BY AcceptableFacts
<1>3. s.recv_window[i] \in RecvEntry /\ s.recv_window[i] # Empty
  BY <1>1 DEF SeqExState, Empty
<1>4. b \in SeqNo /\ Idx(b) = i /\ Wrap(b - a) \in 0 .. CAP - 1
  BY <1>1, <1>3, RecvEntryFacts DEF RecvSlots, Normalized
<1>5. i = IF is_next THEN Idx(a) ELSE Idx(m.seq_no)
  BY <1>1, AcceptRecvWindow, AdvanceSkips
<1>6. Wrap(m.seq_no - a) \in 0 .. CAP - 1
  BY <1>1 DEF Normalized
<1>7. is_next => m.seq_no = a
  <2>1. SUFFICES ASSUME is_next PROVE m.seq_no = a
    OBVIOUS
  <2>2. m.seq_no = Wrap(a + 0)
    BY <1>1, <1>2, <2>1, Ahead DEF Normalized
  <2> QED
    BY <1>1, <2>2, SeqNoAssumption, WrapOnce DEF SeqNo
<1>8. b = m.seq_no
  BY <1>1, <1>2, <1>4, <1>5, <1>6, <1>7, SlotUnique
<1>9. Accept(s, m, is_next) \in SeqExState /\ Issues(s, Accept(s, m, is_next), m.seq_no, m.seq_cst)
  BY <1>1, AcceptType
<1> QED
  BY <1>1, <1>2, <1>8, <1>9, IssuedReserved

\* try_receive_raw_and_direct: a packet that has to wait is only put into an empty slot.
LEMMA ReceiveSaves ==
    ASSUME NEW s, Windows(s), NEW m \in DataPacket,
           NEW i \in 0 .. CAP - 1, s.recv_window[i].tag = "Occupied",
           Receive(s, m).recv_window[i] # s.recv_window[i]
    PROVE  Reserved(Receive(s, m), s.recv_window[i].seq_no)
<1>1. s \in SeqExState
  BY DEF Windows
<1>2. CASE ReceiveOutcome(s, m) = "Deliver"
  <2> DEFINE next == IsNext(s, m.seq_no)
  <2>1. Receive(s, m) = Accept(s, m, next)
    BY <1>2 DEF Receive, TryError
  <2>2. Normalized(s, m.seq_no) \in 0 .. CAP - 1
    BY <1>1, <1>2, OutcomeFacts
  <2>3. m \in Acceptable /\ next \in BOOLEAN
    BY DEF Acceptable, IsNext
  <2>4. IF next THEN Normalized(s, m.seq_no) = 0 ELSE Normalized(s, m.seq_no) \in 0 .. CAP - 1
    BY <2>2 DEF IsNext
  <2> HIDE DEF next
  <2> QED
    BY <2>1, <2>3, <2>4, AcceptSaves
<1>3. CASE ReceiveOutcome(s, m) \in TryError /\ ~IsDuplicate(s, m.seq_no)
  <2>1. Receive(s, m) = [s EXCEPT !.recv_window[Idx(m.seq_no)] = Occupied(m)]
    BY <1>3 DEF Receive, TryError
  <2>2. i # Idx(m.seq_no)
    BY <1>3 DEF IsDuplicate
  <2> QED
    BY <1>1, <2>1, <2>2 DEF SeqExState
<1>4. CASE ReceiveOutcome(s, m) # "Deliver"
           /\ ~(ReceiveOutcome(s, m) \in TryError /\ ~IsDuplicate(s, m.seq_no))
  BY <1>4 DEF Receive
<1> QED
  BY <1>2, <1>3, <1>4

\* try_pump_raw takes the packet whose turn it is.
LEMMA PumpSaves ==
    ASSUME NEW s, Windows(s),
           NEW i \in 0 .. CAP - 1, s.recv_window[i].tag = "Occupied",
           Pump(s).recv_window[i] # s.recv_window[i]
    PROVE  Reserved(Pump(s), s.recv_window[i].seq_no)
<1> DEFINE e == NextEntry(s)
           a == s.next_recv_seq_no
<1>1. s \in SeqExState /\ RecvSlots(s) /\ a \in SeqNo
  BY DEF Windows, SeqExState
<1>2. PumpOutcome(s) = "Deliver" /\ Pump(s) = Accept(s, e, TRUE)
  BY DEF Pump
<1>3. e \in OccupiedEntry /\ e \in Acceptable
  BY <1>1, <1>2, PumpEntry DEF Acceptable
<1>4. i = Idx(a)
  <2> HIDE DEF e
  <2>1. Advance(s, e, TRUE).recv_window[i] # s.recv_window[i]
    BY <1>1, <1>2, <1>3, AcceptRecvWindow
  <2> QED
    BY <1>1, <1>3, <2>1, AdvanceSkips
<1>5. e = s.recv_window[i]
  BY <1>4 DEF NextEntry
<1>6. Reserved(Accept(s, e, TRUE), e.seq_no)
  BY <1>1, <1>3, AcceptType, AcceptableFacts, IssuedReserved
<1> QED
  BY <1>2, <1>5, <1>6

\* A step of the endpoint either leaves a saved packet alone or has issued its number.
LEMMA StepSaves ==
    ASSUME IInv, [Next]_vars, NEW i \in 0 .. CAP - 1, seq.recv_window[i].tag = "Occupied",
           seq'.recv_window[i] # seq.recv_window[i]
    PROVE  Reserved(seq', seq.recv_window[i].seq_no)
<1>1. Windows(seq) /\ seq \in SeqExState
  BY DEF IInv, Windows
<1>2. ASSUME NEW c \in SeqCstModes, NEW d \in Data, SendDirect(c, d) PROVE FALSE
  <2>1. NewEntry(seq, clock, None, c, d).seq_no = seq.next_send_seq_no
    BY DEF NewEntry
  <2> QED
    BY <1>1, <1>2 DEF SendDirect, TrySend, InsertSend, SeqExState
<1>3. ASSUME NEW m \in Wire, ReceiveDirect(m) PROVE Reserved(seq', seq.recv_window[i].seq_no)
  BY <1>1, <1>3, ReceiveSaves DEF ReceiveDirect
<1>4. ASSUME NEW m \in Wire, ReceiveAckDirect(m) PROVE FALSE
  BY <1>1, <1>4 DEF ReceiveAckDirect, TakeSend, SeqExState
<1>5. CASE PumpDirect
  BY <1>1, <1>5, PumpSaves DEF PumpDirect
<1>6. ASSUME NEW r \in SeqNo, NEW u \in BOOLEAN, NEW c \in SeqCstModes, NEW d \in Data,
             ReplyDirect(r, u, c, d)
      PROVE  FALSE
  BY <1>1, <1>6 DEF ReplyDirect, ReplyRaw, InsertSend, RemoveReservation, SeqExState
<1>7. ASSUME NEW r \in SeqNo, NEW u \in BOOLEAN, AckDirect(r, u) PROVE FALSE
  BY <1>1, <1>7 DEF AckDirect, AckRaw, RemoveReservation, SeqExState
<1>8. CASE UnlockDirect
  BY <1>1, <1>8 DEF UnlockDirect, UnlockRaw, SeqExState
<1>9. CASE ServiceDirect
  BY <1>1, <1>9 DEF ServiceDirect, Service, SeqExState
<1>10. CASE Tick \/ UNCHANGED vars
  BY <1>10 DEF Tick, vars
<1> QED
  BY <1>2, <1>3, <1>4, <1>5, <1>6, <1>7, <1>8, <1>9, <1>10 DEF Next

\* Whatever arrives, a packet saved in the receive window stays there until its number is
\* issued as a reply number: no call and no packet makes SEQEX forget it.
THEOREM SavedNotForgotten == Spec => SavedUntilIssued
<1>1. IInv /\ [Next]_vars =>
        [\A i \in 0 .. CAP - 1 :
            (seq.recv_window[i].tag = "Occupied" /\ seq'.recv_window[i] # seq.recv_window[i])
                => Reserved(seq', seq.recv_window[i].seq_no)]_vars
  BY StepSaves
<1> QED
  BY <1>1, Invariance, PTL DEF Spec, SavedUntilIssued

----------------------------------------------------------------------------
(* Walks of service_direct that are interrupted.                           *)

\* The walk from a to b gets shorter by every number it passes.
LEMMA Further ==
    ASSUME NEW a \in SeqNo, NEW b \in SeqNo, NEW j \in 0 .. Wrap(b - a)
    PROVE  Wrap(b - Wrap(a + j)) = Wrap(b - a) - j
<1>1. /\ a \in Int /\ b \in Int /\ 0 <= a /\ a < SeqNoMod /\ 0 <= b /\ b < SeqNoMod
      /\ SeqNoMod \in Nat
  BY SeqNoAssumption DEF SeqNo
<1>2. Wrap(b - a) = IF b < a THEN (b - a) + SeqNoMod ELSE b - a
  BY <1>1, WrapOnce
<1>3. j \in Nat /\ j < SeqNoMod /\ j <= Wrap(b - a)
  BY <1>1, <1>2
<1>4. Wrap(a + j) = IF a + j < SeqNoMod THEN a + j ELSE (a + j) - SeqNoMod
  BY <1>1, <1>3, WrapOnce
<1>5. Wrap(b - Wrap(a + j)) = IF b < Wrap(a + j) THEN (b - Wrap(a + j)) + SeqNoMod
                              ELSE b - Wrap(a + j)
  <2>1. Wrap(a + j) \in Int /\ 0 <= Wrap(a + j) /\ Wrap(a + j) < SeqNoMod
    BY <1>1, <1>3, <1>4
  <2> QED
    BY <1>1, <2>1, WrapOnce
<1> QED
  BY <1>1, <1>2, <1>3, <1>4, <1>5

\* A walk starts CAP numbers back.
LEMMA WalkStart ==
    ASSUME NEW n \in SeqNo, NEW b \in SeqNo, Wrap(n - b) \in 1 .. CAP
    PROVE  Wrap(b - Wrap(n - CAP)) < Wrap(n - Wrap(n - CAP))
<1>1. /\ n \in Int /\ b \in Int /\ 0 <= n /\ n < SeqNoMod /\ 0 <= b /\ b < SeqNoMod
      /\ SeqNoMod \in Nat /\ CAP \in Nat /\ SeqNoMod > 2 * CAP /\ CAP > 1
  BY SeqNoAssumption, CapAssumption DEF SeqNo
<1>2. Wrap(n - b) = IF n < b THEN (n - b) + SeqNoMod ELSE n - b
  BY <1>1, WrapOnce
<1>3. Wrap(n - CAP) = IF n < CAP THEN (n - CAP) + SeqNoMod ELSE n - CAP
  BY <1>1, WrapOnce
<1> DEFINE a == Wrap(n - CAP)
<1>4. a \in Int /\ 0 <= a /\ a < SeqNoMod
  BY <1>1, <1>3
<1>5. /\ Wrap(b - a) = IF b < a THEN (b - a) + SeqNoMod ELSE b - a
      /\ Wrap(n - a) = IF n < a THEN (n - a) + SeqNoMod ELSE n - a
  BY <1>1, <1>4, WrapOnce
<1> QED
  BY <1>1, <1>2, <1>3, <1>4, <1>5

\* Every packet in the send window is before the walk, or not due before its deadline.
Covers(s, it) ==
    /\ it \in ServiceIter
    /\ \A i \in 0 .. CAP - 1 : s.send_window[i] # None =>
        \/ Wrap(s.send_window[i].seq_no - it.seq_no) < Left(s, it)
        \/ it.next_time <= s.send_window[i].next_resend_time

LEMMA EntryTypes ==
    ASSUME NEW s \in SeqExState, NEW i \in 0 .. CAP - 1, s.send_window[i] # None
    PROVE  /\ s.send_window[i].seq_no \in SeqNo
           /\ s.send_window[i].next_resend_time \in Nat
<1>1. s.send_window[i] \in SendEntry
  BY DEF SeqExState
<1> QED
  BY <1>1 DEF SendEntry

\* The numbers of a walk.
LEMMA WalkNumbers ==
    ASSUME NEW s \in SeqExState, NEW it \in ServiceIter
    PROVE  /\ s.next_send_seq_no \in SeqNo /\ it.seq_no \in SeqNo /\ it.next_time \in Nat
           /\ Left(s, it) \in Nat /\ Left(s, it) < SeqNoMod
           /\ \A n \in SeqNo : Wrap(n - it.seq_no) \in Nat /\ Wrap(n - it.seq_no) < SeqNoMod
<1>1. s.next_send_seq_no \in SeqNo /\ it.seq_no \in SeqNo /\ it.next_time \in Nat
  BY DEF SeqExState, ServiceIter
<1>2. \A n \in SeqNo : Wrap(n - it.seq_no) \in SeqNo
  <2> SUFFICES ASSUME NEW n \in SeqNo PROVE Wrap(n - it.seq_no) \in SeqNo
    OBVIOUS
  <2>1. n - it.seq_no \in Int
    BY <1>1, SeqNoAssumption DEF SeqNo
  <2> QED
    BY <2>1, WrapType
<1>3. \A n \in SeqNo : n \in Nat /\ n < SeqNoMod
  BY SeqNoAssumption DEF SeqNo
<1> QED
  BY <1>1, <1>2, <1>3 DEF Left

\* Every number has its slot on the walk.
LEMMA WalkSlot ==
    ASSUME NEW it \in ServiceIter
    PROVE  /\ \A j \in Nat : Slot(it, j) \in 0 .. CAP - 1
           /\ \A n \in SeqNo : Slot(it, Wrap(n - it.seq_no)) = Idx(n)
<1>1. it.seq_no \in SeqNo
  BY DEF ServiceIter
<1>2. ASSUME NEW j \in Nat PROVE Slot(it, j) \in 0 .. CAP - 1
  <2>1. it.seq_no + j \in Int
    BY <1>1, SeqNoAssumption DEF SeqNo
  <2> QED
    BY <2>1, WrapType, IdxType DEF Slot
<1>3. ASSUME NEW n \in SeqNo PROVE Slot(it, Wrap(n - it.seq_no)) = Idx(n)
  BY <1>1, <1>3, Ahead DEF Slot
<1> QED
  BY <1>2, <1>3

\* The earliest time that the walk knows of is a time, and no later than what it met.
LEMMA NextTimeFacts ==
    ASSUME seq \in SeqExState, NEW it \in ServiceIter, NEW k \in Nat
    PROVE  /\ NextTime(it, k) \in Nat /\ NextTime(it, k) <= it.next_time
           /\ \A j \in 0 .. k - 1 : seq.send_window[Slot(it, j)] # None =>
                NextTime(it, k) <= seq.send_window[Slot(it, j)].next_resend_time
<1> DEFINE met == {n \in 0 .. k - 1 : seq.send_window[Slot(it, n)] # None}
           all == {it.next_time} \cup {seq.send_window[Slot(it, j)].next_resend_time : j \in met}
<1>1. all \subseteq Nat
  <2>1. ASSUME NEW j \in met PROVE seq.send_window[Slot(it, j)].next_resend_time \in Nat
    BY WalkSlot, EntryTypes
  <2>2. it.next_time \in Nat
    BY DEF ServiceIter
  <2> QED
    BY <2>1, <2>2
<1>2. /\ it.next_time \in all
      /\ \A j \in met : seq.send_window[Slot(it, j)].next_resend_time \in all
  OBVIOUS
<1>3. NextTime(it, k) = Min(all)
  BY DEF NextTime
<1> HIDE DEF all
<1>4. \E x \in all : \A y \in all : x <= y
  BY <1>1, <1>2, LeastNatural
<1>5. Min(all) \in all /\ \A y \in all : Min(all) <= y
  BY <1>4 DEF Min
<1> QED
  BY <1>1, <1>2, <1>3, <1>5

\* A walk that begins has everything before it.
LEMMA StartedCovers ==
    ASSUME Windows(seq), iter # None => Covers(seq, iter)
    PROVE  Covers(seq, Started)
<1>1. seq \in SeqExState /\ SendSlots(seq)
  BY DEF Windows
<1>2. CASE iter # None
  BY <1>2 DEF Started
<1>3. CASE iter = None
  <2> DEFINE n == seq.next_send_seq_no
             it == [seq_no |-> Wrap(n - CAP), next_time |-> MaxTime]
  <2>1. Started = it
    BY <1>3 DEF Started
  <2>2. n \in SeqNo
    BY <1>1 DEF SeqExState
  <2>3. Wrap(n - CAP) \in SeqNo
    <3>1. n - CAP \in Int
      BY <2>2, SeqNoAssumption, CapAssumption DEF SeqNo
    <3> QED
      BY <3>1, WrapType
  <2>4. it \in ServiceIter /\ it.seq_no = Wrap(n - CAP)
    BY <2>3, TimeAssumption DEF ServiceIter
  <2>5. ASSUME NEW i \in 0 .. CAP - 1, seq.send_window[i] # None
        PROVE  Wrap(seq.send_window[i].seq_no - it.seq_no) < Left(seq, it)
    <3>1. Wrap(n - seq.send_window[i].seq_no) \in 1 .. CAP
      BY <1>1, <2>5 DEF SendSlots
    <3>2. seq.send_window[i].seq_no \in SeqNo
      BY <1>1, <2>5, EntryTypes
    <3> QED
      BY <2>2, <2>4, <3>1, <3>2, WalkStart DEF Left
  <2> HIDE DEF it
  <2> QED
    BY <2>1, <2>4, <2>5 DEF Covers
<1> QED
  BY <1>2, <1>3

\* A packet gets another resend time, which is not too early.
LEMMA RescheduledOne ==
    ASSUME NEW s, Windows(s), NEW q \in 0 .. CAP - 1, s.send_window[q] # None, NEW t \in Nat
    PROVE  LET v == [s EXCEPT !.send_window[q].next_resend_time = t]
           IN  /\ Windows(v) /\ v.next_send_seq_no = s.next_send_seq_no
               /\ v.next_service_timestamp = s.next_service_timestamp
               /\ \A i \in 0 .. CAP - 1 :
                    /\ v.send_window[i] # None <=> s.send_window[i] # None
                    /\ s.send_window[i] # None =>
                        /\ v.send_window[i].seq_no = s.send_window[i].seq_no
                        /\ v.send_window[i].next_resend_time =
                                IF i = q THEN t ELSE s.send_window[i].next_resend_time
<1> DEFINE e == [s.send_window[q] EXCEPT !.next_resend_time = t]
           w == [s.send_window EXCEPT ![q] = e]
           v == [s EXCEPT !.send_window[q].next_resend_time = t]
<1>1. s \in SeqExState /\ s.send_window \in [0 .. CAP - 1 -> SendEntry \cup {None}]
  BY DEF Windows, SeqExState
<1>2. /\ e \in SendEntry /\ e.seq_no = s.send_window[q].seq_no /\ e.next_resend_time = t
      /\ e # None
  <2>1. s.send_window[q] \in SendEntry
    BY <1>1
  <2> QED
    BY <2>1, NoneAssumption DEF SendEntry
<1>3. v = [s EXCEPT !.send_window = w]
  BY <1>1 DEF SeqExState
<1> HIDE DEF e
<1>4. /\ w \in [0 .. CAP - 1 -> SendEntry \cup {None}]
      /\ \A i \in 0 .. CAP - 1 : w[i] = IF i = q THEN e ELSE s.send_window[i]
  BY <1>1, <1>2
<1> HIDE DEF w, v
<1>5. /\ v \in SeqExState /\ v.send_window = w /\ v.next_send_seq_no = s.next_send_seq_no
      /\ v.recv_window = s.recv_window /\ v.next_recv_seq_no = s.next_recv_seq_no
      /\ v.concurrent_replies = s.concurrent_replies
      /\ v.next_service_timestamp = s.next_service_timestamp
  BY <1>1, <1>3, <1>4 DEF SeqExState
<1>6. \A i \in 0 .. CAP - 1 :
        /\ v.send_window[i] # None <=> s.send_window[i] # None
        /\ s.send_window[i] # None =>
            /\ v.send_window[i].seq_no = s.send_window[i].seq_no
            /\ v.send_window[i].next_resend_time =
                    IF i = q THEN t ELSE s.send_window[i].next_resend_time
  BY <1>2, <1>4, <1>5
<1>7. SendSlots(v)
  BY <1>5, <1>6 DEF SendSlots, Windows
<1>8. RecvSlots(v) /\ Len(v.concurrent_replies) <= CAP - 2
  BY <1>5 DEF Windows, RecvSlots, Normalized
<1> QED
  BY <1>5, <1>6, <1>7, <1>8 DEF Windows, v

\* service_direct resends a packet: what the walk has passed is known to its deadline.
LEMMA ResendOneCovers ==
    ASSUME IInv, NEW it, Covers(seq, it), NEW k \in 0 .. Left(seq, it) - 1, DueAt(it, k),
           IsServiceTime(seq, clock), ResendOne(it, k), UNCHANGED <<clock, wake>>
    PROVE  IInv' /\ Covers(seq', iter')
<1> DEFINE q == Slot(it, k)
           again == clock + ResendInterval
           t == NextTime(it, k)
<1>1. /\ Windows(seq) /\ seq \in SeqExState /\ SendSlots(seq) /\ it \in ServiceIter
      /\ clock \in Nat /\ wake \in Nat /\ clock <= MaxClock /\ wake <= clock + ResendInterval
      /\ NotDueBefore(seq, seq.next_service_timestamp) /\ NotDueBefore(seq, wake)
      /\ seq.next_service_timestamp \in Nat /\ seq.next_service_timestamp <= clock
  BY DEF IInv, Windows, Sleep, ResendOnTime, Covers, SeqExState, IsServiceTime
<1>2. /\ again \in Nat /\ clock <= again /\ wake <= again
  BY <1>1, TimeAssumption
<1>3. k \in Nat /\ k < Left(seq, it)
  BY <1>1, WalkNumbers
<1>4. q \in 0 .. CAP - 1 /\ seq.send_window[q] # None
  BY <1>1, <1>3, WalkSlot DEF DueAt
<1>5. /\ seq' = [seq EXCEPT !.send_window[q].next_resend_time = again]
      /\ iter' = [seq_no |-> Wrap(it.seq_no + k + 1), next_time |-> Min({t, again})]
  BY DEF ResendOne
<1>6. /\ t \in Nat /\ t <= it.next_time
      /\ \A j \in 0 .. k - 1 : seq.send_window[Slot(it, j)] # None =>
            t <= seq.send_window[Slot(it, j)].next_resend_time
  BY <1>1, <1>3, NextTimeFacts
<1> HIDE DEF q, again, t
<1>7. /\ Windows(seq') /\ seq'.next_send_seq_no = seq.next_send_seq_no
      /\ seq'.next_service_timestamp = seq.next_service_timestamp
      /\ \A i \in 0 .. CAP - 1 :
            /\ seq'.send_window[i] # None <=> seq.send_window[i] # None
            /\ seq.send_window[i] # None =>
                /\ seq'.send_window[i].seq_no = seq.send_window[i].seq_no
                /\ seq'.send_window[i].next_resend_time =
                        IF i = q THEN again ELSE seq.send_window[i].next_resend_time
  <2>1. /\ Windows(seq) /\ q \in 0 .. CAP - 1 /\ seq.send_window[q] # None /\ again \in Nat
        /\ seq' = [seq EXCEPT !.send_window[q].next_resend_time = again]
    BY <1>1, <1>2, <1>4, <1>5
  <2> QED
    BY ONLY <2>1, RescheduledOne
<1>8. Min({t, again}) \in Nat /\ Min({t, again}) <= t /\ Min({t, again}) <= again
  <2> DEFINE m == IF t <= again THEN t ELSE again
  <2>1. m \in {t, again} /\ \A y \in {t, again} : m <= y
    BY <1>2, <1>6
  <2> HIDE DEF m
  <2>2. Min({t, again}) \in {t, again} /\ \A y \in {t, again} : Min({t, again}) <= y
    BY <2>1 DEF Min
  <2> QED
    BY <1>2, <1>6, <2>2
<1>9. NotDueBefore(seq', seq'.next_service_timestamp) /\ NotDueBefore(seq', wake)
  BY <1>1, <1>2, <1>7 DEF NotDueBefore
<1>10. IInv'
  BY <1>1, <1>7, <1>9 DEF IInv, ResendOnTime, Sleep
<1> DEFINE a == it.seq_no
           n == seq.next_send_seq_no
<1>11. /\ a \in SeqNo /\ n \in SeqNo /\ it.next_time \in Nat /\ Left(seq, it) = Wrap(n - a)
       /\ k + 1 \in 0 .. Wrap(n - a)
  BY <1>1, <1>3, WalkNumbers DEF Left
<1>12. a + (k + 1) = a + k + 1 /\ Wrap(a + k + 1) \in SeqNo
  <2>1. a \in Int
    BY <1>11, SeqNoAssumption DEF SeqNo
  <2> QED
    BY <1>3, <2>1, WrapType
<1>13. Wrap(n - Wrap(a + k + 1)) = Wrap(n - a) - (k + 1)
  BY <1>11, <1>12, Further
<1>14. iter' \in ServiceIter /\ iter'.seq_no = Wrap(a + k + 1) /\ iter'.next_time = Min({t, again})
  BY <1>5, <1>8, <1>12 DEF ServiceIter
<1>15. ASSUME NEW i \in 0 .. CAP - 1, seq.send_window[i] # None
       PROVE  \/ Wrap(seq.send_window[i].seq_no - iter'.seq_no) < Wrap(n - a) - (k + 1)
              \/ iter'.next_time <= seq'.send_window[i].next_resend_time
  <2> DEFINE b == seq.send_window[i].seq_no
             d == Wrap(b - a)
             time == seq.send_window[i].next_resend_time
  <2>1. b \in SeqNo /\ time \in Nat /\ Idx(b) = i
    BY <1>1, <1>15, EntryTypes DEF SendSlots
  <2>2. d \in Nat /\ Slot(it, d) = i
    BY <1>1, <2>1, WalkNumbers, WalkSlot
  <2>3. d < Wrap(n - a) \/ it.next_time <= time
    BY <1>11, <1>15 DEF Covers
  <2>4. ASSUME d > k, d < Wrap(n - a) PROVE Wrap(b - iter'.seq_no) < Wrap(n - a) - (k + 1)
    <3>1. k + 1 \in 0 .. d
      BY <1>3, <2>2, <2>4
    <3>2. Wrap(b - Wrap(a + k + 1)) = d - (k + 1)
      BY <1>11, <1>12, <2>1, <3>1, Further
    <3>3. Wrap(n - a) \in Int
      BY <1>1, <1>11, WalkNumbers
    <3> HIDE DEF d, b
    <3> QED
      BY <1>3, <1>14, <2>2, <2>4, <3>2, <3>3
  <2>5. i = q => seq'.send_window[i].next_resend_time = again
    BY <1>7, <1>15
  <2>6. i # q => seq'.send_window[i].next_resend_time = time
    BY <1>7, <1>15
  <2>7. d = k => i = q
    BY <2>2 DEF q
  <2>8. d < k => t <= time
    BY <1>3, <1>6, <1>15, <2>2
  <2>9. it.next_time <= time => t <= time
    BY <1>6, <1>11, <2>1
  <2> HIDE DEF b, d, time
  <2>10. t <= time \/ i = q \/ (d > k /\ d < Wrap(n - a))
    BY <1>3, <2>2, <2>3, <2>7, <2>8, <2>9
  <2>11. i = q => iter'.next_time <= seq'.send_window[i].next_resend_time
    BY <1>8, <1>14, <2>5
  <2>12. i # q /\ t <= time => iter'.next_time <= seq'.send_window[i].next_resend_time
    BY <1>6, <1>8, <1>14, <2>1, <2>6
  <2> QED
    BY <2>4, <2>10, <2>11, <2>12 DEF b
<1>16. Left(seq', iter') = Wrap(n - a) - (k + 1)
  BY <1>7, <1>13, <1>14 DEF Left
<1> HIDE DEF a, n
<1>17. Covers(seq', iter')
  BY <1>7, <1>14, <1>15, <1>16 DEF Covers
<1> QED
  BY <1>10, <1>17

\* service_direct returns None: what the walk has met sets the next deadline.
LEMMA WalkEndsFacts ==
    ASSUME IInv, iter # None => Covers(seq, iter), WalkEnds
    PROVE  IInv'
<1> DEFINE it == Started
           t == NextTime(it, Left(seq, it))
           n == seq'.next_service_timestamp
<1>1. /\ Windows(seq) /\ seq \in SeqExState /\ SendSlots(seq)
      /\ clock \in Nat /\ clock <= MaxClock
      /\ NotDueBefore(seq, seq.next_service_timestamp)
  BY DEF IInv, Windows, Sleep, ResendOnTime
<1>2. Covers(seq, it)
  BY <1>1, StartedCovers
<1> HIDE DEF it
<1>3. it \in ServiceIter /\ Left(seq, it) \in Nat /\ it.next_time \in Nat
  BY <1>1, <1>2, WalkNumbers DEF Covers
<1>4. t \in Nat /\ NotDueBefore(seq, t)
  <2>1. /\ t \in Nat /\ t <= it.next_time
        /\ \A j \in 0 .. Left(seq, it) - 1 : seq.send_window[Slot(it, j)] # None =>
             t <= seq.send_window[Slot(it, j)].next_resend_time
    BY <1>1, <1>3, NextTimeFacts
  <2> HIDE DEF t
  <2>2. ASSUME NEW i \in 0 .. CAP - 1, seq.send_window[i] # None
        PROVE  t <= seq.send_window[i].next_resend_time
    <3> DEFINE b == seq.send_window[i].seq_no
               d == Wrap(b - it.seq_no)
               time == seq.send_window[i].next_resend_time
    <3>1. b \in SeqNo /\ time \in Nat /\ Idx(b) = i
      BY <1>1, <2>2, EntryTypes DEF SendSlots
    <3>2. d \in Nat /\ Slot(it, d) = i
      BY <1>1, <1>3, <3>1, WalkNumbers, WalkSlot
    <3>3. d < Left(seq, it) \/ it.next_time <= time
      BY <1>2, <2>2 DEF Covers
    <3>4. d < Left(seq, it) => t <= time
      BY <1>3, <2>1, <2>2, <3>2
    <3>5. it.next_time <= time => t <= time
      BY <1>3, <2>1, <3>1
    <3> QED
      BY <3>3, <3>4, <3>5
  <2> QED
    BY <2>1, <2>2 DEF NotDueBefore
<1>5. /\ seq' = IF IsServiceTime(seq, clock) THEN [seq EXCEPT !.next_service_timestamp = t]
                ELSE seq
      /\ clock' = clock /\ wake' = clock + ServiceDelay(seq', clock)
  BY DEF WalkEnds, Deadline, it
<1> HIDE DEF t
<1>6. Windows(seq') /\ NotDueBefore(seq', n)
  <2>1. CASE IsServiceTime(seq, clock)
    <3>1. /\ seq' \in SeqExState /\ n = t /\ seq'.send_window = seq.send_window
          /\ seq'.recv_window = seq.recv_window /\ seq'.next_recv_seq_no = seq.next_recv_seq_no
          /\ seq'.concurrent_replies = seq.concurrent_replies
          /\ seq'.next_send_seq_no = seq.next_send_seq_no
      BY <1>1, <1>4, <1>5, <2>1 DEF SeqExState
    <3> QED
      BY <1>1, <1>4, <3>1 DEF Windows, SendSlots, RecvSlots, Normalized, NotDueBefore
  <2>2. CASE ~IsServiceTime(seq, clock)
    BY <1>1, <1>5, <2>2
  <2> QED
    BY <2>1, <2>2
<1>7. seq' \in SeqExState /\ n \in Nat
  BY <1>6 DEF Windows, SeqExState
<1>8. /\ wake' \in Int /\ wake' <= n /\ wake' <= clock + ResendInterval
      /\ wake' = n \/ wake' = clock + ResendInterval
  BY <1>1, <1>5, <1>7, TimeAssumption DEF ServiceDelay
<1>9. wake' \in Nat
  BY <1>1, <1>7, <1>8, TimeAssumption
<1>10. NotDueBefore(seq', wake')
  <2>1. ASSUME NEW i \in 0 .. CAP - 1, seq'.send_window[i] # None
        PROVE  wake' <= seq'.send_window[i].next_resend_time
    <3>1. seq'.send_window[i].next_resend_time \in Nat
      BY <1>7, <2>1, EntryTypes
    <3>2. n <= seq'.send_window[i].next_resend_time
      BY <1>6, <2>1 DEF NotDueBefore
    <3> QED
      BY <1>7, <1>8, <3>1, <3>2
  <2> QED
    BY <2>1 DEF NotDueBefore
<1> QED
  BY <1>1, <1>5, <1>6, <1>8, <1>9, <1>10 DEF IInv, ResendOnTime, Sleep

\* What a call may do to the send window between two calls of service_direct: packets
\* leave or are put off, and a new one has the next number.
Kept(s, v) == \A i \in 0 .. CAP - 1 : v.send_window[i] # None =>
    \/ /\ s.send_window[i] # None
       /\ v.send_window[i].seq_no = s.send_window[i].seq_no
       /\ s.send_window[i].next_resend_time <= v.send_window[i].next_resend_time
    \/ /\ v.send_window[i].seq_no = s.next_send_seq_no
       /\ v.next_send_seq_no = Wrap(s.next_send_seq_no + 1)

LEMMA ShrunkKept ==
    ASSUME NEW s \in SeqExState, NEW v, Shrunk(s.send_window, v.send_window)
    PROVE  Kept(s, v)
<1> SUFFICES ASSUME NEW i \in 0 .. CAP - 1, v.send_window[i] # None
             PROVE  /\ s.send_window[i] # None
                    /\ v.send_window[i].seq_no = s.send_window[i].seq_no
                    /\ s.send_window[i].next_resend_time <= v.send_window[i].next_resend_time
  BY DEF Kept
<1>1. v.send_window[i] = s.send_window[i]
  BY DEF Shrunk
<1>2. s.send_window[i].next_resend_time \in Nat
  BY <1>1, EntryTypes
<1> QED
  BY <1>1, <1>2

\* send_window_slot_mut: the new packet takes the next number.
LEMMA InsertKept ==
    ASSUME NEW s \in SeqExState, NEW e \in SendEntry, e.seq_no = s.next_send_seq_no
    PROVE  Kept(s, InsertSend(s, e))
<1> DEFINE v == InsertSend(s, e)
<1>1. /\ v.send_window = [s.send_window EXCEPT ![Idx(e.seq_no)] = e]
      /\ v.next_send_seq_no = Wrap(s.next_send_seq_no + 1)
  BY InsertSendFacts
<1>2. s.send_window \in [0 .. CAP - 1 -> SendEntry \cup {None}]
  BY DEF SeqExState
<1> HIDE DEF v
<1>3. ASSUME NEW i \in 0 .. CAP - 1, v.send_window[i] # None
      PROVE  \/ /\ s.send_window[i] # None
                /\ v.send_window[i].seq_no = s.send_window[i].seq_no
                /\ s.send_window[i].next_resend_time <= v.send_window[i].next_resend_time
             \/ v.send_window[i].seq_no = s.next_send_seq_no
  <2>1. CASE i = Idx(e.seq_no)
    BY <1>1, <1>2, <2>1
  <2>2. CASE i # Idx(e.seq_no)
    <3>1. v.send_window[i] = s.send_window[i]
      BY <1>1, <1>2, <2>2
    <3>2. s.send_window[i].next_resend_time \in Nat
      BY <1>3, <3>1, EntryTypes
    <3> QED
      BY <1>3, <3>1, <3>2
  <2> QED
    BY <2>1, <2>2
<1> QED
  BY <1>1, <1>3 DEF Kept, v

\* reply_raw_and_direct: the same.
LEMMA ReplyKept ==
    ASSUME NEW s, Windows(s), NEW now \in Nat, NEW r \in SeqNo, NEW u \in BOOLEAN,
           NEW c \in BOOLEAN, NEW d \in Data
    PROVE  Kept(s, ReplyRaw(s, now, r, u, c, d))
<1>1. CASE Reserved(s, r)
  <2> DEFINE w == RemoveReservation(s, r)
             e == NewEntry(s, now, r, c, d)
             x == InsertSend(w, e)
             b == x.is_locked /\ ~u
             v == [x EXCEPT !.is_locked = b]
  <2>1. s \in SeqExState /\ r \in OptSeqNo
    BY DEF Windows, OptSeqNo
  <2>2. Windows(w) /\ SameSendSide(s, w)
    BY <1>1, RemoveReservationWindows
  <2>3. e \in SendEntry /\ e.seq_no = s.next_send_seq_no
    BY <2>1, NewEntryFacts
  <2>4. ReplyRaw(s, now, r, u, c, d) = v
    BY <1>1 DEF ReplyRaw
  <2> HIDE DEF w, e
  <2>5. w \in SeqExState /\ e.seq_no = w.next_send_seq_no
    BY <2>2, <2>3 DEF SameSendSide, Windows
  <2>6. Kept(w, x) /\ x \in SeqExState
    BY <2>3, <2>5, InsertKept, InsertSendFacts
  <2> HIDE DEF x, b
  <2>7. v.send_window = x.send_window /\ v.next_send_seq_no = x.next_send_seq_no
    BY <2>6 DEF SeqExState
  <2> HIDE DEF v
  <2> QED
    BY <2>2, <2>4, <2>6, <2>7 DEF Kept, SameSendSide
<1>2. CASE ~Reserved(s, r)
  <2>1. ReplyRaw(s, now, r, u, c, d) = s
    BY <1>2 DEF ReplyRaw
  <2> QED
    BY <2>1, ShrunkKept DEF Shrunk, Windows
<1> QED
  BY <1>1, <1>2

\* An uninterrupted walk puts off what is due.
LEMMA ServiceKept ==
    ASSUME NEW s, Windows(s), NEW now \in Nat
    PROVE  Kept(s, Service(s, now))
<1>1. s \in SeqExState /\ SendSlots(s)
  BY DEF Windows
<1>2. CASE IsServiceTime(s, now)
  <2> DEFINE w == Rescheduled(s, now)
             v == Service(s, now)
  <2>1. v.send_window = w
    BY <1>1, <1>2 DEF Service, SeqExState
  <2>2. \A i \in 0 .. CAP - 1 : w[i] # None =>
            s.send_window[i] # None /\ w[i].seq_no = s.send_window[i].seq_no
    BY <1>1, RescheduledFacts
  <2>3. ASSUME NEW i \in 0 .. CAP - 1, w[i] # None
        PROVE  s.send_window[i].next_resend_time <= w[i].next_resend_time
    <3>1. s.send_window[i] \in SendEntry /\ s.send_window[i].next_resend_time \in Nat
      BY <1>1, <2>2, <2>3, EntryTypes DEF SeqExState
    <3>2. CASE i \in Due(s, now)
      <4>1. s.send_window[i].next_resend_time <= now
        BY <3>2 DEF Due
      <4>2. w[i].next_resend_time = now + ResendInterval
        BY <3>1, <3>2 DEF Rescheduled, SendEntry
      <4> QED
        BY <3>1, <4>1, <4>2, TimeAssumption
    <3>3. CASE i \notin Due(s, now)
      BY <3>1, <3>3 DEF Rescheduled
    <3> QED
      BY <3>2, <3>3
  <2> HIDE DEF w, v
  <2> QED
    BY <2>1, <2>2, <2>3 DEF Kept, v
<1>3. CASE ~IsServiceTime(s, now)
  <2>1. Service(s, now) = s
    BY <1>3 DEF Service
  <2> QED
    BY <1>1, <2>1, ShrunkKept DEF Shrunk
<1> QED
  BY <1>2, <1>3

LEMMA NextKept == IInv /\ [Next]_vars => Kept(seq, seq')
<1> SUFFICES ASSUME IInv, [Next]_vars PROVE Kept(seq, seq')
  OBVIOUS
<1>1. Windows(seq) /\ seq \in SeqExState /\ clock \in Nat
  BY DEF IInv, Windows, Sleep
<1>2. Shrunk(seq.send_window, seq'.send_window) => Kept(seq, seq')
  BY <1>1, ShrunkKept
<1>3. ASSUME NEW c \in SeqCstModes, NEW d \in Data, SendDirect(c, d) PROVE Kept(seq, seq')
  <2> DEFINE e == NewEntry(seq, clock, None, c, d)
  <2>1. c \in BOOLEAN /\ None \in OptSeqNo
    BY WireAssumption DEF OptSeqNo
  <2>2. e \in SendEntry /\ e.seq_no = seq.next_send_seq_no
    BY <1>1, <2>1, NewEntryFacts
  <2>3. seq' = InsertSend(seq, e)
    BY <1>3 DEF SendDirect, TrySend
  <2> HIDE DEF e
  <2> QED
    BY <1>1, <2>2, <2>3, InsertKept
<1>4. ASSUME NEW m \in Wire, ReceiveDirect(m) PROVE Kept(seq, seq')
  BY <1>1, <1>2, <1>4, ReceiveWindows DEF ReceiveDirect, OnlyTakes
<1>5. ASSUME NEW m \in Wire, ReceiveAckDirect(m) PROVE Kept(seq, seq')
  <2>1. m.reply_no \in SeqNo
    BY <1>5 DEF ReceiveAckDirect, AckPacket
  <2> QED
    BY <1>1, <1>2, <1>5, <2>1, TakeSendWindows DEF ReceiveAckDirect, OnlyTakes
<1>6. CASE PumpDirect
  BY <1>1, <1>2, <1>6, PumpWindows DEF PumpDirect, OnlyTakes
<1>7. ASSUME NEW r \in SeqNo, NEW u \in BOOLEAN, NEW c \in SeqCstModes, NEW d \in Data,
             ReplyDirect(r, u, c, d)
      PROVE  Kept(seq, seq')
  <2>1. c \in BOOLEAN
    BY WireAssumption
  <2> QED
    BY <1>1, <1>7, <2>1, ReplyKept DEF ReplyDirect
<1>8. ASSUME NEW r \in SeqNo, NEW u \in BOOLEAN, AckDirect(r, u) PROVE Kept(seq, seq')
  BY <1>1, <1>2, <1>8, AckRawWindows DEF AckDirect, SameSendSide, Shrunk
<1>9. CASE UnlockDirect
  BY <1>1, <1>2, <1>9, LockWindows DEF UnlockDirect, UnlockRaw, SameSendSide, Shrunk
<1>10. CASE ServiceDirect
  BY <1>1, <1>10, ServiceKept DEF ServiceDirect
<1>11. CASE Tick \/ UNCHANGED vars
  BY <1>2, <1>11 DEF Tick, vars, Shrunk
<1> QED
  BY <1>3, <1>4, <1>5, <1>6, <1>7, <1>8, <1>9, <1>10, <1>11 DEF Next

\* A walk that is not overtaken still has before it what it had, and the new packet too.
LEMMA KeptCovers ==
    ASSUME NEW s \in SeqExState, NEW v \in SeqExState, Kept(s, v), NEW it, Covers(s, it),
           Left(v, it) >= Left(s, it)
    PROVE  Covers(v, it)
<1> DEFINE a == it.seq_no
           n == s.next_send_seq_no
           left == Left(s, it)
           more == Left(v, it)
<1>1. /\ it \in ServiceIter /\ a \in SeqNo /\ n \in SeqNo /\ it.next_time \in Nat
      /\ left \in Nat /\ left < SeqNoMod /\ more \in Nat /\ left <= more
  BY WalkNumbers DEF Covers
<1>2. ASSUME v.next_send_seq_no = Wrap(n + 1) PROVE Wrap(n - a) < more
  <2>1. /\ a \in Int /\ n \in Int /\ 0 <= a /\ a < SeqNoMod /\ 0 <= n /\ n < SeqNoMod
        /\ SeqNoMod \in Nat /\ SeqNoMod > 2
    BY <1>1, SeqNoAssumption, CapAssumption DEF SeqNo
  <2>2. Wrap(n + 1) = IF n + 1 < SeqNoMod THEN n + 1 ELSE (n + 1) - SeqNoMod
    BY <2>1, WrapOnce
  <2>3. Wrap(n - a) = IF n < a THEN (n - a) + SeqNoMod ELSE n - a
    BY <2>1, WrapOnce
  <2> DEFINE p == Wrap(n + 1)
  <2>4. p \in Int /\ 0 <= p /\ p < SeqNoMod
    BY <2>1, <2>2
  <2>5. Wrap(p - a) = IF p < a THEN (p - a) + SeqNoMod ELSE p - a
    BY <2>1, <2>4, WrapOnce
  <2>6. more = Wrap(p - a) /\ left = Wrap(n - a)
    BY <1>2 DEF Left
  <2>7. Wrap(p - a) # Wrap(n - a)
    BY <2>1, <2>2, <2>3, <2>5
  <2> HIDE DEF left, more, p
  <2> QED
    BY <1>1, <2>6, <2>7
<1>3. ASSUME NEW i \in 0 .. CAP - 1, v.send_window[i] # None
      PROVE  \/ Wrap(v.send_window[i].seq_no - a) < more
             \/ it.next_time <= v.send_window[i].next_resend_time
  <2> DEFINE b == v.send_window[i].seq_no
             time == v.send_window[i].next_resend_time
             before == s.send_window[i].next_resend_time
  <2>1. b \in SeqNo /\ time \in Nat
    BY <1>3, EntryTypes
  <2>2. CASE s.send_window[i] # None /\ b = s.send_window[i].seq_no /\ before <= time
    <3>1. before \in Nat
      BY <2>2, EntryTypes
    <3>2. Wrap(b - a) < left \/ it.next_time <= before
      BY <2>2 DEF Covers
    <3>3. Wrap(b - a) \in Nat
      BY <1>1, <2>1, WalkNumbers
    <3> HIDE DEF a, b, time, before, left, more
    <3>4. Wrap(b - a) < more \/ it.next_time <= time
      BY <1>1, <2>1, <2>2, <3>1, <3>2, <3>3
    <3> QED
      BY <3>4 DEF b, time
  <2>3. CASE b = n /\ v.next_send_seq_no = Wrap(n + 1)
    BY <1>2, <2>3
  <2> QED
    BY <1>3, <2>2, <2>3 DEF Kept
<1> QED
  BY <1>1, <1>3 DEF Covers

\* Every step of a walk, and of what may come in between, preserves the invariant.
WalkInv == IInv /\ (iter # None => Covers(seq, iter))

LEMMA NextWalkInv == WalkInv /\ [WalkNext]_walkVars => WalkInv'
<1> SUFFICES ASSUME WalkInv, [WalkNext]_walkVars PROVE WalkInv'
  OBVIOUS
<1>1. IInv /\ Windows(seq) /\ seq \in SeqExState /\ (iter # None => Covers(seq, iter))
  BY DEF WalkInv, IInv, Windows
<1>2. CASE WalkOn
  <2>1. PICK k \in 0 .. Left(seq, Started) - 1 :
            /\ DueAt(Started, k) /\ IsServiceTime(seq, clock) /\ ResendOne(Started, k)
            /\ UNCHANGED <<clock, wake>>
    BY <1>2 DEF WalkOn
  <2>2. Covers(seq, Started)
    BY <1>1, StartedCovers
  <2> QED
    BY <1>1, <2>1, <2>2, ResendOneCovers DEF WalkInv
<1>3. CASE WalkEnds
  <2>1. iter' = None
    BY <1>3 DEF WalkEnds
  <2> QED
    BY <1>1, <1>3, <2>1, WalkEndsFacts DEF WalkInv
<1>4. CASE WalkDropped
  BY <1>1, <1>4 DEF WalkDropped, vars, WalkInv, IInv, ResendOnTime, Sleep
<1>5. CASE SlowTick
  <2>1. /\ seq' = seq /\ wake' = wake /\ iter' = iter /\ clock' = clock + 1
        /\ clock < MaxClock
    BY <1>5 DEF SlowTick
  <2>2. /\ clock \in Nat /\ wake \in Nat /\ wake <= clock + ResendInterval
    BY <1>1 DEF IInv, Sleep
  <2>3. clock' \in Nat /\ clock' <= MaxClock /\ wake <= clock' + ResendInterval
    BY <2>1, <2>2, TimeAssumption, ClockAssumption
  <2> QED
    BY <1>1, <2>1, <2>2, <2>3 DEF WalkInv, IInv, ResendOnTime, Sleep
<1>6. CASE Between
  <2>1. Next /\ iter' = iter /\ (iter # None => Left(seq', iter) >= Left(seq, iter))
    BY <1>6 DEF Between
  <2>2. IInv' /\ Kept(seq, seq')
    BY <1>1, <2>1, NextIInv, NextKept
  <2>3. seq' \in SeqExState
    BY <2>2 DEF IInv, Windows
  <2>4. iter # None => Covers(seq', iter)
    BY <1>1, <2>1, <2>2, <2>3, KeptCovers
  <2> QED
    BY <2>1, <2>2, <2>4 DEF WalkInv
<1>7. CASE UNCHANGED walkVars
  BY <1>1, <1>7 DEF walkVars, vars, WalkInv, IInv, ResendOnTime, Sleep
<1> QED
  BY <1>2, <1>3, <1>4, <1>5, <1>6, <1>7 DEF WalkNext

\* Whatever is sent, received and answered between two calls of service_direct, and however
\* slowly they follow each other, the walk passes over no packet without knowing its time.
THEOREM WalkMeetsAll == WalkSpec => []WalkMissesNone
<1>1. WalkInit => WalkInv
  BY InitIInv DEF WalkInit, WalkInv
<1>2. WalkInv => WalkMissesNone
  BY DEF WalkInv, Covers, WalkMissesNone
<1> QED
  BY <1>1, <1>2, NextWalkInv, PTL DEF WalkSpec

\* Walks that are interrupted, dropped halfway or slow leave nothing behind that is due
\* before the deadline service works by, or before the caller wakes.
THEOREM WalksResendOnTime == WalkSpec => []ResendOnTime
<1>1. WalkInit => WalkInv
  BY InitIInv DEF WalkInit, WalkInv
<1>2. WalkInv => ResendOnTime
  BY DEF WalkInv, IInv
<1> QED
  BY <1>1, <1>2, NextWalkInv, PTL DEF WalkSpec
=============================================================================
