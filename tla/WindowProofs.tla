---------------------------- MODULE WindowProofs ----------------------------
(***************************************************************************)
(* Proofs about the windows of a SeqEx: every method leaves each entry in  *)
(* its own slot and in range, gives out at most CAP - 2 reply numbers, and *)
(* lets nothing be due before the deadline that service works by.          *)
(***************************************************************************)
EXTENDS SeqExWindows, SeqExProofs

----------------------------------------------------------------------------
(* The slots of sequence numbers.                                          *)

\* Wrapping does not change the slot, because the window fits evenly.
LEMMA IdxWrap ==
    ASSUME NEW n \in Int, -SeqNoMod <= n, n < 2 * SeqNoMod
    PROVE  Idx(Wrap(n)) = n % CAP
<1>1. CAP \in Nat /\ CAP > 0 /\ SeqNoMod \in Int /\ SeqNoMod % CAP = 0
  BY CapAssumption, SeqNoAssumption, EvenFitAssumption
<1>2. (n + SeqNoMod) % CAP = n % CAP
  BY <1>1, RemainderShift
<1>3. (n - SeqNoMod) % CAP = n % CAP
  <2> DEFINE k == n - SeqNoMod
  <2>1. k \in Int /\ k + SeqNoMod = n
    BY <1>1
  <2> HIDE DEF k
  <2>2. (k + SeqNoMod) % CAP = k % CAP
    BY <1>1, <2>1, RemainderShift
  <2> QED
    BY <2>1, <2>2 DEF k
<1> QED
  BY <1>2, <1>3, WrapOnce DEF Idx

\* Sequence numbers a window apart share a slot.
LEMMA IdxWindow ==
    ASSUME NEW n \in SeqNo
    PROVE  Idx(Wrap(n - CAP)) = Idx(n)
<1>1. CAP \in Nat /\ CAP > 0 /\ n \in Int /\ -SeqNoMod <= n - CAP /\ n - CAP < 2 * SeqNoMod
  BY CapAssumption, SeqNoAssumption DEF SeqNo
<1>2. CAP % CAP = 0
  BY <1>1
<1>3. ((n - CAP) + CAP) % CAP = (n - CAP) % CAP
  BY <1>1, <1>2, RemainderShift
<1>4. (n - CAP) + CAP = n
  BY <1>1
<1> QED
  BY <1>1, <1>3, <1>4, IdxWrap DEF Idx

\* Two numbers in the receive window that share a slot are the same.
LEMMA SlotUnique ==
    ASSUME NEW a \in SeqNo, NEW b \in SeqNo, NEW c \in SeqNo,
           Wrap(b - a) \in 0 .. CAP - 1, Wrap(c - a) \in 0 .. CAP - 1, Idx(b) = Idx(c)
    PROVE  b = c
<1> DEFINE d == Wrap(b - a)
           e == Wrap(c - a)
<1>1. /\ a \in Int /\ 0 <= a /\ a < SeqNoMod /\ CAP \in Nat /\ CAP > 0 /\ SeqNoMod > 2 * CAP
      /\ SeqNoMod \in Nat /\ d \in 0 .. CAP - 1 /\ e \in 0 .. CAP - 1
  BY SeqNoAssumption, CapAssumption DEF SeqNo
<1>2. b = Wrap(a + d) /\ c = Wrap(a + e)
  BY Ahead
<1> HIDE DEF d, e
<1>3. Idx(b) = (a + d) % CAP /\ Idx(c) = (a + e) % CAP
  BY <1>1, <1>2, IdxWrap
<1>4. PICK p \in Int, q \in Int, r \in Int : a + d = (CAP * p) + r /\ a + e = (CAP * q) + r
  <2> DEFINE x == a + d
             y == a + e
  <2>1. x \in Int /\ y \in Int
    BY <1>1
  <2>2. x % CAP = y % CAP
    BY <1>3, Zenon
  <2> HIDE DEF x, y
  <2>3. /\ x \div CAP \in Int /\ x % CAP \in Int /\ x = (CAP * (x \div CAP)) + (x % CAP)
        /\ y \div CAP \in Int /\ y = (CAP * (y \div CAP)) + (y % CAP)
    BY <1>1, <2>1, Division
  <2> QED
    BY <2>1, <2>2, <2>3 DEF x, y
<1>5. d - e = CAP * (p - q) /\ -CAP < d - e /\ d - e < CAP
  BY <1>1, <1>4
<1>6. p = q
  <2>1. CASE p - q >= 1
    <3>1. CAP * (p - q) >= CAP
      BY <1>1, <2>1, SMTT(30)
    <3> QED
      BY <1>1, <1>5, <3>1
  <2>2. CASE p - q <= -1
    <3>1. CAP * (p - q) <= -CAP
      BY <1>1, <2>2, SMTT(30)
    <3> QED
      BY <1>1, <1>5, <3>1
  <2> QED
    BY <2>1, <2>2
<1>7. d = e
  BY <1>1, <1>4, <1>6
<1> QED
  BY <1>2, <1>7

----------------------------------------------------------------------------
(* The send side.                                                          *)

\* A window that lost entries still has the rest in their slots, due no earlier.
LEMMA ShrunkSendSlots ==
    ASSUME NEW s \in SeqExState, NEW v \in SeqExState, NEW t \in Nat,
           Shrunk(s.send_window, v.send_window)
    PROVE  /\ SendSlots(s) /\ v.next_send_seq_no = s.next_send_seq_no => SendSlots(v)
           /\ NotDueBefore(s, t) => NotDueBefore(v, t)
<1>1. ASSUME SendSlots(s), v.next_send_seq_no = s.next_send_seq_no PROVE SendSlots(v)
  BY <1>1 DEF Shrunk, SendSlots
<1>2. ASSUME NotDueBefore(s, t) PROVE NotDueBefore(v, t)
  BY <1>2 DEF Shrunk, NotDueBefore
<1> QED
  BY <1>1, <1>2

\* After it every entry is still in its own slot, among the last CAP numbers.
LEMMA InsertSendSlots ==
    ASSUME NEW s \in SeqExState, NEW e \in SendEntry, e.seq_no = s.next_send_seq_no, SendSlots(s)
    PROVE  SendSlots(InsertSend(s, e))
<1> DEFINE v == InsertSend(s, e)
           n == s.next_send_seq_no
<1>1. /\ n \in SeqNo /\ Wrap(n + 1) \in SeqNo /\ Idx(n) \in 0 .. CAP - 1
      /\ v.next_send_seq_no = Wrap(n + 1)
      /\ v.send_window = [s.send_window EXCEPT ![Idx(n)] = e]
      /\ s.send_window \in [0 .. CAP - 1 -> SendEntry \cup {None}]
  BY InsertSendFacts, IdxType DEF SeqExState
<1> SUFFICES ASSUME NEW i \in 0 .. CAP - 1, v.send_window[i] # None
             PROVE  /\ Idx(v.send_window[i].seq_no) = i
                    /\ Wrap(v.next_send_seq_no - v.send_window[i].seq_no) \in 1 .. CAP
  BY DEF SendSlots
<1>2. CASE i = Idx(n)
  <2>1. v.send_window[i] = e
    BY <1>1, <1>2
  <2>2. Wrap(n - n) = 0
    BY <1>1, SeqNoAssumption, WrapOnce DEF SeqNo
  <2>3. Wrap(Wrap(n + 1) - n) = 1
    <3>1. 1 \in 0 .. CAP /\ 0 <= CAP
      BY CapAssumption
    <3>2. Wrap(Wrap(n + 1) - n) = Wrap(n - n) + 1
      BY <1>1, <2>2, <3>1, Shift
    <3> QED
      BY <2>2, <3>2
  <2> QED
    BY <1>1, <1>2, <2>1, <2>3, CapAssumption
<1>3. CASE i # Idx(n)
  <2> DEFINE b == s.send_window[i].seq_no
             age == Wrap(n - b)
  <2>1. v.send_window[i] = s.send_window[i] /\ s.send_window[i] # None
    BY <1>1, <1>3
  <2>2. b \in SeqNo /\ Idx(b) = i /\ age \in 1 .. CAP
    BY <1>1, <2>1 DEF SendSlots, SendEntry
  <2>3. age # CAP
    <3>1. SUFFICES ASSUME age = CAP PROVE FALSE
      OBVIOUS
    <3>2. b = Wrap(n - CAP)
      BY <1>1, <2>2, <3>1, Ahead
    <3> QED
      BY <1>1, <1>3, <2>2, <3>2, IdxWindow
  <2>4. Wrap(Wrap(n + 1) - b) = age + 1
    <3>1. 1 \in 0 .. CAP /\ age <= CAP
      BY <2>2, CapAssumption
    <3> QED
      BY <1>1, <2>2, <3>1, Shift
  <2> QED
    BY <1>1, <2>1, <2>2, <2>3, <2>4, CapAssumption
<1> QED
  BY <1>2, <1>3

----------------------------------------------------------------------------
(* The receive side.                                                       *)

\* fast_forward leaves the entries that are not skipped in their slots, and in range.
LEMMA FastForwardFacts ==
    ASSUME NEW s \in SeqExState, RecvSlots(s)
    PROVE  /\ FastForward(s) \in SeqExState
           /\ RecvSlots(FastForward(s))
           /\ SameSendSide(s, FastForward(s))
           /\ FastForward(s).concurrent_replies = s.concurrent_replies
<1> DEFINE v == FastForward(s)
           a == s.next_recv_seq_no
           n == FastForwardLength(s)
           skipped == {Idx(Wrap(a + j)) : j \in 0 .. n - 1}
           window == [i \in 0 .. CAP - 1 |-> IF i \in skipped THEN Empty ELSE s.recv_window[i]]
<1>1. n \in 0 .. CAP /\ a \in SeqNo /\ s.recv_window \in [0 .. CAP - 1 -> RecvEntry]
  BY FastForwardLengthType DEF SeqExState
<1>2. a \in Int /\ a + n \in Int /\ CAP \in Nat
  BY <1>1, CapAssumption, SeqNoAssumption DEF SeqNo
<1>3. Wrap(a + n) \in SeqNo
  BY <1>2, WrapType
<1>4. v = [s EXCEPT !.next_recv_seq_no = Wrap(a + n), !.recv_window = window]
  BY DEF FastForward
<1> HIDE DEF n, skipped
<1>5. window \in [0 .. CAP - 1 -> RecvEntry]
  BY <1>1, RecvEntryFacts
<1>6. /\ v.next_recv_seq_no = Wrap(a + n) /\ v.recv_window = window
      /\ SameSendSide(s, v) /\ v.concurrent_replies = s.concurrent_replies
  BY <1>4 DEF SeqExState, SameSendSide
<1>7. v \in SeqExState
  BY <1>3, <1>4, <1>5 DEF SeqExState
<1>8. RecvSlots(v)
  <2> SUFFICES ASSUME NEW i \in 0 .. CAP - 1, v.recv_window[i] # Empty
               PROVE  /\ Idx(v.recv_window[i].seq_no) = i
                      /\ Normalized(v, v.recv_window[i].seq_no) \in 0 .. CAP - 1
    BY DEF RecvSlots
  <2> DEFINE b == s.recv_window[i].seq_no
             d == Wrap(b - a)
  <2>1. i \notin skipped /\ v.recv_window[i] = s.recv_window[i] /\ s.recv_window[i] # Empty
    BY <1>6
  <2>2. b \in SeqNo /\ Idx(b) = i /\ d \in 0 .. CAP - 1
    BY <1>1, <2>1, RecvEntryFacts DEF RecvSlots, Normalized
  <2>3. n <= d
    <3>1. SUFFICES ASSUME d < n PROVE FALSE
      BY <1>1, <2>2
    <3>2. b = Wrap(a + d)
      BY <1>1, <2>2, Ahead
    <3>3. d \in 0 .. n - 1
      BY <1>1, <2>2, <3>1
    <3> QED
      BY <2>1, <2>2, <3>2, <3>3 DEF skipped
  <2>4. Wrap(b - Wrap(a + n)) = d - n
    BY <1>1, <2>2, <2>3, Shift
  <2> QED
    BY <1>1, <1>2, <1>6, <2>1, <2>2, <2>3, <2>4 DEF Normalized
<1> QED
  BY <1>6, <1>7, <1>8

\* Putting an entry with a number in range into its own slot.
LEMMA FillSlotFacts ==
    ASSUME NEW s \in SeqExState, RecvSlots(s), NEW e \in RecvEntry, NEW n \in SeqNo,
           e.seq_no = n, Normalized(s, n) \in 0 .. CAP - 1
    PROVE  LET v == [s EXCEPT !.recv_window[Idx(n)] = e]
           IN  /\ v \in SeqExState
               /\ RecvSlots(v)
               /\ SameSendSide(s, v)
               /\ v.concurrent_replies = s.concurrent_replies
<1> DEFINE v == [s EXCEPT !.recv_window[Idx(n)] = e]
<1>1. Idx(n) \in 0 .. CAP - 1
  BY IdxType
<1>2. /\ v \in SeqExState /\ SameSendSide(s, v)
      /\ v.concurrent_replies = s.concurrent_replies
      /\ v.next_recv_seq_no = s.next_recv_seq_no
      /\ v.recv_window = [s.recv_window EXCEPT ![Idx(n)] = e]
  BY <1>1 DEF SeqExState, SameSendSide
<1>3. RecvSlots(v)
  <2> SUFFICES ASSUME NEW i \in 0 .. CAP - 1, v.recv_window[i] # Empty
               PROVE  /\ Idx(v.recv_window[i].seq_no) = i
                      /\ Normalized(v, v.recv_window[i].seq_no) \in 0 .. CAP - 1
    BY DEF RecvSlots
  <2>1. CASE i = Idx(n)
    BY <1>1, <1>2, <2>1 DEF Normalized, SeqExState
  <2>2. CASE i # Idx(n)
    <3>1. v.recv_window[i] = s.recv_window[i]
      BY <1>1, <1>2, <2>2 DEF SeqExState
    <3> QED
      BY <1>2, <3>1 DEF RecvSlots, Normalized
  <2> QED
    BY <2>1, <2>2
<1> QED
  BY <1>2, <1>3

\* The receive window after a packet was handed over, in its turn or early.
LEMMA AdvanceFacts ==
    ASSUME NEW s \in SeqExState, RecvSlots(s), NEW m \in Acceptable, NEW is_next \in BOOLEAN,
           ~is_next => Normalized(s, m.seq_no) \in 0 .. CAP - 1
    PROVE  /\ Advance(s, m, is_next) \in SeqExState
           /\ RecvSlots(Advance(s, m, is_next))
           /\ SameSendSide(s, Advance(s, m, is_next))
           /\ Advance(s, m, is_next).concurrent_replies = s.concurrent_replies
<1>1. CASE is_next
  <2> DEFINE a == s.next_recv_seq_no
             u == [s EXCEPT !.recv_window[Idx(a)] = Empty, !.next_recv_seq_no = Wrap(a + 1)]
  <2>1. a \in SeqNo /\ Idx(a) \in 0 .. CAP - 1 /\ s.recv_window \in [0 .. CAP - 1 -> RecvEntry]
    BY IdxType DEF SeqExState
  <2>2. Wrap(a + 1) \in SeqNo
    <3>1. a + 1 \in Int
      BY <2>1, SeqNoAssumption DEF SeqNo
    <3> QED
      BY <3>1, WrapType
  <2>3. /\ u \in SeqExState /\ SameSendSide(s, u)
        /\ u.concurrent_replies = s.concurrent_replies
        /\ u.next_recv_seq_no = Wrap(a + 1)
        /\ u.recv_window = [s.recv_window EXCEPT ![Idx(a)] = Empty]
    BY <2>1, <2>2, RecvEntryFacts DEF SeqExState, SameSendSide
  <2>4. RecvSlots(u)
    <3> SUFFICES ASSUME NEW i \in 0 .. CAP - 1, u.recv_window[i] # Empty
                 PROVE  /\ Idx(u.recv_window[i].seq_no) = i
                        /\ Normalized(u, u.recv_window[i].seq_no) \in 0 .. CAP - 1
      BY DEF RecvSlots
    <3> DEFINE b == s.recv_window[i].seq_no
               d == Wrap(b - a)
    <3>1. i # Idx(a) /\ u.recv_window[i] = s.recv_window[i] /\ s.recv_window[i] # Empty
      BY <2>1, <2>3
    <3>2. b \in SeqNo /\ Idx(b) = i /\ d \in 0 .. CAP - 1
      BY <2>1, <3>1, RecvEntryFacts DEF RecvSlots, Normalized
    <3>3. d # 0
      <4>1. SUFFICES ASSUME d = 0 PROVE FALSE
        OBVIOUS
      <4>2. b = Wrap(a + 0)
        BY <2>1, <3>2, <4>1, Ahead
      <4>3. Wrap(a + 0) = a
        BY <2>1, SeqNoAssumption, WrapOnce DEF SeqNo
      <4> QED
        BY <3>1, <3>2, <4>2, <4>3
    <3>4. Wrap(b - Wrap(a + 1)) = d - 1
      <4>1. 1 \in 0 .. CAP /\ 1 <= d
        BY <3>2, <3>3, CapAssumption
      <4> QED
        BY <2>1, <3>2, <4>1, Shift
    <3> QED
      BY <2>3, <3>1, <3>2, <3>3, <3>4, CapAssumption DEF Normalized
  <2>5. Advance(s, m, is_next) = FastForward(u)
    BY <1>1 DEF Advance
  <2> HIDE DEF u
  <2> QED
    BY <2>3, <2>4, <2>5, FastForwardFacts DEF SameSendSide
<1>2. CASE ~is_next
  <2>1. m.seq_no \in SeqNo
    BY AcceptableFacts
  <2>2. Unlocked(m.seq_no) \in RecvEntry /\ Unlocked(m.seq_no).seq_no = m.seq_no
    BY <2>1, RecvEntryFacts
  <2>3. Advance(s, m, is_next) = [s EXCEPT !.recv_window[Idx(m.seq_no)] = Unlocked(m.seq_no)]
    BY <1>2 DEF Advance
  <2> QED
    BY <1>2, <2>1, <2>2, <2>3, FillSlotFacts
<1> QED
  BY <1>1, <1>2

\* Handing a packet to the application issues one reply number, keeps both windows in
\* order and only takes entries out of the send window.
LEMMA AcceptFacts ==
    ASSUME NEW s \in SeqExState, RecvSlots(s), NEW m \in Acceptable, NEW is_next \in BOOLEAN,
           ~is_next => Normalized(s, m.seq_no) \in 0 .. CAP - 1
    PROVE  LET v == Accept(s, m, is_next)
           IN  /\ v \in SeqExState
               /\ RecvSlots(v)
               /\ Len(v.concurrent_replies) = Len(s.concurrent_replies) + 1
               /\ Shrunk(s.send_window, v.send_window)
               /\ v.next_send_seq_no = s.next_send_seq_no
               /\ v.next_service_timestamp = s.next_service_timestamp
<1> DEFINE u == Advance(s, m, is_next)
           issued == IssueReplyNo(u, m)
           v == Accept(s, m, is_next)
<1>1. /\ u \in SeqExState /\ RecvSlots(u) /\ SameSendSide(s, u)
      /\ u.concurrent_replies = s.concurrent_replies
  BY AdvanceFacts
<1>2. m.seq_no \in SeqNo /\ m.reply_no \in OptSeqNo /\ m.seq_cst \in BOOLEAN
  BY AcceptableFacts
<1> HIDE DEF u
<1>3. /\ issued \in SeqExState
      /\ issued.recv_window = u.recv_window /\ issued.next_recv_seq_no = u.next_recv_seq_no
      /\ issued.concurrent_replies = Append(u.concurrent_replies, m.seq_no)
      /\ SameSendSide(u, issued)
  <2> DEFINE lock == u.is_locked \/ m.seq_cst
             replies == Append(u.concurrent_replies, m.seq_no)
  <2>1. lock \in BOOLEAN
    OBVIOUS
  <2>2. replies \in Seq(SeqNo)
    BY <1>1, <1>2 DEF SeqExState
  <2>3. issued = [u EXCEPT !.concurrent_replies = replies, !.is_locked = lock]
    BY DEF IssueReplyNo
  <2> HIDE DEF lock, replies, issued
  <2>4. issued \in SeqExState
    BY <1>1, <2>1, <2>2, <2>3 DEF SeqExState
  <2>5. issued.concurrent_replies = replies
    BY <1>1, <2>3 DEF SeqExState
  <2> QED
    BY <1>1, <2>3, <2>4, <2>5 DEF SeqExState, SameSendSide, replies
<1>4. Len(issued.concurrent_replies) = Len(s.concurrent_replies) + 1
  BY <1>1, <1>2, <1>3 DEF SeqExState
<1>5. RecvSlots(issued)
  BY <1>1, <1>3 DEF RecvSlots, Normalized
<1> HIDE DEF issued
<1>6. CASE m.reply_no = None
  <2>1. v = issued
    BY <1>6 DEF Accept, issued, u
  <2> QED
    BY <1>1, <1>3, <1>4, <1>5, <2>1 DEF Shrunk, SameSendSide
<1>7. CASE m.reply_no # None
  <2>1. v = TakeSend(issued, m.reply_no) /\ m.reply_no \in SeqNo
    BY <1>2, <1>7 DEF Accept, issued, u, OptSeqNo
  <2>2. /\ v \in SeqExState
        /\ Shrunk(issued.send_window, v.send_window)
        /\ v = [issued EXCEPT !.send_window = v.send_window]
    BY <1>3, <2>1, TakeSendFacts
  <2> HIDE DEF v
  <2>3. /\ v.recv_window = issued.recv_window /\ v.next_recv_seq_no = issued.next_recv_seq_no
        /\ v.concurrent_replies = issued.concurrent_replies
        /\ v.next_send_seq_no = issued.next_send_seq_no
        /\ v.next_service_timestamp = issued.next_service_timestamp
    BY <1>3, <2>2 DEF SeqExState
  <2>4. RecvSlots(v)
    BY <1>5, <2>3 DEF RecvSlots, Normalized
  <2> QED
    BY <1>1, <1>3, <1>4, <2>2, <2>3, <2>4 DEF SameSendSide, v
<1> QED
  BY <1>6, <1>7

----------------------------------------------------------------------------
(* Each method keeps both windows in order and the reservations in bounds. *)

\* The invariant of the struct, without the timer.
Windows(s) ==
    /\ s \in SeqExState
    /\ Len(s.concurrent_replies) <= CAP - 2
    /\ SendSlots(s)
    /\ RecvSlots(s)

\* The timer is not moved, and nothing is added to the send window.
OnlyTakes(s, v) ==
    /\ Shrunk(s.send_window, v.send_window)
    /\ v.next_service_timestamp = s.next_service_timestamp

\* A step that only takes entries out of the send window.
LEMMA OnlyTakesWindows ==
    ASSUME NEW s, Windows(s), NEW v \in SeqExState, OnlyTakes(s, v), RecvSlots(v),
           v.next_send_seq_no = s.next_send_seq_no, Len(v.concurrent_replies) <= CAP - 2
    PROVE  Windows(v)
<1>1. s \in SeqExState /\ SendSlots(s)
  BY DEF Windows
<1>2. SendSlots(v)
  BY <1>1, ShrunkSendSlots DEF OnlyTakes
<1> QED
  BY <1>2 DEF Windows

\* The common tail of try_receive_raw_and_direct and try_pump_raw.
LEMMA AcceptWindows ==
    ASSUME NEW s, Windows(s), NEW m \in Acceptable, NEW is_next \in BOOLEAN,
           Len(s.concurrent_replies) + 1 <= CAP - 2,
           ~is_next => Normalized(s, m.seq_no) \in 0 .. CAP - 1
    PROVE  Windows(Accept(s, m, is_next)) /\ OnlyTakes(s, Accept(s, m, is_next))
<1> DEFINE v == Accept(s, m, is_next)
<1>1. s \in SeqExState /\ RecvSlots(s)
  BY DEF Windows
<1>2. /\ v \in SeqExState /\ RecvSlots(v)
      /\ Len(v.concurrent_replies) = Len(s.concurrent_replies) + 1
      /\ Shrunk(s.send_window, v.send_window)
      /\ v.next_send_seq_no = s.next_send_seq_no
      /\ v.next_service_timestamp = s.next_service_timestamp
  BY <1>1, AcceptFacts
<1> HIDE DEF v
<1>3. OnlyTakes(s, v) /\ Len(v.concurrent_replies) <= CAP - 2
  BY <1>2 DEF OnlyTakes
<1>4. Windows(v)
  BY <1>2, <1>3, OnlyTakesWindows
<1> QED
  BY <1>3, <1>4 DEF v

\* try_receive_raw_and_direct
LEMMA ReceiveWindows ==
    ASSUME NEW s, Windows(s), NEW m \in DataPacket
    PROVE  Windows(Receive(s, m)) /\ OnlyTakes(s, Receive(s, m))
<1> DEFINE waits == ReceiveOutcome(s, m) \in TryError
<1>1. s \in SeqExState /\ RecvSlots(s) /\ Len(s.concurrent_replies) <= CAP - 2
  BY DEF Windows
<1>2. CASE ReceiveOutcome(s, m) = "Deliver"
  <2>1. /\ Normalized(s, m.seq_no) \in 0 .. CAP - 1
        /\ Len(s.concurrent_replies) + 1 <= CAP - 2
    BY <1>1, <1>2, OutcomeFacts
  <2>2. Receive(s, m) = Accept(s, m, IsNext(s, m.seq_no))
    BY <1>2 DEF Receive, TryError
  <2>3. m \in Acceptable /\ IsNext(s, m.seq_no) \in BOOLEAN
    BY DEF Acceptable, IsNext
  <2> QED
    BY <2>1, <2>2, <2>3, AcceptWindows
<1>3. CASE waits /\ ~IsDuplicate(s, m.seq_no)
  <2>1. Normalized(s, m.seq_no) \in 0 .. CAP - 1 /\ m.seq_no \in SeqNo
    BY <1>1, <1>3, OutcomeFacts DEF DataPacket
  <2>2. Receive(s, m) = [s EXCEPT !.recv_window[Idx(m.seq_no)] = Occupied(m)]
    BY <1>3 DEF Receive, TryError
  <2>3. Occupied(m) \in RecvEntry /\ Occupied(m).seq_no = m.seq_no
    BY RecvEntryFacts
  <2>4. /\ Receive(s, m) \in SeqExState /\ RecvSlots(Receive(s, m))
        /\ SameSendSide(s, Receive(s, m))
        /\ Receive(s, m).concurrent_replies = s.concurrent_replies
    BY <1>1, <2>1, <2>2, <2>3, FillSlotFacts
  <2>5. OnlyTakes(s, Receive(s, m))
    BY <2>4 DEF OnlyTakes, SameSendSide, Shrunk
  <2> QED
    BY <1>1, <2>4, <2>5, OnlyTakesWindows DEF SameSendSide
<1>4. CASE ReceiveOutcome(s, m) # "Deliver" /\ ~(waits /\ ~IsDuplicate(s, m.seq_no))
  <2>1. Receive(s, m) = s
    BY <1>4 DEF Receive
  <2> QED
    BY <2>1 DEF OnlyTakes, Shrunk
<1> QED
  BY <1>2, <1>3, <1>4

\* try_pump_raw
LEMMA PumpWindows ==
    ASSUME NEW s, Windows(s)
    PROVE  Windows(Pump(s)) /\ OnlyTakes(s, Pump(s))
<1>1. s \in SeqExState
  BY DEF Windows
<1>2. CASE PumpOutcome(s) = "Deliver"
  <2>1. NextEntry(s).tag = "Occupied" /\ IsFullInner(s, NextEntry(s).reply_no) = "Ok"
    BY <1>1, <1>2, IsFullFacts DEF PumpOutcome, TryError
  <2>2. NextEntry(s) \in RecvEntry
    <3>1. Idx(s.next_recv_seq_no) \in 0 .. CAP - 1
      BY <1>1, IdxType DEF SeqExState
    <3> QED
      BY <1>1, <3>1 DEF NextEntry, SeqExState
  <2>3. NextEntry(s) \in Acceptable
    BY <2>1, <2>2, RecvEntryFacts DEF Acceptable
  <2>4. Len(s.concurrent_replies) + 1 <= CAP - 2
    BY <1>1, <2>1, IsFullFacts
  <2>5. Pump(s) = Accept(s, NextEntry(s), TRUE)
    BY <1>2 DEF Pump
  <2> QED
    BY <2>3, <2>4, <2>5, AcceptWindows
<1>3. CASE PumpOutcome(s) # "Deliver"
  BY <1>3 DEF Pump, OnlyTakes, Shrunk
<1> QED
  BY <1>2, <1>3

\* receive of an Ack
LEMMA TakeSendWindows ==
    ASSUME NEW s, Windows(s), NEW r \in SeqNo
    PROVE  Windows(TakeSend(s, r)) /\ OnlyTakes(s, TakeSend(s, r))
<1> DEFINE v == TakeSend(s, r)
<1>1. s \in SeqExState /\ RecvSlots(s) /\ Len(s.concurrent_replies) <= CAP - 2
  BY DEF Windows
<1>2. /\ v \in SeqExState /\ Shrunk(s.send_window, v.send_window)
      /\ v = [s EXCEPT !.send_window = v.send_window]
  BY <1>1, TakeSendFacts
<1> HIDE DEF v
<1>3. /\ v.recv_window = s.recv_window /\ v.next_recv_seq_no = s.next_recv_seq_no
      /\ v.concurrent_replies = s.concurrent_replies
      /\ v.next_send_seq_no = s.next_send_seq_no
      /\ v.next_service_timestamp = s.next_service_timestamp
  BY <1>1, <1>2 DEF SeqExState
<1>4. RecvSlots(v) /\ OnlyTakes(s, v)
  BY <1>1, <1>2, <1>3 DEF RecvSlots, Normalized, OnlyTakes
<1>5. Windows(v)
  BY <1>1, <1>2, <1>3, <1>4, OnlyTakesWindows
<1> QED
  BY <1>4, <1>5 DEF v

\* Only the reservations, which did not grow, and the lock differ.
LEMMA SameWindows ==
    ASSUME NEW s, Windows(s), NEW v \in SeqExState, SameSendSide(s, v),
           v.recv_window = s.recv_window, v.next_recv_seq_no = s.next_recv_seq_no,
           Len(v.concurrent_replies) <= Len(s.concurrent_replies)
    PROVE  Windows(v) /\ OnlyTakes(s, v)
<1>1. s \in SeqExState /\ RecvSlots(s) /\ Len(s.concurrent_replies) <= CAP - 2
  BY DEF Windows
<1>2. RecvSlots(v) /\ OnlyTakes(s, v) /\ v.next_send_seq_no = s.next_send_seq_no
  BY <1>1 DEF RecvSlots, Normalized, OnlyTakes, SameSendSide, Shrunk
<1>3. Len(v.concurrent_replies) <= CAP - 2
  BY <1>1, CapAssumption DEF SeqExState
<1> QED
  BY <1>2, <1>3, OnlyTakesWindows

\* remove_reservation gives a reply number back and touches nothing else.
LEMMA RemoveReservationWindows ==
    ASSUME NEW s, Windows(s), NEW r \in SeqNo, Reserved(s, r)
    PROVE  Windows(RemoveReservation(s, r)) /\ SameSendSide(s, RemoveReservation(s, r))
<1> DEFINE v == RemoveReservation(s, r)
<1>1. s \in SeqExState
  BY DEF Windows
<1>2. /\ v \in SeqExState /\ Len(v.concurrent_replies) = Len(s.concurrent_replies) - 1
      /\ v = [s EXCEPT !.concurrent_replies = v.concurrent_replies]
  BY <1>1, RemoveReservationFacts
<1> HIDE DEF v
<1>3. /\ SameSendSide(s, v) /\ v.recv_window = s.recv_window
      /\ v.next_recv_seq_no = s.next_recv_seq_no
  BY <1>1, <1>2 DEF SeqExState, SameSendSide
<1>4. Len(v.concurrent_replies) <= Len(s.concurrent_replies)
  BY <1>1, <1>2 DEF SeqExState
<1> QED
  BY <1>2, <1>3, <1>4, SameWindows DEF v

\* Writing is_locked disturbs nothing else.
LEMMA LockWindows ==
    ASSUME NEW s, Windows(s), NEW b \in BOOLEAN
    PROVE  LET v == [s EXCEPT !.is_locked = b]
           IN  Windows(v) /\ SameSendSide(s, v)
<1> DEFINE v == [s EXCEPT !.is_locked = b]
<1>1. s \in SeqExState
  BY DEF Windows
<1>2. /\ v \in SeqExState /\ SameSendSide(s, v) /\ v.recv_window = s.recv_window
      /\ v.next_recv_seq_no = s.next_recv_seq_no
      /\ v.concurrent_replies = s.concurrent_replies
  BY <1>1 DEF SeqExState, SameSendSide
<1> HIDE DEF v
<1>3. Len(v.concurrent_replies) <= Len(s.concurrent_replies)
  BY <1>1, <1>2 DEF SeqExState
<1>4. Windows(v)
  BY <1>2, <1>3, SameWindows
<1> QED
  BY <1>2, <1>4 DEF v

\* ack_raw_and_direct
LEMMA AckRawWindows ==
    ASSUME NEW s, Windows(s), NEW r \in SeqNo, NEW unlock \in BOOLEAN
    PROVE  Windows(AckRaw(s, r, unlock)) /\ SameSendSide(s, AckRaw(s, r, unlock))
<1>1. CASE Reserved(s, r)
  <2> DEFINE u == RemoveReservation(s, r)
             b == u.is_locked /\ ~unlock
  <2>1. Windows(u) /\ SameSendSide(s, u)
    BY <1>1, RemoveReservationWindows
  <2>2. AckRaw(s, r, unlock) = [u EXCEPT !.is_locked = b]
    BY <1>1 DEF AckRaw
  <2>3. b \in BOOLEAN
    OBVIOUS
  <2> HIDE DEF u, b
  <2>4. Windows(AckRaw(s, r, unlock)) /\ SameSendSide(u, AckRaw(s, r, unlock))
    BY <2>1, <2>2, <2>3, LockWindows
  <2> QED
    BY <2>1, <2>4 DEF SameSendSide
<1>2. CASE ~Reserved(s, r)
  BY <1>2 DEF AckRaw, SameSendSide
<1> QED
  BY <1>1, <1>2

\* The timer after a send: nothing is due before the deadline, nor before t if the new
\* entry is not.
LEMMA InsertSendTimer ==
    ASSUME NEW s \in SeqExState, NEW e \in SendEntry, e.seq_no = s.next_send_seq_no,
           NotDueBefore(s, s.next_service_timestamp),
           NEW t \in Nat, NotDueBefore(s, t), t <= e.next_resend_time
    PROVE  /\ NotDueBefore(InsertSend(s, e), InsertSend(s, e).next_service_timestamp)
           /\ NotDueBefore(InsertSend(s, e), t)
<1> DEFINE v == InsertSend(s, e)
           n == s.next_service_timestamp
<1>1. /\ Idx(e.seq_no) \in 0 .. CAP - 1 /\ n \in Nat /\ e.next_resend_time \in Nat
      /\ s.send_window \in [0 .. CAP - 1 -> SendEntry \cup {None}]
  BY IdxType DEF SendEntry, SeqExState
<1>2. /\ v.send_window = [s.send_window EXCEPT ![Idx(e.seq_no)] = e]
      /\ v.next_service_timestamp = IF n > e.next_resend_time THEN e.next_resend_time ELSE n
  BY InsertSendFacts
<1> HIDE DEF v
<1>3. ASSUME NEW i \in 0 .. CAP - 1, v.send_window[i] # None
      PROVE  /\ v.next_service_timestamp <= v.send_window[i].next_resend_time
             /\ t <= v.send_window[i].next_resend_time
  <2>1. CASE i = Idx(e.seq_no)
    <3>1. v.send_window[i] = e
      BY <1>1, <1>2, <2>1
    <3>2. v.next_service_timestamp <= e.next_resend_time
      BY <1>1, <1>2
    <3> QED
      BY <3>1, <3>2
  <2>2. CASE i # Idx(e.seq_no)
    <3>1. v.send_window[i] = s.send_window[i] /\ s.send_window[i] \in SendEntry
      BY <1>1, <1>2, <1>3, <2>2
    <3>2. s.send_window[i].next_resend_time \in Nat
      BY <3>1 DEF SendEntry
    <3>3. n <= s.send_window[i].next_resend_time /\ t <= s.send_window[i].next_resend_time
      BY <1>3, <3>1 DEF NotDueBefore
    <3> QED
      BY <1>1, <1>2, <3>1, <3>2, <3>3
  <2> QED
    BY <2>1, <2>2
<1> QED
  BY <1>3 DEF NotDueBefore, v

\* The windows after a packet was added to the send window.
LEMMA InsertSendWindows ==
    ASSUME NEW s, Windows(s), NEW e \in SendEntry, e.seq_no = s.next_send_seq_no
    PROVE  Windows(InsertSend(s, e))
<1> DEFINE v == InsertSend(s, e)
<1>1. s \in SeqExState /\ SendSlots(s) /\ RecvSlots(s) /\ Len(s.concurrent_replies) <= CAP - 2
  BY DEF Windows
<1>2. /\ v \in SeqExState
      /\ v.concurrent_replies = s.concurrent_replies
      /\ v.next_recv_seq_no = s.next_recv_seq_no
      /\ v.recv_window = s.recv_window
  BY <1>1, InsertSendFacts
<1>3. SendSlots(v)
  BY <1>1, InsertSendSlots
<1> HIDE DEF v
<1>4. RecvSlots(v)
  BY <1>1, <1>2 DEF RecvSlots, Normalized
<1> QED
  BY <1>1, <1>2, <1>3, <1>4 DEF Windows, v

\* try_send_direct: windows and timer, if the caller of service wakes by t.
LEMMA TrySendWindows ==
    ASSUME NEW s, Windows(s), NEW now \in Nat, NEW c \in BOOLEAN, NEW d \in Data,
           NotDueBefore(s, s.next_service_timestamp),
           NEW t \in Nat, NotDueBefore(s, t), t <= now + ResendInterval
    PROVE  LET v == TrySend(s, now, c, d)
           IN  /\ Windows(v)
               /\ NotDueBefore(v, v.next_service_timestamp) /\ NotDueBefore(v, t)
<1> DEFINE e == NewEntry(s, now, None, c, d)
<1>1. s \in SeqExState /\ None \in OptSeqNo
  BY DEF Windows, OptSeqNo
<1>2. /\ e \in SendEntry /\ e.seq_no = s.next_send_seq_no
      /\ e.next_resend_time = now + ResendInterval
  BY <1>1, NewEntryFacts
<1> HIDE DEF e
<1>3. Windows(InsertSend(s, e))
  BY <1>2, InsertSendWindows
<1>4. /\ NotDueBefore(InsertSend(s, e), InsertSend(s, e).next_service_timestamp)
      /\ NotDueBefore(InsertSend(s, e), t)
  BY <1>1, <1>2, InsertSendTimer
<1> QED
  BY <1>3, <1>4 DEF TrySend, e

\* reply_raw_and_direct: the same, and the reservation is given back.
LEMMA ReplyRawWindows ==
    ASSUME NEW s, Windows(s), NEW now \in Nat, NEW r \in SeqNo, NEW unlock \in BOOLEAN,
           NEW c \in BOOLEAN, NEW d \in Data,
           NotDueBefore(s, s.next_service_timestamp),
           NEW t \in Nat, NotDueBefore(s, t), t <= now + ResendInterval
    PROVE  LET v == ReplyRaw(s, now, r, unlock, c, d)
           IN  /\ Windows(v)
               /\ NotDueBefore(v, v.next_service_timestamp) /\ NotDueBefore(v, t)
<1>1. CASE Reserved(s, r)
  <2> DEFINE u == RemoveReservation(s, r)
             e == NewEntry(s, now, r, c, d)
             w == InsertSend(u, e)
             b == w.is_locked /\ ~unlock
  <2>1. s \in SeqExState /\ r \in OptSeqNo
    BY DEF Windows, OptSeqNo
  <2>2. Windows(u) /\ SameSendSide(s, u)
    BY <1>1, RemoveReservationWindows
  <2>3. /\ e \in SendEntry /\ e.seq_no = s.next_send_seq_no
        /\ e.next_resend_time = now + ResendInterval
    BY <2>1, NewEntryFacts
  <2>4. ReplyRaw(s, now, r, unlock, c, d) = [w EXCEPT !.is_locked = b]
    BY <1>1 DEF ReplyRaw
  <2>5. b \in BOOLEAN
    OBVIOUS
  <2> HIDE DEF u, e
  <2>6. /\ e.seq_no = u.next_send_seq_no /\ u \in SeqExState
        /\ NotDueBefore(u, u.next_service_timestamp) /\ NotDueBefore(u, t)
    BY <2>2, <2>3 DEF SameSendSide, NotDueBefore, Windows
  <2>7. Windows(w)
    BY <2>2, <2>3, <2>6, InsertSendWindows
  <2>8. NotDueBefore(w, w.next_service_timestamp) /\ NotDueBefore(w, t)
    BY <2>3, <2>6, InsertSendTimer
  <2> HIDE DEF w, b
  <2>9. LET v == [w EXCEPT !.is_locked = b] IN Windows(v) /\ SameSendSide(w, v)
    BY <2>5, <2>7, LockWindows
  <2> QED
    BY <2>4, <2>8, <2>9 DEF SameSendSide, NotDueBefore
<1>2. CASE ~Reserved(s, r)
  BY <1>2 DEF ReplyRaw
<1> QED
  BY <1>1, <1>2

----------------------------------------------------------------------------
(* The resend service. *)

\* The walk of service_direct over the last CAP numbers meets every entry.
LEMMA AllVisited ==
    ASSUME NEW s \in SeqExState, SendSlots(s), NEW i \in 0 .. CAP - 1, s.send_window[i] # None
    PROVE  i \in Visited(s)
<1> DEFINE n == s.next_send_seq_no
           b == s.send_window[i].seq_no
           k == Wrap(n - b)
<1>1. k \in 1 .. CAP /\ Idx(b) = i
  BY DEF SendSlots
<1>2. n \in SeqNo /\ b \in SeqNo
  <2>1. s.send_window[i] \in SendEntry
    BY DEF SeqExState
  <2> QED
    BY <2>1 DEF SeqExState, SendEntry
<1>3. b = Wrap(n - k)
  BY <1>2, Ahead
<1> QED
  BY <1>1, <1>3 DEF Visited

\* What a resend changes: of an entry only its time, and afterwards nothing is due.
LEMMA RescheduledFacts ==
    ASSUME NEW s \in SeqExState, SendSlots(s), NEW now \in Nat
    PROVE  /\ Rescheduled(s, now) \in [0 .. CAP - 1 -> SendEntry \cup {None}]
           /\ \A i \in 0 .. CAP - 1 : Rescheduled(s, now)[i] # None =>
                /\ s.send_window[i] # None
                /\ Rescheduled(s, now)[i].seq_no = s.send_window[i].seq_no
                /\ Rescheduled(s, now)[i].next_resend_time \in Nat
                /\ now <= Rescheduled(s, now)[i].next_resend_time
<1> DEFINE w == Rescheduled(s, now)
<1>1. ASSUME NEW i \in 0 .. CAP - 1
      PROVE  /\ w[i] \in SendEntry \cup {None}
             /\ w[i] # None =>
                  /\ s.send_window[i] # None
                  /\ w[i].seq_no = s.send_window[i].seq_no
                  /\ w[i].next_resend_time \in Nat
                  /\ now <= w[i].next_resend_time
  <2> DEFINE e == s.send_window[i]
  <2>1. e \in SendEntry \cup {None}
    BY DEF SeqExState
  <2>2. CASE i \in Due(s, now)
    <3>1. e \in SendEntry
      BY <2>1, <2>2 DEF Due
    <3>2. now + ResendInterval \in Nat /\ now <= now + ResendInterval
      BY TimeAssumption
    <3>3. w[i] = [e EXCEPT !.next_resend_time = now + ResendInterval]
      BY <2>2 DEF Rescheduled
    <3>4. w[i] \in SendEntry /\ w[i].seq_no = e.seq_no
          /\ w[i].next_resend_time = now + ResendInterval
      BY <3>1, <3>2, <3>3 DEF SendEntry
    <3>5. e # None
      BY <3>1, NoneAssumption
    <3> QED
      BY <3>2, <3>4, <3>5
  <2>3. CASE i \notin Due(s, now)
    <3>1. w[i] = e
      BY <2>3 DEF Rescheduled
    <3>2. ASSUME e # None PROVE e.next_resend_time \in Nat /\ now <= e.next_resend_time
      <4>1. e.next_resend_time \in Nat
        BY <2>1, <3>2 DEF SendEntry
      <4>2. i \in Visited(s)
        BY <3>2, AllVisited
      <4>3. ~(e.next_resend_time <= now)
        BY <2>3, <3>2, <4>2 DEF Due
      <4> QED
        BY <4>1, <4>3
    <3> QED
      BY <2>1, <3>1, <3>2
  <2> QED
    BY <2>2, <2>3
<1>2. w \in [0 .. CAP - 1 -> SendEntry \cup {None}]
  <2>1. w = [i \in 0 .. CAP - 1 |-> w[i]]
    BY DEF Rescheduled
  <2> HIDE DEF w
  <2> QED
    BY <1>1, <2>1
<1> QED
  BY <1>1, <1>2

\* service: the deadline it sets is not before now and not after any resend time.
LEMMA ServiceWindows ==
    ASSUME NEW s, Windows(s), NEW now \in Nat, now <= MaxTime,
           NotDueBefore(s, s.next_service_timestamp)
    PROVE  LET v == Service(s, now)
           IN  /\ Windows(v)
               /\ NotDueBefore(v, v.next_service_timestamp)
               /\ now <= v.next_service_timestamp
<1>1. s \in SeqExState /\ SendSlots(s) /\ s.next_service_timestamp \in Nat
  BY DEF Windows, SeqExState
<1>2. CASE IsServiceTime(s, now)
  <2> DEFINE w == Rescheduled(s, now)
             times == {w[i].next_resend_time : i \in {j \in Visited(s) : w[j] # None}}
             all == times \cup {MaxTime}
             t == Min(all)
             v == [s EXCEPT !.send_window = w, !.next_service_timestamp = t]
  <2>1. /\ w \in [0 .. CAP - 1 -> SendEntry \cup {None}]
        /\ \A i \in 0 .. CAP - 1 : w[i] # None =>
             /\ s.send_window[i] # None
             /\ w[i].seq_no = s.send_window[i].seq_no
             /\ w[i].next_resend_time \in Nat
             /\ now <= w[i].next_resend_time
    BY <1>1, RescheduledFacts
  <2>2. Service(s, now) = v
    BY <1>2 DEF Service
  <2>3. Visited(s) \subseteq 0 .. CAP - 1
    BY <1>1, VisitedType
  <2> HIDE DEF w
  <2>4. \A x \in all : x \in Nat /\ now <= x
    BY <2>1, <2>3, TimeAssumption
  <2>5. \A i \in 0 .. CAP - 1 : w[i] # None => w[i].next_resend_time \in all
    BY <1>1, <2>1, AllVisited
  <2>6. MaxTime \in all
    OBVIOUS
  <2> HIDE DEF times, all
  <2>7. t \in all /\ \A x \in all : t <= x
    <3>1. all \subseteq Nat /\ all # {}
      BY <2>4, <2>6
    <3>2. \E x \in all : \A y \in all : x <= y
      BY <3>1, LeastNatural
    <3> QED
      BY <3>2 DEF Min
  <2>8. t \in Nat /\ now <= t
    BY <2>4, <2>7
  <2> HIDE DEF t
  <2>9. /\ v \in SeqExState /\ v.send_window = w /\ v.next_service_timestamp = t
        /\ v.recv_window = s.recv_window /\ v.next_recv_seq_no = s.next_recv_seq_no
        /\ v.concurrent_replies = s.concurrent_replies
        /\ v.next_send_seq_no = s.next_send_seq_no
    BY <1>1, <2>1, <2>8 DEF SeqExState
  <2> HIDE DEF v
  <2>10. SendSlots(v)
    BY <1>1, <2>1, <2>9 DEF SendSlots
  <2>11. RecvSlots(v) /\ Len(v.concurrent_replies) <= CAP - 2
    BY <2>9 DEF Windows, RecvSlots, Normalized
  <2>12. NotDueBefore(v, v.next_service_timestamp)
    BY <2>5, <2>7, <2>9 DEF NotDueBefore
  <2> QED
    BY <2>2, <2>8, <2>9, <2>10, <2>11, <2>12 DEF Windows
<1>3. CASE ~IsServiceTime(s, now)
  <2>1. Service(s, now) = s /\ now <= s.next_service_timestamp
    BY <1>1, <1>3 DEF Service, IsServiceTime
  <2> QED
    BY <2>1
<1> QED
  BY <1>2, <1>3

\* A method that only takes entries out of the send window keeps the timer right.
LEMMA OnlyTakesTimer ==
    ASSUME NEW s, Windows(s), NEW v, Windows(v), OnlyTakes(s, v),
           NotDueBefore(s, s.next_service_timestamp), NEW t \in Nat, NotDueBefore(s, t)
    PROVE  NotDueBefore(v, v.next_service_timestamp) /\ NotDueBefore(v, t)
<1>1. s \in SeqExState /\ v \in SeqExState /\ s.next_service_timestamp \in Nat
  BY DEF Windows, SeqExState
<1> QED
  BY <1>1, ShrunkSendSlots DEF OnlyTakes
=============================================================================
