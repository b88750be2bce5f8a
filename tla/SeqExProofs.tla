----------------------------- MODULE SeqExProofs -----------------------------
(***************************************************************************)
(* Lemmas about the operators of SeqEx that the proofs about Endpoint,     *)
(* Exchange and Sync share: the arithmetic of sequence numbers, and for    *)
(* each method that its result is a SeqExState, what it does to the        *)
(* windows, to the reservations and to the SeqCst lock.                    *)
(***************************************************************************)
EXTENDS SeqEx, SequenceTheorems, FiniteSetTheorems, WellFoundedInduction, TLAPS

----------------------------------------------------------------------------
(* Integers, and the arithmetic of sequence numbers.                       *)

\* A nonempty set of naturals has a least element.
LEMMA LeastNatural ==
    ASSUME NEW T, T \subseteq Nat, T # {}
    PROVE  \E x \in T : \A y \in T : x <= y
<1>1. PICK x \in T : \A y \in T : ~ (<<y, x>> \in OpToRel(<, Nat))
  BY NatLessThanWellFounded, WFMin
<1>2. ASSUME NEW y \in T PROVE x <= y
  <2>1. x \in Nat /\ y \in Nat
    OBVIOUS
  <2>2. ~ (y < x)
    BY <1>1, <2>1 DEF OpToRel
  <2> QED
    BY <2>1, <2>2
<1> QED
  BY <1>2

\* Division with remainder ...
LEMMA Division ==
    ASSUME NEW n \in Int, NEW c \in Nat, c > 0
    PROVE  /\ n \div c \in Int
           /\ n % c \in 0 .. c - 1
           /\ n = (c * (n \div c)) + (n % c)
BY SMT

\* ... whose remainder is unique ...
LEMMA Remainder ==
    ASSUME NEW n \in Int, NEW c \in Nat, c > 0, NEW q \in Int, NEW r \in 0 .. c - 1,
           n = (c * q) + r
    PROVE  n % c = r
BY SMT

\* ... and does not see a multiple of c.
LEMMA RemainderShift ==
    ASSUME NEW n \in Int, NEW m \in Int, NEW c \in Nat, c > 0, m % c = 0
    PROVE  (n + m) % c = n % c
<1>1. PICK a \in Int, r \in 0 .. c - 1 : n = (c * a) + r /\ r = n % c
  BY Division
<1>2. PICK b \in Int : m = c * b
  <2>1. m \div c \in Int /\ m = (c * (m \div c)) + (m % c)
    BY Division
  <2> QED
    BY <2>1
<1>3. n + m = (c * (a + b)) + r
  BY <1>1, <1>2
<1> QED
  BY <1>1, <1>3, Remainder

\* wrapping_add and wrapping_sub give sequence numbers, and wrap at most once.
LEMMA WrapType == ASSUME NEW n \in Int PROVE Wrap(n) \in SeqNo
BY SeqNoAssumption, CapAssumption, SMT DEF Wrap, SeqNo

\* One wrap is one addition or subtraction of the modulus.
LEMMA WrapOnce ==
    ASSUME NEW n \in Int, -SeqNoMod <= n, n < 2 * SeqNoMod
    PROVE  Wrap(n) = IF n < 0 THEN n + SeqNoMod
                     ELSE IF n < SeqNoMod THEN n ELSE n - SeqNoMod
BY SeqNoAssumption, CapAssumption, SMT DEF Wrap, SeqNo

\* Every sequence number has a slot.
LEMMA IdxType == ASSUME NEW n \in SeqNo PROVE Idx(n) \in 0 .. CAP - 1
BY CapAssumption, SeqNoAssumption, SMT DEF Idx, SeqNo

\* A number that is d ahead of another is that number plus d.
LEMMA Ahead ==
    ASSUME NEW a \in SeqNo, NEW b \in SeqNo
    PROVE  b = Wrap(a + Wrap(b - a)) /\ b = Wrap(a - Wrap(a - b))
<1>1. a \in Int /\ b \in Int /\ 0 <= a /\ a < SeqNoMod /\ 0 <= b /\ b < SeqNoMod /\ SeqNoMod \in Nat
  BY SeqNoAssumption DEF SeqNo
<1>2. Wrap(b - a) = IF b < a THEN (b - a) + SeqNoMod ELSE b - a
  BY <1>1, WrapOnce
<1>3. Wrap(a - b) = IF a < b THEN (a - b) + SeqNoMod ELSE a - b
  BY <1>1, WrapOnce
<1>4. b = Wrap(a + Wrap(b - a))
  <2>1. CASE b < a
    <3>1. Wrap(a + Wrap(b - a)) = Wrap(b + SeqNoMod)
      BY <1>1, <1>2, <2>1
    <3> QED
      BY <1>1, <3>1, WrapOnce
  <2>2. CASE ~(b < a)
    <3>1. Wrap(a + Wrap(b - a)) = Wrap(b)
      BY <1>1, <1>2, <2>2
    <3> QED
      BY <1>1, <3>1, WrapOnce
  <2> QED
    BY <2>1, <2>2
<1>5. b = Wrap(a - Wrap(a - b))
  <2>1. CASE a < b
    <3>1. Wrap(a - Wrap(a - b)) = Wrap(b - SeqNoMod)
      BY <1>1, <1>3, <2>1
    <3> QED
      BY <1>1, <3>1, WrapOnce
  <2>2. CASE ~(a < b)
    <3>1. Wrap(a - Wrap(a - b)) = Wrap(b)
      BY <1>1, <1>3, <2>2
    <3> QED
      BY <1>1, <3>1, WrapOnce
  <2> QED
    BY <2>1, <2>2
<1> QED
  BY <1>4, <1>5

\* When the base moves up by n, distances ahead of it shrink and behind it grow by n.
LEMMA Shift ==
    ASSUME NEW a \in SeqNo, NEW b \in SeqNo, NEW n \in 0 .. CAP
    PROVE  /\ n <= Wrap(b - a) => Wrap(b - Wrap(a + n)) = Wrap(b - a) - n
           /\ Wrap(a - b) <= CAP => Wrap(Wrap(a + n) - b) = Wrap(a - b) + n
<1>1. /\ a \in Int /\ b \in Int /\ 0 <= a /\ a < SeqNoMod /\ 0 <= b /\ b < SeqNoMod
      /\ SeqNoMod \in Nat /\ CAP \in Nat /\ SeqNoMod > 2 * CAP /\ n \in Nat /\ n <= CAP
  BY SeqNoAssumption, CapAssumption DEF SeqNo
<1>2. Wrap(b - a) = IF b < a THEN (b - a) + SeqNoMod ELSE b - a
  BY <1>1, WrapOnce
<1>3. Wrap(a - b) = IF a < b THEN (a - b) + SeqNoMod ELSE a - b
  BY <1>1, WrapOnce
<1>4. Wrap(a + n) = IF a + n < SeqNoMod THEN a + n ELSE (a + n) - SeqNoMod
  BY <1>1, WrapOnce
<1>5. /\ Wrap(b - Wrap(a + n)) = IF b < Wrap(a + n) THEN (b - Wrap(a + n)) + SeqNoMod
                                 ELSE b - Wrap(a + n)
      /\ Wrap(Wrap(a + n) - b) = IF Wrap(a + n) < b THEN (Wrap(a + n) - b) + SeqNoMod
                                 ELSE Wrap(a + n) - b
  <2>1. Wrap(a + n) \in Int /\ 0 <= Wrap(a + n) /\ Wrap(a + n) < SeqNoMod
    BY <1>1, <1>4
  <2> QED
    BY <1>1, <2>1, WrapOnce
<1> QED
  BY <1>1, <1>2, <1>3, <1>4, <1>5

----------------------------------------------------------------------------
(* The send side.                                                          *)

\* The second window has lost entries of the first, and is otherwise the same.
Shrunk(w, v) == \A i \in 0 .. CAP - 1 : v[i] = w[i] \/ v[i] = None

\* take_send only takes an entry out of the send window.
LEMMA TakeSendFacts ==
    ASSUME NEW s \in SeqExState, NEW r \in SeqNo
    PROVE  /\ TakeSend(s, r) \in SeqExState
           /\ Shrunk(s.send_window, TakeSend(s, r).send_window)
           /\ TakeSend(s, r) = [s EXCEPT !.send_window = TakeSend(s, r).send_window]
<1>1. Idx(r) \in 0 .. CAP - 1
  BY IdxType
<1> QED
  BY <1>1 DEF TakeSend, SeqExState, Shrunk

\* remove_reservation finds the number it looks for.
LEMMA FirstPlace ==
    ASSUME NEW cr \in Seq(SeqNo), NEW r, \E i \in 1 .. Len(cr) : cr[i] = r
    PROVE  LET i == CHOOSE i \in 1 .. Len(cr) : cr[i] = r /\ \A j \in 1 .. i - 1 : cr[j] # r
           IN  i \in 1 .. Len(cr) /\ cr[i] = r
<1> DEFINE First(i) == cr[i] = r /\ \A j \in 1 .. i - 1 : cr[j] # r
           found == {i \in 1 .. Len(cr) : cr[i] = r}
<1>1. Len(cr) \in Nat /\ found \subseteq Nat /\ found # {}
  OBVIOUS
<1>2. PICK i \in found : \A j \in found : i <= j
  BY <1>1, LeastNatural
<1>3. i \in 1 .. Len(cr) /\ First(i)
  BY <1>1, <1>2
<1> QED
  BY <1>3

\* remove_reservation takes one number out of concurrent_replies.
LEMMA RemoveReservationFacts ==
    ASSUME NEW s \in SeqExState, NEW r \in SeqNo, Reserved(s, r)
    PROVE  /\ RemoveReservation(s, r) \in SeqExState
           /\ Len(RemoveReservation(s, r).concurrent_replies) = Len(s.concurrent_replies) - 1
           /\ RemoveReservation(s, r) =
                [s EXCEPT !.concurrent_replies = RemoveReservation(s, r).concurrent_replies]
<1> DEFINE cr == s.concurrent_replies
           at == CHOOSE i \in 1 .. Len(cr) : cr[i] = r /\ \A j \in 1 .. i - 1 : cr[j] # r
           swapped == [cr EXCEPT ![at] = cr[Len(cr)]]
           short == SubSeq(swapped, 1, Len(cr) - 1)
<1>1. cr \in Seq(SeqNo) /\ Len(cr) \in Nat /\ Len(cr) >= 1
  BY DEF SeqExState, Reserved
<1>3. at \in 1 .. Len(cr)
  BY <1>1, FirstPlace DEF Reserved
<1>4. swapped \in Seq(SeqNo) /\ Len(swapped) = Len(cr)
  BY <1>1, <1>3, ExceptSeq, ElementOfSeq
<1>5. short \in Seq(SeqNo) /\ Len(short) = Len(cr) - 1
  BY <1>1, <1>4
<1>6. RemoveReservation(s, r) = [s EXCEPT !.concurrent_replies = short]
  BY DEF RemoveReservation
<1> HIDE DEF short
<1> QED
  BY <1>5, <1>6 DEF SeqExState

\* A new entry is of its type, whatever the caller puts in it.
LEMMA NewEntryFacts ==
    ASSUME NEW s \in SeqExState, NEW now \in Nat, NEW r \in OptSeqNo, NEW c \in BOOLEAN, NEW d \in Data
    PROVE  /\ NewEntry(s, now, r, c, d) \in SendEntry
           /\ NewEntry(s, now, r, c, d).seq_no = s.next_send_seq_no
           /\ NewEntry(s, now, r, c, d).next_resend_time = now + ResendInterval
BY TimeAssumption DEF NewEntry, SendEntry, SeqExState

\* Filling the next slot: the new entry gets the number that follows the others.
LEMMA InsertSendFacts ==
    ASSUME NEW s \in SeqExState, NEW e \in SendEntry, e.seq_no = s.next_send_seq_no
    PROVE  /\ InsertSend(s, e) \in SeqExState
           /\ InsertSend(s, e).concurrent_replies = s.concurrent_replies
           /\ InsertSend(s, e).next_recv_seq_no = s.next_recv_seq_no
           /\ InsertSend(s, e).recv_window = s.recv_window
           /\ InsertSend(s, e).send_window = [s.send_window EXCEPT ![Idx(e.seq_no)] = e]
           /\ InsertSend(s, e).next_send_seq_no = Wrap(s.next_send_seq_no + 1)
           /\ InsertSend(s, e).next_service_timestamp =
                IF s.next_service_timestamp > e.next_resend_time THEN e.next_resend_time
                ELSE s.next_service_timestamp
<1>1. Idx(e.seq_no) \in 0 .. CAP - 1 /\ Wrap(s.next_send_seq_no + 1) \in SeqNo
  <2>1. e.seq_no \in SeqNo /\ s.next_send_seq_no \in SeqNo
    BY DEF SendEntry, SeqExState
  <2>2. s.next_send_seq_no + 1 \in Int
    BY <2>1, SeqNoAssumption DEF SeqNo
  <2> QED
    BY <2>1, <2>2, IdxType, WrapType
<1>2. e.next_resend_time \in Nat
  BY DEF SendEntry
<1> QED
  BY <1>1, <1>2 DEF InsertSend, SeqExState

\* service_direct only looks at slots of the window.
LEMMA VisitedType == ASSUME NEW s \in SeqExState PROVE Visited(s) \subseteq 0 .. CAP - 1
<1>1. ASSUME NEW k \in 1 .. CAP PROVE Idx(Wrap(s.next_send_seq_no - k)) \in 0 .. CAP - 1
  <2>1. s.next_send_seq_no - k \in Int
    BY SeqNoAssumption, CapAssumption DEF SeqExState, SeqNo
  <2> QED
    BY <2>1, WrapType, IdxType
<1> QED
  BY <1>1 DEF Visited

----------------------------------------------------------------------------
(* The receive side.                                                       *)

\* What an entry of the receive window is.
LEMMA RecvEntryFacts ==
    /\ Empty \in RecvEntry
    /\ \A n \in SeqNo : Unlocked(n) \in RecvEntry /\ Unlocked(n).seq_no = n
    /\ \A m \in DataPacket : Occupied(m) \in RecvEntry /\ Occupied(m).seq_no = m.seq_no
    /\ \A e \in RecvEntry : e # Empty => e.seq_no \in SeqNo
    /\ \A e \in RecvEntry : e.tag = "Occupied" => e \in OccupiedEntry
<1>1. Empty \in RecvEntry
  BY DEF RecvEntry
<1>2. ASSUME NEW n \in SeqNo PROVE Unlocked(n) \in RecvEntry /\ Unlocked(n).seq_no = n
  BY DEF RecvEntry, UnlockedEntry, Unlocked
<1>3. ASSUME NEW m \in DataPacket PROVE Occupied(m) \in RecvEntry /\ Occupied(m).seq_no = m.seq_no
  BY DEF RecvEntry, OccupiedEntry, Occupied, DataPacket
<1>4. ASSUME NEW e \in RecvEntry, e # Empty PROVE e.seq_no \in SeqNo
  BY <1>4 DEF RecvEntry, OccupiedEntry, UnlockedEntry
<1>5. ASSUME NEW e \in RecvEntry, e.tag = "Occupied" PROVE e \in OccupiedEntry
  BY <1>5 DEF RecvEntry, UnlockedEntry, Empty
<1> QED
  BY <1>1, <1>2, <1>3, <1>4, <1>5

\* Only the receive side of the struct differs.
SameSendSide(s, v) ==
    /\ v.send_window = s.send_window
    /\ v.next_send_seq_no = s.next_send_seq_no
    /\ v.next_service_timestamp = s.next_service_timestamp

\* The loop of fast_forward ends within one round of the window.
LEMMA FastForwardLengthType ==
    ASSUME NEW s \in SeqExState
    PROVE  FastForwardLength(s) \in 0 .. CAP
<1> DEFINE at(j)  == Idx(Wrap(s.next_recv_seq_no + j))
           Run(k) == \A j \in 0 .. k - 1 : /\ s.recv_window[at(j)].tag = "Unlocked"
                                           /\ \A l \in 0 .. j - 1 : at(l) # at(j)
           turns == {k \in 1 .. CAP : Run(k)}
<1>1. IsFiniteSet(1 .. CAP) /\ Cardinality(1 .. CAP) = CAP
  BY CapAssumption, FS_Interval
<1>2. turns \in SUBSET (1 .. CAP)
  <2> HIDE DEF Run
  <2> QED
    OBVIOUS
<1> HIDE DEF turns
<1>3. IsFiniteSet(turns) /\ Cardinality(turns) <= CAP
  BY <1>1, <1>2, FS_Subset
<1>4. Cardinality(turns) \in Nat
  BY <1>3, FS_CardinalityType
<1>5. FastForwardLength(s) = Cardinality(turns)
  BY DEF FastForwardLength, turns
<1> QED
  BY <1>3, <1>4, <1>5, CapAssumption

\* What reaches Accept: a packet just received, or one saved in the receive window.
Acceptable == DataPacket \cup OccupiedEntry

\* What is handed to the application carries the numbers of a packet.
LEMMA AcceptableFacts ==
    ASSUME NEW m \in Acceptable
    PROVE  m.seq_no \in SeqNo /\ m.reply_no \in OptSeqNo /\ m.seq_cst \in BOOLEAN
BY DEF Acceptable, DataPacket, OccupiedEntry

\* is_full_inner refuses as soon as CAP - 2 reply numbers are out.
LEMMA IsFullFacts ==
    ASSUME NEW s \in SeqExState, NEW r
    PROVE  /\ IsFullInner(s, r) \in {"Ok"} \cup TryError
           /\ IsFullInner(s, r) = "Ok" => Len(s.concurrent_replies) + 1 <= CAP - 2
<1>1. Len(s.concurrent_replies) \in Nat
  BY DEF SeqExState
<1> QED
  BY <1>1, CapAssumption DEF IsFullInner, ReservationsExhausted, TryError

\* A packet is handed over or saved only if its number is in the receive window.
LEMMA OutcomeFacts ==
    ASSUME NEW s \in SeqExState, NEW m \in DataPacket,
           ReceiveOutcome(s, m) \in {"Deliver"} \cup TryError
    PROVE  /\ Normalized(s, m.seq_no) \in 0 .. CAP - 1
           /\ ReceiveOutcome(s, m) = "Deliver" => Len(s.concurrent_replies) + 1 <= CAP - 2
<1>1. ~IsBelowRange(s, m.seq_no) /\ ~IsAboveRange(s, m.seq_no)
  BY DEF ReceiveOutcome, TryError
<1>2. Normalized(s, m.seq_no) \in Nat
  <2>1. m.seq_no - s.next_recv_seq_no \in Int
    BY SeqNoAssumption DEF DataPacket, SeqExState, SeqNo
  <2>2. Wrap(m.seq_no - s.next_recv_seq_no) \in SeqNo
    BY <2>1, WrapType
  <2> QED
    BY <2>2, SeqNoAssumption DEF Normalized, SeqNo
<1>3. Normalized(s, m.seq_no) \in 0 .. CAP - 1
  BY <1>1, <1>2, CapAssumption DEF IsAboveRange
<1>4. ASSUME ReceiveOutcome(s, m) = "Deliver" PROVE IsFullInner(s, m.reply_no) = "Ok"
  BY <1>4, IsFullFacts DEF ReceiveOutcome, TryError
<1> QED
  BY <1>3, <1>4, IsFullFacts

----------------------------------------------------------------------------
(* What each method returns is a SeqExState, and what it does to the       *)
(* reservations and to the SeqCst lock.                                    *)

\* Neither the reservations nor the lock are touched.
SameReplies(s, v) ==
    /\ v.concurrent_replies = s.concurrent_replies
    /\ v.is_locked = s.is_locked

\* Reply number n is issued, and a SeqCst packet takes the lock.
Issues(s, v, n, seq_cst) ==
    /\ v.concurrent_replies = Append(s.concurrent_replies, n)
    /\ v.is_locked = (s.is_locked \/ seq_cst)

\* An entry put in a slot of the receive window.
LEMMA RecvSlotType ==
    ASSUME NEW s \in SeqExState, NEW i \in 0 .. CAP - 1, NEW e \in RecvEntry
    PROVE  LET v == [s EXCEPT !.recv_window[i] = e]
           IN  v \in SeqExState /\ SameReplies(s, v)
<1> DEFINE w == [s.recv_window EXCEPT ![i] = e]
           v == [s EXCEPT !.recv_window[i] = e]
<1>1. w \in [0 .. CAP - 1 -> RecvEntry]
  BY DEF SeqExState
<1>2. v = [s EXCEPT !.recv_window = w]
  BY DEF SeqExState
<1> HIDE DEF w, v
<1>3. v \in SeqExState /\ SameReplies(s, v)
  BY <1>1, <1>2 DEF SeqExState, SameReplies
<1> QED
  BY <1>3 DEF v

\* fast_forward works on the receive window only.
LEMMA FastForwardType ==
    ASSUME NEW s \in SeqExState
    PROVE  FastForward(s) \in SeqExState /\ SameReplies(s, FastForward(s))
<1> DEFINE n == FastForwardLength(s)
           skipped == {Idx(Wrap(s.next_recv_seq_no + j)) : j \in 0 .. n - 1}
           next == Wrap(s.next_recv_seq_no + n)
           window == [i \in 0 .. CAP - 1 |-> IF i \in skipped THEN Empty ELSE s.recv_window[i]]
<1>1. next \in SeqNo
  <2>1. s.next_recv_seq_no + n \in Int
    <3>1. n \in Int
      BY FastForwardLengthType, CapAssumption
    <3>2. s.next_recv_seq_no \in Int
      BY SeqNoAssumption DEF SeqExState, SeqNo
    <3> HIDE DEF n
    <3> QED
      BY ONLY <3>1, <3>2
  <2> QED
    BY <2>1, WrapType
<1>2. FastForward(s) = [s EXCEPT !.next_recv_seq_no = next, !.recv_window = window]
  BY DEF FastForward
<1> HIDE DEF n, skipped, next
<1>3. window \in [0 .. CAP - 1 -> RecvEntry]
  BY RecvEntryFacts DEF SeqExState
<1> QED
  BY <1>1, <1>2, <1>3 DEF SeqExState, SameReplies

\* Moving the receive window on issues nothing yet.
LEMMA AdvanceType ==
    ASSUME NEW s \in SeqExState, NEW m \in Acceptable, NEW is_next \in BOOLEAN
    PROVE  /\ Advance(s, m, is_next) \in SeqExState
           /\ SameReplies(s, Advance(s, m, is_next))
<1>1. CASE is_next
  <2> DEFINE a == s.next_recv_seq_no
             b == Wrap(a + 1)
             u == [s EXCEPT !.recv_window[Idx(a)] = Empty, !.next_recv_seq_no = b]
  <2>1. a \in SeqNo /\ Idx(a) \in 0 .. CAP - 1
    BY IdxType DEF SeqExState
  <2>2. b \in SeqNo
    <3>1. a + 1 \in Int
      BY <2>1, SeqNoAssumption DEF SeqNo
    <3> QED
      BY <3>1, WrapType
  <2>3. Advance(s, m, is_next) = FastForward(u)
    BY <1>1 DEF Advance
  <2> HIDE DEF b
  <2>4. u \in SeqExState /\ SameReplies(s, u)
    BY <2>1, <2>2, RecvEntryFacts DEF SeqExState, SameReplies
  <2> HIDE DEF u
  <2> QED
    BY <2>3, <2>4, FastForwardType DEF SameReplies
<1>2. CASE ~is_next
  <2>1. m.seq_no \in SeqNo /\ Idx(m.seq_no) \in 0 .. CAP - 1
    BY AcceptableFacts, IdxType
  <2>2. Unlocked(m.seq_no) \in RecvEntry
    BY <2>1, RecvEntryFacts
  <2>3. Advance(s, m, is_next) = [s EXCEPT !.recv_window[Idx(m.seq_no)] = Unlocked(m.seq_no)]
    BY <1>2 DEF Advance
  <2> QED
    BY <2>1, <2>2, <2>3, RecvSlotType
<1> QED
  BY <1>1, <1>2

\* take_send leaves the reservations alone.
LEMMA TakeSendType ==
    ASSUME NEW s \in SeqExState, NEW r \in SeqNo
    PROVE  TakeSend(s, r) \in SeqExState /\ SameReplies(s, TakeSend(s, r))
<1>1. /\ TakeSend(s, r) \in SeqExState
      /\ TakeSend(s, r) = [s EXCEPT !.send_window = TakeSend(s, r).send_window]
  BY TakeSendFacts
<1> QED
  BY <1>1 DEF SeqExState, SameReplies

\* Handing a packet to the application issues its number.
LEMMA AcceptType ==
    ASSUME NEW s \in SeqExState, NEW m \in Acceptable, NEW is_next \in BOOLEAN
    PROVE  /\ Accept(s, m, is_next) \in SeqExState
           /\ Issues(s, Accept(s, m, is_next), m.seq_no, m.seq_cst)
<1> DEFINE u == Advance(s, m, is_next)
           lock == u.is_locked \/ m.seq_cst
           replies == Append(u.concurrent_replies, m.seq_no)
           issued == IssueReplyNo(u, m)
<1>1. m.seq_no \in SeqNo /\ m.reply_no \in OptSeqNo /\ m.seq_cst \in BOOLEAN
  BY AcceptableFacts
<1>2. u \in SeqExState /\ SameReplies(s, u)
  BY AdvanceType
<1> HIDE DEF u
<1>3. lock \in BOOLEAN /\ replies \in Seq(SeqNo)
  BY <1>1, <1>2 DEF SeqExState
<1>4. issued = [u EXCEPT !.concurrent_replies = replies, !.is_locked = lock]
  BY DEF IssueReplyNo
<1>5. issued \in SeqExState /\ issued.concurrent_replies = replies /\ issued.is_locked = lock
  <2> HIDE DEF replies, lock, issued
  <2> QED
    BY <1>2, <1>3, <1>4 DEF SeqExState
<1>6. Issues(s, issued, m.seq_no, m.seq_cst)
  BY <1>2, <1>5 DEF Issues, SameReplies
<1> HIDE DEF issued
<1>7. CASE m.reply_no = None
  BY <1>5, <1>6, <1>7 DEF Accept, issued, u
<1>8. CASE m.reply_no # None
  <2>1. Accept(s, m, is_next) = TakeSend(issued, m.reply_no) /\ m.reply_no \in SeqNo
    BY <1>1, <1>8 DEF Accept, issued, u, OptSeqNo
  <2> QED
    BY <1>5, <1>6, <2>1, TakeSendType DEF Issues, SameReplies
<1> QED
  BY <1>7, <1>8

\* try_receive_raw_and_direct: a number is issued if the packet is handed over, and a
\* SeqCst packet only if the lock is free.
LEMMA ReceiveType ==
    ASSUME NEW s \in SeqExState, NEW m \in DataPacket
    PROVE  /\ Receive(s, m) \in SeqExState
           /\ IF ReceiveOutcome(s, m) = "Deliver"
              THEN Issues(s, Receive(s, m), m.seq_no, m.seq_cst) /\ (m.seq_cst => ~s.is_locked)
              ELSE SameReplies(s, Receive(s, m))
<1>1. CASE ReceiveOutcome(s, m) = "Deliver"
  <2>1. Receive(s, m) = Accept(s, m, IsNext(s, m.seq_no))
    BY <1>1 DEF Receive, TryError
  <2>2. m \in Acceptable /\ IsNext(s, m.seq_no) \in BOOLEAN
    BY DEF Acceptable, IsNext
  <2>3. m.seq_cst => ~s.is_locked
    BY <1>1, IsFullFacts DEF ReceiveOutcome, AwaitsLock, TryError
  <2> QED
    BY <1>1, <2>1, <2>2, <2>3, AcceptType
<1>2. CASE ReceiveOutcome(s, m) \in TryError /\ ~IsDuplicate(s, m.seq_no)
  <2>1. Receive(s, m) = [s EXCEPT !.recv_window[Idx(m.seq_no)] = Occupied(m)]
    BY <1>2 DEF Receive, TryError
  <2>2. Idx(m.seq_no) \in 0 .. CAP - 1 /\ Occupied(m) \in RecvEntry
    BY IdxType, RecvEntryFacts DEF DataPacket
  <2>3. ReceiveOutcome(s, m) # "Deliver"
    BY <1>2 DEF TryError
  <2>4. Receive(s, m) \in SeqExState /\ SameReplies(s, Receive(s, m))
    BY <2>1, <2>2, RecvSlotType
  <2> QED
    BY <2>3, <2>4
<1>3. CASE ReceiveOutcome(s, m) # "Deliver"
           /\ ~(ReceiveOutcome(s, m) \in TryError /\ ~IsDuplicate(s, m.seq_no))
  <2>1. Receive(s, m) = s
    BY <1>3 DEF Receive
  <2> QED
    BY <1>3, <2>1 DEF SameReplies
<1> QED
  BY <1>1, <1>2, <1>3

\* What try_pump_raw hands over was saved in the receive window.
LEMMA PumpEntry ==
    ASSUME NEW s \in SeqExState, PumpOutcome(s) = "Deliver"
    PROVE  NextEntry(s) \in OccupiedEntry /\ (NextEntry(s).seq_cst => ~s.is_locked)
<1>1. Idx(s.next_recv_seq_no) \in 0 .. CAP - 1
  BY IdxType DEF SeqExState
<1>2. NextEntry(s) \in RecvEntry /\ NextEntry(s).tag = "Occupied"
  BY <1>1 DEF PumpOutcome, NextEntry, SeqExState
<1>3. NextEntry(s).seq_cst => ~s.is_locked
  BY IsFullFacts DEF PumpOutcome, AwaitsLock, TryError
<1> QED
  BY <1>2, <1>3, RecvEntryFacts

\* try_pump_raw
LEMMA PumpType ==
    ASSUME NEW s \in SeqExState
    PROVE  /\ Pump(s) \in SeqExState
           /\ IF PumpOutcome(s) = "Deliver"
              THEN Issues(s, Pump(s), NextEntry(s).seq_no, NextEntry(s).seq_cst)
              ELSE SameReplies(s, Pump(s))
<1>1. CASE PumpOutcome(s) = "Deliver"
  BY <1>1, PumpEntry, AcceptType DEF Pump, Acceptable
<1>2. CASE PumpOutcome(s) # "Deliver"
  BY <1>2 DEF Pump, SameReplies
<1> QED
  BY <1>1, <1>2

\* try_send_direct
LEMMA TrySendType ==
    ASSUME NEW s \in SeqExState, NEW now \in Nat, NEW c \in BOOLEAN, NEW d \in Data
    PROVE  TrySend(s, now, c, d) \in SeqExState /\ SameReplies(s, TrySend(s, now, c, d))
<1> DEFINE e == NewEntry(s, now, None, c, d)
<1>1. e \in SendEntry /\ e.seq_no = s.next_send_seq_no
  BY NewEntryFacts DEF OptSeqNo
<1> HIDE DEF e
<1>2. InsertSend(s, e) \in SeqExState
  BY <1>1, InsertSendFacts
<1>3. SameReplies(s, InsertSend(s, e))
  BY DEF InsertSend, SeqExState, SameReplies
<1> QED
  BY <1>2, <1>3 DEF TrySend, e

\* ack_raw_and_direct gives the reservation back and, if it is told to, the lock.
LEMMA AckRawType ==
    ASSUME NEW s \in SeqExState, NEW r \in SeqNo, NEW unlock \in BOOLEAN, Reserved(s, r)
    PROVE  LET v == AckRaw(s, r, unlock)
           IN  /\ v \in SeqExState
               /\ v.concurrent_replies = RemoveReservation(s, r).concurrent_replies
               /\ v.is_locked = (s.is_locked /\ ~unlock)
<1> DEFINE u == RemoveReservation(s, r)
<1>1. u \in SeqExState /\ u = [s EXCEPT !.concurrent_replies = u.concurrent_replies]
  BY RemoveReservationFacts
<1>2. AckRaw(s, r, unlock) = [u EXCEPT !.is_locked = @ /\ ~unlock]
  BY DEF AckRaw
<1> HIDE DEF u
<1>3. u.is_locked = s.is_locked
  BY <1>1 DEF SeqExState
<1> QED
  BY <1>1, <1>2, <1>3 DEF SeqExState, u

\* reply_raw_and_direct does the same to them.
LEMMA ReplyRawType ==
    ASSUME NEW s \in SeqExState, NEW now \in Nat, NEW r \in SeqNo, NEW unlock \in BOOLEAN,
           NEW c \in BOOLEAN, NEW d \in Data, Reserved(s, r)
    PROVE  LET v == ReplyRaw(s, now, r, unlock, c, d)
           IN  /\ v \in SeqExState
               /\ v.concurrent_replies = RemoveReservation(s, r).concurrent_replies
               /\ v.is_locked = (s.is_locked /\ ~unlock)
<1> DEFINE u == RemoveReservation(s, r)
           e == NewEntry(s, now, r, c, d)
           w == InsertSend(u, e)
<1>1. u \in SeqExState /\ u = [s EXCEPT !.concurrent_replies = u.concurrent_replies]
  BY RemoveReservationFacts
<1>2. e \in SendEntry /\ e.seq_no = s.next_send_seq_no
  BY NewEntryFacts DEF OptSeqNo
<1>3. ReplyRaw(s, now, r, unlock, c, d) = [w EXCEPT !.is_locked = @ /\ ~unlock]
  BY DEF ReplyRaw
<1> HIDE DEF u, e
<1>4. u.is_locked = s.is_locked /\ u.next_send_seq_no = s.next_send_seq_no
  BY <1>1 DEF SeqExState
<1>5. w \in SeqExState
  BY <1>1, <1>2, <1>4, InsertSendFacts
<1>6. w.concurrent_replies = u.concurrent_replies /\ w.is_locked = u.is_locked
  BY <1>1 DEF InsertSend, SeqExState
<1> HIDE DEF w
<1> QED
  BY <1>3, <1>4, <1>5, <1>6 DEF SeqExState, u

\* unlock_raw
LEMMA UnlockRawType ==
    ASSUME NEW s \in SeqExState
    PROVE  /\ UnlockRaw(s) \in SeqExState
           /\ UnlockRaw(s).concurrent_replies = s.concurrent_replies
           /\ UnlockRaw(s).is_locked = FALSE
BY DEF UnlockRaw, SeqExState

\* service changes times only.
LEMMA ServiceType ==
    ASSUME NEW s \in SeqExState, NEW now \in Nat
    PROVE  Service(s, now) \in SeqExState /\ SameReplies(s, Service(s, now))
<1>1. CASE IsServiceTime(s, now)
  <2> DEFINE w == Rescheduled(s, now)
             times == {w[i].next_resend_time : i \in {j \in Visited(s) : w[j] # None}}
             all == times \cup {MaxTime}
             t == Min(all)
  <2>1. Service(s, now) = [s EXCEPT !.send_window = w, !.next_service_timestamp = t]
    BY <1>1 DEF Service
  <2>2. ASSUME NEW i \in 0 .. CAP - 1 PROVE w[i] \in SendEntry \cup {None}
    <3>1. s.send_window[i] \in SendEntry \cup {None}
      BY DEF SeqExState
    <3>2. now + ResendInterval \in Nat
      BY TimeAssumption
    <3>3. CASE i \in Due(s, now)
      <4>1. w[i] = [s.send_window[i] EXCEPT !.next_resend_time = now + ResendInterval]
        BY <3>3 DEF Rescheduled
      <4>2. s.send_window[i] \in SendEntry
        BY <3>1, <3>3 DEF Due
      <4> QED
        BY <3>2, <4>1, <4>2 DEF SendEntry
    <3>4. CASE i \notin Due(s, now)
      BY <3>1, <3>4 DEF Rescheduled
    <3> QED
      BY <3>3, <3>4
  <2>3. w \in [0 .. CAP - 1 -> SendEntry \cup {None}]
    <3>1. w = [i \in 0 .. CAP - 1 |-> w[i]]
      BY DEF Rescheduled
    <3> HIDE DEF w
    <3> QED
      BY <2>2, <3>1
  <2>4. Visited(s) \subseteq 0 .. CAP - 1
    BY VisitedType
  <2> HIDE DEF w
  <2>5. all \subseteq Nat /\ all # {}
    BY <2>3, <2>4, TimeAssumption DEF SendEntry
  <2> HIDE DEF times, all
  <2>6. t \in Nat
    <3>1. \E x \in all : \A y \in all : x <= y
      BY <2>5, LeastNatural
    <3> QED
      BY <2>5, <3>1 DEF Min
  <2> HIDE DEF t
  <2> QED
    BY <2>1, <2>3, <2>6 DEF SeqExState, SameReplies
<1>2. CASE ~IsServiceTime(s, now)
  BY <1>2 DEF Service, SameReplies
<1> QED
  BY <1>1, <1>2

\* new() returns a SeqExState without reservations.
LEMMA NewSeqExType ==
    /\ NewSeqEx \in SeqExState
    /\ NewSeqEx.concurrent_replies = << >> /\ NewSeqEx.is_locked = FALSE
BY CapAssumption, SeqNoAssumption, TimeAssumption, RecvEntryFacts DEF NewSeqEx, SeqExState

----------------------------------------------------------------------------
(* Counting the reservations of a reply number.                            *)

Reservations(s, r) ==
    Cardinality({i \in DOMAIN s.concurrent_replies : s.concurrent_replies[i] = r})

\* The places a number may have in a sequence are finitely many.
LEMMA PlacesFinite ==
    ASSUME NEW cr \in Seq(SeqNo), NEW r
    PROVE  IsFiniteSet({i \in DOMAIN cr : cr[i] = r})
<1>1. DOMAIN cr = 1 .. Len(cr) /\ Len(cr) \in Nat
  BY LenProperties
<1>2. IsFiniteSet(1 .. Len(cr))
  BY <1>1, FS_Interval
<1> QED
  BY <1>1, <1>2, FS_Subset

\* A number is reserved if it is counted.
LEMMA ReservationsType ==
    ASSUME NEW s \in SeqExState, NEW r
    PROVE  Reservations(s, r) \in Nat /\ (Reserved(s, r) <=> Reservations(s, r) > 0)
<1> DEFINE cr == s.concurrent_replies
           at == {i \in DOMAIN cr : cr[i] = r}
<1>1. cr \in Seq(SeqNo) /\ DOMAIN cr = 1 .. Len(cr)
  BY LenProperties DEF SeqExState
<1>2. Reserved(s, r) <=> at # {}
  BY <1>1 DEF Reserved
<1>3. Reservations(s, r) = Cardinality(at)
  BY DEF Reservations
<1> HIDE DEF at
<1>4. IsFiniteSet(at)
  BY <1>1, PlacesFinite DEF at
<1>5. Cardinality(at) \in Nat /\ (Cardinality(at) = 0 <=> at = {})
  BY <1>4, FS_CardinalityType, FS_EmptySet
<1> QED
  BY <1>2, <1>3, <1>5

\* Issuing a number counts it once more.
LEMMA ReservationsIssued ==
    ASSUME NEW s \in SeqExState, NEW v \in SeqExState, NEW n \in SeqNo, NEW c, Issues(s, v, n, c),
           NEW r
    PROVE  Reservations(v, r) = Reservations(s, r) + (IF r = n THEN 1 ELSE 0)
<1> DEFINE cr == s.concurrent_replies
           L == Len(cr)
           at == {i \in DOMAIN cr : cr[i] = r}
           now == {i \in DOMAIN v.concurrent_replies : v.concurrent_replies[i] = r}
<1>1. /\ cr \in Seq(SeqNo) /\ DOMAIN cr = 1 .. L /\ L \in Nat
      /\ v.concurrent_replies = Append(cr, n)
  BY LenProperties DEF SeqExState, Issues
<1>2. /\ DOMAIN Append(cr, n) = 1 .. L + 1
      /\ \A i \in 1 .. L : Append(cr, n)[i] = cr[i]
      /\ Append(cr, n)[L + 1] = n
  BY <1>1, AppendProperties
<1>3. IsFiniteSet(at) /\ L + 1 \notin at
  <2>1. IsFiniteSet(at)
    BY <1>1, PlacesFinite
  <2> QED
    BY <1>1, <2>1
<1>4. now = IF r = n THEN at \cup {L + 1} ELSE at
  BY <1>1, <1>2
<1>5. Reservations(s, r) = Cardinality(at) /\ Reservations(v, r) = Cardinality(now)
  BY DEF Reservations
<1> HIDE DEF at, now
<1>6. Cardinality(at \cup {L + 1}) = Cardinality(at) + 1 /\ Cardinality(at) \in Nat
  BY <1>3, FS_AddElement, FS_CardinalityType
<1> QED
  BY <1>4, <1>5, <1>6

\* remove_reservation counts it once less, and no other number, although the last
\* number changes its place.
LEMMA ReservationsRemoved ==
    ASSUME NEW s \in SeqExState, NEW n \in SeqNo, Reserved(s, n), NEW r
    PROVE  Reservations(RemoveReservation(s, n), r)
                = Reservations(s, r) - (IF r = n THEN 1 ELSE 0)
<1> DEFINE cr == s.concurrent_replies
           L == Len(cr)
           First(i) == cr[i] = n /\ \A j \in 1 .. i - 1 : cr[j] # n
           k == CHOOSE i \in 1 .. L : First(i)
           swapped == [cr EXCEPT ![k] = cr[L]]
           short == SubSeq(swapped, 1, L - 1)
           at == {i \in DOMAIN cr : cr[i] = r}
           now == {i \in DOMAIN short : short[i] = r}
<1>1. cr \in Seq(SeqNo) /\ DOMAIN cr = 1 .. L /\ L \in Nat /\ L >= 1
  BY LenProperties DEF SeqExState, Reserved
<1>2. k \in 1 .. L /\ cr[k] = n
  BY <1>1, FirstPlace DEF Reserved
<1> HIDE DEF k
<1>3. swapped \in Seq(SeqNo) /\ Len(swapped) = L
  BY <1>1, <1>2, ExceptSeq, ElementOfSeq
<1>4. short \in Seq(SeqNo) /\ Len(short) = L - 1
      /\ \A i \in 1 .. L - 1 : short[i] = swapped[i]
  BY <1>1, <1>3
<1>5. DOMAIN short = 1 .. L - 1
      /\ \A i \in 1 .. L - 1 : short[i] = IF i = k THEN cr[L] ELSE cr[i]
  BY <1>1, <1>2, <1>3, <1>4, LenProperties
<1>6. RemoveReservation(s, n).concurrent_replies = short
  BY DEF RemoveReservation, SeqExState, k
<1>7. Reservations(s, r) = Cardinality(at)
      /\ Reservations(RemoveReservation(s, n), r) = Cardinality(now)
  BY <1>6 DEF Reservations
<1> HIDE DEF swapped, short
<1>8. IsFiniteSet(at) /\ Cardinality(at) \in Nat
  BY <1>1, PlacesFinite, FS_CardinalityType
<1>9. CASE r = n
  <2>1. k \in at /\ now = at \ {IF cr[L] = n THEN L ELSE k}
    <3>1. k \in at /\ L \in 1 .. L /\ (\A i \in 1 .. L : i \in 1 .. L - 1 <=> i # L)
      BY <1>1, <1>2, <1>9
    <3>2. CASE cr[L] = n
      <4>1. \A i \in 1 .. L - 1 : short[i] = r <=> cr[i] = r
        BY <1>2, <1>5, <1>9, <3>2
      <4> QED
        BY <1>1, <1>5, <3>1, <3>2, <4>1
    <3>3. CASE cr[L] # n
      <4>1. \A i \in 1 .. L - 1 : short[i] = r <=> cr[i] = r /\ i # k
        BY <1>5, <1>9, <3>3
      <4> QED
        BY <1>1, <1>5, <1>9, <3>1, <3>3, <4>1
    <3> QED
      BY <3>2, <3>3
  <2>2. (IF cr[L] = n THEN L ELSE k) \in at
    BY <1>1, <1>9, <2>1
  <2> HIDE DEF at, now
  <2> QED
    BY <1>7, <1>8, <1>9, <2>1, <2>2, FS_RemoveElement
<1>10. CASE r # n
  <2>1. k \notin at
    BY <1>2, <1>10
  <2>2. CASE cr[L] = r
    <3>1. L \in at /\ k \notin at \ {L} /\ now = (at \ {L}) \cup {k}
      <4>1. L \in at /\ k \in 1 .. L - 1 /\ \A i \in 1 .. L : i \in 1 .. L - 1 <=> i # L
        BY <1>1, <1>2, <1>10, <2>2
      <4>2. \A i \in 1 .. L - 1 : short[i] = r <=> cr[i] = r \/ i = k
        BY <1>2, <1>5, <1>10, <2>2
      <4>3. /\ DOMAIN cr = 1 .. L /\ DOMAIN short = 1 .. L - 1 /\ k \notin at
            /\ \A i : i \in 1 .. L - 1 => i \in 1 .. L
        BY <1>1, <1>5, <2>1
      <4>4. now \subseteq (at \ {L}) \cup {k}
        BY <4>1, <4>2, <4>3
      <4>5. (at \ {L}) \cup {k} \subseteq now
        BY <4>1, <4>2, <4>3
      <4> QED
        BY <4>1, <4>3, <4>4, <4>5
    <3> HIDE DEF at, now
    <3>2. IsFiniteSet(at \ {L}) /\ Cardinality(at \ {L}) = Cardinality(at) - 1
      BY <1>8, <3>1, FS_RemoveElement
    <3>3. Cardinality(now) = Cardinality(at \ {L}) + 1
      BY <3>1, <3>2, FS_AddElement
    <3> QED
      BY <1>7, <1>8, <1>10, <3>2, <3>3
  <2>3. CASE cr[L] # r
    <3>1. now = at
      BY <1>1, <1>2, <1>5, <1>10, <2>1, <2>3
    <3> QED
      BY <1>7, <1>8, <1>10, <3>1
  <2> QED
    BY <2>2, <2>3
<1> QED
  BY <1>9, <1>10

----------------------------------------------------------------------------
(* What happens to the entries of the receive window.                      *)

\* fast_forward empties the slots of Unlocked entries only.
LEMMA FastForwardSkips ==
    ASSUME NEW s \in SeqExState, NEW i \in 0 .. CAP - 1,
           FastForward(s).recv_window[i] # s.recv_window[i]
    PROVE  s.recv_window[i].tag = "Unlocked"
<1> DEFINE at(j)  == Idx(Wrap(s.next_recv_seq_no + j))
           Run(k) == \A j \in 0 .. k - 1 : /\ s.recv_window[at(j)].tag = "Unlocked"
                                           /\ \A l \in 0 .. j - 1 : at(l) # at(j)
           turns == {k \in 1 .. CAP : Run(k)}
           n == FastForwardLength(s)
           skipped == {at(j) : j \in 0 .. n - 1}
<1>1. n = Cardinality(turns) /\ n \in 0 .. CAP
  BY FastForwardLengthType DEF FastForwardLength
<1>2. FastForward(s).recv_window = [k \in 0 .. CAP - 1 |-> IF k \in skipped THEN Empty
                                                           ELSE s.recv_window[k]]
  BY DEF FastForward, SeqExState
<1>3. PICK j \in 0 .. n - 1 : i = at(j)
  BY <1>2
<1> HIDE DEF at, n, skipped
<1>4. j + 1 \in turns
  <2>1. SUFFICES ASSUME ~Run(j + 1) PROVE FALSE
    BY <1>1, <1>3, CapAssumption
  <2>2. turns \in SUBSET (1 .. j)
    <3>1. SUFFICES ASSUME NEW k \in 1 .. CAP, Run(k), k > j PROVE FALSE
      BY <1>1, <1>3
    <3>2. \A l \in 0 .. (j + 1) - 1 : l \in 0 .. k - 1
      BY <1>1, <1>3, <3>1
    <3>3. Run(j + 1)
      BY <3>1, <3>2
    <3> QED
      BY <2>1, <3>3
  <2> HIDE DEF turns
  <2>3. IsFiniteSet(1 .. j) /\ Cardinality(1 .. j) = j
    BY <1>1, <1>3, FS_Interval
  <2>4. Cardinality(turns) <= j
    BY <2>2, <2>3, FS_Subset
  <2> QED
    BY <1>1, <1>3, <2>4
<1>5. j \in 0 .. (j + 1) - 1
  BY <1>1, <1>3
<1> QED
  BY <1>3, <1>4, <1>5

\* The slots that Advance changes: the one that is next, or the packet's own, and the
\* Unlocked ones that follow.
LEMMA AdvanceSkips ==
    ASSUME NEW s \in SeqExState, NEW m \in Acceptable, NEW is_next \in BOOLEAN,
           NEW i \in 0 .. CAP - 1, Advance(s, m, is_next).recv_window[i] # s.recv_window[i]
    PROVE  \/ s.recv_window[i].tag = "Unlocked"
           \/ i = IF is_next THEN Idx(s.next_recv_seq_no) ELSE Idx(m.seq_no)
<1>1. CASE is_next
  <2> DEFINE a == s.next_recv_seq_no
             b == Wrap(a + 1)
             u == [s EXCEPT !.recv_window[Idx(a)] = Empty, !.next_recv_seq_no = b]
  <2>1. a \in SeqNo /\ Idx(a) \in 0 .. CAP - 1
    BY IdxType DEF SeqExState
  <2>2. b \in SeqNo
    <3>1. a + 1 \in Int
      BY <2>1, SeqNoAssumption DEF SeqNo
    <3> QED
      BY <3>1, WrapType
  <2>3. Advance(s, m, is_next) = FastForward(u)
    BY <1>1 DEF Advance
  <2> HIDE DEF b
  <2>4. u \in SeqExState /\ u.recv_window = [s.recv_window EXCEPT ![Idx(a)] = Empty]
    BY <2>1, <2>2, RecvEntryFacts DEF SeqExState
  <2> HIDE DEF u
  <2>5. CASE i # Idx(a)
    <3>1. u.recv_window[i] = s.recv_window[i]
      BY <2>4, <2>5 DEF SeqExState
    <3> QED
      BY <2>3, <2>4, <3>1, FastForwardSkips
  <2> QED
    BY <1>1, <2>5
<1>2. CASE ~is_next
  BY <1>2, AcceptableFacts, IdxType DEF Advance, SeqExState
<1> QED
  BY <1>1, <1>2

\* Accept leaves the receive window as Advance does.
LEMMA AcceptRecvWindow ==
    ASSUME NEW s \in SeqExState, NEW m \in Acceptable, NEW is_next \in BOOLEAN
    PROVE  Accept(s, m, is_next).recv_window = Advance(s, m, is_next).recv_window
<1> DEFINE u == Advance(s, m, is_next)
           issued == IssueReplyNo(u, m)
<1>1. u \in SeqExState
  BY AdvanceType
<1>2. issued.recv_window = u.recv_window
  <2> HIDE DEF u
  <2> QED
    BY <1>1 DEF IssueReplyNo, SeqExState
<1>3. Accept(s, m, is_next) = IF m.reply_no = None THEN issued ELSE TakeSend(issued, m.reply_no)
  BY DEF Accept
<1>4. issued = [u EXCEPT !.concurrent_replies = issued.concurrent_replies,
                         !.is_locked = issued.is_locked]
  <2> HIDE DEF u
  <2> QED
    BY <1>1 DEF IssueReplyNo, SeqExState
<1> HIDE DEF issued, u
<1>5. TakeSend(issued, m.reply_no).recv_window = issued.recv_window
  BY <1>1, <1>4 DEF TakeSend, SeqExState
<1> QED
  BY <1>2, <1>3, <1>5 DEF u

\* A number that has been issued is reserved.
LEMMA IssuedReserved ==
    ASSUME NEW s \in SeqExState, NEW v \in SeqExState, NEW n \in SeqNo, NEW c, Issues(s, v, n, c)
    PROVE  Reserved(v, n)
<1>1. s.concurrent_replies \in Seq(SeqNo) /\ Len(s.concurrent_replies) \in Nat
  BY DEF SeqExState
<1> QED
  BY <1>1, AppendProperties DEF Issues, Reserved

\* A sender is told to wait for a reply only if a reply number is reserved.
LEMMA WaitsForReserved ==
    ASSUME NEW s \in SeqExState, CAP > 2, IsFullInner(s, None) = "WaitingForReply"
    PROVE  \E r \in SeqNo : Reservations(s, r) > 0
<1> DEFINE cr == s.concurrent_replies
<1>1. cr \in Seq(SeqNo) /\ Len(cr) \in Nat
  BY LenProperties DEF SeqExState
<1>2. Len(cr) >= 1
  <2>1. ReservationsExhausted(s) \/ ReservedSlotBlocked(s, None)
    BY DEF IsFullInner
  <2>2. CASE ReservationsExhausted(s)
    BY <1>1, <2>2, CapAssumption DEF ReservationsExhausted
  <2>3. CASE ReservedSlotBlocked(s, None)
    BY <1>1, <2>3 DEF ReservedSlotBlocked
  <2> QED
    BY <2>1, <2>2, <2>3
<1>3. 1 \in 1 .. Len(cr) /\ cr[1] \in SeqNo
  BY <1>1, <1>2, ElementOfSeq
<1>4. Reserved(s, cr[1])
  BY <1>3 DEF Reserved
<1>5. Reservations(s, cr[1]) > 0
  BY <1>4, ReservationsType
<1> QED
  BY <1>3, <1>5
=============================================================================
