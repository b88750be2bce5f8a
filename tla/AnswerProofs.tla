---------------------------- MODULE AnswerProofs ----------------------------
(***************************************************************************)
(* Proofs about Exchange: how an exchange of packets ends.  Until a packet *)
(* is repeated, the send window of one peer and the guards and replies of  *)
(* the other always agree on who owes an answer to what.  From it: nothing *)
(* is forgotten, replies find their slots free, both ends agree, and       *)
(* Exchange implements Channel.                                            *)
(***************************************************************************)
EXTENDS OrderProofs

----------------------------------------------------------------------------
(* What is in the send window.                                             *)

Flying(w) == {w[i].data : i \in {j \in 0 .. CAP - 1 : w[j] # None}}

\* A packet in the send window is in the slot of its own number, where take_send finds it.
LEMMA FlyingSlot ==
    ASSUME NEW s, Windows(s), NEW sn, Len(sn) \in Nat, Len(sn) <= Half, NEW packets,
           Numbered(sn, s, packets), NEW d \in 1 .. Half
    PROVE  LET e == s.send_window[Idx(Num(d))]
           IN  /\ Num(d) \in SeqNo /\ Idx(Num(d)) \in 0 .. CAP - 1
               /\ d \in Flying(s.send_window) =>
                    /\ e # None /\ e.data = d /\ e.seq_no = Num(d)
                    /\ SentEntry(s, Num(d)) = e
               /\ d \notin Flying(s.send_window) => SentEntry(s, Num(d)) = None
               /\ \A i \in 0 .. CAP - 1 :
                    s.send_window[i] # None /\ s.send_window[i].data = d => i = Idx(Num(d))
<1> DEFINE w == s.send_window
           k == Idx(Num(d))
<1>1. /\ \A i \in 0 .. CAP - 1 : w[i] # None => Idx(w[i].seq_no) = i
      /\ \A i \in 0 .. CAP - 1 : w[i] # None => Made(sn, w[i])
  BY DEF Windows, SendSlots, Numbered
<1>2. d \in 1 .. Half + CAP /\ Num(d) \in SeqNo /\ k \in 0 .. CAP - 1
  <2>1. d \in 1 .. Half + CAP
    BY HalfFacts
  <2> QED
    BY <2>1, NumInjective, IdxType
<1>3. ASSUME NEW i \in 0 .. CAP - 1, w[i] # None
      PROVE  w[i].seq_no = Num(w[i].data) /\ w[i].data \in 1 .. Half + CAP
  <2>1. w[i].seq_no = Num(w[i].data) /\ w[i].data \in 1 .. Len(sn)
    BY <1>1, <1>3 DEF Made
  <2> QED
    BY <2>1, HalfFacts
<1> HIDE DEF w
<1>4. ASSUME NEW i \in 0 .. CAP - 1, w[i] # None, w[i].data = d PROVE i = k
  BY <1>1, <1>3, <1>4
<1>5. ASSUME d \in Flying(w)
      PROVE  w[k] # None /\ w[k].data = d /\ w[k].seq_no = Num(d) /\ SentEntry(s, Num(d)) = w[k]
  <2>1. PICK i \in 0 .. CAP - 1 : w[i] # None /\ w[i].data = d
    BY <1>5 DEF Flying
  <2>2. w[k] # None /\ w[k].data = d
    BY <1>4, <2>1
  <2>3. w[k].seq_no = Num(d)
    BY <1>2, <1>3, <2>2
  <2> QED
    BY <2>2, <2>3 DEF SentEntry, w
<1>6. ASSUME d \notin Flying(w) PROVE SentEntry(s, Num(d)) = None
  <2>1. SUFFICES ASSUME w[k] # None, w[k].seq_no = Num(d) PROVE FALSE
    BY DEF SentEntry, w
  <2>2. w[k].data = d
    BY <1>2, <1>3, <2>1, NumInjective
  <2> QED
    BY <1>2, <1>6, <2>1, <2>2 DEF Flying
<1> QED
  BY <1>2, <1>4, <1>5, <1>6 DEF w

\* take_send takes the packet with that number out of the window, and nothing else.
LEMMA FlyingTaken ==
    ASSUME NEW s, Windows(s), NEW sn, Len(sn) \in Nat, Len(sn) <= Half, NEW packets,
           Numbered(sn, s, packets), NEW d \in 1 .. Half
    PROVE  /\ Flying(TakeSend(s, Num(d)).send_window) = Flying(s.send_window) \ {d}
           /\ TakenData(s, Num(d)) = IF d \in Flying(s.send_window) THEN d ELSE None
           /\ d \in Flying(s.send_window) =>
                TakeSend(s, Num(d)).send_window = [s.send_window EXCEPT ![Idx(Num(d))] = None]
<1> DEFINE w == s.send_window
           k == Idx(Num(d))
           v == TakeSend(s, Num(d)).send_window
<1>1. /\ Num(d) \in SeqNo /\ k \in 0 .. CAP - 1 /\ Num(d) # None
      /\ d \in Flying(w) => w[k] # None /\ w[k].data = d /\ SentEntry(s, Num(d)) = w[k]
      /\ d \notin Flying(w) => SentEntry(s, Num(d)) = None
      /\ \A i \in 0 .. CAP - 1 : w[i] # None /\ w[i].data = d => i = k
  BY FlyingSlot, NoneAssumption
<1>2. s \in SeqExState /\ w \in [0 .. CAP - 1 -> SendEntry \cup {None}]
  BY DEF Windows, SeqExState
<1>3. CASE d \in Flying(w)
  <2>1. v = [w EXCEPT ![k] = None]
    BY <1>1, <1>2, <1>3 DEF TakeSend, SeqExState
  <2> HIDE DEF v, w, k
  <2>2. \A i \in 0 .. CAP - 1 : v[i] = IF i = k THEN None ELSE w[i]
    BY <1>2, <2>1
  <2>3. Flying(v) = Flying(w) \ {d}
    BY <1>1, <1>3, <2>2 DEF Flying
  <2>4. TakenData(s, Num(d)) = d
    BY <1>1, <1>3 DEF TakenData
  <2> QED
    BY <1>3, <2>1, <2>3, <2>4 DEF v, w, k
<1>4. CASE d \notin Flying(w)
  <2>1. v = w /\ TakenData(s, Num(d)) = None
    BY <1>1, <1>4 DEF TakeSend, TakenData
  <2> QED
    BY <1>4, <2>1
<1> QED
  BY <1>3, <1>4

\* A packet put into a free slot joins the others.
LEMMA FlyingFills ==
    ASSUME NEW s \in SeqExState, NEW v, NEW e, Fills(s, v, e), e # None,
           s.send_window[Idx(s.next_send_seq_no)] = None
    PROVE  Flying(v.send_window) = Flying(s.send_window) \cup {e.data}
<1> DEFINE w == s.send_window
           u == v.send_window
           k == Idx(s.next_send_seq_no)
<1>1. u = [w EXCEPT ![k] = e] /\ w \in [0 .. CAP - 1 -> SendEntry \cup {None}] /\ w[k] = None
  BY DEF Fills, SeqExState
<1>2. k \in 0 .. CAP - 1
  BY IdxType DEF SeqExState
<1> HIDE DEF w, u, k
<1>3. \A i \in 0 .. CAP - 1 : u[i] = IF i = k THEN e ELSE w[i]
  BY <1>1, <1>2
<1>4. Flying(u) = Flying(w) \cup {e.data}
  <2>1. e.data \in Flying(u)
    BY <1>2, <1>3 DEF Flying
  <2>2. \A d \in Flying(w) : d \in Flying(u)
    BY <1>1, <1>3 DEF Flying
  <2>3. \A d \in Flying(u) : d \in Flying(w) \/ d = e.data
    BY <1>3 DEF Flying
  <2> QED
    BY <2>1, <2>2, <2>3
<1> QED
  BY <1>4 DEF w, u

LEMMA FlyingSame ==
    ASSUME NEW w, NEW v, SameEntries(w, v)
    PROVE  Flying(v) = Flying(w)
BY DEF SameEntries, Flying

----------------------------------------------------------------------------
(* The slots of the next replies.                                          *)

NextSlot(s, i) == s.send_window[Idx(Wrap(s.next_send_seq_no + i))]

\* One slot is free for each reply number issued, from the next one on.
SlotsFree(s) == \A i \in 0 .. Len(s.concurrent_replies) - 1 : NextSlot(s, i) = None

\* The next CAP slots are distinct, and each follows the one before it.
LEMMA NextSlots ==
    ASSUME NEW n \in SeqNo, NEW i \in 0 .. CAP - 1
    PROVE  /\ Wrap(n + 0) = n
           /\ Wrap(Wrap(n + 1) + i) = Wrap(n + (i + 1)) /\ Wrap(n + i) \in SeqNo
           /\ Idx(Wrap(n + i)) \in 0 .. CAP - 1
           /\ i # 0 => Idx(Wrap(n + i)) # Idx(n)
<1>1. i \in 0 .. CAP /\ 1 \in 0 .. CAP /\ 0 \in 0 .. CAP - 1 /\ 1 + i = i + 1
  BY HalfFacts
<1>2. Wrap(n + 0) = n
  <2>1. n \in Int /\ 0 <= n /\ n < SeqNoMod /\ n + 0 = n
    BY HalfFacts DEF SeqNo
  <2> QED
    BY <2>1, HalfFacts, WrapOnce
<1>3. Wrap(Wrap(n + 1) + i) = Wrap(n + (1 + i)) /\ Wrap(n + i) \in SeqNo /\ Wrap(Wrap(n + i) - n) = i
  BY <1>1, WrapTwice
<1>4. Idx(Wrap(n + i)) \in 0 .. CAP - 1
  BY <1>3, IdxType
<1>5. ASSUME Idx(Wrap(n + i)) = Idx(n) PROVE i = 0
  <2>1. Wrap(n - n) = 0
    BY NextNumber
  <2>2. Wrap(n + i) = n
    BY <1>1, <1>3, <1>5, <2>1, SlotUnique
  <2> QED
    BY <1>3, <2>1, <2>2
<1> QED
  BY <1>1, <1>2, <1>3, <1>4, <1>5

\* What is_full_inner grants: the next slot, and one for each reply number; a packet that
\* replies to one of ours may count on the slot it frees.
LEMMA GrantedSlots ==
    ASSUME NEW s \in SeqExState, NEW r, IsFullInner(s, r) = "Ok",
           NEW i \in 0 .. Len(s.concurrent_replies)
    PROVE  /\ Len(s.concurrent_replies) \in Nat /\ Len(s.concurrent_replies) < CAP - 2
           /\ NextSlot(s, i) # None =>
                r # None /\ Idx(Wrap(s.next_send_seq_no + i)) = Idx(r)
<1> DEFINE n == Len(s.concurrent_replies)
<1>1. n \in Nat
  BY DEF SeqExState
<1>2. /\ ~ReservationsExhausted(s) /\ ~SlotBlocked(s, 0, r) /\ ~ReservedSlotBlocked(s, r)
  BY DEF IsFullInner
<1>3. n < CAP - 2
  BY <1>1, <1>2, HalfFacts DEF ReservationsExhausted
<1>4. ~SlotBlocked(s, i, r)
  <2>1. i = 0 \/ i \in 1 .. n
    BY <1>1
  <2> QED
    BY <1>2, <2>1 DEF ReservedSlotBlocked
<1> QED
  BY <1>1, <1>3, <1>4 DEF SlotBlocked, NextSlot

\* A packet was put into the next slot: the slots behind it are the next ones now.
LEMMA FilledSlots ==
    ASSUME NEW s \in SeqExState, NEW v, NEW e, Fills(s, v, e), NEW i \in 0 .. CAP - 2
    PROVE  NextSlot(v, i) = NextSlot(s, i + 1)
<1> DEFINE n == s.next_send_seq_no
           k == Idx(Wrap(n + (i + 1)))
<1>1. /\ n \in SeqNo /\ i \in 0 .. CAP - 1 /\ i + 1 \in 0 .. CAP - 1 /\ i + 1 # 0
      /\ v.send_window = [s.send_window EXCEPT ![Idx(n)] = e]
      /\ v.next_send_seq_no = Wrap(n + 1)
      /\ s.send_window \in [0 .. CAP - 1 -> SendEntry \cup {None}]
  BY HalfFacts DEF SeqExState, Fills
<1>2. k \in 0 .. CAP - 1 /\ k # Idx(n) /\ Wrap(Wrap(n + 1) + i) = Wrap(n + (i + 1))
  BY <1>1, NextSlots
<1> HIDE DEF n
<1>3. v.send_window[k] = s.send_window[k]
  BY <1>1, <1>2
<1> QED
  BY <1>1, <1>2, <1>3 DEF NextSlot, n

\* try_send: the slots that are promised were free as well.
LEMMA SendSlotsFree ==
    ASSUME NEW s \in SeqExState, CanSend(s), NEW v, NEW e, Fills(s, v, e),
           v.concurrent_replies = s.concurrent_replies
    PROVE  SlotsFree(v) /\ s.send_window[Idx(s.next_send_seq_no)] = None
<1> DEFINE n == Len(s.concurrent_replies)
<1>1. n \in Nat /\ n < CAP - 2 /\ \A i \in 0 .. n : NextSlot(s, i) = None
  <2>1. Len(s.concurrent_replies) \in Nat
    BY DEF SeqExState
  <2>2. 0 \in 0 .. n
    BY <2>1
  <2> QED
    BY <2>2, GrantedSlots DEF CanSend
<1>2. s.send_window[Idx(s.next_send_seq_no)] = None
  <2>1. 0 \in 0 .. n /\ 0 \in 0 .. CAP - 1 /\ s.next_send_seq_no \in SeqNo
    BY <1>1, HalfFacts DEF SeqExState
  <2>2. Wrap(s.next_send_seq_no + 0) = s.next_send_seq_no
    BY <2>1, NextSlots
  <2> QED
    BY <1>1, <2>1, <2>2 DEF NextSlot
<1>3. ASSUME NEW i \in 0 .. n - 1 PROVE NextSlot(v, i) = None
  <2>1. i \in 0 .. CAP - 2 /\ i + 1 \in 0 .. n
    BY <1>1, HalfFacts
  <2> QED
    BY <1>1, <2>1, FilledSlots
<1> QED
  BY <1>2, <1>3 DEF SlotsFree

\* reply: one promise less, and it was kept.
LEMMA ReplySlotsKept ==
    ASSUME NEW s \in SeqExState, SlotsFree(s), NEW r \in SeqNo, Reserved(s, r),
           Len(s.concurrent_replies) <= CAP - 2, NEW v, NEW e, Fills(s, v, e),
           v.concurrent_replies = RemoveReservation(s, r).concurrent_replies
    PROVE  SlotsFree(v) /\ s.send_window[Idx(s.next_send_seq_no)] = None
<1> DEFINE n == Len(s.concurrent_replies)
<1>1. /\ n \in Nat /\ n >= 1 /\ n <= CAP - 2 /\ Len(v.concurrent_replies) = n - 1
      /\ \A i \in 0 .. n - 1 : NextSlot(s, i) = None
  <2>1. n \in Nat
    BY DEF SeqExState
  <2>2. Len(RemoveReservation(s, r).concurrent_replies) = n - 1
    BY RemoveReservationFacts
  <2>3. n >= 1
    BY <2>1 DEF Reserved
  <2> QED
    BY <2>1, <2>2, <2>3 DEF SlotsFree
<1> HIDE DEF n
<1>2. s.send_window[Idx(s.next_send_seq_no)] = None
  <2>1. 0 \in 0 .. n - 1 /\ 0 \in 0 .. CAP - 1 /\ s.next_send_seq_no \in SeqNo
    BY <1>1, HalfFacts DEF SeqExState
  <2>2. Wrap(s.next_send_seq_no + 0) = s.next_send_seq_no
    BY <2>1, NextSlots
  <2> QED
    BY <1>1, <2>1, <2>2 DEF NextSlot
<1>3. ASSUME NEW i \in 0 .. (n - 1) - 1 PROVE NextSlot(v, i) = None
  <2>1. i \in 0 .. CAP - 2 /\ i + 1 \in 0 .. n - 1
    BY <1>1, HalfFacts
  <2> QED
    BY <1>1, <2>1, FilledSlots
<1> QED
  BY <1>1, <1>2, <1>3 DEF SlotsFree

\* Entries left the send window, and no number was issued.
LEMMA ShrunkSlotsFree ==
    ASSUME NEW s \in SeqExState, SlotsFree(s), NEW v, Shrunk(s.send_window, v.send_window),
           v.next_send_seq_no = s.next_send_seq_no, NEW n \in Nat,
           n <= Len(s.concurrent_replies), Len(v.concurrent_replies) = n,
           Len(s.concurrent_replies) <= CAP - 2
    PROVE  SlotsFree(v)
<1>1. SUFFICES ASSUME NEW i \in 0 .. n - 1 PROVE NextSlot(v, i) = None
  BY DEF SlotsFree
<1>2. Len(s.concurrent_replies) \in Nat /\ s.next_send_seq_no \in SeqNo
  BY DEF SeqExState
<1>3. i \in 0 .. CAP - 1 /\ i \in 0 .. Len(s.concurrent_replies) - 1
  <2> DEFINE L == Len(s.concurrent_replies)
  <2>1. /\ i \in 0 .. n - 1 /\ n \in Nat /\ n <= L /\ L <= CAP - 2
        /\ CAP \in Nat /\ L \in Nat
    BY <1>1, <1>2, CapAssumption
  <2> HIDE DEF L
  <2>2. i \in 0 .. CAP - 1 /\ i \in 0 .. L - 1
    BY ONLY <2>1
  <2> QED
    BY <2>2 DEF L
<1>4. Idx(Wrap(s.next_send_seq_no + i)) \in 0 .. CAP - 1
  BY <1>2, <1>3, NextSlots
<1> QED
  BY <1>3, <1>4 DEF SlotsFree, NextSlot, Shrunk

\* A packet is handed over: if it answers one of ours, the slot that is_full_inner counted on
\* was really freed.
LEMMA AcceptSlotsFree ==
    ASSUME NEW s, Windows(s), NEW sn, Len(sn) \in Nat, Len(sn) <= Half, NEW packets,
           Numbered(sn, s, packets), NEW m, NEW is_next, Handable(s, m, is_next),
           m.reply_no # None =>
                \E d \in 1 .. Half : m.reply_no = Num(d) /\ d \in Flying(s.send_window)
    PROVE  SlotsFree(Accept(s, m, is_next))
<1> DEFINE v == Accept(s, m, is_next)
           n == Len(s.concurrent_replies)
           r == m.reply_no
<1>1. /\ s \in SeqExState /\ s.next_send_seq_no \in SeqNo
      /\ s.concurrent_replies \in Seq(SeqNo) /\ n \in Nat /\ IsFullInner(s, r) = "Ok"
      /\ m.seq_no \in SeqNo /\ s.send_window \in [0 .. CAP - 1 -> SendEntry \cup {None}]
  BY AcceptableFacts DEF Windows, SeqExState, Handable
<1>2. /\ v.next_send_seq_no = s.next_send_seq_no /\ v.send_window = TakenWindow(s, r)
      /\ v.concurrent_replies = Append(s.concurrent_replies, m.seq_no)
      /\ Shrunk(s.send_window, v.send_window)
  BY AcceptSides
<1> HIDE DEF v
<1>3. Len(v.concurrent_replies) = n + 1
  BY <1>1, <1>2, AppendProperties
<1>4. SUFFICES ASSUME NEW i \in 0 .. n PROVE NextSlot(v, i) = None
  BY <1>1, <1>3 DEF SlotsFree, v
<1> DEFINE k == Idx(Wrap(s.next_send_seq_no + i))
<1>5. n < CAP - 2 /\ (s.send_window[k] # None => r # None /\ k = Idx(r))
  BY <1>1, GrantedSlots DEF NextSlot
<1>6. k \in 0 .. CAP - 1
  <2>1. i \in 0 .. CAP - 1
    BY <1>1, <1>5, HalfFacts
  <2> QED
    BY <1>1, <2>1, NextSlots
<1> HIDE DEF k, r
<1>7. v.send_window[k] = None
  <2>1. CASE s.send_window[k] = None
    BY <1>2, <1>6, <2>1 DEF Shrunk
  <2>2. CASE s.send_window[k] # None
    <3>1. PICK d \in 1 .. Half : r = Num(d) /\ d \in Flying(s.send_window)
      BY <1>5, <2>2 DEF r
    <3>2. TakeSend(s, Num(d)).send_window = [s.send_window EXCEPT ![Idx(Num(d))] = None]
      BY <3>1, FlyingTaken
    <3>3. v.send_window = [s.send_window EXCEPT ![k] = None]
      BY <1>2, <1>5, <2>2, <3>1, <3>2 DEF TakenWindow
    <3> QED
      BY <1>1, <1>6, <3>3
  <2> QED
    BY <2>1, <2>2
<1> QED
  BY <1>2, <1>7 DEF NextSlot, k

----------------------------------------------------------------------------
(* The exchanges that one peer started, at both ends.                      *)

\* A packet that was handed over, and that nobody will answer or has answered.
Done(T, seen, open, d) ==
    /\ d \in seen /\ d \notin open
    /\ \A k \in 1 .. Len(T) : T[k].reply_to # d

\* The first n packets of a peer, of which those in F are in its send window.  The other peer
\* has seen some and holds guards of those in open; T is what it sent, of which the replies in
\* back have arrived.  acks are on their way, and ac are the exchanges that ended with an Ack.
Paired(n, F, T, seen, open, back, acks, ac) ==
    /\ \A d \in 1 .. n : d \in F \/ d \in seen
    /\ open \subseteq F /\ open \subseteq seen
    /\ \A k \in 1 .. Len(T) : T[k].reply_to # None =>
            /\ T[k].reply_to \in seen /\ T[k].reply_to \notin open
            /\ T[k].reply_to \in F <=> k \notin back
    /\ \A k, l \in 1 .. Len(T) : T[k].reply_to # None /\ T[k].reply_to = T[l].reply_to => k = l
    /\ \A m \in acks : m.type = "Ack" =>
            \E d \in 1 .. n : m.reply_no = Num(d) /\ (d \in F => Done(T, seen, open, d))
    /\ \A d \in ac : Done(T, seen, open, d)

\* One more packet is sent.
LEMMA PairedSends ==
    ASSUME NEW n \in Nat, NEW F, NEW T, NEW seen, NEW open, NEW back, NEW acks, NEW ac,
           Paired(n, F, T, seen, open, back, acks, ac), seen \subseteq 1 .. n
    PROVE  Paired(n + 1, F \cup {n + 1}, T, seen, open, back, acks, ac)
<1> DEFINE G == F \cup {n + 1}
<1>1. \A d : d \in 1 .. n + 1 <=> d \in 1 .. n \/ d = n + 1
  OBVIOUS
<1>2. n + 1 \notin 1 .. n
  OBVIOUS
<1>3. \A d \in 1 .. n : d \in G <=> d \in F
  BY <1>2
<1>4. n + 1 \in G /\ F \subseteq G
  OBVIOUS
<1> HIDE DEF G
<1>5. \A d \in 1 .. n + 1 : d \in G \/ d \in seen
  BY <1>1, <1>3, <1>4 DEF Paired
<1>6. \A k \in 1 .. Len(T) : T[k].reply_to # None => (T[k].reply_to \in G <=> k \notin back)
  BY <1>3 DEF Paired
<1>7. ASSUME NEW m \in acks, m.type = "Ack"
      PROVE  \E d \in 1 .. n + 1 : m.reply_no = Num(d) /\ (d \in G => Done(T, seen, open, d))
  <2>1. PICK d \in 1 .. n : m.reply_no = Num(d) /\ (d \in F => Done(T, seen, open, d))
    BY <1>7 DEF Paired
  <2> QED
    BY <1>1, <1>3, <2>1
<1> QED
  BY <1>4, <1>5, <1>6, <1>7 DEF Paired, G

\* Packet e of the other peer arrives.  The packet it replies to leaves the send window.
LEMMA PairedAnswered ==
    ASSUME NEW n, NEW F, NEW T, NEW seen, NEW open, NEW back, NEW acks, NEW ac,
           Paired(n, F, T, seen, open, back, acks, ac), None \notin F, NEW e \in 1 .. Len(T)
    PROVE  Paired(n, F \ {T[e].reply_to}, T, seen, open, back \cup {e}, acks, ac)
<1> DEFINE d == T[e].reply_to
           G == F \ {d}
           b == back \cup {e}
<1>1. CASE d = None
  <2>1. G = F
    BY <1>1
  <2>2. \A k \in 1 .. Len(T) : T[k].reply_to # None => (k \in b <=> k \in back)
    BY <1>1
  <2> HIDE DEF G, b
  <2> QED
    BY <2>1, <2>2 DEF Paired, G, b
<1>2. CASE d # None
  <2>1. d \in seen /\ d \notin open
    BY <1>2 DEF Paired
  <2>2. \A k \in 1 .. Len(T) : T[k].reply_to # None =>
            (T[k].reply_to \in G <=> k \notin b)
    <3>1. SUFFICES ASSUME NEW k \in 1 .. Len(T), T[k].reply_to # None
                   PROVE  T[k].reply_to \in G <=> k \notin b
      OBVIOUS
    <3>2. T[k].reply_to = d <=> k = e
      BY <1>2, <3>1 DEF Paired
    <3>3. T[k].reply_to \in F <=> k \notin back
      BY <3>1 DEF Paired
    <3> QED
      BY <3>2, <3>3
  <2>3. /\ \A f \in 1 .. n : f \in G \/ f \in seen
        /\ open \subseteq G
        /\ G \subseteq F
    BY <2>1 DEF Paired
  <2> HIDE DEF G, b, d
  <2>4. ASSUME NEW m \in acks, m.type = "Ack"
        PROVE  \E f \in 1 .. n : m.reply_no = Num(f) /\ (f \in G => Done(T, seen, open, f))
    <3>1. PICK f \in 1 .. n : m.reply_no = Num(f) /\ (f \in F => Done(T, seen, open, f))
      BY <2>4 DEF Paired
    <3> QED
      BY <2>3, <3>1
  <2> QED
    BY <2>2, <2>3, <2>4 DEF Paired, G, b, d
<1> QED
  BY <1>1, <1>2

\* An Ack for packet d arrives.
LEMMA PairedAcked ==
    ASSUME NEW n, NEW F, NEW T, NEW seen, NEW open, NEW back, NEW acks, NEW ac,
           Paired(n, F, T, seen, open, back, acks, ac),
           NEW d \in F, Done(T, seen, open, d)
    PROVE  Paired(n, F \ {d}, T, seen, open, back, acks, ac \cup {d})
<1> DEFINE G == F \ {d}
<1>1. d \in seen /\ d \notin open /\ \A k \in 1 .. Len(T) : T[k].reply_to # d
  BY DEF Done
<1>2. /\ \A f \in 1 .. n : f \in G \/ f \in seen
      /\ open \subseteq G
      /\ G \subseteq F
      /\ \A k \in 1 .. Len(T) : T[k].reply_to # None =>
            (T[k].reply_to \in G <=> k \notin back)
  BY <1>1 DEF Paired
<1>3. \A f \in ac \cup {d} : Done(T, seen, open, f)
  BY DEF Paired
<1> HIDE DEF G
<1>4. ASSUME NEW m \in acks, m.type = "Ack"
      PROVE  \E f \in 1 .. n : m.reply_no = Num(f) /\ (f \in G => Done(T, seen, open, f))
  <2>1. PICK f \in 1 .. n : m.reply_no = Num(f) /\ (f \in F => Done(T, seen, open, f))
    BY <1>4 DEF Paired
  <2> QED
    BY <1>2, <2>1
<1> QED
  BY <1>2, <1>3, <1>4 DEF Paired, G

\* The other peer sends packet x: a payload, or the reply to a packet whose guard it gives up.
LEMMA PairedReplies ==
    ASSUME NEW n, NEW F, NEW T \in Seq(Sent), NEW seen, NEW open, NEW back, NEW acks, NEW ac,
           Paired(n, F, T, seen, open, back, acks, ac), back \subseteq 1 .. Len(T),
           None \notin seen,
           NEW x \in Sent, x.reply_to # None => x.reply_to \in open,
           NEW still, still = open \ {x.reply_to}
    PROVE  Paired(n, F, Append(T, x), seen, still, back, acks, ac)
<1> DEFINE U == Append(T, x)
           l == Len(T) + 1
           e == x.reply_to
<1>1. /\ Len(T) \in Nat /\ Len(U) = l /\ U[l] = x
      /\ \A k \in 1 .. Len(T) : U[k] = T[k]
  BY SentAppend
<1>2. \A k \in 1 .. l : k \in 1 .. Len(T) \/ k = l
  BY <1>1
<1>3. l \notin 1 .. Len(T)
  BY <1>1
<1> HIDE DEF U, l
<1>4. \A k \in 1 .. Len(T) : T[k].reply_to # None => T[k].reply_to # e
  BY DEF Paired
<1>5. ASSUME NEW k \in 1 .. Len(U), U[k].reply_to # None
      PROVE  /\ U[k].reply_to \in seen /\ U[k].reply_to \notin still
             /\ U[k].reply_to \in F <=> k \notin back
  <2>1. CASE k = l
    <3>1. U[k].reply_to = e /\ e \in open /\ e \in seen /\ e \in F /\ k \notin back
      BY <1>1, <1>3, <1>5, <2>1 DEF Paired
    <3> QED
      BY <3>1
  <2>2. CASE k \in 1 .. Len(T)
    <3>1. U[k] = T[k]
      BY <1>1, <2>2
    <3> QED
      BY <1>5, <2>2, <3>1 DEF Paired
  <2> QED
    BY <1>1, <1>2, <2>1, <2>2
<1>6. ASSUME NEW j \in 1 .. Len(U), NEW k \in 1 .. Len(U), U[j].reply_to # None,
             U[j].reply_to = U[k].reply_to
      PROVE  j = k
  <2>1. CASE j \in 1 .. Len(T) /\ k \in 1 .. Len(T)
    BY <1>1, <1>6, <2>1 DEF Paired
  <2>2. CASE j = l /\ k \in 1 .. Len(T)
    BY <1>1, <1>4, <1>6, <2>2
  <2>3. CASE k = l /\ j \in 1 .. Len(T)
    BY <1>1, <1>4, <1>6, <2>3
  <2> QED
    BY <1>1, <1>2, <2>1, <2>2, <2>3
<1>7. ASSUME NEW d, Done(T, seen, open, d) PROVE Done(U, seen, still, d)
  <2>1. d \in seen /\ d \notin open /\ d # e
    BY <1>7 DEF Done, Paired
  <2>2. \A k \in 1 .. Len(U) : U[k].reply_to # d
    <3> SUFFICES ASSUME NEW k \in 1 .. Len(U), U[k].reply_to = d PROVE FALSE
      OBVIOUS
    <3>1. CASE k = l
      BY <1>1, <2>1, <3>1
    <3>2. CASE k \in 1 .. Len(T)
      BY <1>1, <1>7, <3>2 DEF Done
    <3> QED
      BY <1>1, <1>2, <3>1, <3>2
  <2> QED
    BY <2>1, <2>2 DEF Done
<1>8. ASSUME NEW m \in acks, m.type = "Ack"
      PROVE  \E d \in 1 .. n : m.reply_no = Num(d) /\ (d \in F => Done(U, seen, still, d))
  <2>1. PICK d \in 1 .. n : m.reply_no = Num(d) /\ (d \in F => Done(T, seen, open, d))
    BY <1>8 DEF Paired
  <2> QED
    BY <1>7, <2>1
<1>9. \A d \in ac : Done(U, seen, still, d)
  BY <1>7 DEF Paired
<1>10. still \subseteq F /\ still \subseteq seen /\ \A d \in 1 .. n : d \in F \/ d \in seen
  BY DEF Paired
<1> QED
  BY <1>5, <1>6, <1>8, <1>9, <1>10 DEF Paired, U

\* Packet e is handed over at the other end.
LEMMA PairedDelivered ==
    ASSUME NEW n, NEW F, NEW T, NEW seen, NEW open, NEW back, NEW acks, NEW ac,
           Paired(n, F, T, seen, open, back, acks, ac), NEW e \in 1 .. n, e \notin seen
    PROVE  Paired(n, F, T, seen \cup {e}, open \cup {e}, back, acks, ac)
<1>1. e \in F
  BY DEF Paired
<1>2. ASSUME NEW d, Done(T, seen, open, d) PROVE Done(T, seen \cup {e}, open \cup {e}, d)
  BY <1>2 DEF Done
<1>3. ASSUME NEW m \in acks, m.type = "Ack"
      PROVE  \E d \in 1 .. n : /\ m.reply_no = Num(d)
                             /\ d \in F => Done(T, seen \cup {e}, open \cup {e}, d)
  <2>1. PICK d \in 1 .. n : m.reply_no = Num(d) /\ (d \in F => Done(T, seen, open, d))
    BY <1>3 DEF Paired
  <2> QED
    BY <1>2, <2>1
<1>4. \A k \in 1 .. Len(T) : T[k].reply_to # None => T[k].reply_to \notin open \cup {e}
  BY DEF Paired
<1> QED
  BY <1>1, <1>2, <1>3, <1>4 DEF Paired

\* The guard of packet e is given up with an Ack.
LEMMA PairedGivenUp ==
    ASSUME NEW n, NEW F, NEW T, NEW seen, NEW open, NEW back, NEW acks, NEW ac,
           Paired(n, F, T, seen, open, back, acks, ac), NEW e \in 1 .. n, e \in open, e # None
    PROVE  Paired(n, F, T, seen, open \ {e}, back, acks \cup {Ack(Num(e))}, ac)
<1>1. Done(T, seen, open \ {e}, e)
  BY DEF Paired, Done
<1>2. ASSUME NEW d, Done(T, seen, open, d) PROVE Done(T, seen, open \ {e}, d)
  BY <1>2 DEF Done
<1>3. Ack(Num(e)).reply_no = Num(e)
  BY DEF Ack
<1>4. ASSUME NEW m \in acks \cup {Ack(Num(e))}, m.type = "Ack"
      PROVE  \E d \in 1 .. n : m.reply_no = Num(d) /\ (d \in F => Done(T, seen, open \ {e}, d))
  <2>1. CASE m \in acks
    <3>1. PICK d \in 1 .. n : m.reply_no = Num(d) /\ (d \in F => Done(T, seen, open, d))
      BY <1>4, <2>1 DEF Paired
    <3> QED
      BY <1>2, <3>1
  <2>2. CASE m = Ack(Num(e))
    BY <1>1, <1>3, <2>2
  <2> QED
    BY <2>1, <2>2
<1> QED
  BY <1>2, <1>4 DEF Paired

\* More packets are on their way: each of the Acks is of an exchange that is done.
LEMMA PairedMore ==
    ASSUME NEW n, NEW F, NEW T, NEW seen, NEW open, NEW back, NEW acks, NEW ac,
           Paired(n, F, T, seen, open, back, acks, ac), NEW more,
           \A m \in more : m.type = "Ack" => m \in acks \/
                \E d \in 1 .. n : m.reply_no = Num(d) /\ (d \in F => Done(T, seen, open, d))
    PROVE  Paired(n, F, T, seen, open, back, more, ac)
BY DEF Paired

----------------------------------------------------------------------------
(* What the guards of a peer stand for, and the links it was given.        *)

OpenIn(gs, dl) == {dl[g.ord].data : g \in gs}

\* A guard is issued with a delivery.
LEMMA OpenIssued ==
    ASSUME NEW s, NEW gs, NEW lg, NEW dl, Guarded(s, gs, lg, dl), NEW x \in Delivered,
           NEW n \in SeqNo, NEW c \in BOOLEAN
    PROVE  OpenIn(gs \cup {Guard(n, c, Len(dl) + 1)}, Append(dl, x)) = OpenIn(gs, dl) \cup {x.data}
<1> DEFINE g == Guard(n, c, Len(dl) + 1)
           dl2 == Append(dl, x)
<1>1. dl \in Seq(Delivered) /\ \A h \in gs : h.ord \in 1 .. Len(dl)
  BY DEF Guarded
<1>2. /\ Len(dl) \in Nat /\ \A i \in 1 .. Len(dl) : dl2[i] = dl[i]
      /\ dl2[Len(dl) + 1] = x
  BY <1>1, AppendProperties
<1>3. g.ord = Len(dl) + 1
  BY <1>2, GuardFacts
<1> HIDE DEF g, dl2
<1>4. dl2[g.ord].data = x.data /\ \A h \in gs : dl2[h.ord].data = dl[h.ord].data
  BY <1>1, <1>2, <1>3
<1> QED
  BY <1>4 DEF OpenIn, g, dl2

\* A guard is consumed.
LEMMA OpenConsumed ==
    ASSUME NEW s, NEW gs, NEW lg, NEW dl, Guarded(s, gs, lg, dl), Once(dl), NEW g \in gs
    PROVE  OpenIn(gs \ {g}, dl) = OpenIn(gs, dl) \ {dl[g.ord].data}
<1>1. ASSUME NEW h \in gs, dl[h.ord].data = dl[g.ord].data PROVE h = g
  <2>1. h.ord \in DOMAIN dl /\ g.ord \in DOMAIN dl
    BY DEF Guarded
  <2>2. h.ord = g.ord
    BY <1>1, <2>1 DEF Once
  <2> QED
    BY <2>2 DEF Guarded
<1> QED
  BY <1>1 DEF OpenIn

\* A guard gives up the lock only.
LEMMA OpenUnlocked ==
    ASSUME NEW gs \in SUBSET ReplyGuard, NEW dl, NEW g \in gs
    PROVE  OpenIn((gs \ {g}) \cup {[g EXCEPT !.is_holding_lock = FALSE]}, dl) = OpenIn(gs, dl)
<1> DEFINE h == [g EXCEPT !.is_holding_lock = FALSE]
<1>1. h.ord = g.ord
  BY DEF ReplyGuard
<1> HIDE DEF h
<1>2. \A d \in OpenIn(gs, dl) : d \in OpenIn((gs \ {g}) \cup {h}, dl)
  BY <1>1 DEF OpenIn
<1>3. \A d \in OpenIn((gs \ {g}) \cup {h}, dl) : d \in OpenIn(gs, dl)
  BY <1>1 DEF OpenIn
<1> QED
  BY <1>2, <1>3 DEF h

\* What was handed over came with the packet it replies to.
Linked(sn, dl) == \A i \in DOMAIN dl : dl[i].link = sn[dl[i].data].reply_to

LEMMA LinkedSent ==
    ASSUME NEW sn \in Seq(Sent), NEW x \in Sent, NEW dl, SeenIn(dl) \subseteq 1 .. Len(sn),
           Linked(sn, dl)
    PROVE  Linked(Append(sn, x), dl)
<1>1. ASSUME NEW i \in DOMAIN dl PROVE Append(sn, x)[dl[i].data] = sn[dl[i].data]
  <2>1. dl[i].data \in 1 .. Len(sn)
    BY DEF SeenIn
  <2> QED
    BY <2>1, SentAppend
<1> HIDE DEF SeenIn
<1> QED
  BY <1>1 DEF Linked

LEMMA LinkedDelivered ==
    ASSUME NEW sn, NEW dl \in Seq(Delivered), Linked(sn, dl), NEW x \in Delivered,
           x.link = sn[x.data].reply_to
    PROVE  Linked(sn, Append(dl, x))
<1> DEFINE dl2 == Append(dl, x)
           n == Len(dl)
<1>1. /\ dl2 \in Seq(Delivered) /\ Len(dl2) = n + 1 /\ n \in Nat
      /\ \A i \in 1 .. n : dl2[i] = dl[i]
      /\ dl2[n + 1] = x
  BY AppendProperties
<1>2. DOMAIN dl2 = 1 .. n + 1 /\ DOMAIN dl = 1 .. n
  BY <1>1
<1> HIDE DEF dl2, n
<1>3. \A i \in 1 .. n + 1 : i \in 1 .. n \/ i = n + 1
  BY <1>1
<1> QED
  BY <1>1, <1>2, <1>3 DEF Linked, dl2

----------------------------------------------------------------------------
(* The third layer: who owes an answer to what.                            *)

\* The exchanges that p started.
Exchanges(p) ==
    LET q == Other(p)
    IN  Paired(Len(sent[p]), Flying(seq[p].send_window), sent[q], SeenIn(delivered[q]),
               OpenIn(guards[q], delivered[q]), SeenIn(delivered[p]), net[p], acked[p])
Answered(p) ==
    /\ SlotsFree(seq[p])
    /\ Linked(sent[Other(p)], delivered[p])
    /\ Exchanges(p)
Answers == Order /\ (~repeated => \A p \in Peer : Answered(p))

\* What the layers say of both peers, until a packet is repeated.
LEMMA AnswersFacts ==
    ASSUME FewPackets, Answers, ~repeated, NEW p \in Peer
    PROVE  LET q == Other(p)
           IN  /\ q \in Peer /\ Other(q) = p /\ Order /\ Basics
               /\ SlotsFree(seq[p])
               /\ Linked(sent[q], delivered[p]) /\ Linked(sent[p], delivered[q])
               /\ Exchanges(p)
               /\ Paired(Len(sent[q]), Flying(seq[q].send_window), sent[p], SeenIn(delivered[p]),
                         OpenIn(guards[p], delivered[p]), SeenIn(delivered[q]), net[q], acked[q])
               /\ Once(delivered[p])
               /\ SeenIn(delivered[p]) \subseteq 1 .. Len(sent[q])
               /\ SeenIn(delivered[q]) \subseteq 1 .. Len(sent[p])
               /\ None \notin Flying(seq[p].send_window)
               /\ None \notin SeenIn(delivered[p]) /\ None \notin SeenIn(delivered[q])
<1> DEFINE q == Other(p)
<1>1. q \in Peer /\ Other(q) = p
  BY OtherPeer
<1>2. Answered(p) /\ Answered(q) /\ Order /\ Basics
  BY <1>1 DEF Answers, Order
<1>3. Exchanges(q) = Paired(Len(sent[q]), Flying(seq[q].send_window), sent[p],
            SeenIn(delivered[p]), OpenIn(guards[p], delivered[p]), SeenIn(delivered[q]), net[q],
            acked[q])
  BY <1>1 DEF Exchanges
<1>4. /\ Once(delivered[p]) /\ Received(sent[q], seq[p], delivered[p])
      /\ Received(sent[p], seq[q], delivered[q]) /\ Numbered(sent[p], seq[p], net[q])
  BY <1>2, OrderFacts
<1>5. SeenIn(delivered[p]) \subseteq Data /\ SeenIn(delivered[q]) \subseteq Data
  BY <1>1, <1>2, BasicsFacts, SeenFacts
<1>6. None \notin Flying(seq[p].send_window)
  <2>1. seq[p].send_window \in [0 .. CAP - 1 -> SendEntry \cup {None}]
    BY <1>2, BasicsFacts DEF SeqExState
  <2> QED
    BY <2>1, NoneAssumption DEF Flying, SendEntry
<1> HIDE DEF q
<1> QED
  BY <1>1, <1>2, <1>3, <1>4, <1>5, <1>6, NoneAssumption DEF Answered, Received, q

\* A call of p: what it leaves at p agrees with what the other peer has.
LEMMA AnswersMove ==
    ASSUME FewPackets, Answers, Order', NEW p \in Peer, NEW v, NEW gs, NEW lg, NEW sn, NEW dl,
           NEW packets, NEW ac, Moves(p, v, gs, lg, sn, dl, packets),
           acked' = [acked EXCEPT ![p] = ac], repeated => repeated',
           ~repeated' =>
                LET q == Other(p)
                IN  /\ SlotsFree(v) /\ Linked(sent[q], dl) /\ Linked(sn, delivered[q])
                    /\ Paired(Len(sn), Flying(v.send_window), sent[q], SeenIn(delivered[q]),
                              OpenIn(guards[q], delivered[q]), SeenIn(dl), net[p], ac)
                    /\ Paired(Len(sent[q]), Flying(seq[q].send_window), sn, SeenIn(dl),
                              OpenIn(gs, dl), SeenIn(delivered[q]), net[q] \cup packets, acked[q])
    PROVE  Answers'
<1> SUFFICES ASSUME ~repeated' PROVE \A r \in Peer : Answered(r)'
  BY DEF Answers
<1> DEFINE q == Other(p)
<1>1. /\ seq \in [Peer -> SeqExState] /\ net \in [Peer -> SUBSET Packet]
      /\ guards \in [Peer -> SUBSET ReplyGuard]
      /\ sent \in [Peer -> Seq(Sent)] /\ delivered \in [Peer -> Seq(Delivered)]
      /\ acked \in [Peer -> SUBSET Data] /\ repeated \in BOOLEAN
  BY DEF Answers, Order, Basics, Typed
<1>2. ~repeated
  <2>1. repeated' \in BOOLEAN
    BY DEF Order, Basics, Typed
  <2> QED
    BY <1>1, <2>1
<1>3. q \in Peer /\ q # p /\ Other(q) = p /\ \A r \in Peer : r = p \/ r = q
  BY OtherPeer
<1>4. /\ seq'[p] = v /\ guards'[p] = gs /\ sent'[p] = sn /\ delivered'[p] = dl
      /\ net'[q] = net[q] \cup packets /\ acked'[p] = ac
      /\ seq'[q] = seq[q] /\ guards'[q] = guards[q] /\ sent'[q] = sent[q]
      /\ delivered'[q] = delivered[q] /\ net'[p] = net[p] /\ acked'[q] = acked[q]
  BY <1>1, <1>3 DEF Moves
<1>5. SlotsFree(seq[q])
  BY <1>2, <1>3 DEF Answers, Answered
<1> HIDE DEF q
<1>6. Answered(p)'
  BY <1>3, <1>4 DEF Answered, Exchanges, q
<1>7. Answered(q)'
  BY <1>3, <1>4, <1>5 DEF Answered, Exchanges, q
<1> QED
  BY <1>3, <1>6, <1>7

\* A call that sends one more packet, a payload or the reply of a guard.
LEMMA AnswersSends ==
    ASSUME FewPackets, Answers, Order', NEW p \in Peer, NEW v, NEW gs, NEW lg, NEW x \in Sent,
           NEW r \in OptSeqNo, Len(sent[p]) + 1 \in Data,
           Moves(p, v, gs, lg, Append(sent[p], x), delivered[p],
                 {ToPacket(NewEntry(seq[p], 0, r, x.seq_cst, Len(sent[p]) + 1))}),
           repeated' = repeated, acked' = acked,
           Fills(seq[p], v, NewEntry(seq[p], 0, r, x.seq_cst, Len(sent[p]) + 1)),
           ~repeated =>
                /\ SlotsFree(v) /\ seq[p].send_window[Idx(seq[p].next_send_seq_no)] = None
                /\ x.reply_to # None => x.reply_to \in OpenIn(guards[p], delivered[p])
                /\ OpenIn(gs, delivered[p]) = OpenIn(guards[p], delivered[p]) \ {x.reply_to}
    PROVE  Answers'
<1> DEFINE q == Other(p)
           s == seq[p]
           d == Len(sent[p]) + 1
           sn == Append(sent[p], x)
           e == NewEntry(s, 0, r, x.seq_cst, d)
<1>1. /\ s \in SeqExState /\ sent[p] \in Seq(Sent) /\ Len(sent[p]) \in Nat
      /\ acked \in [Peer -> SUBSET Data] /\ x.seq_cst \in BOOLEAN
  BY BasicsFacts DEF Answers, Order, Sent
<1>2. acked' = [acked EXCEPT ![p] = acked[p]]
  BY <1>1
<1>3. e # None /\ e.data = d /\ ToPacket(e).type = "Data"
  <2>1. e # None /\ e.data = d
    BY <1>1, EntryFields
  <2> QED
    BY <2>1 DEF ToPacket
<1>4. Len(sn) = Len(sent[p]) + 1
  BY <1>1, SentAppend
<1>5. ASSUME ~repeated'
      PROVE  /\ SlotsFree(v) /\ Linked(sent[q], delivered[p]) /\ Linked(sn, delivered[q])
             /\ Paired(Len(sn), Flying(v.send_window), sent[q], SeenIn(delivered[q]),
                       OpenIn(guards[q], delivered[q]), SeenIn(delivered[p]), net[p], acked[p])
             /\ Paired(Len(sent[q]), Flying(seq[q].send_window), sn, SeenIn(delivered[p]),
                       OpenIn(gs, delivered[p]), SeenIn(delivered[q]), net[q] \cup {ToPacket(e)},
                       acked[q])
  <2>1. ~repeated
    BY <1>5
  <2>2. /\ Linked(sent[q], delivered[p]) /\ Linked(sent[p], delivered[q])
        /\ Paired(Len(sent[p]), Flying(s.send_window), sent[q], SeenIn(delivered[q]),
                  OpenIn(guards[q], delivered[q]), SeenIn(delivered[p]), net[p], acked[p])
        /\ Paired(Len(sent[q]), Flying(seq[q].send_window), sent[p], SeenIn(delivered[p]),
                  OpenIn(guards[p], delivered[p]), SeenIn(delivered[q]), net[q], acked[q])
        /\ SeenIn(delivered[q]) \subseteq 1 .. Len(sent[p])
        /\ None \notin SeenIn(delivered[p])
    BY <2>1, AnswersFacts DEF Exchanges
  <2>3. Flying(v.send_window) = Flying(s.send_window) \cup {d}
    <3>1. Fills(s, v, e) /\ s.send_window[Idx(s.next_send_seq_no)] = None
      BY <2>1
    <3> HIDE DEF e, d, s
    <3>2. Flying(v.send_window) = Flying(s.send_window) \cup {e.data}
      BY <1>1, <1>3, <3>1, FlyingFills
    <3> QED
      BY <1>3, <3>2
  <2>4. /\ SlotsFree(v)
        /\ x.reply_to # None => x.reply_to \in OpenIn(guards[p], delivered[p])
        /\ OpenIn(gs, delivered[p]) = OpenIn(guards[p], delivered[p]) \ {x.reply_to}
    BY <2>1
  <2> HIDE DEF q, s, sn, e
  <2>5. Linked(sn, delivered[q])
    BY <1>1, <2>2, LinkedSent DEF sn
  <2>6. Paired(Len(sn), Flying(v.send_window), sent[q], SeenIn(delivered[q]),
               OpenIn(guards[q], delivered[q]), SeenIn(delivered[p]), net[p], acked[p])
    BY <1>1, <1>4, <2>2, <2>3, PairedSends
  <2>7. Paired(Len(sent[q]), Flying(seq[q].send_window), sn, SeenIn(delivered[p]),
               OpenIn(gs, delivered[p]), SeenIn(delivered[q]), net[q], acked[q])
    BY <1>1, <2>2, <2>4, PairedReplies DEF sn
  <2>8. \A m \in net[q] \cup {ToPacket(e)} : m.type = "Ack" => m \in net[q]
    BY <1>3
  <2>9. Paired(Len(sent[q]), Flying(seq[q].send_window), sn, SeenIn(delivered[p]),
               OpenIn(gs, delivered[p]), SeenIn(delivered[q]), net[q] \cup {ToPacket(e)}, acked[q])
    BY <2>7, <2>8, PairedMore
  <2> QED
    BY <2>2, <2>4, <2>5, <2>6, <2>9
<1> HIDE DEF sn, e
<1> QED
  BY <1>2, <1>5, AnswersMove DEF sn, e, q, s, d

LEMMA SendAnswers ==
    ASSUME FewPackets, Answers, Order', NEW p \in Peer, NEW c \in SeqCstModes, Send(p, c)
    PROVE  Answers'
<1> DEFINE d == Len(sent[p]) + 1
           x == [reply_to |-> None, seq_cst |-> c]
           v == TrySend(seq[p], 0, c, d)
<1>1. Order /\ Basics /\ seq[p] \in SeqExState
  BY BasicsFacts DEF Answers, Order
<1>2. /\ Moves(p, v, guards[p], lock_guards[p], Append(sent[p], x), delivered[p],
               {ToPacket(NewEntry(seq[p], 0, None, c, d))})
      /\ CanSend(seq[p]) /\ repeated' = repeated /\ acked' = acked
      /\ c \in BOOLEAN /\ d \in Data /\ x \in Sent
  BY <1>1, SendMoves
<1>3. /\ Fills(seq[p], v, NewEntry(seq[p], 0, None, c, d))
      /\ v.concurrent_replies = seq[p].concurrent_replies
  BY <1>1, <1>2, TrySendSides
<1>4. x.seq_cst = c /\ x.reply_to = None /\ None \in OptSeqNo
  BY DEF OptSeqNo
<1>5. SlotsFree(v) /\ seq[p].send_window[Idx(seq[p].next_send_seq_no)] = None
  <2> HIDE DEF v
  <2> QED
    BY <1>1, <1>2, <1>3, SendSlotsFree
<1>6. ASSUME ~repeated
      PROVE  OpenIn(guards[p], delivered[p]) = OpenIn(guards[p], delivered[p]) \ {x.reply_to}
  <2>1. None \notin SeenIn(delivered[p])
    BY <1>6, AnswersFacts
  <2>2. OpenIn(guards[p], delivered[p]) \subseteq SeenIn(delivered[p])
    BY <1>6, AnswersFacts DEF Paired
  <2> QED
    BY <1>4, <2>1, <2>2
<1> HIDE DEF v, x
<1> QED
  BY <1>2, <1>3, <1>4, <1>5, <1>6, AnswersSends

LEMMA AnswerAnswers ==
    ASSUME FewPackets, Answers, Order', NEW p \in Peer, NEW g, NEW u, NEW c, Answer(p, g, u, c)
    PROVE  Answers'
<1> DEFINE d == Len(sent[p]) + 1
           r == g.reply_no
           x == [reply_to |-> delivered[p][g.ord].data, seq_cst |-> c]
           v == ReplyRaw(seq[p], 0, r, u, c, d)
           gs == guards[p] \ {g}
           lg == lock_guards[p] + (IF g.is_holding_lock /\ ~u THEN 1 ELSE 0)
<1>1. /\ Order /\ Basics /\ seq[p] \in SeqExState /\ delivered[p] \in Seq(Delivered)
      /\ Guarded(seq[p], guards[p], lock_guards[p], delivered[p])
  BY BasicsFacts DEF Answers, Order
<1>2. /\ g \in guards[p] /\ g \in ReplyGuard /\ Reserved(seq[p], r)
      /\ g.ord \in 1 .. Len(delivered[p])
      /\ Moves(p, v, gs, lg, Append(sent[p], x), delivered[p],
               {ToPacket(NewEntry(seq[p], 0, r, c, d))})
      /\ repeated' = repeated /\ acked' = acked /\ u \in BOOLEAN /\ c \in BOOLEAN /\ d \in Data
  BY <1>1, AnswerMoves
<1>3. r \in SeqNo /\ r \in OptSeqNo
  BY <1>2 DEF ReplyGuard, OptSeqNo
<1>4. /\ Fills(seq[p], v, NewEntry(seq[p], 0, r, c, d))
      /\ v.concurrent_replies = RemoveReservation(seq[p], r).concurrent_replies
  BY <1>1, <1>2, <1>3, ReplyRawSides
<1>5. x.seq_cst = c /\ x.reply_to = delivered[p][g.ord].data /\ x \in Sent
  <2>1. delivered[p][g.ord].data \in Data
    BY <1>1, <1>2, SeenFacts
  <2> QED
    BY <1>2, <2>1 DEF Sent
<1> HIDE DEF v, x
<1>6. ASSUME ~repeated
      PROVE  SlotsFree(v) /\ seq[p].send_window[Idx(seq[p].next_send_seq_no)] = None
  <2>1. SlotsFree(seq[p])
    BY <1>6, AnswersFacts
  <2>2. Len(seq[p].concurrent_replies) <= CAP - 2
    BY <1>1, BasicsFacts DEF Windows
  <2> QED
    BY <1>1, <1>2, <1>3, <1>4, <2>1, <2>2, ReplySlotsKept
<1>7. x.reply_to \in OpenIn(guards[p], delivered[p])
  BY <1>2, <1>5 DEF OpenIn
<1>8. ASSUME ~repeated
      PROVE  OpenIn(gs, delivered[p]) = OpenIn(guards[p], delivered[p]) \ {x.reply_to}
  <2>1. Once(delivered[p])
    BY <1>8, AnswersFacts
  <2> QED
    BY <1>1, <1>2, <1>5, <2>1, OpenConsumed
<1> HIDE DEF gs, r, lg, d
<1>9. Moves(p, v, gs, lg, Append(sent[p], x), delivered[p],
            {ToPacket(NewEntry(seq[p], 0, r, x.seq_cst, Len(sent[p]) + 1))})
  BY <1>2, <1>5 DEF d
<1> QED
  BY <1>2, <1>3, <1>4, <1>5, <1>6, <1>7, <1>8, <1>9, AnswersSends DEF d

LEMMA SameSlotsFree ==
    ASSUME NEW s \in SeqExState, SlotsFree(s), NEW v, SameEntries(s.send_window, v.send_window),
           v.next_send_seq_no = s.next_send_seq_no,
           v.concurrent_replies = s.concurrent_replies, Len(s.concurrent_replies) <= CAP - 2
    PROVE  SlotsFree(v)
<1>1. SUFFICES ASSUME NEW i \in 0 .. Len(s.concurrent_replies) - 1 PROVE NextSlot(v, i) = None
  BY DEF SlotsFree
<1>2. Len(s.concurrent_replies) \in Nat /\ s.next_send_seq_no \in SeqNo
  BY DEF SeqExState
<1>3. i \in 0 .. CAP - 1
  BY <1>1, <1>2, HalfFacts
<1>4. Idx(Wrap(s.next_send_seq_no + i)) \in 0 .. CAP - 1
  BY <1>2, <1>3, NextSlots
<1> QED
  BY <1>1, <1>4 DEF SlotsFree, NextSlot, SameEntries

\* A call that leaves the packets in the send window, what was delivered and which guards are
\* held as they are, and sends no Ack.
LEMMA AnswersStay ==
    ASSUME FewPackets, Answers, Order', NEW p \in Peer, NEW v, NEW gs, NEW lg, NEW packets,
           Moves(p, v, gs, lg, sent[p], delivered[p], packets),
           repeated' = repeated, acked' = acked,
           SameEntries(seq[p].send_window, v.send_window),
           v.next_send_seq_no = seq[p].next_send_seq_no,
           v.concurrent_replies = seq[p].concurrent_replies,
           OpenIn(gs, delivered[p]) = OpenIn(guards[p], delivered[p]),
           \A m \in packets : m.type = "Data"
    PROVE  Answers'
<1> DEFINE q == Other(p)
           s == seq[p]
<1>1. /\ s \in SeqExState /\ Len(s.concurrent_replies) <= CAP - 2
      /\ acked \in [Peer -> SUBSET Data]
  BY BasicsFacts DEF Answers, Order, Windows
<1>2. acked' = [acked EXCEPT ![p] = acked[p]]
  BY <1>1
<1>3. Flying(v.send_window) = Flying(s.send_window)
  BY FlyingSame
<1>4. ASSUME ~repeated'
      PROVE  /\ SlotsFree(v) /\ Linked(sent[q], delivered[p]) /\ Linked(sent[p], delivered[q])
             /\ Paired(Len(sent[p]), Flying(v.send_window), sent[q], SeenIn(delivered[q]),
                       OpenIn(guards[q], delivered[q]), SeenIn(delivered[p]), net[p], acked[p])
             /\ Paired(Len(sent[q]), Flying(seq[q].send_window), sent[p], SeenIn(delivered[p]),
                       OpenIn(gs, delivered[p]), SeenIn(delivered[q]), net[q] \cup packets,
                       acked[q])
  <2>1. ~repeated
    BY <1>4
  <2>2. /\ Linked(sent[q], delivered[p]) /\ Linked(sent[p], delivered[q]) /\ SlotsFree(s)
        /\ Paired(Len(sent[p]), Flying(s.send_window), sent[q], SeenIn(delivered[q]),
                  OpenIn(guards[q], delivered[q]), SeenIn(delivered[p]), net[p], acked[p])
        /\ Paired(Len(sent[q]), Flying(seq[q].send_window), sent[p], SeenIn(delivered[p]),
                  OpenIn(guards[p], delivered[p]), SeenIn(delivered[q]), net[q], acked[q])
    BY <2>1, AnswersFacts DEF Exchanges
  <2> HIDE DEF q
  <2>3. SlotsFree(v)
    BY <1>1, <2>2, SameSlotsFree
  <2>4. \A m \in net[q] \cup packets : m.type = "Ack" => m \in net[q]
    OBVIOUS
  <2>5. Paired(Len(sent[q]), Flying(seq[q].send_window), sent[p], SeenIn(delivered[p]),
               OpenIn(gs, delivered[p]), SeenIn(delivered[q]), net[q] \cup packets, acked[q])
    BY <2>2, <2>4, PairedMore
  <2> QED
    BY <1>3, <2>2, <2>3, <2>5
<1> QED
  BY <1>2, <1>4, AnswersMove DEF q, s

LEMMA SavesAnswers ==
    ASSUME FewPackets, Answers, Order', NEW p \in Peer, NEW m, Saves(p, m)
    PROVE  Answers'
<1> DEFINE v == [seq[p] EXCEPT !.recv_window[Idx(m.seq_no)] = Occupied(m)]
<1>1. /\ Moves(p, v, guards[p], lock_guards[p], sent[p], delivered[p], {})
      /\ repeated' = repeated /\ acked' = acked
  BY DEF Saves
<1>2. seq[p] \in SeqExState
  BY BasicsFacts DEF Answers, Order
<1>3. /\ v.send_window = seq[p].send_window /\ v.next_send_seq_no = seq[p].next_send_seq_no
      /\ v.concurrent_replies = seq[p].concurrent_replies
  BY <1>2 DEF SeqExState
<1>4. SameEntries(seq[p].send_window, seq[p].send_window) /\ \A n \in {} : n.type = "Data"
  BY DEF SameEntries
<1> HIDE DEF v
<1> QED
  BY <1>1, <1>3, <1>4, AnswersStay

LEMMA UnlockAnswers ==
    ASSUME FewPackets, Answers, Order', NEW p \in Peer, NEW g \in guards[p], UnlockGuard(p, g)
    PROVE  Answers'
<1> DEFINE v == UnlockRaw(seq[p])
           gs == (guards[p] \ {g}) \cup {[g EXCEPT !.is_holding_lock = FALSE]}
<1>1. /\ Moves(p, v, gs, lock_guards[p], sent[p], delivered[p], {})
      /\ repeated' = repeated /\ acked' = acked
  BY UnlockMoves DEF Answers, Order
<1>2. seq[p] \in SeqExState /\ guards[p] \in SUBSET ReplyGuard
  BY BasicsFacts DEF Answers, Order
<1>3. SameSendSide(seq[p], v) /\ v.concurrent_replies = seq[p].concurrent_replies
  BY <1>2, UnlockRawSides
<1>4. /\ SameEntries(seq[p].send_window, v.send_window) /\ \A n \in {} : n.type = "Data"
      /\ v.next_send_seq_no = seq[p].next_send_seq_no
  BY <1>3 DEF SameEntries, SameSendSide
<1>5. OpenIn(gs, delivered[p]) = OpenIn(guards[p], delivered[p])
  BY <1>2, OpenUnlocked
<1> HIDE DEF v, gs
<1> QED
  BY <1>1, <1>3, <1>4, <1>5, AnswersStay

LEMMA DropLockAnswers ==
    ASSUME FewPackets, Answers, Order', NEW p \in Peer, DropLockGuard(p)
    PROVE  Answers'
<1> DEFINE v == UnlockRaw(seq[p])
<1>1. /\ Moves(p, v, guards[p], lock_guards[p] - 1, sent[p], delivered[p], {})
      /\ repeated' = repeated /\ acked' = acked
  BY DropLockMoves DEF Answers, Order
<1>2. seq[p] \in SeqExState
  BY BasicsFacts DEF Answers, Order
<1>3. SameSendSide(seq[p], v) /\ v.concurrent_replies = seq[p].concurrent_replies
  BY <1>2, UnlockRawSides
<1>4. /\ SameEntries(seq[p].send_window, v.send_window) /\ \A n \in {} : n.type = "Data"
      /\ v.next_send_seq_no = seq[p].next_send_seq_no
  BY <1>3 DEF SameEntries, SameSendSide
<1> HIDE DEF v
<1> QED
  BY <1>1, <1>3, <1>4, AnswersStay

LEMMA ResendAnswers ==
    ASSUME FewPackets, Answers, Order', NEW p \in Peer, Resend(p)
    PROVE  Answers'
<1> DEFINE s == seq[p]
           v == Service(s, 0)
           packets == Resent(s, 0)
<1>1. /\ Moves(p, v, guards[p], lock_guards[p], sent[p], delivered[p], packets)
      /\ repeated' = repeated /\ acked' = acked
      /\ \A m \in packets : \E i \in 0 .. CAP - 1 :
            s.send_window[i] # None /\ m = ToPacket(s.send_window[i])
  BY ResendMoves DEF Answers, Order
<1>2. Windows(s)
  BY BasicsFacts DEF Answers, Order
<1>3. /\ v.next_send_seq_no = s.next_send_seq_no
      /\ v.concurrent_replies = s.concurrent_replies
      /\ SameEntries(s.send_window, v.send_window)
  BY <1>2, ServiceSides
<1> HIDE DEF v, packets, s
<1>4. \A m \in packets : m.type = "Data"
  BY <1>1 DEF ToPacket
<1> QED
  BY <1>1, <1>3, <1>4, AnswersStay DEF s

LEMMA LoseAnswers ==
    ASSUME FewPackets, Answers, Order', NEW p \in Peer, NEW m \in net[p], Lose(p, m)
    PROVE  Answers'
<1> SUFFICES ASSUME ~repeated' PROVE \A r \in Peer : Answered(r)'
  BY DEF Answers
<1>1. /\ seq' = seq /\ guards' = guards /\ sent' = sent /\ delivered' = delivered
      /\ acked' = acked /\ repeated' = repeated /\ net' = [net EXCEPT ![p] = @ \ {m}]
  BY DEF Lose
<1>2. net \in [Peer -> SUBSET Packet]
  BY DEF Answers, Order, Basics, Typed
<1>3. ASSUME NEW r \in Peer PROVE Answered(r)'
  <2>1. Answered(r)
    BY <1>1 DEF Answers
  <2>2. \A n \in net'[r] : n.type = "Ack" => n \in net[r]
    BY <1>1, <1>2
  <2> DEFINE q == Other(r)
             F == Flying(seq[r].send_window)
             seen == SeenIn(delivered[q])
             open == OpenIn(guards[q], delivered[q])
             back == SeenIn(delivered[r])
  <2>3. Paired(Len(sent[r]), F, sent[q], seen, open, back, net[r], acked[r])
    BY <2>1 DEF Answered, Exchanges
  <2> HIDE DEF F, seen, open, back, q
  <2>4. Paired(Len(sent[r]), F, sent[q], seen, open, back, net'[r], acked[r])
    BY <2>2, <2>3, PairedMore
  <2>5. Exchanges(r)'
    BY <1>1, <2>4 DEF Exchanges, F, seen, open, back, q
  <2> QED
    BY <1>1, <2>1, <2>5 DEF Answered
<1> QED
  BY <1>3

\* A guard is given up with an Ack: nothing else will answer its packet.
LEMMA GiveUpAnswers ==
    ASSUME FewPackets, Answers, Order', NEW p \in Peer, NEW g, NEW u, GiveUp(p, g, u)
    PROVE  Answers'
<1> DEFINE q == Other(p)
           s == seq[p]
           r == g.reply_no
           e == delivered[p][g.ord].data
           v == AckRaw(s, r, u)
           gs == guards[p] \ {g}
           lg == lock_guards[p] + (IF g.is_holding_lock /\ ~u THEN 1 ELSE 0)
<1>1. /\ Order /\ Basics /\ s \in SeqExState /\ delivered[p] \in Seq(Delivered)
      /\ Guarded(s, guards[p], lock_guards[p], delivered[p])
      /\ Len(s.concurrent_replies) <= CAP - 2 /\ acked \in [Peer -> SUBSET Data]
  BY BasicsFacts DEF Answers, Order, Windows
<1>2. /\ g \in guards[p] /\ g \in ReplyGuard /\ Reserved(s, r)
      /\ g.ord \in 1 .. Len(delivered[p])
      /\ Moves(p, v, gs, lg, sent[p], delivered[p], {Ack(r)})
      /\ u \in BOOLEAN /\ repeated' = repeated /\ acked' = acked
  BY <1>1, GiveUpMoves
<1>3. r \in SeqNo
  BY <1>2 DEF ReplyGuard
<1>4. /\ SameSendSide(s, v)
      /\ v.concurrent_replies = RemoveReservation(s, r).concurrent_replies
  BY <1>1, <1>2, <1>3, AckRawSides
<1>5. r = Num(e) /\ e \in SeenIn(delivered[p])
  <2>1. Named(guards[p], delivered[p])
    BY <1>1, OrderFacts
  <2> QED
    BY <1>1, <1>2, <2>1, SeenFacts DEF Named
<1>6. acked' = [acked EXCEPT ![p] = acked[p]]
  BY <1>1, <1>2
<1>7. e \in OpenIn(guards[p], delivered[p])
  BY <1>2 DEF OpenIn
<1> HIDE DEF v, e
<1>8. /\ v.send_window = s.send_window /\ v.next_send_seq_no = s.next_send_seq_no
      /\ Shrunk(s.send_window, v.send_window)
  BY <1>4 DEF SameSendSide, Shrunk
<1>9. ASSUME SlotsFree(s) PROVE SlotsFree(v)
  <2> DEFINE n == Len(s.concurrent_replies)
  <2>1. n \in Nat /\ n >= 1
    BY <1>1, <1>2 DEF SeqExState, Reserved
  <2>2. Len(v.concurrent_replies) = n - 1
    BY <1>1, <1>2, <1>3, <1>4, RemoveReservationFacts
  <2> HIDE DEF s
  <2>3. n - 1 \in Nat /\ n - 1 <= Len(s.concurrent_replies)
    BY <2>1
  <2> QED
    BY <1>1, <1>8, <1>9, <2>2, <2>3, ShrunkSlotsFree
<1>10. ASSUME ~repeated'
       PROVE  /\ SlotsFree(v) /\ Linked(sent[q], delivered[p]) /\ Linked(sent[p], delivered[q])
              /\ Paired(Len(sent[p]), Flying(v.send_window), sent[q], SeenIn(delivered[q]),
                        OpenIn(guards[q], delivered[q]), SeenIn(delivered[p]), net[p], acked[p])
              /\ Paired(Len(sent[q]), Flying(seq[q].send_window), sent[p], SeenIn(delivered[p]),
                        OpenIn(gs, delivered[p]), SeenIn(delivered[q]), net[q] \cup {Ack(r)},
                        acked[q])
  <2>1. ~repeated
    BY <1>2, <1>10
  <2>2. /\ Linked(sent[q], delivered[p]) /\ Linked(sent[p], delivered[q]) /\ SlotsFree(s)
        /\ Paired(Len(sent[p]), Flying(s.send_window), sent[q], SeenIn(delivered[q]),
                  OpenIn(guards[q], delivered[q]), SeenIn(delivered[p]), net[p], acked[p])
        /\ Paired(Len(sent[q]), Flying(seq[q].send_window), sent[p], SeenIn(delivered[p]),
                  OpenIn(guards[p], delivered[p]), SeenIn(delivered[q]), net[q], acked[q])
        /\ Once(delivered[p]) /\ SeenIn(delivered[p]) \subseteq 1 .. Len(sent[q])
        /\ None \notin SeenIn(delivered[p])
    BY <2>1, AnswersFacts DEF Exchanges
  <2>3. OpenIn(gs, delivered[p]) = OpenIn(guards[p], delivered[p]) \ {e}
    BY <1>1, <1>2, <2>2, OpenConsumed DEF e
  <2>4. e \in 1 .. Len(sent[q]) /\ e # None
    BY <1>5, <2>2
  <2> HIDE DEF q
  <2>5. Paired(Len(sent[q]), Flying(seq[q].send_window), sent[p], SeenIn(delivered[p]),
               OpenIn(gs, delivered[p]), SeenIn(delivered[q]), net[q] \cup {Ack(r)}, acked[q])
    <3> DEFINE open == OpenIn(guards[p], delivered[p])
    <3>1. Paired(Len(sent[q]), Flying(seq[q].send_window), sent[p], SeenIn(delivered[p]), open,
                 SeenIn(delivered[q]), net[q], acked[q]) /\ e \in open
      BY <1>7, <2>2
    <3> HIDE DEF open, gs, r
    <3>2. Paired(Len(sent[q]), Flying(seq[q].send_window), sent[p], SeenIn(delivered[p]),
                 open \ {e}, SeenIn(delivered[q]), net[q] \cup {Ack(Num(e))}, acked[q])
      BY <2>4, <3>1, PairedGivenUp
    <3>3. open \ {e} = OpenIn(gs, delivered[p]) /\ Num(e) = r
      BY <1>5, <2>3 DEF open
    <3> QED
      BY <3>2, <3>3
  <2> QED
    BY <1>8, <1>9, <2>2, <2>5
<1> QED
  BY <1>2, <1>6, <1>10, AnswersMove DEF q

\* An old packet is answered with an Ack again: the window has passed it, no guard of it is
\* left, and no reply to it is in the send window.
LEMMA AcksAgainAnswers ==
    ASSUME FewPackets, Answers, Order', NEW p \in Peer, NEW m, AcksAgain(p, m)
    PROVE  Answers'
<1> DEFINE q == Other(p)
           s == seq[p]
           e == m.data
<1>1. /\ Order /\ Basics /\ s \in SeqExState /\ delivered[p] \in Seq(Delivered)
      /\ Guarded(s, guards[p], lock_guards[p], delivered[p])
      /\ acked \in [Peer -> SUBSET Data]
  BY BasicsFacts DEF Answers, Order
<1>2. /\ m \in net[p] /\ m \in DataPacket /\ IsBelowRange(s, m.seq_no) /\ ~WillReply(s, m.seq_no)
      /\ Moves(p, s, guards[p], lock_guards[p], sent[p], delivered[p], {Ack(m.seq_no)})
      /\ repeated' = repeated /\ acked' = acked
  BY DEF AcksAgain
<1>3. acked' = [acked EXCEPT ![p] = acked[p]]
  BY <1>1, <1>2
<1>4. /\ Numbered(sent[p], s, net[q]) /\ Received(sent[q], s, delivered[p])
      /\ Named(guards[p], delivered[p])
      /\ Len(sent[q]) \in Nat /\ Len(sent[q]) <= Half /\ Made(sent[q], m)
      /\ Len(sent[p]) \in Nat /\ Len(sent[p]) <= Half
  BY <1>1, <1>2, OrderFacts DEF DataPacket
<1>5. m.seq_no = Num(e) /\ e \in 1 .. Len(sent[q]) /\ e \in 1 .. Half + CAP /\ e \in 1 .. Half
  <2>1. m.seq_no = Num(e) /\ e \in 1 .. Len(sent[q])
    BY <1>4 DEF Made
  <2> QED
    BY <1>4, <2>1, HalfFacts
<1> HIDE DEF e
<1>6. e \in SeenIn(delivered[p])
  <2>1. Passed(s) \in Int /\ Passed(s) <= Half /\ Passed(s) >= 0
    <3>1. s.next_recv_seq_no - InitialSeqNo \in Int
      BY <1>1, HalfFacts DEF SeqExState, SeqNo
    <3>2. Passed(s) \in Int /\ Passed(s) >= 0
      BY <3>1, WrapType, HalfFacts DEF Passed, SeqNo
    <3>3. Passed(s) <= Len(sent[q])
      BY <1>4 DEF Received
    <3> QED
      BY <1>4, <3>2, <3>3, HalfFacts
  <2>2. e > Passed(s) => Normalized(s, Num(e)) = e - 1 - Passed(s)
    <3>1. e <= Half
      BY <1>5, HalfFacts
    <3> QED
      BY <1>1, <1>5, <2>1, <3>1, NumDistance
  <2>3. Normalized(s, Num(e)) > Half - 1
    BY <1>2, <1>5, HalfFacts DEF IsBelowRange
  <2>4. e <= Passed(s)
    BY <1>5, <2>1, <2>2, <2>3, HalfFacts
  <2>5. e \in 1 .. Passed(s)
    BY <1>5, <2>1, <2>4
  <2> QED
    BY <1>4, <2>5 DEF Received
<1>7. e \notin OpenIn(guards[p], delivered[p])
  <2> SUFFICES ASSUME NEW g \in guards[p], delivered[p][g.ord].data = e PROVE FALSE
    BY DEF OpenIn
  <2>1. g.reply_no = Num(e)
    BY <1>4 DEF Named
  <2> QED
    BY <1>1, <1>2, <1>5, <2>1, GuardReserved DEF WillReply
<1>8. ASSUME ~repeated'
      PROVE  /\ SlotsFree(s) /\ Linked(sent[q], delivered[p]) /\ Linked(sent[p], delivered[q])
             /\ Paired(Len(sent[p]), Flying(s.send_window), sent[q], SeenIn(delivered[q]),
                       OpenIn(guards[q], delivered[q]), SeenIn(delivered[p]), net[p], acked[p])
             /\ Paired(Len(sent[q]), Flying(seq[q].send_window), sent[p], SeenIn(delivered[p]),
                       OpenIn(guards[p], delivered[p]), SeenIn(delivered[q]),
                       net[q] \cup {Ack(m.seq_no)}, acked[q])
  <2>1. ~repeated
    BY <1>2, <1>8
  <2>2. /\ Linked(sent[q], delivered[p]) /\ Linked(sent[p], delivered[q]) /\ SlotsFree(s)
        /\ Paired(Len(sent[p]), Flying(s.send_window), sent[q], SeenIn(delivered[q]),
                  OpenIn(guards[q], delivered[q]), SeenIn(delivered[p]), net[p], acked[p])
        /\ Paired(Len(sent[q]), Flying(seq[q].send_window), sent[p], SeenIn(delivered[p]),
                  OpenIn(guards[p], delivered[p]), SeenIn(delivered[q]), net[q], acked[q])
        /\ None \notin SeenIn(delivered[p])
    BY <2>1, AnswersFacts DEF Exchanges
  <2>3. ASSUME e \in Flying(seq[q].send_window), NEW k \in 1 .. Len(sent[p]),
               sent[p][k].reply_to = e
        PROVE  FALSE
    <3>1. k \notin SeenIn(delivered[q])
      BY <1>6, <2>2, <2>3 DEF Paired
    <3>2. k \in Flying(s.send_window)
      BY <2>2, <3>1 DEF Paired
    <3>3. PICK i \in 0 .. CAP - 1 : s.send_window[i] # None /\ s.send_window[i].data = k
      BY <3>2 DEF Flying
    <3>4. Made(sent[p], s.send_window[i])
      BY <1>4, <3>3 DEF Numbered
    <3>5. sent[p][k].reply_to # None
      BY <1>6, <2>2, <2>3
    <3>6. s.send_window[i].reply_no = Num(e)
      BY <2>3, <3>3, <3>4, <3>5 DEF Made
    <3> QED
      BY <1>2, <1>5, <3>3, <3>6 DEF WillReply
  <2>4. e \in Flying(seq[q].send_window) =>
            Done(sent[p], SeenIn(delivered[p]), OpenIn(guards[p], delivered[p]), e)
    BY <1>6, <1>7, <2>3 DEF Done
  <2>5. \A n \in net[q] \cup {Ack(m.seq_no)} : n.type = "Ack" => n \in net[q] \/
            \E d \in 1 .. Len(sent[q]) :
                /\ n.reply_no = Num(d)
                /\ d \in Flying(seq[q].send_window) =>
                    Done(sent[p], SeenIn(delivered[p]), OpenIn(guards[p], delivered[p]), d)
    <3>1. Ack(m.seq_no).reply_no = Num(e)
      BY <1>5 DEF Ack
    <3> QED
      BY <1>5, <2>4, <3>1
  <2> DEFINE acks == net[q] \cup {Ack(m.seq_no)}
  <2> HIDE DEF q, acks
  <2>6. Paired(Len(sent[q]), Flying(seq[q].send_window), sent[p], SeenIn(delivered[p]),
               OpenIn(guards[p], delivered[p]), SeenIn(delivered[q]), acks, acked[q])
    BY <2>2, <2>5, PairedMore DEF acks
  <2> QED
    BY <2>2, <2>6 DEF acks
<1> QED
  BY <1>2, <1>3, <1>8, AnswersMove DEF q, s

\* An Ack arrives: it ends the exchange of the packet it names, if that still waits.
LEMMA ReceiveAckAnswers ==
    ASSUME FewPackets, Answers, Order', NEW p \in Peer, NEW m \in net[p], ReceiveAck(p, m)
    PROVE  Answers'
<1> DEFINE q == Other(p)
           s == seq[p]
           r == m.reply_no
           v == TakeSend(s, r)
           ac == IF TakenData(s, r) = None THEN acked[p] ELSE acked[p] \cup {TakenData(s, r)}
<1>1. /\ Order /\ Basics /\ s \in SeqExState /\ Windows(s)
      /\ Len(s.concurrent_replies) <= CAP - 2 /\ acked \in [Peer -> SUBSET Data]
  BY BasicsFacts DEF Answers, Order, Windows
<1>2. /\ r \in SeqNo /\ m.type = "Ack" /\ repeated' = repeated
      /\ Moves(p, v, guards[p], lock_guards[p], sent[p], delivered[p], {})
      /\ acked' = [acked EXCEPT ![p] = ac]
  BY <1>1, ReceiveAckMoves DEF ReceiveAck
<1>3. /\ v.next_send_seq_no = s.next_send_seq_no /\ v.concurrent_replies = s.concurrent_replies
      /\ Shrunk(s.send_window, v.send_window)
  BY <1>1, <1>2, TakeSendSides
<1>4. Numbered(sent[p], s, net[q]) /\ Len(sent[p]) \in Nat /\ Len(sent[p]) <= Half
  BY <1>1, OrderFacts
<1>5. ASSUME ~repeated'
      PROVE  /\ SlotsFree(v) /\ Linked(sent[q], delivered[p]) /\ Linked(sent[p], delivered[q])
             /\ Paired(Len(sent[p]), Flying(v.send_window), sent[q], SeenIn(delivered[q]),
                       OpenIn(guards[q], delivered[q]), SeenIn(delivered[p]), net[p], ac)
             /\ Paired(Len(sent[q]), Flying(seq[q].send_window), sent[p], SeenIn(delivered[p]),
                       OpenIn(guards[p], delivered[p]), SeenIn(delivered[q]), net[q] \cup {},
                       acked[q])
  <2>1. ~repeated
    BY <1>2, <1>5
  <2>2. /\ Linked(sent[q], delivered[p]) /\ Linked(sent[p], delivered[q]) /\ SlotsFree(s)
        /\ Paired(Len(sent[p]), Flying(s.send_window), sent[q], SeenIn(delivered[q]),
                  OpenIn(guards[q], delivered[q]), SeenIn(delivered[p]), net[p], acked[p])
        /\ Paired(Len(sent[q]), Flying(seq[q].send_window), sent[p], SeenIn(delivered[p]),
                  OpenIn(guards[p], delivered[p]), SeenIn(delivered[q]), net[q], acked[q])
        /\ None \notin Flying(s.send_window)
    BY <2>1, AnswersFacts DEF Exchanges
  <2>3. SlotsFree(v)
    <3>1. Len(s.concurrent_replies) \in Nat
      BY <1>1 DEF SeqExState
    <3> HIDE DEF v, s
    <3> QED
      BY <1>1, <1>3, <2>2, <3>1, ShrunkSlotsFree
  <2>4. PICK d \in 1 .. Len(sent[p]) :
            /\ r = Num(d)
            /\ d \in Flying(s.send_window) =>
                Done(sent[q], SeenIn(delivered[q]), OpenIn(guards[q], delivered[q]), d)
    BY <1>2, <2>2 DEF Paired
  <2>5. d \in 1 .. Half
    BY <1>4, HalfFacts
  <2>6. /\ Flying(v.send_window) = Flying(s.send_window) \ {d}
        /\ TakenData(s, r) = IF d \in Flying(s.send_window) THEN d ELSE None
    BY <1>1, <1>4, <2>4, <2>5, FlyingTaken
  <2> HIDE DEF v, s, q
  <2>7. CASE d \in Flying(s.send_window)
    <3>1. ac = acked[p] \cup {d}
      BY <2>2, <2>6, <2>7
    <3> HIDE DEF ac
    <3>2. Paired(Len(sent[p]), Flying(v.send_window), sent[q], SeenIn(delivered[q]),
                 OpenIn(guards[q], delivered[q]), SeenIn(delivered[p]), net[p], ac)
      BY <2>2, <2>4, <2>6, <2>7, <3>1, PairedAcked
    <3> QED
      BY <2>2, <2>3, <3>2
  <2>8. CASE d \notin Flying(s.send_window)
    <3>1. ac = acked[p] /\ Flying(v.send_window) = Flying(s.send_window)
      BY <2>6, <2>8
    <3> QED
      BY <2>2, <2>3, <3>1
  <2> QED
    BY <2>7, <2>8
<1> HIDE DEF v, ac
<1> QED
  BY <1>2, <1>5, AnswersMove DEF q

\* A new packet is handed to the application.  If it is a reply, the packet it answers still
\* waits for it, and leaves the send window.
LEMMA HandsAnswers ==
    ASSUME FewPackets, Answers, Order', NEW p \in Peer, NEW m, NEW is_next, Hands(p, m, is_next)
    PROVE  Answers'
<1> DEFINE q == Other(p)
           s == seq[p]
           e == m.data
           d == sent[q][e].reply_to
           v == Accept(s, m, is_next)
           x == [data |-> e, link |-> TakenData(s, m.reply_no)]
           gs == guards[p] \cup {Guard(m.seq_no, m.seq_cst, Len(delivered[p]) + 1)}
           dl == Append(delivered[p], x)
<1>1. /\ Order /\ Basics /\ Windows(s) /\ s \in SeqExState /\ delivered[p] \in Seq(Delivered)
      /\ Guarded(s, guards[p], lock_guards[p], delivered[p])
      /\ acked \in [Peer -> SUBSET Data] /\ repeated \in BOOLEAN
  BY BasicsFacts DEF Answers, Order
<1>2. /\ Handable(s, m, is_next)
      /\ Moves(p, v, gs, lock_guards[p], sent[p], dl, {})
      /\ repeated' = (repeated \/ IsRepeat(s, m)) /\ acked' = acked
  BY DEF Hands
<1>3. /\ m.seq_no \in SeqNo /\ m.reply_no \in OptSeqNo /\ m.seq_cst \in BOOLEAN /\ e \in Data
  BY <1>2, AcceptableFacts DEF Handable, Acceptable, DataPacket, OccupiedEntry
<1>4. x \in Delivered /\ x.data = e /\ x.link = TakenData(s, m.reply_no)
  BY <1>1, <1>3, TakenDataType DEF Delivered
<1>5. Made(sent[q], m)
  BY <1>1, HandsMade
<1>6. /\ Received(sent[q], s, delivered[p]) /\ Numbered(sent[p], s, net[q])
      /\ Received(sent[p], seq[q], delivered[q])
      /\ Len(sent[q]) \in Nat /\ Len(sent[q]) <= Half
      /\ Len(sent[p]) \in Nat /\ Len(sent[p]) <= Half
  BY <1>1, OrderFacts
<1>7. e \in 1 .. Len(sent[q]) /\ (e \in SeenIn(delivered[p]) => IsRepeat(s, m))
  <2>1. m.data \in SeenIn(delivered[p]) => IsRepeat(s, m)
    BY <1>1, <1>2, <1>5, <1>6, HandedNumber
  <2> QED
    BY <1>5, <2>1 DEF Made
<1>8. /\ (m.reply_no = None) <=> (d = None)
      /\ m.reply_no # None => m.reply_no = Num(d)
  BY <1>5 DEF Made
<1>9. v.send_window = TakenWindow(s, m.reply_no)
  BY <1>1, <1>2, AcceptSides
<1>10. acked' = [acked EXCEPT ![p] = acked[p]]
  BY <1>1, <1>2
<1>11. /\ SeenIn(dl) = SeenIn(delivered[p]) \cup {e}
       /\ OpenIn(gs, dl) = OpenIn(guards[p], delivered[p]) \cup {e}
  <2> HIDE DEF x
  <2> QED
    BY <1>1, <1>3, <1>4, SeenAppend, OpenIssued
<1>12. ASSUME ~repeated'
       PROVE  /\ SlotsFree(v) /\ Linked(sent[q], dl) /\ Linked(sent[p], delivered[q])
              /\ Paired(Len(sent[p]), Flying(v.send_window), sent[q], SeenIn(delivered[q]),
                        OpenIn(guards[q], delivered[q]), SeenIn(dl), net[p], acked[p])
              /\ Paired(Len(sent[q]), Flying(seq[q].send_window), sent[p], SeenIn(dl),
                        OpenIn(gs, dl), SeenIn(delivered[q]), net[q] \cup {}, acked[q])
  <2>1. ~repeated /\ ~IsRepeat(s, m)
    BY <1>1, <1>2, <1>12
  <2>2. /\ Linked(sent[q], delivered[p]) /\ Linked(sent[p], delivered[q]) /\ SlotsFree(s)
        /\ Paired(Len(sent[p]), Flying(s.send_window), sent[q], SeenIn(delivered[q]),
                  OpenIn(guards[q], delivered[q]), SeenIn(delivered[p]), net[p], acked[p])
        /\ Paired(Len(sent[q]), Flying(seq[q].send_window), sent[p], SeenIn(delivered[p]),
                  OpenIn(guards[p], delivered[p]), SeenIn(delivered[q]), net[q], acked[q])
        /\ None \notin Flying(s.send_window)
        /\ SeenIn(delivered[q]) \subseteq 1 .. Len(sent[p])
    BY <2>1, AnswersFacts DEF Exchanges
  <2>3. e \notin SeenIn(delivered[p])
    BY <1>7, <2>1
  <2> HIDE DEF e, v, x, gs, dl, q
  <2>4. ASSUME d # None
        PROVE  /\ d \in 1 .. Half /\ d \in Flying(s.send_window) /\ m.reply_no = Num(d)
               /\ TakenData(s, m.reply_no) = d
               /\ Flying(v.send_window) = Flying(s.send_window) \ {d}
    <3>1. d \in SeenIn(delivered[q]) /\ d \in Flying(s.send_window)
      BY <1>7, <2>2, <2>3, <2>4 DEF Paired
    <3>2. d \in 1 .. Half
      <4>1. d \in 1 .. Len(sent[p])
        BY <2>2, <3>1
      <4> HIDE DEF d
      <4> QED
        BY <1>6, <4>1, HalfFacts
    <3>3. m.reply_no = Num(d) /\ m.reply_no # None
      BY <1>8, <2>4
    <3> HIDE DEF d, s
    <3>4. /\ Flying(TakeSend(s, Num(d)).send_window) = Flying(s.send_window) \ {d}
          /\ TakenData(s, Num(d)) = d
      BY <1>1, <1>6, <3>1, <3>2, FlyingTaken
    <3>5. v.send_window = TakeSend(s, Num(d)).send_window
      BY <1>9, <3>3 DEF TakenWindow
    <3> QED
      BY <3>1, <3>2, <3>3, <3>4, <3>5
  <2>5. ASSUME d = None
        PROVE  /\ TakenData(s, m.reply_no) = None
               /\ Flying(v.send_window) = Flying(s.send_window) \ {d}
    <3>1. m.reply_no = None
      BY <1>8, <2>5
    <3>2. v.send_window = s.send_window
      BY <1>9, <3>1 DEF TakenWindow
    <3>3. TakenData(s, m.reply_no) = None
      BY <3>1 DEF TakenData
    <3> QED
      BY <2>2, <2>5, <3>2, <3>3
  <2>6. /\ TakenData(s, m.reply_no) = d
        /\ Flying(v.send_window) = Flying(s.send_window) \ {d}
    BY <2>4, <2>5
  <2>7. SlotsFree(v)
    <3>1. m.reply_no # None =>
            \E f \in 1 .. Half : m.reply_no = Num(f) /\ f \in Flying(s.send_window)
      BY <1>8, <2>4
    <3> HIDE DEF s, d
    <3> QED
      BY <1>1, <1>2, <1>6, <3>1, AcceptSlotsFree DEF v
  <2>8. Linked(sent[q], dl)
    <3>1. x.link = sent[q][x.data].reply_to
      BY <1>4, <2>6
    <3> QED
      BY <1>1, <1>4, <2>2, <3>1, LinkedDelivered DEF dl
  <2>9. Paired(Len(sent[p]), Flying(v.send_window), sent[q], SeenIn(delivered[q]),
               OpenIn(guards[q], delivered[q]), SeenIn(dl), net[p], acked[p])
    <3>1. Paired(Len(sent[p]), Flying(s.send_window) \ {d}, sent[q], SeenIn(delivered[q]),
                 OpenIn(guards[q], delivered[q]), SeenIn(delivered[p]) \cup {e}, net[p], acked[p])
      BY <1>7, <2>2, PairedAnswered
    <3> QED
      BY <1>11, <2>6, <3>1
  <2>10. Paired(Len(sent[q]), Flying(seq[q].send_window), sent[p], SeenIn(dl),
                OpenIn(gs, dl), SeenIn(delivered[q]), net[q], acked[q])
    <3>1. Paired(Len(sent[q]), Flying(seq[q].send_window), sent[p], SeenIn(delivered[p]) \cup {e},
                 OpenIn(guards[p], delivered[p]) \cup {e}, SeenIn(delivered[q]), net[q], acked[q])
      BY <1>7, <2>2, <2>3, PairedDelivered
    <3> QED
      BY <1>11, <3>1
  <2>11. net[q] \cup {} = net[q]
    OBVIOUS
  <2> QED
    BY <2>2, <2>7, <2>8, <2>9, <2>10, <2>11
<1>13. repeated => repeated'
  BY <1>2
<1> HIDE DEF v, gs, dl, x, e
<1> QED
  BY <1>2, <1>10, <1>12, <1>13, AnswersMove DEF q

LEMMA CallAnswers ==
    ASSUME FewPackets, Answers, Order', NEW p \in Peer, Call(p)
    PROVE  Answers'
BY SendAnswers, HandsAnswers, SavesAnswers, AcksAgainAnswers, ReceiveAckAnswers, AnswerAnswers,
   GiveUpAnswers, UnlockAnswers, DropLockAnswers, ResendAnswers, LoseAnswers DEF Call

LEMMA UnchangedAnswers == Answers /\ Order' /\ UNCHANGED vars => Answers'
BY DEF Answers, Answered, Exchanges, vars

LEMMA InitAnswers == Init => Answers
<1> SUFFICES ASSUME Init PROVE Answers
  OBVIOUS
<1>1. Order
  BY InitOrder
<1>2. ASSUME NEW p \in Peer PROVE Answered(p)
  <2>1. Other(p) \in Peer
    BY OtherPeer
  <2>2. /\ seq[p] = NewSeqEx /\ sent[p] = << >> /\ sent[Other(p)] = << >>
        /\ net[p] = {} /\ guards[Other(p)] = {} /\ delivered[p] = << >>
        /\ delivered[Other(p)] = << >> /\ acked[p] = {}
    BY <2>1 DEF Init
  <2>3. SeenIn(<< >>) = {} /\ DOMAIN << >> = {} /\ Len(<< >>) = 0 /\ OpenIn({}, << >>) = {}
    BY DEF SeenIn, OpenIn
  <2>4. Linked(<< >>, << >>)
    BY <2>3 DEF Linked
  <2>5. SlotsFree(NewSeqEx)
    <3>1. NewSeqEx.concurrent_replies = << >>
      BY DEF NewSeqEx
    <3>2. 0 .. 0 - 1 = {}
      OBVIOUS
    <3> QED
      BY <2>3, <3>1, <3>2 DEF SlotsFree
  <2>6. Flying(NewSeqEx.send_window) = {}
    BY DEF Flying, NewSeqEx
  <2>7. Paired(0, {}, << >>, {}, {}, {}, {}, {})
    <3>1. 1 .. 0 = {}
      OBVIOUS
    <3> QED
      BY <2>3, <3>1 DEF Paired
  <2> QED
    BY <2>2, <2>3, <2>4, <2>5, <2>6, <2>7 DEF Answered, Exchanges
<1> QED
  BY <1>1, <1>2 DEF Answers

LEMMA AnswersInvariance ==
    ASSUME FewPackets
    PROVE  Spec => []Answers
<1>1. Answers /\ Order' /\ [Next]_vars => Answers'
  <2> SUFFICES ASSUME Answers, Order', [Next]_vars PROVE Answers'
    OBVIOUS
  <2>1. UNCHANGED vars \/ \E p \in Peer : Call(p)
    BY NextCalls DEF Answers, Order
  <2> QED
    BY <2>1, CallAnswers, UnchangedAnswers
<1> QED
  BY <1>1, InitAnswers, OrderInvariance, PTL DEF Spec

----------------------------------------------------------------------------
(* What the third layer says.                                              *)

\* reply_raw never meets an occupied slot: for every reply number issued, a slot that
\* is_full_inner counted as free stays free until the reply takes it.
THEOREM RepliesFindRoom ==
    ASSUME FewPackets
    PROVE  Spec => []ReplySlotsFree
<1>1. Answers => ReplySlotsFree
  BY DEF Answers, Answered, SlotsFree, NextSlot, ReplySlotsFree
<1> QED
  BY <1>1, AnswersInvariance, PTL

\* What an application is told that a packet replies to is what it does reply to: receive and
\* pump find that packet in the send window, whatever was resent, acked or dropped meanwhile.
THEOREM LinksNeverCrossed ==
    ASSUME FewPackets
    PROVE  Spec => []LinksAgree
<1>1. Answers => LinksAgree
  BY DEF Answers, Answered, Linked, LinksAgree
<1> QED
  BY <1>1, AnswersInvariance, PTL

\* Until a packet is repeated: a packet leaves the send window only after the other application
\* has it; while a guard of it is held the sender waits; and an Ack ends only an exchange that
\* nobody will answer.
THEOREM AnswersUntilRepeated ==
    ASSUME FewPackets
    PROVE  Spec => [](~repeated => Lossless /\ AnswerAwaited /\ EndsAgree)
<1>1. ASSUME Answers, ~repeated PROVE Lossless /\ AnswerAwaited /\ EndsAgree
  <2>1. ASSUME NEW p \in Peer, NEW d \in DOMAIN sent[p]
        PROVE  d \in InFlight(p) \/ d \in Seen(Other(p))
    <3>1. Exchanges(p)
      BY <1>1, AnswersFacts
    <3>2. d \in 1 .. Len(sent[p])
      <4>1. sent[p] \in Seq(Sent)
        BY <1>1, BasicsFacts DEF Answers, Order
      <4> QED
        BY <4>1
    <3> QED
      BY <3>1, <3>2 DEF Exchanges, Paired, Flying, SeenIn, InFlight, Seen
  <2>2. ASSUME NEW p \in Peer, NEW g \in guards[p]
        PROVE  delivered[p][g.ord].data \in InFlight(Other(p))
    <3>1. /\ delivered[p][g.ord].data \in OpenIn(guards[p], delivered[p])
          /\ OpenIn(guards[p], delivered[p]) \subseteq Flying(seq[Other(p)].send_window)
      BY <1>1, AnswersFacts DEF Paired, OpenIn
    <3> QED
      BY <3>1 DEF Flying, InFlight
  <2>3. ASSUME NEW p \in Peer, NEW d \in acked[p]
        PROVE  /\ d \in Seen(Other(p))
               /\ \A k \in DOMAIN sent[Other(p)] : sent[Other(p)][k].reply_to # d
    <3>1. Exchanges(p) /\ sent[Other(p)] \in Seq(Sent)
      BY <1>1, AnswersFacts, BasicsFacts
    <3>2. DOMAIN sent[Other(p)] = 1 .. Len(sent[Other(p)])
      BY <3>1
    <3> QED
      BY <3>1, <3>2 DEF Exchanges, Paired, Done, Seen, SeenIn
  <2> QED
    BY <2>1, <2>2, <2>3 DEF Lossless, AnswerAwaited, EndsAgree
<1>2. Answers => (~repeated => Lossless /\ AnswerAwaited /\ EndsAgree)
  BY <1>1
<1> QED
  BY <1>2, AnswersInvariance, PTL

\* With SeqCst packets only: no loss, no late copy and no stray Ack makes a peer forget a packet
\* that the other application has not got.
THEOREM SeqCstNothingForgotten ==
    ASSUME FewPackets, OnlySeqCst
    PROVE  Spec => []Lossless
<1>1. Strict => ~repeated
  BY DEF Strict
<1> QED
  BY <1>1, AnswersUntilRepeated, StrictInvariance, PTL

\* With SeqCst packets only: while an application holds the guard of a packet, the peer that
\* sent it waits for the answer; no late copy is answered with an Ack behind its back.
THEOREM SeqCstAnswerAwaited ==
    ASSUME FewPackets, OnlySeqCst
    PROVE  Spec => []AnswerAwaited
<1>1. Strict => ~repeated
  BY DEF Strict
<1> QED
  BY <1>1, AnswersUntilRepeated, StrictInvariance, PTL

\* With SeqCst packets only: an exchange that one peer sees ended by an Ack was seen by the
\* other, which did not reply to it.
THEOREM SeqCstEndsAgree ==
    ASSUME FewPackets, OnlySeqCst
    PROVE  Spec => []EndsAgree
<1>1. Strict => ~repeated
  BY DEF Strict
<1> QED
  BY <1>1, AnswersUntilRepeated, StrictInvariance, PTL

----------------------------------------------------------------------------
(* The refinement: what the calls amount to in Channel.                    *)

\* The packet whose guard is inside the critical section.
HolderIn(gs, dl) == IF Locking(gs) = {} THEN None
                    ELSE dl[(CHOOSE g \in Locking(gs) : TRUE).ord].data

\* Channel's variables, in terms of those of Exchange.
LEMMA Mapping ==
    ASSUME NEW p \in Peer
    PROVE  /\ Open(p) = OpenIn(guards[p], delivered[p])
           /\ Holder(p) = HolderIn(guards[p], delivered[p])
           /\ Seen(p) = SeenIn(delivered[p])
BY DEF Open, OpenIn, Holder, Holders, HolderIn, Locking, Seen, SeenIn

\* At most one guard is inside the critical section, and then no SeqCstGuard is held.
LEMMA HolderFacts ==
    ASSUME NEW s, NEW gs, NEW lg, NEW dl, Guarded(s, gs, lg, dl)
    PROVE  /\ ~s.is_locked => Locking(gs) = {} /\ lg = 0
           /\ lg > 0 => Locking(gs) = {} /\ lg = 1
           /\ \A g \in gs : g.is_holding_lock => Locking(gs) = {g} /\ lg = 0
           /\ Locking(gs) = {} => HolderIn(gs, dl) = None
           /\ \A g \in gs : Locking(gs) = {g} => HolderIn(gs, dl) = dl[g.ord].data
<1> DEFINE L == Locking(gs)
           n == Cardinality(L)
<1>1. /\ IsFiniteSet(gs) /\ lg \in Nat /\ s \in SeqExState
      /\ n + lg = IF s.is_locked THEN 1 ELSE 0
  BY DEF Guarded
<1>2. IsFiniteSet(L) /\ n \in Nat
  BY <1>1, PartsFinite
<1>3. n = 0 => L = {}
  BY <1>2, FS_EmptySet
<1>4. ASSUME n = 1, NEW g \in L PROVE L = {g}
  <2>1. PICK h : L = {h}
    BY <1>2, <1>4, FS_Singleton
  <2> QED
    BY <1>4, <2>1
<1>5. \A g \in L : n # 0
  BY <1>2, FS_EmptySet
<1>6. \A g \in gs : g.is_holding_lock => g \in L
  BY DEF Locking
<1> HIDE DEF L, n
<1>7. ~s.is_locked => L = {} /\ lg = 0
  BY <1>1, <1>2, <1>3
<1>8. lg > 0 => L = {} /\ lg = 1
  BY <1>1, <1>2, <1>3
<1>9. ASSUME NEW g \in gs, g.is_holding_lock PROVE L = {g} /\ lg = 0
  <2>1. g \in L
    BY <1>6, <1>9
  <2>2. n = 1 /\ lg = 0
    BY <1>1, <1>2, <1>5, <2>1
  <2> QED
    BY <1>4, <2>1, <2>2
<1>10. L = {} => HolderIn(gs, dl) = None
  BY DEF HolderIn, L
<1>11. ASSUME NEW g \in gs, L = {g} PROVE HolderIn(gs, dl) = dl[g.ord].data
  <2>1. (CHOOSE h \in L : TRUE) = g /\ L # {}
    BY <1>11
  <2> QED
    BY <2>1 DEF HolderIn, L
<1> QED
  BY <1>7, <1>8, <1>9, <1>10, <1>11 DEF L

\* The holder is a guard's packet, or None.
LEMMA HolderCases ==
    ASSUME NEW s, NEW gs, NEW lg, NEW dl, Guarded(s, gs, lg, dl)
    PROVE  \/ Locking(gs) = {} /\ HolderIn(gs, dl) = None
           \/ \E g \in gs : /\ g.is_holding_lock /\ Locking(gs) = {g} /\ lg = 0
                            /\ HolderIn(gs, dl) = dl[g.ord].data
<1>1. CASE Locking(gs) = {}
  BY <1>1, HolderFacts
<1>2. CASE Locking(gs) # {}
  <2>1. PICK g \in Locking(gs) : TRUE
    BY <1>2
  <2>2. g \in gs /\ g.is_holding_lock
    BY <2>1 DEF Locking
  <2> QED
    BY <2>2, HolderFacts
<1> QED
  BY <1>1, <1>2

\* What a call of p does to Channel's variables.
Mapped(p, gs, lg, sn, dl, ac) ==
    /\ sent' = [sent EXCEPT ![p] = sn]
    /\ delivered' = [delivered EXCEPT ![p] = dl]
    /\ [r \in Peer |-> Open(r)'] = [[r \in Peer |-> Open(r)] EXCEPT ![p] = OpenIn(gs, dl)]
    /\ [r \in Peer |-> Holder(r)'] = [[r \in Peer |-> Holder(r)] EXCEPT ![p] = HolderIn(gs, dl)]
    /\ [r \in Peer |-> lock_guards'[r] > 0] =
            [[r \in Peer |-> lock_guards[r] > 0] EXCEPT ![p] = lg > 0]
    /\ acked' = [acked EXCEPT ![p] = ac]

LEMMA MappedMove ==
    ASSUME Basics, NEW p \in Peer, NEW v, NEW gs, NEW lg, NEW sn, NEW dl, NEW packets, NEW ac,
           Moves(p, v, gs, lg, sn, dl, packets), acked' = [acked EXCEPT ![p] = ac]
    PROVE  Mapped(p, gs, lg, sn, dl, ac)
<1>1. /\ guards \in [Peer -> SUBSET ReplyGuard] /\ lock_guards \in [Peer -> Nat]
      /\ delivered \in [Peer -> Seq(Delivered)]
  BY DEF Basics, Typed
<1>2. /\ guards' = [guards EXCEPT ![p] = gs] /\ lock_guards' = [lock_guards EXCEPT ![p] = lg]
      /\ delivered' = [delivered EXCEPT ![p] = dl] /\ sent' = [sent EXCEPT ![p] = sn]
  BY DEF Moves
<1>3. ASSUME NEW r \in Peer
      PROVE  /\ Open(r)' = IF r = p THEN OpenIn(gs, dl) ELSE Open(r)
             /\ Holder(r)' = IF r = p THEN HolderIn(gs, dl) ELSE Holder(r)
             /\ lock_guards'[r] = IF r = p THEN lg ELSE lock_guards[r]
  <2>1. /\ guards'[r] = IF r = p THEN gs ELSE guards[r]
        /\ delivered'[r] = IF r = p THEN dl ELSE delivered[r]
        /\ lock_guards'[r] = IF r = p THEN lg ELSE lock_guards[r]
    BY <1>1, <1>2
  <2>2. /\ Open(r)' = OpenIn(guards'[r], delivered'[r])
        /\ Holder(r)' = HolderIn(guards'[r], delivered'[r])
    BY DEF Open, OpenIn, Holder, Holders, HolderIn, Locking
  <2>3. /\ Open(r) = OpenIn(guards[r], delivered[r])
        /\ Holder(r) = HolderIn(guards[r], delivered[r])
    BY Mapping
  <2> QED
    BY <2>1, <2>2, <2>3
<1>4. [r \in Peer |-> Open(r)'] = [[r \in Peer |-> Open(r)] EXCEPT ![p] = OpenIn(gs, dl)]
  BY <1>3
<1>5. [r \in Peer |-> Holder(r)'] = [[r \in Peer |-> Holder(r)] EXCEPT ![p] = HolderIn(gs, dl)]
  BY <1>3
<1>6. [r \in Peer |-> lock_guards'[r] > 0] =
            [[r \in Peer |-> lock_guards[r] > 0] EXCEPT ![p] = lg > 0]
  BY <1>3
<1> QED
  BY <1>2, <1>4, <1>5, <1>6 DEF Mapped

\* What a call leaves as it was.
LEMMA MappedSame ==
    ASSUME Basics, NEW p \in Peer, NEW gs, NEW lg, NEW sn, NEW dl, NEW ac,
           Mapped(p, gs, lg, sn, dl, ac)
    PROVE  /\ sn = sent[p] => sent' = sent
           /\ dl = delivered[p] => delivered' = delivered
           /\ OpenIn(gs, dl) = Open(p) => [r \in Peer |-> Open(r)'] = [r \in Peer |-> Open(r)]
           /\ HolderIn(gs, dl) = Holder(p) =>
                [r \in Peer |-> Holder(r)'] = [r \in Peer |-> Holder(r)]
           /\ (lg > 0) = (lock_guards[p] > 0) =>
                [r \in Peer |-> lock_guards'[r] > 0] = [r \in Peer |-> lock_guards[r] > 0]
           /\ ac = acked[p] => acked' = acked
<1>1. /\ sent \in [Peer -> Seq(Sent)] /\ delivered \in [Peer -> Seq(Delivered)]
      /\ acked \in [Peer -> SUBSET Data]
  BY DEF Basics, Typed
<1>2. OpenIn(gs, dl) = Open(p) => [r \in Peer |-> Open(r)'] = [r \in Peer |-> Open(r)]
  BY DEF Mapped
<1>3. HolderIn(gs, dl) = Holder(p) => [r \in Peer |-> Holder(r)'] = [r \in Peer |-> Holder(r)]
  BY DEF Mapped
<1>4. (lg > 0) = (lock_guards[p] > 0) =>
            [r \in Peer |-> lock_guards'[r] > 0] = [r \in Peer |-> lock_guards[r] > 0]
  BY DEF Mapped
<1>5. /\ sn = sent[p] => sent' = sent
      /\ dl = delivered[p] => delivered' = delivered
      /\ ac = acked[p] => acked' = acked
  BY <1>1 DEF Mapped
<1> QED
  BY <1>2, <1>3, <1>4, <1>5

LEMMA SendSubmits ==
    ASSUME Basics, NEW p \in Peer, NEW c \in SeqCstModes, Send(p, c)
    PROVE  Promised!Send(p, c) /\ c \in BOOLEAN
<1> DEFINE x == [reply_to |-> None, seq_cst |-> c]
           sn == Append(sent[p], x)
<1>1. /\ Moves(p, TrySend(seq[p], 0, c, Len(sent[p]) + 1), guards[p], lock_guards[p],
               sn, delivered[p], {ToPacket(NewEntry(seq[p], 0, None, c, Len(sent[p]) + 1))})
      /\ acked' = acked /\ c \in BOOLEAN
  BY SendMoves
<1>2. acked \in [Peer -> SUBSET Data] /\ sent \in [Peer -> Seq(Sent)]
  BY DEF Basics, Typed
<1>3. acked' = [acked EXCEPT ![p] = acked[p]]
  BY <1>1, <1>2
<1> HIDE DEF sn
<1>4. Mapped(p, guards[p], lock_guards[p], sn, delivered[p], acked[p])
  BY <1>1, <1>3, MappedMove
<1>5. /\ delivered' = delivered /\ acked' = acked
      /\ [r \in Peer |-> Open(r)'] = [r \in Peer |-> Open(r)]
      /\ [r \in Peer |-> Holder(r)'] = [r \in Peer |-> Holder(r)]
      /\ [r \in Peer |-> lock_guards'[r] > 0] = [r \in Peer |-> lock_guards[r] > 0]
  BY <1>4, Mapping, MappedSame
<1>6. sent' = [sent EXCEPT ![p] = Append(sent[p], x)]
  BY <1>4 DEF Mapped, sn
<1> QED
  BY <1>1, <1>5, <1>6 DEF Promised!Send, Promised!Submit

\* A guard is consumed: its packet is closed, and may leave the critical section or stay in it.
LEMMA ConsumedCloses ==
    ASSUME Basics, NEW p \in Peer, Once(delivered[p]), NEW g \in guards[p], NEW u \in BOOLEAN,
           u => g.is_holding_lock, NEW lg, NEW sn,
           lg = lock_guards[p] + (IF g.is_holding_lock /\ ~u THEN 1 ELSE 0),
           Mapped(p, guards[p] \ {g}, lg, sn, delivered[p], acked[p])
    PROVE  Promised!Close(p, delivered[p][g.ord].data, ~u)
<1> DEFINE d == delivered[p][g.ord].data
           gs == guards[p] \ {g}
           stay == ~u
<1>1. /\ Guarded(seq[p], guards[p], lock_guards[p], delivered[p]) /\ lock_guards[p] \in Nat
      /\ delivered[p] \in Seq(Delivered) /\ g \in ReplyGuard /\ g.is_holding_lock \in BOOLEAN
  BY BasicsFacts DEF ReplyGuard
<1>2. g.ord \in 1 .. Len(delivered[p]) /\ d \in Data /\ d # None
  <2>1. g.ord \in 1 .. Len(delivered[p])
    BY <1>1 DEF Guarded
  <2> QED
    BY <1>1, <2>1, SeenFacts, NoneAssumption
<1>3. d \in Open(p) /\ OpenIn(gs, delivered[p]) = Open(p) \ {d}
  <2>1. d \in OpenIn(guards[p], delivered[p])
    BY DEF OpenIn
  <2> QED
    BY <1>1, <2>1, Mapping, OpenConsumed
<1> HIDE DEF d
<1>4. ASSUME g.is_holding_lock
      PROVE  /\ HolderIn(gs, delivered[p]) = None /\ Holder(p) = d
             /\ ~(lock_guards[p] > 0) /\ (lg > 0 <=> stay)
  <2>1. /\ Locking(guards[p]) = {g} /\ lock_guards[p] = 0
        /\ HolderIn(guards[p], delivered[p]) = d
    BY <1>1, <1>4, HolderFacts DEF d
  <2>2. Locking(gs) = {}
    BY <2>1 DEF Locking
  <2>3. HolderIn(gs, delivered[p]) = None /\ Holder(p) = d
    BY <2>1, <2>2, Mapping DEF HolderIn
  <2>4. lg > 0 <=> stay
    <3>1. CASE u
      BY <1>4, <2>1, <3>1
    <3>2. CASE ~u
      BY <1>4, <2>1, <3>2
    <3> QED
      BY <3>1, <3>2
  <2> QED
    BY <2>1, <2>3, <2>4
<1>5. ASSUME ~g.is_holding_lock
      PROVE  HolderIn(gs, delivered[p]) = Holder(p) /\ Holder(p) # d /\ lg = lock_guards[p]
  <2>1. Locking(gs) = Locking(guards[p]) /\ lg = lock_guards[p]
    BY <1>1, <1>5 DEF Locking
  <2>2. HolderIn(gs, delivered[p]) = Holder(p)
    BY <2>1, Mapping DEF HolderIn
  <2>3. ASSUME NEW h \in guards[p], h.is_holding_lock, delivered[p][h.ord].data = d PROVE FALSE
    <3>1. h.ord \in DOMAIN delivered[p] /\ g.ord \in DOMAIN delivered[p]
      BY <1>1 DEF Guarded
    <3>2. h.ord = g.ord
      BY <2>3, <3>1 DEF Once, d
    <3>3. h = g
      BY <1>1, <3>2 DEF Guarded
    <3> QED
      BY <1>5, <2>3, <3>3
  <2>4. Holder(p) # d
    BY <1>1, <1>2, <2>3, HolderCases, Mapping
  <2> QED
    BY <2>1, <2>2, <2>4
<1>6. HolderIn(gs, delivered[p]) = IF Holder(p) = d THEN None ELSE Holder(p)
  BY <1>4, <1>5
<1>7. (lg > 0) = (lock_guards[p] > 0 \/ (Holder(p) = d /\ stay))
  <2> DEFINE now == lg > 0
             was == lock_guards[p] > 0
  <2>1. now \in BOOLEAN /\ was \in BOOLEAN /\ stay \in BOOLEAN
    OBVIOUS
  <2>2. g.is_holding_lock => ~was /\ (now <=> stay) /\ Holder(p) = d
    BY <1>4
  <2>3. ~g.is_holding_lock => (now <=> was) /\ Holder(p) # d
    BY <1>5
  <2> HIDE DEF now, was, stay
  <2>4. now <=> was \/ (Holder(p) = d /\ stay)
    BY <2>1, <2>2, <2>3, Zenon
  <2>5. now = (was \/ (Holder(p) = d /\ stay))
    BY <2>1, <2>4, Zenon
  <2> QED
    BY <2>5 DEF now, was, stay
<1>8. delivered' = delivered /\ acked' = acked
  BY MappedSame
<1>9. [r \in Peer |-> Open(r)'] = [[r \in Peer |-> Open(r)] EXCEPT ![p] = @ \ {d}]
  BY <1>3 DEF Mapped
<1>10. [r \in Peer |-> Holder(r)']
            = [[r \in Peer |-> Holder(r)] EXCEPT ![p] = IF @ = d THEN None ELSE @]
  BY <1>6 DEF Mapped
<1>11. [r \in Peer |-> lock_guards'[r] > 0]
            = [[r \in Peer |-> lock_guards[r] > 0] EXCEPT
                ![p] = @ \/ ([r \in Peer |-> Holder(r)][p] = d /\ stay)]
  BY <1>7 DEF Mapped
<1> HIDE DEF stay
<1>12. Promised!Close(p, d, stay)
  BY <1>3, <1>8, <1>9, <1>10, <1>11 DEF Promised!Close
<1> QED
  BY <1>12 DEF d, stay

\* A reply closes the packet it replies to.
LEMMA AnswerCloses ==
    ASSUME FewPackets, Answers, ~repeated, NEW p \in Peer, NEW g, NEW u, NEW c, Answer(p, g, u, c)
    PROVE  \E d \in Data, stay \in BOOLEAN : c \in BOOLEAN /\ Promised!Reply(p, d, c, stay)
<1> DEFINE d == delivered[p][g.ord].data
           x == [reply_to |-> d, seq_cst |-> c]
           sn == Append(sent[p], x)
           lg == lock_guards[p] + (IF g.is_holding_lock /\ ~u THEN 1 ELSE 0)
           k == Len(sent[p]) + 1
<1>1. /\ Basics /\ Once(delivered[p]) /\ delivered[p] \in Seq(Delivered)
      /\ acked \in [Peer -> SUBSET Data]
  BY AnswersFacts, BasicsFacts
<1>2. /\ g \in guards[p] /\ g.ord \in 1 .. Len(delivered[p])
      /\ Moves(p, ReplyRaw(seq[p], 0, g.reply_no, u, c, k), guards[p] \ {g}, lg, sn, delivered[p],
               {ToPacket(NewEntry(seq[p], 0, g.reply_no, c, k))})
      /\ u \in BOOLEAN /\ (u => g.is_holding_lock) /\ c \in BOOLEAN /\ acked' = acked
  BY <1>1, AnswerMoves
<1>3. d \in Data
  BY <1>1, <1>2, SeenFacts
<1>4. acked' = [acked EXCEPT ![p] = acked[p]]
  BY <1>1, <1>2
<1>5. lg = lock_guards[p] + (IF g.is_holding_lock /\ ~u THEN 1 ELSE 0)
  OBVIOUS
<1> HIDE DEF sn, lg
<1>6. Mapped(p, guards[p] \ {g}, lg, sn, delivered[p], acked[p])
  BY <1>1, <1>2, <1>4, MappedMove
<1>7. Promised!Close(p, d, ~u)
  BY <1>1, <1>2, <1>5, <1>6, ConsumedCloses
<1>8. sent' = [sent EXCEPT ![p] = Append(@, [reply_to |-> d, seq_cst |-> c])]
  BY <1>6 DEF Mapped, sn
<1> DEFINE stay == ~u
<1>9. stay \in BOOLEAN
  OBVIOUS
<1> HIDE DEF d, stay
<1>10. Promised!Reply(p, d, c, stay)
  BY <1>7, <1>8 DEF Promised!Reply, Promised!Submit, stay
<1> QED
  BY <1>2, <1>3, <1>9, <1>10

\* An Ack ends the exchange.
LEMMA GiveUpCloses ==
    ASSUME FewPackets, Answers, ~repeated, NEW p \in Peer, NEW g, NEW u, GiveUp(p, g, u)
    PROVE  \E d \in Data, stay \in BOOLEAN : Promised!End(p, d, stay)
<1> DEFINE d == delivered[p][g.ord].data
           lg == lock_guards[p] + (IF g.is_holding_lock /\ ~u THEN 1 ELSE 0)
<1>1. /\ Basics /\ Once(delivered[p]) /\ delivered[p] \in Seq(Delivered)
      /\ acked \in [Peer -> SUBSET Data]
  BY AnswersFacts, BasicsFacts
<1>2. /\ g \in guards[p] /\ g.ord \in 1 .. Len(delivered[p])
      /\ Moves(p, AckRaw(seq[p], g.reply_no, u), guards[p] \ {g}, lg, sent[p], delivered[p],
               {Ack(g.reply_no)})
      /\ u \in BOOLEAN /\ (u => g.is_holding_lock) /\ acked' = acked
  BY <1>1, GiveUpMoves
<1>3. d \in Data
  BY <1>1, <1>2, SeenFacts
<1>4. acked' = [acked EXCEPT ![p] = acked[p]]
  BY <1>1, <1>2
<1>5. lg = lock_guards[p] + (IF g.is_holding_lock /\ ~u THEN 1 ELSE 0)
  OBVIOUS
<1> HIDE DEF lg
<1>6. Mapped(p, guards[p] \ {g}, lg, sent[p], delivered[p], acked[p])
  BY <1>1, <1>2, <1>4, MappedMove
<1>7. Promised!Close(p, d, ~u)
  BY <1>1, <1>2, <1>5, <1>6, ConsumedCloses
<1>8. sent' = sent
  BY <1>1, <1>6, MappedSame
<1> DEFINE stay == ~u
<1>9. stay \in BOOLEAN
  OBVIOUS
<1> HIDE DEF d, stay
<1>10. Promised!End(p, d, stay)
  BY <1>7, <1>8 DEF Promised!End, stay
<1> QED
  BY <1>3, <1>9, <1>10

\* The lock is released: by the guard that holds it, or by the SeqCstGuard.
LEMMA UnlockLeaves ==
    ASSUME Basics, NEW p \in Peer, NEW g \in guards[p], UnlockGuard(p, g)
    PROVE  Promised!Unlock(p)
<1> DEFINE gs == (guards[p] \ {g}) \cup {[g EXCEPT !.is_holding_lock = FALSE]}
<1>1. /\ Moves(p, UnlockRaw(seq[p]), gs, lock_guards[p], sent[p], delivered[p], {})
      /\ g.is_holding_lock /\ acked' = acked
  BY UnlockMoves
<1>2. /\ Guarded(seq[p], guards[p], lock_guards[p], delivered[p]) /\ lock_guards[p] \in Nat
      /\ guards[p] \in SUBSET ReplyGuard /\ acked \in [Peer -> SUBSET Data]
      /\ delivered[p] \in Seq(Delivered)
  BY BasicsFacts
<1>3. acked' = [acked EXCEPT ![p] = acked[p]]
  BY <1>1, <1>2
<1>4. OpenIn(gs, delivered[p]) = Open(p)
  BY <1>2, Mapping, OpenUnlocked
<1>5. HolderIn(gs, delivered[p]) = None
  <2>1. Locking(guards[p]) = {g}
    BY <1>1, <1>2, HolderFacts
  <2>2. Locking(gs) = {}
    BY <1>2, <2>1 DEF Locking, ReplyGuard
  <2> QED
    BY <2>2 DEF HolderIn
<1>6. Holder(p) # None /\ lock_guards[p] = 0
  <2>1. Holder(p) = delivered[p][g.ord].data /\ lock_guards[p] = 0
    BY <1>1, <1>2, HolderFacts, Mapping
  <2>2. g.ord \in 1 .. Len(delivered[p])
    BY <1>2 DEF Guarded
  <2> QED
    BY <1>2, <2>1, <2>2, SeenFacts, NoneAssumption
<1> HIDE DEF gs
<1>7. Mapped(p, gs, lock_guards[p], sent[p], delivered[p], acked[p])
  BY <1>1, <1>3, MappedMove
<1>8. /\ sent' = sent /\ delivered' = delivered /\ acked' = acked
      /\ [r \in Peer |-> Open(r)'] = [r \in Peer |-> Open(r)]
  BY <1>4, <1>7, MappedSame
<1>9. [r \in Peer |-> Holder(r)'] = [[r \in Peer |-> Holder(r)] EXCEPT ![p] = None]
  BY <1>5, <1>7 DEF Mapped
<1>10. (lock_guards[p] > 0) = FALSE
  BY <1>6
<1>11. [r \in Peer |-> lock_guards'[r] > 0]
            = [[r \in Peer |-> lock_guards[r] > 0] EXCEPT ![p] = FALSE]
  BY <1>7, <1>10 DEF Mapped
<1>12. [r \in Peer |-> Holder(r)][p] # None
  BY <1>6
<1> QED
  BY <1>8, <1>9, <1>11, <1>12 DEF Promised!Unlock

LEMMA DropLockLeaves ==
    ASSUME Basics, NEW p \in Peer, DropLockGuard(p)
    PROVE  Promised!Unlock(p)
<1>1. /\ Moves(p, UnlockRaw(seq[p]), guards[p], lock_guards[p] - 1, sent[p], delivered[p], {})
      /\ lock_guards[p] > 0 /\ acked' = acked
  BY DropLockMoves
<1>2. /\ Guarded(seq[p], guards[p], lock_guards[p], delivered[p]) /\ lock_guards[p] \in Nat
      /\ acked \in [Peer -> SUBSET Data]
  BY BasicsFacts
<1>3. acked' = [acked EXCEPT ![p] = acked[p]]
  BY <1>1, <1>2
<1>4. /\ OpenIn(guards[p], delivered[p]) = Open(p)
      /\ HolderIn(guards[p], delivered[p]) = None /\ lock_guards[p] = 1
  BY <1>1, <1>2, HolderFacts, Mapping
<1>5. Mapped(p, guards[p], lock_guards[p] - 1, sent[p], delivered[p], acked[p])
  BY <1>1, <1>3, MappedMove
<1>6. /\ sent' = sent /\ delivered' = delivered /\ acked' = acked
      /\ [r \in Peer |-> Open(r)'] = [r \in Peer |-> Open(r)]
  BY <1>4, <1>5, MappedSame
<1>7. [r \in Peer |-> Holder(r)'] = [[r \in Peer |-> Holder(r)] EXCEPT ![p] = None]
  BY <1>4, <1>5 DEF Mapped
<1>8. (lock_guards[p] - 1 > 0) = FALSE /\ (lock_guards[p] > 0) = TRUE
  BY <1>4
<1>9. [r \in Peer |-> lock_guards'[r] > 0]
            = [[r \in Peer |-> lock_guards[r] > 0] EXCEPT ![p] = FALSE]
  BY <1>5, <1>8 DEF Mapped
<1>10. [r \in Peer |-> lock_guards[r] > 0][p]
  BY <1>1
<1> QED
  BY <1>6, <1>7, <1>9, <1>10 DEF Promised!Unlock

\* A packet is handed over as the channel does it, unless it was before.
LEMMA HandsDelivers ==
    ASSUME FewPackets, Answers, Answers', NEW p \in Peer, NEW m, NEW is_next,
           Hands(p, m, is_next), ~repeated'
    PROVE  \E e \in Data : Promised!Deliver(p, e)
<1> DEFINE q == Other(p)
           s == seq[p]
           e == m.data
           x == [data |-> e, link |-> TakenData(s, m.reply_no)]
           gs == guards[p] \cup {Guard(m.seq_no, m.seq_cst, Len(delivered[p]) + 1)}
           dl == Append(delivered[p], x)
<1>1. /\ Order /\ Basics /\ Windows(s) /\ s \in SeqExState /\ delivered[p] \in Seq(Delivered)
      /\ Guarded(s, guards[p], lock_guards[p], delivered[p]) /\ lock_guards[p] \in Nat
      /\ acked \in [Peer -> SUBSET Data] /\ repeated \in BOOLEAN
      /\ sent \in [Peer -> Seq(Sent)] /\ delivered \in [Peer -> Seq(Delivered)]
  BY BasicsFacts DEF Answers, Order, Basics, Typed
<1>2. /\ Handable(s, m, is_next)
      /\ Moves(p, Accept(s, m, is_next), gs, lock_guards[p], sent[p], dl, {})
      /\ repeated' = (repeated \/ IsRepeat(s, m)) /\ acked' = acked
  BY DEF Hands
<1>3. /\ m.seq_no \in SeqNo /\ m.reply_no \in OptSeqNo /\ m.seq_cst \in BOOLEAN /\ e \in Data
  BY <1>2, AcceptableFacts DEF Handable, Acceptable, DataPacket, OccupiedEntry
<1>4. x \in Delivered /\ x.data = e
  BY <1>1, <1>3, TakenDataType DEF Delivered
<1>5. Made(sent[q], m)
  BY <1>1, HandsMade
<1>6. /\ Received(sent[q], s, delivered[p]) /\ Len(sent[q]) \in Nat /\ Len(sent[q]) <= Half
      /\ sent[q] \in Seq(Sent)
  BY <1>1, OrderFacts
<1>7. /\ e \in 1 .. Len(sent[q]) /\ e \in DOMAIN sent[q] /\ sent[q][e].seq_cst = m.seq_cst
  BY <1>5, <1>6 DEF Made
<1>8. /\ e \in SeenIn(delivered[p]) => IsRepeat(s, m)
      /\ is_next <=> e = Passed(s) + 1
      /\ Passed(s) \in 0 .. Half
      /\ 1 .. Passed(s) \subseteq SeenIn(delivered[p])
  <2>1. /\ m.data \in SeenIn(delivered[p]) => IsRepeat(s, m)
        /\ is_next <=> m.data = Passed(s) + 1
        /\ Passed(s) \in 0 .. Half
    BY <1>1, <1>2, <1>5, <1>6, HandedNumber
  <2> QED
    BY <1>6, <2>1 DEF Received
<1>9. e \notin SeenIn(delivered[p])
  BY <1>2, <1>8
<1>10. m.seq_cst => /\ 1 .. e - 1 \subseteq SeenIn(delivered[p])
                    /\ Locking(guards[p]) = {} /\ lock_guards[p] = 0
  <2> SUFFICES ASSUME m.seq_cst
               PROVE  /\ 1 .. e - 1 \subseteq SeenIn(delivered[p])
                      /\ Locking(guards[p]) = {} /\ lock_guards[p] = 0
    OBVIOUS
  <2>1. is_next /\ ~s.is_locked
    BY <1>2 DEF Handable
  <2>2. e - 1 = Passed(s)
    BY <1>8, <2>1
  <2> QED
    BY <1>1, <1>8, <2>1, <2>2, HolderFacts
<1>11. acked' = [acked EXCEPT ![p] = acked[p]]
  BY <1>1, <1>2
<1> HIDE DEF x
<1>12. OpenIn(gs, dl) = Open(p) \cup {e}
  <2>1. OpenIn(gs, dl) = OpenIn(guards[p], delivered[p]) \cup {e}
    <3> DEFINE n == m.seq_no
               c == m.seq_cst
    <3>1. n \in SeqNo /\ c \in BOOLEAN /\ x \in Delivered
      BY <1>3, <1>4
    <3>2. Guarded(s, guards[p], lock_guards[p], delivered[p])
      BY <1>1
    <3> HIDE DEF n, c, s
    <3>3. OpenIn(guards[p] \cup {Guard(n, c, Len(delivered[p]) + 1)}, Append(delivered[p], x))
            = OpenIn(guards[p], delivered[p]) \cup {x.data}
      BY <3>1, <3>2, OpenIssued
    <3> QED
      BY <1>4, <3>3 DEF n, c
  <2> QED
    BY <2>1, Mapping
<1> HIDE DEF e, gs, dl
<1>13. Mapped(p, gs, lock_guards[p], sent[p], dl, acked[p])
  BY <1>1, <1>2, <1>11, MappedMove
<1>14. x = [data |-> e, link |-> sent[q][e].reply_to]
  <2>1. delivered'[p] = dl /\ sent'[q] = sent[q]
    <3>1. q \in Peer /\ q # p
      BY OtherPeer
    <3> QED
      BY <1>1, <1>13, <3>1 DEF Mapped
  <2>2. Linked(sent'[q], delivered'[p])
    BY DEF Answers, Answered
  <2>3. /\ dl[Len(delivered[p]) + 1] = x /\ Len(delivered[p]) + 1 \in DOMAIN dl
    BY <1>1, <1>4, AppendProperties DEF dl
  <2>4. x.link = sent[q][e].reply_to
    BY <1>4, <2>1, <2>2, <2>3 DEF Linked
  <2> QED
    BY <2>4 DEF x
<1>15. HolderIn(gs, dl) = IF m.seq_cst THEN e ELSE Holder(p)
  <2> DEFINE g == Guard(m.seq_no, m.seq_cst, Len(delivered[p]) + 1)
  <2>1. /\ \A i \in 1 .. Len(delivered[p]) : dl[i] = delivered[p][i]
        /\ dl[Len(delivered[p]) + 1] = x /\ Len(delivered[p]) \in Nat
    BY <1>1, <1>4, AppendProperties DEF dl
  <2>2. /\ g.is_holding_lock = m.seq_cst /\ g.ord = Len(delivered[p]) + 1
    BY DEF Guard
  <2>3. gs = guards[p] \cup {g}
    BY DEF gs
  <2> HIDE DEF g
  <2>4. CASE m.seq_cst
    <3>1. Locking(gs) = {g}
      BY <1>10, <2>2, <2>3, <2>4 DEF Locking
    <3>2. (CHOOSE h \in Locking(gs) : TRUE) = g /\ Locking(gs) # {}
      BY <3>1
    <3>3. HolderIn(gs, dl) = dl[g.ord].data
      BY <3>2 DEF HolderIn
    <3> QED
      BY <1>4, <2>1, <2>2, <2>4, <3>3
  <2>5. CASE ~m.seq_cst
    <3>1. Locking(gs) = Locking(guards[p])
      BY <2>2, <2>3, <2>5 DEF Locking
    <3>2. CASE Locking(guards[p]) = {}
      BY <2>5, <3>1, <3>2, Mapping DEF HolderIn
    <3>3. CASE Locking(guards[p]) # {}
      <4> DEFINE h == CHOOSE h \in Locking(guards[p]) : TRUE
      <4>1. h \in guards[p]
        BY <3>3 DEF Locking
      <4> HIDE DEF h
      <4>2. h.ord \in 1 .. Len(delivered[p])
        BY <1>1, <4>1 DEF Guarded
      <4>3. dl[h.ord] = delivered[p][h.ord]
        BY <2>1, <4>2
      <4>4. HolderIn(gs, dl) = dl[h.ord].data /\ Holder(p) = delivered[p][h.ord].data
        BY <3>1, <3>3, Mapping DEF HolderIn, h
      <4> QED
        BY <2>5, <4>3, <4>4
    <3> QED
      BY <3>2, <3>3
  <2> QED
    BY <1>3, <2>4, <2>5
<1>16. /\ sent' = sent /\ acked' = acked
       /\ [r \in Peer |-> lock_guards'[r] > 0] = [r \in Peer |-> lock_guards[r] > 0]
  BY <1>1, <1>13, MappedSame
<1>17. delivered' = [delivered EXCEPT
            ![p] = Append(@, [data |-> e, link |-> sent[Promised!Other(p)][e].reply_to])]
  BY <1>13, <1>14 DEF Mapped, dl, Promised!Other, Other
<1>18. [r \in Peer |-> Open(r)'] = [[r \in Peer |-> Open(r)] EXCEPT ![p] = @ \cup {e}]
  BY <1>12, <1>13 DEF Mapped
<1>19. [r \in Peer |-> Holder(r)']
            = [[r \in Peer |-> Holder(r)] EXCEPT
                ![p] = IF sent[Promised!Other(p)][e].seq_cst THEN e ELSE @]
  BY <1>7, <1>13, <1>15 DEF Mapped, Promised!Other, Other
<1>20. e \in DOMAIN sent[Promised!Other(p)] /\ e \notin Promised!Got(p)
  BY <1>7, <1>9 DEF Promised!Other, Other, Promised!Got, SeenIn
<1>21. sent[Promised!Other(p)][e].seq_cst =>
            /\ 1 .. e - 1 \subseteq Promised!Got(p)
            /\ [r \in Peer |-> Holder(r)][p] = None /\ ~[r \in Peer |-> lock_guards[r] > 0][p]
  <2> SUFFICES ASSUME m.seq_cst
               PROVE  /\ 1 .. e - 1 \subseteq Promised!Got(p)
                      /\ Holder(p) = None /\ ~(lock_guards[p] > 0)
    BY <1>7 DEF Promised!Other, Other
  <2> QED
    BY <1>10, Mapping DEF Promised!Got, SeenIn, HolderIn
<1>22. Promised!Deliver(p, e)
  BY <1>16, <1>17, <1>18, <1>19, <1>20, <1>21 DEF Promised!Deliver
<1> QED
  BY <1>3, <1>22 DEF e

\* An Ack that arrives tells its receiver what the channel lets it learn, or nothing.
LEMMA ReceiveAckLearns ==
    ASSUME FewPackets, Answers, ~repeated, NEW p \in Peer, NEW m \in net[p], ReceiveAck(p, m)
    PROVE  (\E d \in Data : Promised!Learn(p, d)) \/ UNCHANGED Promised!vars
<1> DEFINE q == Other(p)
           s == seq[p]
           r == m.reply_no
           t == TakenData(s, r)
           ac == IF t = None THEN acked[p] ELSE acked[p] \cup {t}
<1>1. /\ Order /\ Basics /\ Windows(s) /\ q \in Peer /\ Other(q) = p
      /\ acked \in [Peer -> SUBSET Data] /\ sent \in [Peer -> Seq(Sent)]
      /\ delivered[q] \in Seq(Delivered)
      /\ Exchanges(p) /\ None \notin Flying(s.send_window)
      /\ Numbered(sent[p], s, net[q]) /\ Len(sent[p]) \in Nat /\ Len(sent[p]) <= Half
  BY AnswersFacts, BasicsFacts, OrderFacts, OtherPeer DEF Basics, Typed
<1>2. /\ Moves(p, TakeSend(s, r), guards[p], lock_guards[p], sent[p], delivered[p], {})
      /\ m.type = "Ack" /\ acked' = [acked EXCEPT ![p] = ac]
  BY <1>1, ReceiveAckMoves DEF ReceiveAck
<1> HIDE DEF ac
<1>3. Mapped(p, guards[p], lock_guards[p], sent[p], delivered[p], ac)
  BY <1>1, <1>2, MappedMove
<1>4. /\ sent' = sent /\ delivered' = delivered
      /\ [k \in Peer |-> Open(k)'] = [k \in Peer |-> Open(k)]
      /\ [k \in Peer |-> Holder(k)'] = [k \in Peer |-> Holder(k)]
      /\ [k \in Peer |-> lock_guards'[k] > 0] = [k \in Peer |-> lock_guards[k] > 0]
      /\ ac = acked[p] => acked' = acked
  <2>1. /\ OpenIn(guards[p], delivered[p]) = Open(p)
        /\ HolderIn(guards[p], delivered[p]) = Holder(p)
    BY Mapping
  <2> QED
    BY <1>1, <1>3, <2>1, MappedSame
<1>5. CASE t = None
  <2>1. acked' = acked
    BY <1>4, <1>5 DEF ac
  <2> QED
    BY <1>4, <2>1 DEF Promised!vars
<1>6. CASE t # None
  <2> DEFINE open == OpenIn(guards[q], delivered[q])
  <2>1. PICK d \in 1 .. Len(sent[p]) :
            /\ r = Num(d)
            /\ d \in Flying(s.send_window) => Done(sent[q], SeenIn(delivered[q]), open, d)
    BY <1>1, <1>2 DEF Exchanges, Paired
  <2>2. d \in 1 .. Half
    BY <1>1, <2>1, HalfFacts
  <2>3. t = IF d \in Flying(s.send_window) THEN d ELSE None
    BY <1>1, <2>1, <2>2, FlyingTaken
  <2>4. t = d /\ Done(sent[q], SeenIn(delivered[q]), open, d)
    BY <1>6, <2>1, <2>3
  <2>5. d \in SeenIn(delivered[q]) /\ d \notin Open(q) /\ d \in Data
    BY <1>1, <2>4, Mapping, SeenFacts DEF Done
  <2>6. DOMAIN sent[q] = 1 .. Len(sent[q])
    BY <1>1
  <2>7. ~Promised!Replied(q, d)
    BY <2>4, <2>6 DEF Promised!Replied, Done
  <2>8. Promised!Other(p) = q
    BY DEF Promised!Other, Other
  <2>9. acked' = [acked EXCEPT ![p] = @ \cup {d}]
    BY <1>2, <1>6, <2>4 DEF ac
  <2>10. d \in Promised!Got(q) /\ d \notin [k \in Peer |-> Open(k)][q]
    BY <1>1, <2>5 DEF Promised!Got, SeenIn
  <2> HIDE DEF q
  <2>11. Promised!Learn(p, d)
    BY <1>4, <2>7, <2>8, <2>9, <2>10 DEF Promised!Learn
  <2> QED
    BY <2>5, <2>11
<1> QED
  BY <1>5, <1>6

\* A call that hands nothing over, and neither sends, answers nor releases anything.
LEMMA QuietMapped ==
    ASSUME Basics, NEW p \in Peer, NEW v, NEW packets,
           Moves(p, v, guards[p], lock_guards[p], sent[p], delivered[p], packets), acked' = acked
    PROVE  UNCHANGED Promised!vars
<1>1. acked' = [acked EXCEPT ![p] = acked[p]]
  BY DEF Basics, Typed
<1>2. Mapped(p, guards[p], lock_guards[p], sent[p], delivered[p], acked[p])
  BY <1>1, MappedMove
<1>3. /\ sent' = sent /\ delivered' = delivered /\ acked' = acked
      /\ [k \in Peer |-> Open(k)'] = [k \in Peer |-> Open(k)]
      /\ [k \in Peer |-> Holder(k)'] = [k \in Peer |-> Holder(k)]
      /\ [k \in Peer |-> lock_guards'[k] > 0] = [k \in Peer |-> lock_guards[k] > 0]
  BY <1>2, Mapping, MappedSame
<1> QED
  BY <1>3 DEF Promised!vars

\* A step that leaves the applications alone.
LEMMA SameMapped ==
    ASSUME UNCHANGED <<guards, lock_guards, sent, delivered, acked>>
    PROVE  UNCHANGED Promised!vars
<1>1. \A k \in Peer : Open(k)' = Open(k) /\ Holder(k)' = Holder(k)
  BY DEF Open, Holder, Holders
<1> QED
  BY <1>1 DEF Promised!vars

\* Every call is a step of the channel, or none, until a packet is repeated.
LEMMA CallMaps ==
    ASSUME FewPackets, Answers, Answers', NEW p \in Peer, Call(p), ~repeated'
    PROVE  Promised!Next \/ UNCHANGED Promised!vars
<1>1. Basics /\ Order /\ repeated \in BOOLEAN
  BY BasicsFacts DEF Answers, Order
<1>2. CASE \E c \in SeqCstModes : Send(p, c)
  BY <1>1, <1>2, SendSubmits DEF Promised!Next
<1>3. CASE \E m, is_next : Hands(p, m, is_next)
  BY <1>3, HandsDelivers DEF Promised!Next
<1>4. CASE \E m : Saves(p, m)
  BY <1>1, <1>4, QuietMapped DEF Saves
<1>5. CASE \E m : AcksAgain(p, m)
  BY <1>1, <1>5, QuietMapped DEF AcksAgain
<1>6. CASE \E m \in net[p] : ReceiveAck(p, m)
  <2>1. ~repeated
    BY <1>6 DEF ReceiveAck
  <2> QED
    BY <1>6, <2>1, ReceiveAckLearns DEF Promised!Next
<1>7. CASE \E g, u, c : Answer(p, g, u, c)
  <2>1. ~repeated
    BY <1>7 DEF Answer
  <2> QED
    BY <1>7, <2>1, AnswerCloses DEF Promised!Next
<1>8. CASE \E g, u : GiveUp(p, g, u)
  <2>1. ~repeated
    BY <1>8 DEF GiveUp
  <2> QED
    BY <1>8, <2>1, GiveUpCloses DEF Promised!Next
<1>9. CASE \E g \in guards[p] : UnlockGuard(p, g)
  BY <1>1, <1>9, UnlockLeaves DEF Promised!Next
<1>10. CASE DropLockGuard(p)
  BY <1>1, <1>10, DropLockLeaves DEF Promised!Next
<1>11. CASE Resend(p)
  BY <1>1, <1>11, ResendMoves, QuietMapped
<1>12. CASE \E m \in net[p] : Lose(p, m)
  BY <1>12, SameMapped DEF Lose
<1> QED
  BY <1>2, <1>3, <1>4, <1>5, <1>6, <1>7, <1>8, <1>9, <1>10, <1>11, <1>12 DEF Call

LEMMA InitMaps == Init => Promised!Init
<1> SUFFICES ASSUME Init PROVE Promised!Init
  OBVIOUS
<1>1. \A k \in Peer : Open(k) = {} /\ Holder(k) = None /\ (lock_guards[k] > 0) = FALSE
  BY DEF Init, Open, Holder, Holders
<1> QED
  BY <1>1 DEF Init, Promised!Init

LEMMA NextMaps ==
    ASSUME FewPackets, Answers, Answers', [Next]_vars, ~repeated'
    PROVE  Promised!Next \/ UNCHANGED Promised!vars
<1>1. CASE UNCHANGED vars
  BY <1>1, SameMapped DEF vars
<1>2. CASE \E p \in Peer : Call(p)
  BY <1>2, CallMaps
<1>3. UNCHANGED vars \/ \E p \in Peer : Call(p)
  BY NextCalls DEF Answers, Order
<1> QED
  BY <1>1, <1>2, <1>3

\* The exchange of packets over a transport that loses, duplicates and reorders them implements
\* Channel, until a packet that was processed early is processed again.
THEOREM ImplementsUntilRepeated ==
    ASSUME FewPackets
    PROVE  Spec => ChannelUntilRepeated
<1>1. Answers /\ Answers' /\ [Next]_vars => [Promised!Next \/ repeated']_(Promised!vars)
  BY NextMaps
<1> QED
  BY <1>1, InitMaps, AnswersInvariance, PTL DEF Spec, ChannelUntilRepeated

\* With SeqCst packets only it implements Channel, the promise of SEQEX, without exception.
THEOREM SeqCstImplementsChannel ==
    ASSUME FewPackets, OnlySeqCst
    PROVE  Spec => ImplementsChannel
<1>1. Answers /\ Answers' /\ Strict' /\ [Next]_vars => [Promised!Next]_(Promised!vars)
  BY NextMaps DEF Strict
<1> QED
  BY <1>1, InitMaps, AnswersInvariance, StrictInvariance, PTL
  DEF Spec, ImplementsChannel, Promised!Spec
=============================================================================
