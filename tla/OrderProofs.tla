---------------------------- MODULE OrderProofs ----------------------------
(***************************************************************************)
(* Proofs about Exchange: which packet is which.  Packet d of a peer has   *)
(* the d-th sequence number wherever a copy of it is, and the receive      *)
(* window of the other peer tells exactly which packets were handed to the *)
(* application.  From it: the order of SeqCst packets, and no repetition.  *)
(***************************************************************************)
EXTENDS ExchangeProofs

----------------------------------------------------------------------------
(* The receive window after a packet was handed over.                      *)

\* fast_forward skips a run of Unlocked entries to its end: behind it there is none.
LEMMA FastForwardRun ==
    ASSUME NEW s \in SeqExState
    PROVE  LET n == FastForwardLength(s)
               at(j) == Idx(Wrap(s.next_recv_seq_no + j))
           IN  /\ n \in 0 .. CAP
               /\ \A j \in 0 .. n - 1 : s.recv_window[at(j)].tag = "Unlocked"
               /\ FastForward(s).recv_window[at(n)].tag # "Unlocked"
<1> DEFINE at(j)  == Idx(Wrap(s.next_recv_seq_no + j))
           Run(k) == \A j \in 0 .. k - 1 : /\ s.recv_window[at(j)].tag = "Unlocked"
                                           /\ \A l \in 0 .. j - 1 : at(l) # at(j)
           turns == {k \in 1 .. CAP : Run(k)}
           n == FastForwardLength(s)
           skipped == {at(j) : j \in 0 .. n - 1}
           v == FastForward(s)
<1>1. n = Cardinality(turns) /\ n \in 0 .. CAP
  BY FastForwardLengthType DEF FastForwardLength
<1>2. CAP \in Nat /\ CAP > 1 /\ s.next_recv_seq_no \in SeqNo
  BY CapAssumption DEF SeqExState
<1>3. \A j \in 0 .. CAP : at(j) \in 0 .. CAP - 1
  <2>1. SUFFICES ASSUME NEW j \in 0 .. CAP PROVE at(j) \in 0 .. CAP - 1
    OBVIOUS
  <2>2. s.next_recv_seq_no + j \in Int
    BY <1>2, <2>1, SeqNoAssumption DEF SeqNo
  <2> QED
    BY <2>2, WrapType, IdxType
<1>4. v.recv_window = [k \in 0 .. CAP - 1 |-> IF k \in skipped THEN Empty ELSE s.recv_window[k]]
  BY DEF FastForward, SeqExState
<1>5. at(CAP) = at(0)
  <2> DEFINE a == s.next_recv_seq_no
  <2>1. a \in Int /\ 0 <= a /\ a < SeqNoMod /\ SeqNoMod \in Nat /\ CAP < SeqNoMod
    BY <1>2, SeqNoAssumption DEF SeqNo
  <2>2. Idx(Wrap(a + CAP)) = (a + CAP) % CAP /\ Idx(Wrap(a + 0)) = (a + 0) % CAP
    BY <1>2, <2>1, IdxWrap
  <2>3. CAP % CAP = 0
    BY <1>2
  <2>4. CAP \in Int /\ CAP > 0
    BY <1>2
  <2> HIDE DEF a
  <2>5. (a + CAP) % CAP = a % CAP
    BY <1>2, <2>1, <2>3, <2>4, RemainderShift
  <2>6. a + 0 = a
    BY <2>1
  <2> QED
    BY <2>2, <2>5, <2>6 DEF a, at
<1> HIDE DEF at, n, skipped, v
<1>6. \A k \in turns : 1 .. k \subseteq turns
  <2>1. SUFFICES ASSUME NEW k \in 1 .. CAP, Run(k), NEW l \in 1 .. k PROVE l \in 1 .. CAP /\ Run(l)
    BY <1>2
  <2>2. \A j \in 0 .. l - 1 : j \in 0 .. k - 1
    BY <1>2, <2>1
  <2> QED
    BY <1>2, <2>1, <2>2
<1>7. turns \subseteq 1 .. CAP
  <2> HIDE DEF Run
  <2> QED
    OBVIOUS
<1>8. turns = 1 .. n
  <2> HIDE DEF turns
  <2>1. IsFiniteSet(1 .. CAP)
    BY <1>2, FS_Interval
  <2>2. IsFiniteSet(turns)
    BY <1>7, <2>1, FS_Subset
  <2>3. ASSUME NEW k \in turns PROVE k <= n
    <3>1. 1 .. k \subseteq turns /\ k \in Nat /\ k >= 1
      BY <1>6, <1>7, <1>2, <2>3
    <3>2. Cardinality(1 .. k) = k
      BY <3>1, FS_Interval
    <3>3. Cardinality(1 .. k) <= Cardinality(turns)
      BY <2>2, <3>1, FS_Subset
    <3> QED
      BY <1>1, <3>1, <3>2, <3>3
  <2>4. turns \subseteq 1 .. n
    BY <1>1, <1>2, <1>7, <2>3
  <2>5. IsFiniteSet(1 .. n) /\ Cardinality(1 .. n) = n
    <3>1. n \in Nat /\ n \in Int
      BY <1>1, <1>2
    <3>2. IsFiniteSet(1 .. n) /\ Cardinality(1 .. n) = IF 1 > n THEN 0 ELSE n - 1 + 1
      BY <3>1, FS_Interval
    <3> QED
      BY <3>1, <3>2
  <2> QED
    BY <1>1, <2>4, <2>5, FS_Subset
<1>9. ASSUME NEW j \in 0 .. n - 1
      PROVE  /\ s.recv_window[at(j)].tag = "Unlocked"
             /\ \A l \in 0 .. j - 1 : at(l) # at(j)
  <2>1. n \in 1 .. n
    BY <1>1, <1>9
  <2>2. Run(n)
    BY <1>8, <2>1
  <2> QED
    BY <1>9, <2>2
<1>10. v.recv_window[at(n)].tag # "Unlocked"
  <2> SUFFICES ASSUME v.recv_window[at(n)].tag = "Unlocked" PROVE FALSE
    OBVIOUS
  <2>1. at(n) \notin skipped /\ s.recv_window[at(n)].tag = "Unlocked"
    BY <1>1, <1>3, <1>4 DEF Empty
  <2>2. \A l \in 0 .. n - 1 : at(l) # at(n)
    BY <2>1 DEF skipped
  <2>3. n # CAP
    BY <1>1, <1>2, <1>5, <2>2
  <2>4. n + 1 \in 1 .. CAP
    BY <1>1, <1>2, <2>3
  <2>5. Run(n + 1)
    <3> SUFFICES ASSUME NEW j \in 0 .. (n + 1) - 1
                 PROVE  /\ s.recv_window[at(j)].tag = "Unlocked"
                        /\ \A l \in 0 .. j - 1 : at(l) # at(j)
      OBVIOUS
    <3>1. j = n \/ j \in 0 .. n - 1
      BY <1>1
    <3> QED
      BY <1>9, <2>1, <2>2, <3>1
  <2>6. n + 1 \in turns
    BY <2>4, <2>5
  <2>7. n + 1 \in 1 .. n
    BY <1>8, <2>6
  <2> QED
    BY <1>1, <1>2, <2>7
<1> QED
  BY <1>1, <1>9, <1>10 DEF at, n, v

\* Sums of sequence numbers wrap the same way in one step or two.
LEMMA WrapTwice ==
    ASSUME NEW a \in SeqNo, NEW i \in 0 .. CAP, NEW j \in 0 .. CAP
    PROVE  /\ Wrap(Wrap(a + i) + j) = Wrap(a + (i + j))
           /\ Wrap(a + i) \in SeqNo
           /\ Wrap(Wrap(a + i) - a) = i
<1>1. /\ SeqNoMod \in Nat /\ SeqNoMod > 2 * CAP /\ CAP \in Nat
      /\ a \in Int /\ 0 <= a /\ a < SeqNoMod /\ i \in Int /\ j \in Int
      /\ 0 <= i /\ i <= CAP /\ 0 <= j /\ j <= CAP
  BY SeqNoAssumption, CapAssumption DEF SeqNo
<1>2. Wrap(a + i) = IF a + i < SeqNoMod THEN a + i ELSE a + i - SeqNoMod
  BY <1>1, WrapOnce
<1>3. /\ Wrap(a + i) \in SeqNo
      /\ Wrap(a + (i + j)) = IF a + (i + j) < SeqNoMod THEN a + (i + j) ELSE a + (i + j) - SeqNoMod
  BY <1>1, WrapOnce, WrapType
<1> DEFINE b == Wrap(a + i)
<1>4. b \in Int /\ 0 <= b /\ b < SeqNoMod
  BY <1>1, <1>3 DEF SeqNo
<1>5. /\ Wrap(b + j) = IF b + j < SeqNoMod THEN b + j ELSE b + j - SeqNoMod
      /\ Wrap(b - a) = IF b - a < 0 THEN b - a + SeqNoMod
                       ELSE IF b - a < SeqNoMod THEN b - a ELSE b - a - SeqNoMod
  <2> HIDE DEF b
  <2> QED
    BY <1>1, <1>4, WrapOnce
<1> QED
  BY <1>1, <1>2, <1>3, <1>5

\* An Unlocked slot in range is that of its number.
LEMMA UnlockedSlot ==
    ASSUME NEW s, Windows(s), NEW n \in SeqNo, Normalized(s, n) \in 0 .. CAP - 1,
           s.recv_window[Idx(n)].tag = "Unlocked"
    PROVE  s.recv_window[Idx(n)] = Unlocked(n)
<1>1. s.recv_window[Idx(n)] \in RecvEntry
  BY IdxType DEF Windows, SeqExState
<1>2. s.recv_window[Idx(n)] \in UnlockedEntry /\ s.recv_window[Idx(n)] # Empty
  BY <1>1 DEF RecvEntry, OccupiedEntry, Empty
<1> QED
  BY <1>2, OwnEntry DEF UnlockedEntry, Unlocked

\* The packet that is next was handed over: the window moves past it and past the n numbers
\* after it, which were Unlocked, and stops before one that is not.
LEMMA AdvanceNext ==
    ASSUME NEW s, Windows(s), NEW m \in Acceptable
    PROVE  LET a == s.next_recv_seq_no
               v == Advance(s, m, TRUE)
           IN  \E n \in 0 .. CAP - 1 :
                 /\ v.next_recv_seq_no = Wrap(a + (n + 1))
                 /\ \A j \in 1 .. n : s.recv_window[Idx(Wrap(a + j))] = Unlocked(Wrap(a + j))
                 /\ \A i \in 0 .. CAP - 1 :
                        \/ v.recv_window[i] = s.recv_window[i]
                        \/ v.recv_window[i] = Empty /\ \E j \in 0 .. n : i = Idx(Wrap(a + j))
                 /\ v.recv_window[Idx(Wrap(a + (n + 1)))].tag # "Unlocked"
<1> DEFINE a == s.next_recv_seq_no
           b == Wrap(a + 1)
           u == [s EXCEPT !.recv_window[Idx(a)] = Empty, !.next_recv_seq_no = b]
           v == Advance(s, m, TRUE)
           n == FastForwardLength(u)
<1>1. /\ s \in SeqExState /\ a \in SeqNo /\ CAP \in Nat /\ CAP > 1
      /\ s.recv_window \in [0 .. CAP - 1 -> RecvEntry]
  BY CapAssumption DEF Windows, SeqExState
<1>2. 1 \in 0 .. CAP /\ 0 \in 0 .. CAP /\ Idx(a) \in 0 .. CAP - 1
  BY <1>1, IdxType
<1>3. b \in SeqNo
  BY <1>1, <1>2, WrapTwice
<1>4. v = FastForward(u)
  BY DEF Advance
<1> HIDE DEF b
<1>5. /\ u \in SeqExState /\ u.next_recv_seq_no = b
      /\ u.recv_window = [s.recv_window EXCEPT ![Idx(a)] = Empty]
  BY <1>1, <1>2, <1>3, RecvEntryFacts DEF SeqExState
<1> HIDE DEF u, a
<1>6. /\ n \in 0 .. CAP
      /\ \A j \in 0 .. n - 1 : u.recv_window[Idx(Wrap(b + j))].tag = "Unlocked"
      /\ FastForward(u).recv_window[Idx(Wrap(b + n))].tag # "Unlocked"
  BY <1>5, FastForwardRun
<1>7. /\ v.next_recv_seq_no = Wrap(b + n)
      /\ v.recv_window = [i \in 0 .. CAP - 1 |->
            IF i \in {Idx(Wrap(b + j)) : j \in 0 .. n - 1} THEN Empty ELSE u.recv_window[i]]
  <2> DEFINE c == u.next_recv_seq_no
             Passing(x) == [i \in 0 .. CAP - 1 |->
                IF i \in {Idx(Wrap(x + j)) : j \in 0 .. n - 1} THEN Empty ELSE u.recv_window[i]]
  <2>1. v.next_recv_seq_no = Wrap(c + n) /\ v.recv_window = Passing(c)
    BY <1>4, <1>5 DEF FastForward, SeqExState
  <2>2. c = b
    BY <1>5
  <2> HIDE DEF c, Passing
  <2>3. v.next_recv_seq_no = Wrap(b + n) /\ v.recv_window = Passing(b)
    BY <2>1, <2>2
  <2> QED
    BY <2>3 DEF Passing
<1> HIDE DEF n, v
<1>8. \A j \in 0 .. CAP : Wrap(b + j) = Wrap(a + (1 + j))
  BY <1>1, <1>2, WrapTwice DEF b
<1>9. n \in 0 .. CAP - 1
  <2>1. SUFFICES ASSUME n = CAP PROVE FALSE
    BY <1>1, <1>6
  <2>2. CAP - 1 \in 0 .. n - 1 /\ CAP - 1 \in 0 .. CAP /\ 1 + (CAP - 1) = CAP
    BY <1>1, <2>1
  <2>3. u.recv_window[Idx(Wrap(b + (CAP - 1)))].tag = "Unlocked"
    BY <1>6, <2>2
  <2>4. Wrap(b + (CAP - 1)) = Wrap(a + CAP)
    BY <1>8, <2>2
  <2>5. Idx(Wrap(a + CAP)) = Idx(a)
    <3> DEFINE c == Wrap(a + CAP)
    <3>1. c \in SeqNo /\ Wrap(c - a) = CAP
      BY <1>1, WrapTwice
    <3>2. /\ SeqNoMod \in Nat /\ a \in Int /\ 0 <= a /\ a < SeqNoMod /\ SeqNoMod > 2 * CAP
      BY <1>1, SeqNoAssumption DEF SeqNo
    <3>3. c = IF a + CAP < SeqNoMod THEN a + CAP ELSE a + CAP - SeqNoMod
      BY <1>1, <3>2, WrapOnce
    <3>4. /\ Wrap(c - CAP) = IF c - CAP < 0 THEN c - CAP + SeqNoMod
                             ELSE IF c - CAP < SeqNoMod THEN c - CAP ELSE c - CAP - SeqNoMod
          /\ c \in Int
      <4>1. c \in Int /\ 0 <= c /\ c < SeqNoMod
        BY <3>1, <3>2 DEF SeqNo
      <4> HIDE DEF c
      <4> QED
        BY <1>1, <3>2, <4>1, WrapOnce
    <3>5. Wrap(c - CAP) = a
      <4> HIDE DEF c
      <4> QED
        BY <1>1, <3>2, <3>3, <3>4
    <3> QED
      BY <3>1, <3>5, IdxWindow
  <2>6. u.recv_window[Idx(a)] = Empty
    BY <1>1, <1>2, <1>5
  <2> QED
    BY <2>3, <2>4, <2>5, <2>6 DEF Empty
<1>10. ASSUME NEW j \in 1 .. n
       PROVE  s.recv_window[Idx(Wrap(a + j))] = Unlocked(Wrap(a + j))
  <2> DEFINE c == Wrap(a + j)
  <2>1. j \in 0 .. CAP /\ j \in 0 .. CAP - 1 /\ j - 1 \in 0 .. n - 1 /\ j - 1 \in 0 .. CAP
        /\ 1 + (j - 1) = j
    BY <1>1, <1>9, <1>10
  <2>2. c \in SeqNo /\ Wrap(c - a) = j
    BY <1>1, <2>1, WrapTwice
  <2>3. u.recv_window[Idx(c)].tag = "Unlocked"
    BY <1>6, <1>8, <2>1
  <2>4. Idx(c) \in 0 .. CAP - 1
    BY <2>2, IdxType
  <2> HIDE DEF c
  <2>5. u.recv_window[Idx(c)] = s.recv_window[Idx(c)]
    BY <1>1, <1>5, <2>3, <2>4 DEF Empty
  <2>6. Normalized(s, c) \in 0 .. CAP - 1
    BY <2>1, <2>2 DEF Normalized, a
  <2> QED
    BY <2>2, <2>3, <2>5, <2>6, UnlockedSlot DEF c
<1>11. ASSUME NEW i \in 0 .. CAP - 1, v.recv_window[i] # s.recv_window[i]
       PROVE  v.recv_window[i] = Empty /\ \E j \in 0 .. n : i = Idx(Wrap(a + j))
  <2>1. CASE i \in {Idx(Wrap(b + j)) : j \in 0 .. n - 1}
    <3>1. PICK j \in 0 .. n - 1 : i = Idx(Wrap(b + j))
      BY <2>1
    <3>2. j \in 0 .. CAP /\ 1 + j \in 0 .. n
      BY <1>1, <1>9, <3>1
    <3>3. i = Idx(Wrap(a + (1 + j)))
      BY <1>8, <3>1, <3>2
    <3>4. v.recv_window[i] = Empty
      BY <1>7, <2>1
    <3> QED
      BY <3>2, <3>3, <3>4
  <2>2. CASE i \notin {Idx(Wrap(b + j)) : j \in 0 .. n - 1}
    <3>1. v.recv_window[i] = u.recv_window[i]
      BY <1>7, <2>2
    <3>2. i = Idx(a) /\ u.recv_window[i] = Empty
      BY <1>1, <1>2, <1>5, <1>11, <3>1
    <3>3. Wrap(a + 0) = a
      <4>1. /\ a \in Int /\ 0 <= a /\ a < SeqNoMod /\ SeqNoMod \in Nat
        BY <1>1, SeqNoAssumption DEF SeqNo
      <4> QED
        BY <4>1, WrapOnce
    <3>4. 0 \in 0 .. n
      BY <1>9
    <3> QED
      BY <3>1, <3>2, <3>3, <3>4
  <2> QED
    BY <2>1, <2>2
<1>12. Wrap(b + n) = Wrap(a + (n + 1))
  <2>1. n \in 0 .. CAP /\ 1 + n = n + 1
    BY <1>1, <1>9
  <2> QED
    BY <1>8, <2>1
<1> QED
  BY <1>4, <1>6, <1>7, <1>9, <1>10, <1>11, <1>12 DEF v, a

\* The packet was early: it leaves Unlocked in its slot.
LEMMA AdvanceEarly ==
    ASSUME NEW s, Windows(s), NEW m \in Acceptable
    PROVE  LET v == Advance(s, m, FALSE)
           IN  /\ v.next_recv_seq_no = s.next_recv_seq_no
               /\ v.recv_window = [s.recv_window EXCEPT ![Idx(m.seq_no)] = Unlocked(m.seq_no)]
BY DEF Advance, Windows, SeqExState

\* Accept leaves the receive side as Advance does.
LEMMA AcceptRecvSide ==
    ASSUME NEW s \in SeqExState, NEW m \in Acceptable, NEW is_next \in BOOLEAN
    PROVE  /\ Accept(s, m, is_next).recv_window = Advance(s, m, is_next).recv_window
           /\ Accept(s, m, is_next).next_recv_seq_no = Advance(s, m, is_next).next_recv_seq_no
<1> DEFINE u == Advance(s, m, is_next)
           issued == IssueReplyNo(u, m)
<1>1. u \in SeqExState
  BY AdvanceType
<1>2. /\ issued.next_recv_seq_no = u.next_recv_seq_no /\ issued.send_window = u.send_window
  BY <1>1 DEF IssueReplyNo, SeqExState
<1>3. Accept(s, m, is_next).next_recv_seq_no = u.next_recv_seq_no
  <2>1. TakeSend(issued, m.reply_no).next_recv_seq_no = issued.next_recv_seq_no
    BY <1>1 DEF TakeSend, IssueReplyNo, SeqExState
  <2> QED
    BY <1>2, <2>1 DEF Accept
<1> QED
  BY <1>3, AcceptRecvWindow

----------------------------------------------------------------------------
(* Sequence numbers and packets.                                           *)

\* The sequence number of packet d of a peer.
Num(d) == Wrap(InitialSeqNo + (d - 1))

\* How many packets the receive window has passed.
Passed(s) == Wrap(s.next_recv_seq_no - InitialSeqNo)

Half == SeqNoMod \div 2

LEMMA HalfFacts ==
    /\ Half \in Nat /\ SeqNoMod = 2 * Half /\ Half > CAP /\ CAP \in Nat /\ CAP > 1
    /\ (SeqNoMod - 1) \div 2 = Half - 1
    /\ SeqNoMod \in Nat /\ InitialSeqNo \in Int /\ 0 <= InitialSeqNo /\ InitialSeqNo < SeqNoMod
BY SeqNoAssumption, CapAssumption DEF Half, SeqNo

\* Half of the range of sequence numbers has no two packets with the same number, ...
LEMMA NumInjective ==
    ASSUME NEW d \in 1 .. Half + CAP, NEW e \in 1 .. Half + CAP
    PROVE  /\ Num(d) \in SeqNo /\ Num(d) \in Int
           /\ Num(d) = Num(e) => d = e
<1>1. /\ InitialSeqNo + (d - 1) \in Int /\ InitialSeqNo + (e - 1) \in Int
      /\ 0 <= InitialSeqNo + (d - 1) /\ InitialSeqNo + (d - 1) < 2 * SeqNoMod
      /\ 0 <= InitialSeqNo + (e - 1) /\ InitialSeqNo + (e - 1) < 2 * SeqNoMod
  BY HalfFacts
<1> DEFINE i == InitialSeqNo + (d - 1)
           j == InitialSeqNo + (e - 1)
<1>2. /\ Wrap(i) = IF i < SeqNoMod THEN i ELSE i - SeqNoMod
      /\ Wrap(j) = IF j < SeqNoMod THEN j ELSE j - SeqNoMod
      /\ Wrap(i) \in SeqNo
  <2> HIDE DEF i, j
  <2> QED
    BY <1>1, HalfFacts, WrapOnce, WrapType DEF i, j
<1>3. Num(d) = Wrap(i) /\ Num(e) = Wrap(j)
  BY DEF Num
<1> QED
  BY <1>1, <1>2, <1>3, HalfFacts DEF SeqNo

\* ... and the range check tells the packets that the window has passed from the others.
LEMMA NumDistance ==
    ASSUME NEW s \in SeqExState, Passed(s) <= Half, NEW d \in 1 .. Half + CAP
    PROVE  /\ Passed(s) \in Nat /\ s.next_recv_seq_no = Num(Passed(s) + 1)
           /\ d > Passed(s) /\ d <= Half => Normalized(s, Num(d)) = d - 1 - Passed(s)
           /\ d <= Passed(s) => Normalized(s, Num(d)) >= Half
<1> DEFINE a == s.next_recv_seq_no
           R == Passed(s)
<1>1. /\ a \in SeqNo /\ a \in Int /\ 0 <= a /\ a < SeqNoMod
  <2>1. a \in SeqNo
    BY DEF SeqExState
  <2> HIDE DEF a
  <2> QED
    BY <2>1, HalfFacts DEF SeqNo
<1>2. a = Wrap(InitialSeqNo + R) /\ R \in SeqNo
  <2>1. InitialSeqNo \in SeqNo /\ a - InitialSeqNo \in Int /\ R = Wrap(a - InitialSeqNo)
    BY <1>1, SeqNoAssumption, HalfFacts DEF Passed
  <2> HIDE DEF a, R
  <2>2. R \in SeqNo
    BY <2>1, WrapType
  <2>3. a = Wrap(InitialSeqNo + R)
    BY <1>1, <2>1, Ahead
  <2> QED
    BY <2>2, <2>3
<1>3. R \in Int /\ 0 <= R /\ R <= Half
  BY <1>2, HalfFacts DEF SeqNo
<1> HIDE DEF a, R
<1> DEFINE h == InitialSeqNo + R
<1>4. h \in Int /\ 0 <= h /\ h < 2 * SeqNoMod /\ a = IF h < SeqNoMod THEN h ELSE h - SeqNoMod
  <2>1. h \in Int /\ 0 <= h /\ h < 2 * SeqNoMod /\ -SeqNoMod <= h /\ a = Wrap(h)
    BY <1>2, <1>3, HalfFacts
  <2> HIDE DEF h
  <2>2. Wrap(h) = IF h < 0 THEN h + SeqNoMod ELSE IF h < SeqNoMod THEN h ELSE h - SeqNoMod
    BY <2>1, WrapOnce
  <2> QED
    BY <2>1, <2>2, HalfFacts
<1> DEFINE i == InitialSeqNo + (d - 1)
           b == Num(d)
<1>5. i \in Int /\ 0 <= i /\ i < 2 * SeqNoMod
  BY HalfFacts
<1>6. b = IF i < SeqNoMod THEN i ELSE i - SeqNoMod
  <2>1. b = Wrap(i)
    BY DEF Num
  <2> HIDE DEF i, b
  <2> QED
    BY <1>5, <2>1, HalfFacts, WrapOnce
<1>7. b \in Int /\ 0 <= b /\ b < SeqNoMod
  BY <1>5, <1>6, HalfFacts
<1>8. Wrap(b - a) = IF b - a < 0 THEN b - a + SeqNoMod ELSE b - a
  <2> HIDE DEF b
  <2>1. b - a \in Int /\ -SeqNoMod <= b - a /\ b - a < SeqNoMod /\ b - a < 2 * SeqNoMod
    BY <1>1, <1>7, HalfFacts
  <2> QED
    BY <2>1, WrapOnce
<1>9. Normalized(s, b) = Wrap(b - a)
  BY DEF Normalized, a
<1>10. a = Num(R + 1)
  <2>1. InitialSeqNo + ((R + 1) - 1) = InitialSeqNo + R
    BY <1>3, HalfFacts
  <2> QED
    BY <1>2, <2>1 DEF Num
<1>11. d > R /\ d <= Half => Wrap(b - a) = d - 1 - R
  BY <1>1, <1>3, <1>4, <1>6, <1>7, <1>8, HalfFacts
<1>12. d <= R => Wrap(b - a) >= Half
  BY <1>1, <1>3, <1>4, <1>6, <1>7, <1>8, HalfFacts
<1> QED
  BY <1>3, <1>9, <1>10, <1>11, <1>12 DEF R, a

\* The numbers go up by one.
LEMMA NumShift ==
    ASSUME NEW r \in 0 .. Half, NEW j \in 0 .. CAP
    PROVE  /\ Wrap(Num(r + 1) + j) = Num((r + 1) + j)
           /\ (r + 1) + j <= Half + CAP => Wrap(Num((r + 1) + j) - InitialSeqNo) = r + j
<1>1. /\ r \in Int /\ 0 <= r /\ r <= Half /\ j \in Int /\ 0 <= j /\ j <= CAP
  BY HalfFacts
<1> DEFINE i == InitialSeqNo + r
           k == (InitialSeqNo + r) + j
<1>2. /\ i \in Int /\ 0 <= i /\ i < 2 * SeqNoMod /\ -SeqNoMod <= i
      /\ k \in Int /\ 0 <= k /\ k < 2 * SeqNoMod /\ -SeqNoMod <= k /\ k = i + j
  BY <1>1, HalfFacts
<1>3. Num(r + 1) = Wrap(i) /\ Num((r + 1) + j) = Wrap(k)
  <2>1. InitialSeqNo + ((r + 1) - 1) = i /\ InitialSeqNo + (((r + 1) + j) - 1) = k
    BY <1>1, HalfFacts
  <2> HIDE DEF i, k
  <2> QED
    BY <2>1 DEF Num
<1> DEFINE a == Wrap(i)
           b == Wrap(k)
<1> HIDE DEF i, k
<1>4. /\ a = IF i < SeqNoMod THEN i ELSE i - SeqNoMod
      /\ b = IF k < SeqNoMod THEN k ELSE k - SeqNoMod
  BY <1>2, HalfFacts, WrapOnce
<1> HIDE DEF a, b
<1>5. Wrap(a + j) = b
  <2>1. a + j \in Int /\ 0 <= a + j /\ -SeqNoMod <= a + j /\ a + j < 2 * SeqNoMod
    BY <1>1, <1>2, <1>4, HalfFacts
  <2> DEFINE c == a + j
  <2>2. c \in Int /\ 0 <= c /\ -SeqNoMod <= c /\ c < 2 * SeqNoMod /\ c = a + j
    BY <2>1
  <2> HIDE DEF c
  <2>3. Wrap(c) = IF c < SeqNoMod THEN c ELSE c - SeqNoMod
    BY <2>2, HalfFacts, WrapOnce
  <2>4. Wrap(c) = b
    BY <1>1, <1>2, <1>4, <2>2, <2>3, HalfFacts
  <2> QED
    BY <2>2, <2>4
<1>6. ASSUME (r + 1) + j <= Half + CAP PROVE Wrap(b - InitialSeqNo) = r + j
  <2>1. k = InitialSeqNo + (r + j) /\ r + j < SeqNoMod
    BY <1>1, <1>6, HalfFacts DEF k, i
  <2>2. b - InitialSeqNo \in Int /\ -SeqNoMod <= b - InitialSeqNo /\ b - InitialSeqNo < 2 * SeqNoMod
    BY <1>2, <1>4, HalfFacts
  <2>3. Wrap(b - InitialSeqNo) = IF b - InitialSeqNo < 0 THEN b - InitialSeqNo + SeqNoMod
                                 ELSE IF b - InitialSeqNo < SeqNoMod THEN b - InitialSeqNo
                                 ELSE b - InitialSeqNo - SeqNoMod
    BY <2>2, WrapOnce
  <2> QED
    BY <1>1, <1>2, <1>4, <2>1, <2>2, <2>3, HalfFacts
<1> QED
  BY <1>3, <1>5, <1>6 DEF a, b

\* A packet in the receive window is one that the window has not passed.
LEMMA NumInRange ==
    ASSUME NEW s \in SeqExState, Passed(s) <= Half, NEW d \in 1 .. Half,
           Normalized(s, Num(d)) \in 0 .. CAP - 1
    PROVE  /\ Passed(s) \in 0 .. Half /\ d > Passed(s)
           /\ Normalized(s, Num(d)) = d - 1 - Passed(s)
<1>1. d \in 1 .. Half + CAP /\ d \in Int /\ d <= Half
  BY HalfFacts
<1>2. /\ Passed(s) \in Nat
      /\ d > Passed(s) /\ d <= Half => Normalized(s, Num(d)) = d - 1 - Passed(s)
      /\ d <= Passed(s) => Normalized(s, Num(d)) >= Half
  BY <1>1, NumDistance
<1>3. Normalized(s, Num(d)) < Half
  BY HalfFacts
<1>4. ~(Normalized(s, Num(d)) >= Half)
  BY <1>3, HalfFacts
<1> QED
  BY <1>1, <1>2, <1>4, HalfFacts

\* Two packets in the receive window that share a slot are the same.
LEMMA SamePacket ==
    ASSUME NEW s \in SeqExState, NEW d \in 1 .. Half + CAP, NEW e \in 1 .. Half + CAP,
           Normalized(s, Num(d)) \in 0 .. CAP - 1, Normalized(s, Num(e)) \in 0 .. CAP - 1,
           Idx(Num(d)) = Idx(Num(e))
    PROVE  d = e
<1>1. Num(d) \in SeqNo /\ Num(e) \in SeqNo /\ s.next_recv_seq_no \in SeqNo
  BY NumInjective DEF SeqExState
<1>2. Num(d) = Num(e)
  BY <1>1, SlotUnique DEF Normalized
<1> QED
  BY <1>2, NumInjective

----------------------------------------------------------------------------
(* What has been received.                                                 *)

\* The packet, or the entry of a window, that carries data d is packet d of the sender.
Made(sn, m) ==
    /\ m.data \in 1 .. Len(sn) /\ m.seq_no = Num(m.data)
    /\ m.seq_cst = sn[m.data].seq_cst
    /\ (m.reply_no = None) <=> (sn[m.data].reply_to = None)
    /\ m.reply_no # None => m.reply_no = Num(sn[m.data].reply_to)

\* What was handed to the application.
SeenIn(dl) == {dl[i].data : i \in DOMAIN dl}

\* The receive window of s tells which of the packets in sn were handed over: every packet it
\* has passed, and those whose slot is Unlocked.
Received(sn, s, dl) ==
    /\ Passed(s) <= Len(sn)
    /\ SeenIn(dl) \subseteq 1 .. Len(sn)
    /\ 1 .. Passed(s) \subseteq SeenIn(dl)
    /\ \A d \in SeenIn(dl) : d > Passed(s) => s.recv_window[Idx(Num(d))] = Unlocked(Num(d))
    /\ \A i \in 0 .. CAP - 1 :
        /\ s.recv_window[i].tag = "Occupied" => Made(sn, s.recv_window[i])
        /\ s.recv_window[i].tag = "Unlocked" =>
                \E d \in SeenIn(dl) : s.recv_window[i].seq_no = Num(d)
    /\ NextEntry(s).tag # "Unlocked"

LEMMA SeenAppend ==
    ASSUME NEW dl \in Seq(Delivered), NEW x \in Delivered
    PROVE  SeenIn(Append(dl, x)) = SeenIn(dl) \cup {x.data}
<1>1. /\ Append(dl, x) \in Seq(Delivered) /\ Len(Append(dl, x)) = Len(dl) + 1 /\ Len(dl) \in Nat
      /\ \A i \in 1 .. Len(dl) : Append(dl, x)[i] = dl[i]
      /\ Append(dl, x)[Len(dl) + 1] = x
  BY AppendProperties
<1>2. /\ DOMAIN Append(dl, x) = 1 .. Len(dl) + 1 /\ DOMAIN dl = 1 .. Len(dl)
      /\ 1 .. Len(dl) + 1 = 1 .. Len(dl) \cup {Len(dl) + 1}
  BY <1>1
<1> QED
  BY <1>1, <1>2 DEF SeenIn

\* What is handed to the application is not passed yet, and it is next exactly if everything
\* before it was handed over.  A packet that is next is new, and an old one is a repeat.
LEMMA HandedNumber ==
    ASSUME NEW sn, Len(sn) \in Nat, Len(sn) <= Half, NEW s, Windows(s), NEW dl,
           Received(sn, s, dl), NEW m, NEW is_next, Handable(s, m, is_next), Made(sn, m)
    PROVE  /\ Passed(s) \in 0 .. Half /\ m.data \in 1 .. Half /\ m.data > Passed(s)
           /\ s.next_recv_seq_no = Num(Passed(s) + 1)
           /\ is_next <=> m.data = Passed(s) + 1
           /\ is_next => m.data \notin SeenIn(dl)
           /\ m.data \in SeenIn(dl) => IsRepeat(s, m)
<1> DEFINE R == Passed(s)
           d == m.data
<1>1. /\ s \in SeqExState /\ m.seq_no = Num(d) /\ d \in 1 .. Len(sn) /\ R <= Len(sn)
      /\ Normalized(s, Num(d)) \in 0 .. CAP - 1 /\ is_next \in BOOLEAN
      /\ is_next <=> Num(d) = s.next_recv_seq_no
  BY DEF Windows, Made, Handable, Received
<1> HIDE DEF d
<1>2. d \in 1 .. Half /\ d \in 1 .. Half + CAP /\ d \in Int
  BY <1>1, HalfFacts
<1>3. R <= Half
  <2>1. R \in SeqNo
    <3>1. s.next_recv_seq_no - InitialSeqNo \in Int
      BY <1>1, HalfFacts DEF SeqExState, SeqNo
    <3> QED
      BY <3>1, WrapType DEF Passed
  <2>2. R \in Int
    BY <2>1, HalfFacts DEF SeqNo
  <2> QED
    BY <1>1, <2>2, HalfFacts
<1>4. R \in 0 .. Half /\ d > R /\ R \in Nat
  BY <1>1, <1>2, <1>3, NumInRange
<1>5. s.next_recv_seq_no = Num(R + 1)
  BY <1>1, <1>2, <1>3, NumDistance
<1>6. is_next <=> d = R + 1
  <2>1. R + 1 \in 1 .. Half + CAP
    BY <1>4, HalfFacts
  <2> QED
    BY <1>1, <1>2, <1>5, <2>1, NumInjective
<1>7. ASSUME d \in SeenIn(dl) PROVE s.recv_window[Idx(Num(d))] = Unlocked(Num(d))
  BY <1>4, <1>7 DEF Received
<1>8. ASSUME is_next, d \in SeenIn(dl) PROVE FALSE
  <2>1. NextEntry(s).tag = "Unlocked"
    BY <1>1, <1>7, <1>8 DEF NextEntry, Unlocked
  <2> QED
    BY <2>1 DEF Received
<1> QED
  BY <1>1, <1>2, <1>4, <1>5, <1>6, <1>7, <1>8 DEF d, IsRepeat

\* An early packet leaves Unlocked in its slot: the window still tells what was handed over.
LEMMA EarlyReceived ==
    ASSUME NEW sn, Len(sn) \in Nat, Len(sn) <= Half, NEW s, Windows(s),
           NEW dl \in Seq(Delivered), Received(sn, s, dl), NEW m, Handable(s, m, FALSE), Made(sn, m),
           NEW x \in Delivered, x.data = m.data
    PROVE  Received(sn, Advance(s, m, FALSE), Append(dl, x))
<1> DEFINE R == Passed(s)
           d == m.data
           v == Advance(s, m, FALSE)
           seen == SeenIn(dl) \cup {d}
<1>1. /\ s \in SeqExState /\ m.seq_no = Num(d) /\ d \in 1 .. Len(sn) /\ m \in Acceptable
      /\ Normalized(s, Num(d)) \in 0 .. CAP - 1 /\ Num(d) # s.next_recv_seq_no
  BY DEF Windows, Made, Handable
<1>2. /\ v.next_recv_seq_no = s.next_recv_seq_no
      /\ v.recv_window = [s.recv_window EXCEPT ![Idx(Num(d))] = Unlocked(Num(d))]
  BY <1>1, AdvanceEarly
<1>3. SeenIn(Append(dl, x)) = seen
  BY SeenAppend
<1>4. R \in 0 .. Half /\ d > R /\ d \in 1 .. Half
  BY HandedNumber
<1> HIDE DEF v, d
<1>5. Passed(v) = R
  BY <1>2 DEF Passed
<1>6. d \in 1 .. Half + CAP /\ Num(d) \in SeqNo /\ Idx(Num(d)) \in 0 .. CAP - 1
  BY <1>4, HalfFacts, NumInjective, IdxType
<1>7. s.recv_window \in [0 .. CAP - 1 -> RecvEntry]
  BY <1>1 DEF SeqExState
<1>8. ASSUME NEW e \in seen, e > R
      PROVE  v.recv_window[Idx(Num(e))] = Unlocked(Num(e))
  <2>1. CASE e = d
    BY <1>2, <1>6, <1>7, <2>1
  <2>2. CASE e # d
    <3>1. e \in SeenIn(dl) /\ e \in 1 .. Len(sn)
      BY <1>8, <2>2 DEF Received
    <3>2. s.recv_window[Idx(Num(e))] = Unlocked(Num(e))
      BY <1>8, <3>1 DEF Received
    <3>3. e \in 1 .. Half + CAP
      BY <3>1, HalfFacts
    <3>4. Num(e) \in SeqNo /\ Idx(Num(e)) \in 0 .. CAP - 1
      BY <3>3, NumInjective, IdxType
    <3>5. Normalized(s, Num(e)) \in 0 .. CAP - 1
      BY <3>2, <3>4, RecvNumbers DEF Normalized, Unlocked, Empty
    <3>6. Idx(Num(e)) # Idx(Num(d))
      BY <1>1, <1>6, <2>2, <3>3, <3>5, SamePacket
    <3> QED
      BY <1>2, <1>7, <3>2, <3>4, <3>6
  <2> QED
    BY <2>1, <2>2
<1>9. ASSUME NEW i \in 0 .. CAP - 1
      PROVE  /\ v.recv_window[i].tag = "Occupied" => Made(sn, v.recv_window[i])
             /\ v.recv_window[i].tag = "Unlocked" =>
                    \E e \in seen : v.recv_window[i].seq_no = Num(e)
  <2>1. CASE i = Idx(Num(d))
    <3>1. v.recv_window[i] = Unlocked(Num(d))
      BY <1>2, <1>6, <1>7, <2>1
    <3>2. v.recv_window[i].tag = "Unlocked" /\ v.recv_window[i].seq_no = Num(d) /\ d \in seen
      BY <3>1 DEF Unlocked
    <3> QED
      BY <3>2
  <2>2. CASE i # Idx(Num(d))
    <3>1. v.recv_window[i] = s.recv_window[i]
      BY <1>2, <1>7, <2>2
    <3> QED
      BY <3>1 DEF Received
  <2> QED
    BY <2>1, <2>2
<1>10. NextEntry(v).tag # "Unlocked"
  <2>1. s.next_recv_seq_no \in SeqNo /\ Idx(s.next_recv_seq_no) \in 0 .. CAP - 1
    BY <1>1, IdxType DEF SeqExState
  <2>2. Idx(s.next_recv_seq_no) # Idx(Num(d))
    <3>1. Wrap(s.next_recv_seq_no - s.next_recv_seq_no) = 0 /\ 0 \in 0 .. CAP - 1
      BY <2>1, NextNumber, CapAssumption
    <3> QED
      BY <1>1, <1>6, <2>1, <3>1, SlotUnique DEF Normalized
  <2> QED
    BY <1>2, <1>7, <2>1, <2>2 DEF NextEntry, Received
<1>11. Passed(s) <= Len(sn) /\ SeenIn(dl) \subseteq 1 .. Len(sn) /\ 1 .. R \subseteq SeenIn(dl)
  BY DEF Received
<1>12. d \in 1 .. Len(sn)
  BY <1>1
<1> HIDE DEF R
<1> QED
  BY <1>3, <1>5, <1>8, <1>9, <1>10, <1>11, <1>12 DEF v, R, Received

\* The packet that is next moves the window, past it and past what was handed over early.
LEMMA NextReceived ==
    ASSUME NEW sn, Len(sn) \in Nat, Len(sn) <= Half, NEW s, Windows(s),
           NEW dl \in Seq(Delivered), Received(sn, s, dl), NEW m, Handable(s, m, TRUE), Made(sn, m),
           NEW x \in Delivered, x.data = m.data
    PROVE  Received(sn, Advance(s, m, TRUE), Append(dl, x))
<1> DEFINE R == Passed(s)
           d == m.data
           a == s.next_recv_seq_no
           v == Advance(s, m, TRUE)
           seen == SeenIn(dl) \cup {d}
<1>1. s \in SeqExState /\ d \in 1 .. Len(sn) /\ m \in Acceptable /\ a \in SeqNo
  BY DEF Windows, Made, Handable, SeqExState
<1>2. SeenIn(Append(dl, x)) = seen
  BY SeenAppend
<1>3. R \in 0 .. Half /\ d > R /\ d \in 1 .. Half /\ a = Num(R + 1) /\ d = R + 1
  BY HandedNumber
<1>4. PICK n \in 0 .. CAP - 1 :
        /\ v.next_recv_seq_no = Wrap(a + (n + 1))
        /\ \A j \in 1 .. n : s.recv_window[Idx(Wrap(a + j))] = Unlocked(Wrap(a + j))
        /\ \A i \in 0 .. CAP - 1 :
               \/ v.recv_window[i] = s.recv_window[i]
               \/ v.recv_window[i] = Empty /\ \E j \in 0 .. n : i = Idx(Wrap(a + j))
        /\ v.recv_window[Idx(Wrap(a + (n + 1)))].tag # "Unlocked"
  <2> HIDE DEF v, a
  <2> QED
    BY <1>1, AdvanceNext DEF v, a
<1> HIDE DEF v, d, a
<1>5. /\ R \in Int /\ 0 <= R /\ R + 1 <= Half /\ n \in Int /\ 0 <= n /\ n <= CAP - 1
  BY <1>3, <1>4, HalfFacts
<1> HIDE DEF R
<1>6. ASSUME NEW j \in 0 .. n + 1
      PROVE  /\ j \in 0 .. CAP /\ (R + 1) + j \in 1 .. Half + CAP
             /\ Wrap(a + j) = Num((R + 1) + j)
  <2>1. j \in 0 .. CAP /\ (R + 1) + j \in 1 .. Half + CAP
    BY <1>5, HalfFacts
  <2> QED
    BY <1>3, <2>1, NumShift
<1>7. Passed(v) = (R + 1) + n
  <2>1. n + 1 \in 0 .. n + 1 /\ (R + 1) + (n + 1) <= Half + CAP /\ R + (n + 1) = (R + 1) + n
    BY <1>5, HalfFacts
  <2>2. v.next_recv_seq_no = Num((R + 1) + (n + 1)) /\ n + 1 \in 0 .. CAP
    BY <1>4, <1>6, <2>1
  <2> QED
    BY <1>3, <2>1, <2>2, NumShift DEF Passed
<1>8. ASSUME NEW j \in 1 .. n PROVE (R + 1) + j \in SeenIn(dl)
  <2> DEFINE e == (R + 1) + j
  <2>1. j \in 0 .. n + 1 /\ e \in 1 .. Half + CAP
    BY <1>5, <1>6
  <2>2. s.recv_window[Idx(Num(e))] = Unlocked(Num(e))
    BY <1>4, <1>6, <2>1
  <2> HIDE DEF e
  <2>3. Num(e) \in SeqNo /\ Idx(Num(e)) \in 0 .. CAP - 1
    BY <2>1, NumInjective, IdxType
  <2>4. PICK f \in SeenIn(dl) : s.recv_window[Idx(Num(e))].seq_no = Num(f)
    BY <2>2, <2>3 DEF Received, Unlocked
  <2>5. Num(e) = Num(f)
    BY <2>2, <2>4 DEF Unlocked
  <2>6. f \in 1 .. Half + CAP
    <3>1. f \in 1 .. Len(sn)
      BY DEF Received
    <3> QED
      BY <3>1, HalfFacts
  <2>7. e = f
    BY <2>1, <2>5, <2>6, NumInjective
  <2> QED
    BY <2>7 DEF e
<1>9. 1 .. Passed(v) \subseteq seen
  <2>1. SUFFICES ASSUME NEW e \in 1 .. (R + 1) + n PROVE e \in seen
    BY <1>7
  <2>2. e \in 1 .. R \/ e = R + 1 \/ e - (R + 1) \in 1 .. n
    BY <1>5, <2>1
  <2>3. ASSUME e - (R + 1) \in 1 .. n PROVE e \in SeenIn(dl)
    <3>1. (R + 1) + (e - (R + 1)) = e
      BY <1>5, <2>1
    <3> QED
      BY <1>8, <2>3, <3>1
  <2>4. 1 .. R \subseteq SeenIn(dl)
    BY DEF Received, R
  <2> QED
    BY <1>3, <2>2, <2>3, <2>4
<1>10. seen \subseteq 1 .. Len(sn)
  BY <1>1 DEF Received
<1>11. Passed(v) <= Len(sn)
  <2>1. (R + 1) + n \in 1 .. (R + 1) + n
    BY <1>5
  <2>2. (R + 1) + n \in seen
    BY <1>7, <1>9, <2>1
  <2> QED
    BY <1>7, <1>10, <2>2
<1>12. ASSUME NEW e \in seen, e > Passed(v)
       PROVE  v.recv_window[Idx(Num(e))] = Unlocked(Num(e))
  <2>1. e \in 1 .. Half + CAP /\ e \in Int /\ e > (R + 1) + n
    BY <1>7, <1>10, <1>12, HalfFacts
  <2>2. e \in SeenIn(dl) /\ e > R
    BY <1>3, <1>5, <1>12, <2>1
  <2>3. s.recv_window[Idx(Num(e))] = Unlocked(Num(e))
    BY <2>2 DEF Received, R
  <2>4. Num(e) \in SeqNo /\ Idx(Num(e)) \in 0 .. CAP - 1
    BY <2>1, NumInjective, IdxType
  <2>5. Normalized(s, Num(e)) \in 0 .. CAP - 1
    BY <2>3, <2>4, RecvNumbers DEF Normalized, Unlocked, Empty
  <2>6. ASSUME NEW j \in 0 .. n, Idx(Num(e)) = Idx(Wrap(a + j)) PROVE FALSE
    <3> DEFINE f == (R + 1) + j
    <3>0. j \in 0 .. n
      BY <2>6
    <3>1. j \in 0 .. n + 1 /\ j \in Int /\ j <= n /\ j \in 0 .. CAP - 1
      BY <1>5, <3>0, HalfFacts
    <3>2. f \in 1 .. Half + CAP /\ Wrap(a + j) = Num(f) /\ j \in 0 .. CAP
      BY <1>6, <3>1
    <3>3. e # f
      BY <1>5, <2>1, <3>1
    <3>4. Normalized(s, Num(f)) = j
      BY <1>1, <3>2, WrapTwice DEF Normalized, a
    <3> HIDE DEF f
    <3> QED
      BY <1>1, <2>1, <2>5, <2>6, <3>1, <3>2, <3>3, <3>4, SamePacket
  <2> QED
    BY <1>4, <2>3, <2>4, <2>6
<1>13. ASSUME NEW i \in 0 .. CAP - 1
       PROVE  /\ v.recv_window[i].tag = "Occupied" => Made(sn, v.recv_window[i])
              /\ v.recv_window[i].tag = "Unlocked" =>
                    \E e \in seen : v.recv_window[i].seq_no = Num(e)
  <2>1. CASE v.recv_window[i] = s.recv_window[i]
    BY <2>1 DEF Received
  <2>2. CASE v.recv_window[i] = Empty
    BY <2>2 DEF Empty
  <2> QED
    BY <1>4, <2>1, <2>2
<1>14. NextEntry(v).tag # "Unlocked"
  BY <1>4 DEF NextEntry
<1> QED
  BY <1>2, <1>9, <1>10, <1>11, <1>12, <1>13, <1>14 DEF v, Received

\* What is left of Received once the packet is handed over.
LEMMA HandsReceived ==
    ASSUME NEW sn, Len(sn) \in Nat, Len(sn) <= Half, NEW s, Windows(s),
           NEW dl \in Seq(Delivered), Received(sn, s, dl), NEW m, NEW is_next,
           Handable(s, m, is_next), Made(sn, m), NEW x \in Delivered, x.data = m.data
    PROVE  Received(sn, Accept(s, m, is_next), Append(dl, x))
<1> DEFINE u == Advance(s, m, is_next)
           v == Accept(s, m, is_next)
<1>1. is_next \in BOOLEAN /\ s \in SeqExState /\ m \in Acceptable
  BY DEF Handable, Windows
<1>2. Received(sn, u, Append(dl, x))
  <2>1. CASE is_next = TRUE
    BY <2>1, NextReceived
  <2>2. CASE is_next = FALSE
    BY <2>2, EarlyReceived
  <2> QED
    BY <1>1, <2>1, <2>2
<1>3. v.recv_window = u.recv_window /\ v.next_recv_seq_no = u.next_recv_seq_no
  BY <1>1, AcceptRecvSide
<1> HIDE DEF u, v
<1>4. Passed(v) = Passed(u) /\ NextEntry(v) = NextEntry(u)
  BY <1>3 DEF Passed, NextEntry
<1> QED
  BY <1>2, <1>3, <1>4 DEF Received, v

----------------------------------------------------------------------------
(* What each method does to the two windows.                               *)

SameRecvSide(s, v) ==
    v.recv_window = s.recv_window /\ v.next_recv_seq_no = s.next_recv_seq_no

\* The window holds the same packets; only their resend times may differ.
SameEntries(w, v) == \A i \in 0 .. CAP - 1 :
    /\ v[i] = None <=> w[i] = None
    /\ w[i] # None => /\ v[i].seq_no = w[i].seq_no /\ v[i].reply_no = w[i].reply_no
                      /\ v[i].seq_cst = w[i].seq_cst /\ v[i].data = w[i].data

\* The send window without what reply number r, if it is one, takes out of it.
TakenWindow(s, r) == IF r = None THEN s.send_window ELSE TakeSend(s, r).send_window

\* The entry of a new packet is in the next slot, and that slot moved on.
Fills(s, v, e) ==
    /\ v.send_window = [s.send_window EXCEPT ![Idx(s.next_send_seq_no)] = e]
    /\ v.next_send_seq_no = Wrap(s.next_send_seq_no + 1)

LEMMA EntryFields ==
    ASSUME NEW s \in SeqExState, NEW r \in OptSeqNo, NEW c \in BOOLEAN, NEW d \in Data
    PROVE  LET e == NewEntry(s, 0, r, c, d)
           IN  /\ e \in SendEntry /\ e # None /\ e.seq_no = s.next_send_seq_no
               /\ e.reply_no = r /\ e.seq_cst = c /\ e.data = d
<1> DEFINE e == NewEntry(s, 0, r, c, d)
<1>1. e \in SendEntry
  BY NewEntryFacts
<1>2. e # None
  BY <1>1, NoneAssumption
<1>3. e.seq_no = s.next_send_seq_no /\ e.reply_no = r /\ e.seq_cst = c /\ e.data = d
  BY DEF NewEntry
<1> QED
  BY <1>1, <1>2, <1>3

LEMMA TrySendSides ==
    ASSUME NEW s \in SeqExState, NEW c \in BOOLEAN, NEW d \in Data
    PROVE  LET v == TrySend(s, 0, c, d)
           IN  /\ Fills(s, v, NewEntry(s, 0, None, c, d)) /\ SameRecvSide(s, v)
               /\ v.concurrent_replies = s.concurrent_replies
<1> DEFINE e == NewEntry(s, 0, None, c, d)
<1>1. e \in SendEntry /\ e.seq_no = s.next_send_seq_no
  BY EntryFields DEF OptSeqNo
<1>2. TrySend(s, 0, c, d) = InsertSend(s, e)
  BY DEF TrySend
<1> HIDE DEF e
<1>3. LET v == InsertSend(s, e)
      IN  Fills(s, v, e) /\ SameRecvSide(s, v) /\ v.concurrent_replies = s.concurrent_replies
  BY <1>1, InsertSendFacts DEF Fills, SameRecvSide
<1> QED
  BY <1>2, <1>3 DEF e

LEMMA ReplyRawSides ==
    ASSUME NEW s \in SeqExState, NEW r \in SeqNo, Reserved(s, r), NEW u \in BOOLEAN,
           NEW c \in BOOLEAN, NEW d \in Data
    PROVE  LET v == ReplyRaw(s, 0, r, u, c, d)
           IN  /\ Fills(s, v, NewEntry(s, 0, r, c, d)) /\ SameRecvSide(s, v)
               /\ v.concurrent_replies = RemoveReservation(s, r).concurrent_replies
<1> DEFINE e == NewEntry(s, 0, r, c, d)
           t == RemoveReservation(s, r)
           w == InsertSend(t, e)
           v == ReplyRaw(s, 0, r, u, c, d)
<1>1. e \in SendEntry /\ e.seq_no = s.next_send_seq_no
  BY EntryFields DEF OptSeqNo
<1>2. t \in SeqExState /\ t = [s EXCEPT !.concurrent_replies = t.concurrent_replies]
  BY RemoveReservationFacts
<1>3. v = [w EXCEPT !.is_locked = w.is_locked /\ ~u]
  BY DEF ReplyRaw
<1> HIDE DEF e, t, v
<1>4. SameSendSide(s, t) /\ SameRecvSide(s, t)
  BY <1>2 DEF SeqExState, SameSendSide, SameRecvSide
<1>5. /\ w \in SeqExState /\ w.send_window = [t.send_window EXCEPT ![Idx(e.seq_no)] = e]
      /\ w.next_send_seq_no = Wrap(t.next_send_seq_no + 1) /\ SameRecvSide(t, w)
      /\ w.concurrent_replies = t.concurrent_replies
  BY <1>1, <1>2, <1>4, InsertSendFacts DEF SameSendSide, SameRecvSide
<1> HIDE DEF w
<1>6. /\ v.send_window = w.send_window /\ v.next_send_seq_no = w.next_send_seq_no
      /\ v.recv_window = w.recv_window /\ v.next_recv_seq_no = w.next_recv_seq_no
      /\ v.concurrent_replies = w.concurrent_replies
  BY <1>3, <1>5 DEF SeqExState
<1>7. Fills(s, v, e)
  BY <1>1, <1>4, <1>5, <1>6 DEF Fills, SameSendSide
<1>8. SameRecvSide(s, v)
  BY <1>4, <1>5, <1>6 DEF SameRecvSide
<1> QED
  BY <1>5, <1>6, <1>7, <1>8 DEF e, v, t

LEMMA AckRawSides ==
    ASSUME NEW s \in SeqExState, NEW r \in SeqNo, Reserved(s, r), NEW u \in BOOLEAN
    PROVE  LET v == AckRaw(s, r, u)
           IN  /\ SameSendSide(s, v) /\ SameRecvSide(s, v)
               /\ v.concurrent_replies = RemoveReservation(s, r).concurrent_replies
<1> DEFINE t == RemoveReservation(s, r)
           v == AckRaw(s, r, u)
<1>1. t \in SeqExState /\ t = [s EXCEPT !.concurrent_replies = t.concurrent_replies]
  BY RemoveReservationFacts
<1>2. v = [t EXCEPT !.is_locked = t.is_locked /\ ~u]
  BY DEF AckRaw
<1> HIDE DEF t, v
<1>3. SameSendSide(s, t) /\ SameRecvSide(s, t)
  BY <1>1 DEF SeqExState, SameSendSide, SameRecvSide
<1>4. SameSendSide(t, v) /\ SameRecvSide(t, v) /\ v.concurrent_replies = t.concurrent_replies
  BY <1>1, <1>2 DEF SeqExState, SameSendSide, SameRecvSide
<1> QED
  BY <1>3, <1>4 DEF SameSendSide, SameRecvSide, v, t

LEMMA UnlockRawSides ==
    ASSUME NEW s \in SeqExState
    PROVE  LET v == UnlockRaw(s)
           IN  /\ SameSendSide(s, v) /\ SameRecvSide(s, v)
               /\ v.concurrent_replies = s.concurrent_replies
BY DEF UnlockRaw, SeqExState, SameSendSide, SameRecvSide

LEMMA TakeSendSides ==
    ASSUME NEW s \in SeqExState, NEW r \in SeqNo
    PROVE  LET v == TakeSend(s, r)
           IN  /\ v.next_send_seq_no = s.next_send_seq_no /\ SameRecvSide(s, v)
               /\ v.concurrent_replies = s.concurrent_replies
               /\ Shrunk(s.send_window, v.send_window)
<1> DEFINE v == TakeSend(s, r)
<1>1. v = [s EXCEPT !.send_window = v.send_window] /\ Shrunk(s.send_window, v.send_window)
  BY TakeSendFacts
<1> HIDE DEF v
<1> QED
  BY <1>1 DEF SeqExState, SameRecvSide, v

LEMMA AcceptSides ==
    ASSUME NEW s, Windows(s), NEW m, NEW is_next, Handable(s, m, is_next)
    PROVE  LET v == Accept(s, m, is_next)
           IN  /\ v.next_send_seq_no = s.next_send_seq_no
               /\ v.send_window = TakenWindow(s, m.reply_no)
               /\ v.concurrent_replies = Append(s.concurrent_replies, m.seq_no)
               /\ Shrunk(s.send_window, v.send_window)
<1> DEFINE u == Advance(s, m, is_next)
           issued == IssueReplyNo(u, m)
           v == Accept(s, m, is_next)
<1>1. /\ s \in SeqExState /\ RecvSlots(s) /\ m \in Acceptable /\ is_next \in BOOLEAN
      /\ ~is_next => Normalized(s, m.seq_no) \in 0 .. CAP - 1
  BY DEF Windows, Handable
<1>2. /\ u \in SeqExState /\ SameSendSide(s, u)
      /\ u.concurrent_replies = s.concurrent_replies
  BY <1>1, AdvanceFacts
<1>3. /\ v = IF m.reply_no = None THEN issued ELSE TakeSend(issued, m.reply_no)
      /\ m.reply_no \in OptSeqNo
  BY <1>1, AcceptableFacts DEF Accept
<1> HIDE DEF u, v
<1>4. /\ SameSendSide(u, issued) /\ SameRecvSide(u, issued)
      /\ issued.concurrent_replies = Append(u.concurrent_replies, m.seq_no)
      /\ issued = [u EXCEPT !.concurrent_replies = issued.concurrent_replies,
                            !.is_locked = issued.is_locked]
  BY <1>2 DEF IssueReplyNo, SeqExState, SameSendSide, SameRecvSide
<1>5. Shrunk(s.send_window, v.send_window) /\ v.next_send_seq_no = s.next_send_seq_no
  BY <1>1, AcceptFacts DEF v
<1>6. v.concurrent_replies = issued.concurrent_replies
  <2>1. TakeSend(issued, m.reply_no).concurrent_replies = issued.concurrent_replies
    <3> HIDE DEF issued
    <3> QED
      BY <1>2, <1>4 DEF TakeSend, SeqExState
  <2> QED
    BY <1>3, <2>1
<1>7. v.send_window = TakenWindow(s, m.reply_no)
  <2>1. CASE m.reply_no = None
    BY <1>2, <1>3, <1>4, <2>1 DEF TakenWindow, SameSendSide
  <2>2. CASE m.reply_no # None
    <3> DEFINE r == m.reply_no
    <3>1. r \in SeqNo
      BY <1>3, <2>2 DEF OptSeqNo
    <3> HIDE DEF r, issued
    <3>2. issued.send_window = s.send_window
      BY <1>2, <1>4 DEF SameSendSide
    <3>3. SentEntry(issued, r) = SentEntry(s, r)
      BY <3>2 DEF SentEntry
    <3>4. TakeSend(issued, r).send_window = TakeSend(s, r).send_window
      BY <1>1, <1>2, <1>4, <3>2, <3>3 DEF TakeSend, SeqExState
    <3>5. v = TakeSend(issued, r)
      BY <1>3, <2>2 DEF r
    <3> QED
      BY <2>2, <3>4, <3>5 DEF TakenWindow, r
  <2> QED
    BY <2>1, <2>2
<1> QED
  BY <1>2, <1>4, <1>5, <1>6, <1>7 DEF v

LEMMA ServiceSides ==
    ASSUME NEW s, Windows(s)
    PROVE  LET v == Service(s, 0)
           IN  /\ v.next_send_seq_no = s.next_send_seq_no /\ SameRecvSide(s, v)
               /\ v.concurrent_replies = s.concurrent_replies
               /\ SameEntries(s.send_window, v.send_window)
<1> DEFINE v == Service(s, 0)
<1>1. s \in SeqExState
  BY DEF Windows
<1>2. CASE IsServiceTime(s, 0)
  <2> DEFINE w == Rescheduled(s, 0)
  <2>1. PICK t : v = [s EXCEPT !.send_window = w, !.next_service_timestamp = t]
    BY <1>2 DEF Service
  <2>2. ASSUME NEW i \in 0 .. CAP - 1
        PROVE  /\ w[i] = None <=> s.send_window[i] = None
               /\ s.send_window[i] # None =>
                    /\ w[i].seq_no = s.send_window[i].seq_no
                    /\ w[i].reply_no = s.send_window[i].reply_no
                    /\ w[i].seq_cst = s.send_window[i].seq_cst
                    /\ w[i].data = s.send_window[i].data
    <3> DEFINE e == s.send_window[i]
    <3>1. e \in SendEntry \cup {None}
      BY <1>1 DEF SeqExState
    <3>2. CASE i \in Due(s, 0)
      <4>1. e \in SendEntry /\ e # None
        BY <3>1, <3>2 DEF Due
      <4>2. 0 + ResendInterval \in Nat
        BY TimeAssumption
      <4>3. w[i] = [e EXCEPT !.next_resend_time = 0 + ResendInterval]
        BY <3>2 DEF Rescheduled
      <4> HIDE DEF e, w
      <4>4. /\ w[i] \in SendEntry /\ w[i].seq_no = e.seq_no /\ w[i].reply_no = e.reply_no
            /\ w[i].seq_cst = e.seq_cst /\ w[i].data = e.data
        BY <4>1, <4>2, <4>3 DEF SendEntry
      <4> QED
        BY <4>1, <4>4, NoneAssumption DEF e
    <3>3. CASE i \notin Due(s, 0)
      BY <3>3 DEF Rescheduled
    <3> QED
      BY <3>2, <3>3
  <2> HIDE DEF w, v
  <2>3. v.send_window = w /\ v.next_send_seq_no = s.next_send_seq_no /\ SameRecvSide(s, v)
        /\ v.concurrent_replies = s.concurrent_replies
    BY <1>1, <2>1 DEF SeqExState, SameRecvSide
  <2> QED
    BY <2>2, <2>3 DEF SameEntries, v
<1>3. CASE ~IsServiceTime(s, 0)
  BY <1>3 DEF Service, SameEntries, SameRecvSide
<1> QED
  BY <1>2, <1>3

----------------------------------------------------------------------------
(* What has been sent.                                                     *)

\* Every copy of a packet, in the send window and on the wire, is the packet that was sent.
Numbered(sn, s, packets) ==
    /\ s.next_send_seq_no = Num(Len(sn) + 1)
    /\ \A i \in 0 .. CAP - 1 : s.send_window[i] # None => Made(sn, s.send_window[i])
    /\ \A m \in packets : m.type = "Data" => Made(sn, m)

LEMMA SentAppend ==
    ASSUME NEW sn \in Seq(Sent), NEW x \in Sent
    PROVE  /\ Append(sn, x) \in Seq(Sent) /\ Len(sn) \in Nat
           /\ Len(Append(sn, x)) = Len(sn) + 1
           /\ \A d \in 1 .. Len(sn) : d \in 1 .. Len(sn) + 1 /\ Append(sn, x)[d] = sn[d]
           /\ Append(sn, x)[Len(sn) + 1] = x
BY AppendProperties

\* What was made stays so when more is sent, and what was received, too.
LEMMA MadeAppend ==
    ASSUME NEW sn \in Seq(Sent), NEW x \in Sent, NEW m, Made(sn, m)
    PROVE  Made(Append(sn, x), m)
<1>1. /\ Len(sn) \in Nat /\ Len(Append(sn, x)) = Len(sn) + 1
      /\ m.data \in 1 .. Len(sn) /\ Append(sn, x)[m.data] = sn[m.data]
  BY SentAppend DEF Made
<1>2. m.data \in 1 .. Len(Append(sn, x))
  BY <1>1
<1> QED
  BY <1>1, <1>2 DEF Made

LEMMA ReceivedAppend ==
    ASSUME NEW sn \in Seq(Sent), NEW x \in Sent, NEW s \in SeqExState, NEW dl, Received(sn, s, dl)
    PROVE  Received(Append(sn, x), s, dl)
<1> DEFINE sn2 == Append(sn, x)
<1>1. Len(sn) \in Nat /\ Len(sn2) = Len(sn) + 1
  BY SentAppend
<1>2. \A m : Made(sn, m) => Made(sn2, m)
  BY MadeAppend
<1> HIDE DEF sn2
<1>3. 1 .. Len(sn) \subseteq 1 .. Len(sn2)
  BY <1>1
<1>4. Passed(s) <= Len(sn2)
  <2>1. s.next_recv_seq_no - InitialSeqNo \in Int
    BY HalfFacts DEF SeqExState, SeqNo
  <2>2. Passed(s) \in Int
    <3>1. Passed(s) \in SeqNo
      BY <2>1, WrapType DEF Passed
    <3> QED
      BY <3>1 DEF SeqNo
  <2>3. Passed(s) <= Len(sn)
    BY DEF Received
  <2> QED
    BY <1>1, <2>2, <2>3
<1> QED
  BY <1>2, <1>3, <1>4 DEF Received, sn2

\* The receive side stays as it is.
LEMMA SameReceived ==
    ASSUME NEW sn, NEW s, NEW v, NEW dl, Received(sn, s, dl), SameRecvSide(s, v)
    PROVE  Received(sn, v, dl)
<1>1. Passed(v) = Passed(s) /\ NextEntry(v) = NextEntry(s)
  BY DEF SameRecvSide, Passed, NextEntry
<1> QED
  BY <1>1 DEF Received, SameRecvSide

\* A packet with the fields of another one that was made.
LEMMA MadeSame ==
    ASSUME NEW sn, NEW e, NEW m, Made(sn, e),
           m.seq_no = e.seq_no, m.reply_no = e.reply_no, m.seq_cst = e.seq_cst, m.data = e.data
    PROVE  Made(sn, m)
BY DEF Made

\* Entries only leave the send window, and only packets that were sent leave on the wire.
LEMMA NumberedShrunk ==
    ASSUME NEW sn, NEW s, NEW v, NEW packets, Numbered(sn, s, packets),
           v.next_send_seq_no = s.next_send_seq_no, Shrunk(s.send_window, v.send_window),
           NEW more, \A m \in more : m.type = "Data" => Made(sn, m)
    PROVE  Numbered(sn, v, packets \cup more)
BY DEF Numbered, Shrunk

\* A packet is sent: try_send or reply.
LEMMA NumberedFills ==
    ASSUME NEW sn \in Seq(Sent), Len(sn) + 1 <= Half, NEW s \in SeqExState, NEW packets,
           Numbered(sn, s, packets), NEW r \in OptSeqNo, NEW c \in BOOLEAN,
           Len(sn) + 1 \in Data, NEW x \in Sent,
           x.seq_cst = c, r = None <=> x.reply_to = None, r # None => r = Num(x.reply_to),
           NEW v, Fills(s, v, NewEntry(s, 0, r, c, Len(sn) + 1))
    PROVE  Numbered(Append(sn, x), v, packets \cup {ToPacket(NewEntry(s, 0, r, c, Len(sn) + 1))})
<1> DEFINE d == Len(sn) + 1
           sn2 == Append(sn, x)
           e == NewEntry(s, 0, r, c, d)
           m == ToPacket(e)
<1>1. Len(sn) \in Nat /\ Len(sn2) = d /\ sn2[d] = x /\ d \in 1 .. d
  <2>1. Len(sn) \in Nat /\ Len(Append(sn, x)) = Len(sn) + 1 /\ Append(sn, x)[Len(sn) + 1] = x
    BY SentAppend
  <2> QED
    BY <2>1
<1>2. \A n : Made(sn, n) => Made(sn2, n)
  BY MadeAppend
<1>3. /\ e.seq_no = s.next_send_seq_no /\ e.reply_no = r /\ e.seq_cst = c /\ e.data = d
  BY EntryFields
<1>4. /\ m.seq_no = e.seq_no /\ m.reply_no = e.reply_no /\ m.seq_cst = e.seq_cst /\ m.data = e.data
  BY DEF ToPacket
<1>5. s.next_send_seq_no = Num(d)
  BY DEF Numbered
<1> HIDE DEF e, m, sn2
<1>6. Made(sn2, e)
  <2> HIDE DEF d
  <2> QED
    BY <1>1, <1>3, <1>5 DEF Made
<1>7. Made(sn2, m)
  BY <1>4, <1>6, MadeSame
<1>8. v.next_send_seq_no = Num(d + 1)
  <2>1. Len(sn) \in 0 .. Half /\ 1 \in 0 .. CAP
    BY <1>1, HalfFacts
  <2>2. Wrap(Num(Len(sn) + 1) + 1) = Num((Len(sn) + 1) + 1)
    BY <2>1, NumShift
  <2> QED
    BY <1>5, <2>2 DEF Fills
<1>9. ASSUME NEW i \in 0 .. CAP - 1, v.send_window[i] # None PROVE Made(sn2, v.send_window[i])
  <2>1. s.next_send_seq_no \in SeqNo /\ Idx(s.next_send_seq_no) \in 0 .. CAP - 1
    BY IdxType DEF SeqExState
  <2>2. v.send_window = [s.send_window EXCEPT ![Idx(s.next_send_seq_no)] = e]
    BY DEF Fills, e
  <2>3. s.send_window \in [0 .. CAP - 1 -> SendEntry \cup {None}]
    BY DEF SeqExState
  <2>4. CASE i = Idx(s.next_send_seq_no)
    <3>1. v.send_window[i] = e
      BY <2>1, <2>2, <2>3, <2>4
    <3> QED
      BY <1>6, <3>1
  <2>5. CASE i # Idx(s.next_send_seq_no)
    <3>1. v.send_window[i] = s.send_window[i]
      BY <2>2, <2>3, <2>5
    <3>2. Made(sn, s.send_window[i])
      BY <1>9, <3>1 DEF Numbered
    <3> QED
      BY <1>2, <3>1, <3>2
  <2> QED
    BY <2>4, <2>5
<1>10. ASSUME NEW n \in packets \cup {m}, n.type = "Data" PROVE Made(sn2, n)
  BY <1>2, <1>7, <1>10 DEF Numbered
<1> HIDE DEF d
<1> QED
  BY <1>1, <1>8, <1>9, <1>10 DEF Numbered, sn2, m, e, d

----------------------------------------------------------------------------
(* What the application has seen.                                          *)

\* A SeqCst packet was handed over once, and after everything sent before it.
InTurn(sn, dl) == \A i \in DOMAIN dl :
    sn[dl[i].data].seq_cst =>
        /\ 1 .. dl[i].data - 1 \subseteq {dl[j].data : j \in 1 .. i - 1}
        /\ dl[i].data \notin {dl[j].data : j \in 1 .. i - 1}
\* Nothing was handed over twice.
Once(dl) == \A i, j \in DOMAIN dl : dl[i].data = dl[j].data => i = j
\* A guard carries the number of the packet it was issued with.
Named(gs, dl) == \A g \in gs : g.reply_no = Num(dl[g.ord].data)

LEMMA SeenFacts ==
    ASSUME NEW dl \in Seq(Delivered)
    PROVE  /\ Len(dl) \in Nat /\ DOMAIN dl = 1 .. Len(dl)
           /\ \A i \in DOMAIN dl : dl[i] \in Delivered /\ dl[i].data \in SeenIn(dl)
           /\ SeenIn(dl) \subseteq Data
<1>1. /\ Len(dl) \in Nat /\ DOMAIN dl = 1 .. Len(dl)
      /\ \A i \in DOMAIN dl : dl[i] \in Delivered
  OBVIOUS
<1>2. \A y \in Delivered : y.data \in Data
  BY DEF Delivered
<1> QED
  BY <1>1, <1>2 DEF SeenIn

LEMMA InTurnSent ==
    ASSUME NEW sn \in Seq(Sent), NEW x \in Sent, NEW dl, SeenIn(dl) \subseteq 1 .. Len(sn),
           InTurn(sn, dl)
    PROVE  InTurn(Append(sn, x), dl)
<1>1. ASSUME NEW i \in DOMAIN dl PROVE Append(sn, x)[dl[i].data] = sn[dl[i].data]
  <2>1. dl[i].data \in 1 .. Len(sn)
    BY DEF SeenIn
  <2> QED
    BY <2>1, SentAppend
<1> HIDE DEF SeenIn
<1> QED
  BY <1>1 DEF InTurn

\* One more delivery: of a SeqCst packet only in its turn.
LEMMA InTurnDelivered ==
    ASSUME NEW sn, NEW dl \in Seq(Delivered), InTurn(sn, dl), NEW x \in Delivered,
           sn[x.data].seq_cst => 1 .. x.data - 1 \subseteq SeenIn(dl) /\ x.data \notin SeenIn(dl)
    PROVE  InTurn(sn, Append(dl, x))
<1> DEFINE dl2 == Append(dl, x)
           n == Len(dl)
<1>1. /\ dl2 \in Seq(Delivered) /\ Len(dl2) = n + 1 /\ n \in Nat
      /\ \A i \in 1 .. n : dl2[i] = dl[i]
      /\ dl2[n + 1] = x
  BY AppendProperties
<1>2. DOMAIN dl2 = 1 .. n + 1 /\ DOMAIN dl = 1 .. n
  BY <1>1
<1> HIDE DEF dl2, n
<1>3. ASSUME NEW i \in 1 .. n + 1
      PROVE  {dl2[j].data : j \in 1 .. i - 1} = {dl[j].data : j \in 1 .. i - 1}
  <2>1. \A j \in 1 .. i - 1 : dl2[j] = dl[j]
    BY <1>1, <1>3
  <2> QED
    BY <2>1
<1>4. ASSUME NEW i \in DOMAIN dl2, sn[dl2[i].data].seq_cst
      PROVE  /\ 1 .. dl2[i].data - 1 \subseteq {dl2[j].data : j \in 1 .. i - 1}
             /\ dl2[i].data \notin {dl2[j].data : j \in 1 .. i - 1}
  <2>1. i \in 1 .. n + 1
    BY <1>2
  <2>2. CASE i \in 1 .. n
    <3>1. dl2[i] = dl[i] /\ i \in DOMAIN dl
      BY <1>1, <1>2, <2>2
    <3> QED
      BY <1>3, <1>4, <2>1, <3>1 DEF InTurn
  <2>3. CASE i = n + 1
    <3>1. dl2[i] = x /\ (n + 1) - 1 = n
      BY <1>1, <2>3
    <3>2. {dl[j].data : j \in 1 .. i - 1} = SeenIn(dl)
      BY <1>2, <2>3, <3>1 DEF SeenIn
    <3> QED
      BY <1>3, <1>4, <2>1, <3>1, <3>2
  <2> QED
    BY <1>1, <2>1, <2>2, <2>3
<1> QED
  BY <1>4 DEF InTurn, dl2

LEMMA OnceDelivered ==
    ASSUME NEW dl \in Seq(Delivered), Once(dl), NEW x \in Delivered, x.data \notin SeenIn(dl)
    PROVE  Once(Append(dl, x))
<1> DEFINE dl2 == Append(dl, x)
           n == Len(dl)
<1>1. /\ dl2 \in Seq(Delivered) /\ Len(dl2) = n + 1 /\ n \in Nat
      /\ \A i \in 1 .. n : dl2[i] = dl[i]
      /\ dl2[n + 1] = x
  BY AppendProperties
<1>2. DOMAIN dl2 = 1 .. n + 1 /\ DOMAIN dl = 1 .. n
  BY <1>1
<1> HIDE DEF dl2, n
<1>3. \A i \in 1 .. n : i \in DOMAIN dl /\ dl2[i] = dl[i] /\ dl2[i].data \in SeenIn(dl)
  BY <1>1, <1>2 DEF SeenIn
<1>4. \A i \in 1 .. n + 1 : i \in 1 .. n \/ i = n + 1
  BY <1>1
<1> QED
  BY <1>1, <1>2, <1>3, <1>4 DEF Once, dl2

\* The guard of a new delivery carries the number of its packet.
LEMMA NamedIssue ==
    ASSUME NEW s, NEW gs, NEW lg, NEW dl, Guarded(s, gs, lg, dl), Named(gs, dl),
           NEW x \in Delivered, NEW n \in SeqNo, n = Num(x.data), NEW c \in BOOLEAN
    PROVE  Named(gs \cup {Guard(n, c, Len(dl) + 1)}, Append(dl, x))
<1> DEFINE g == Guard(n, c, Len(dl) + 1)
           dl2 == Append(dl, x)
<1>1. dl \in Seq(Delivered) /\ \A h \in gs : h.ord \in 1 .. Len(dl)
  BY DEF Guarded
<1>2. /\ Len(dl) \in Nat /\ \A i \in 1 .. Len(dl) : dl2[i] = dl[i]
      /\ dl2[Len(dl) + 1] = x
  BY <1>1, AppendProperties
<1>3. g.reply_no = n /\ g.ord = Len(dl) + 1
  BY <1>2, GuardFacts
<1> HIDE DEF g, dl2
<1>4. ASSUME NEW h \in gs PROVE h.reply_no = Num(dl2[h.ord].data)
  BY <1>1, <1>2 DEF Named
<1>5. g.reply_no = Num(dl2[g.ord].data)
  BY <1>2, <1>3
<1> QED
  BY <1>4, <1>5 DEF Named, g, dl2

----------------------------------------------------------------------------
(* The second layer: the order of packets.                                 *)

\* The bounds leave room in half of the range of sequence numbers, so that a packet that is
\* delayed for ever is never taken for a new one.
FewPackets == \A p \in Peer : MaxPayloads[p] + MaxReplies[p] <= Half

Ordered(p) ==
    /\ Numbered(sent[p], seq[p], net[Other(p)])
    /\ Received(sent[p], seq[Other(p)], delivered[Other(p)])
    /\ InTurn(sent[p], delivered[Other(p)])
    /\ Named(guards[p], delivered[p])
    /\ ~repeated => Once(delivered[p])
Order == Basics /\ \A p \in Peer : Ordered(p)

\* Both peers in one sentence.
LEMMA OrderFacts ==
    ASSUME FewPackets, Order, NEW p \in Peer
    PROVE  LET q == Other(p)
           IN  /\ Numbered(sent[p], seq[p], net[q])
               /\ Received(sent[p], seq[q], delivered[q])
               /\ InTurn(sent[p], delivered[q])
               /\ Named(guards[p], delivered[p])
               /\ ~repeated => Once(delivered[p])
               /\ Received(sent[q], seq[p], delivered[p])
               /\ InTurn(sent[q], delivered[p])
               /\ \A m \in net[p] : m.type = "Data" => Made(sent[q], m)
               /\ sent[p] \in Seq(Sent) /\ Len(sent[p]) \in Nat /\ Len(sent[p]) <= Half
               /\ sent[q] \in Seq(Sent) /\ Len(sent[q]) \in Nat /\ Len(sent[q]) <= Half
<1> DEFINE q == Other(p)
<1>1. q \in Peer /\ Other(q) = p
  BY OtherPeer
<1>2. ASSUME NEW r \in Peer
      PROVE  sent[r] \in Seq(Sent) /\ Len(sent[r]) \in Nat /\ Len(sent[r]) <= Half
  <2>1. Written(sent[r], MaxPayloads[r], MaxReplies[r])
    BY BasicsFacts DEF Order
  <2>2. /\ Len(sent[r]) \in Nat /\ Len(sent[r]) <= MaxPayloads[r] + MaxReplies[r]
        /\ sent[r] \in Seq(Sent) /\ MaxPayloads[r] \in Nat /\ MaxReplies[r] \in Nat
    BY <2>1, WrittenLength DEF Written
  <2>3. MaxPayloads[r] + MaxReplies[r] <= Half
    BY DEF FewPackets
  <2> QED
    BY <2>2, <2>3, HalfFacts
<1>3. Ordered(p) /\ Ordered(q)
  BY <1>1 DEF Order
<1>4. \A m \in net[p] : m.type = "Data" => Made(sent[q], m)
  BY <1>1, <1>3 DEF Ordered, Numbered
<1> HIDE DEF q
<1> QED
  BY <1>1, <1>2, <1>3, <1>4 DEF Ordered, q

\* A call of p keeps the order if what it leaves at p agrees with what the other peer has.
LEMMA OrderMove ==
    ASSUME FewPackets, Order, Basics', NEW p \in Peer, NEW v, NEW gs, NEW lg, NEW sn, NEW dl,
           NEW packets, Moves(p, v, gs, lg, sn, dl, packets), repeated => repeated',
           Numbered(sn, v, net[Other(p)] \cup packets),
           Received(sn, seq[Other(p)], delivered[Other(p)]), InTurn(sn, delivered[Other(p)]),
           Received(sent[Other(p)], v, dl), InTurn(sent[Other(p)], dl),
           Named(gs, dl), ~repeated' => Once(dl)
    PROVE  Order'
<1> DEFINE q == Other(p)
<1>1. /\ seq \in [Peer -> SeqExState] /\ net \in [Peer -> SUBSET Packet]
      /\ guards \in [Peer -> SUBSET ReplyGuard] /\ lock_guards \in [Peer -> Nat]
      /\ sent \in [Peer -> Seq(Sent)] /\ delivered \in [Peer -> Seq(Delivered)]
      /\ \A r \in Peer : Ordered(r)
      /\ repeated \in BOOLEAN /\ repeated' \in BOOLEAN
  BY DEF Order, Basics, Typed
<1>2. q \in Peer /\ q # p /\ Other(q) = p /\ \A r \in Peer : r = p \/ r = q
  BY OtherPeer
<1>3. /\ seq'[p] = v /\ guards'[p] = gs /\ sent'[p] = sn /\ delivered'[p] = dl
      /\ net'[q] = net[q] \cup packets
      /\ seq'[q] = seq[q] /\ guards'[q] = guards[q] /\ sent'[q] = sent[q]
      /\ delivered'[q] = delivered[q] /\ net'[p] = net[p]
  BY <1>1, <1>2 DEF Moves
<1> HIDE DEF q
<1>4. Ordered(p)'
  BY <1>2, <1>3 DEF Ordered, q
<1>5. Ordered(q)'
  <2>1. Ordered(q)
    BY <1>1, <1>2
  <2> QED
    BY <1>1, <1>2, <1>3, <2>1 DEF Ordered, q
<1>6. \A r \in Peer : Ordered(r)'
  BY <1>2, <1>4, <1>5
<1> QED
  BY <1>6 DEF Order

\* A call that leaves what was sent and delivered as it is, and the receive window, too.
LEMMA OrderStay ==
    ASSUME FewPackets, Order, Basics', NEW p \in Peer, NEW v, NEW gs, NEW lg, NEW packets,
           Moves(p, v, gs, lg, sent[p], delivered[p], packets), repeated' = repeated,
           SameRecvSide(seq[p], v), Numbered(sent[p], v, net[Other(p)] \cup packets),
           Named(gs, delivered[p])
    PROVE  Order'
<1>1. Received(sent[Other(p)], v, delivered[p])
  BY OrderFacts, SameReceived
<1> QED
  BY <1>1, OrderFacts, OrderMove

\* A call that sends one more packet.
LEMMA OrderSends ==
    ASSUME FewPackets, Order, Basics', NEW p \in Peer, NEW v, NEW gs, NEW lg, NEW x \in Sent,
           NEW r \in OptSeqNo, Len(sent[p]) + 1 \in Data, Len(sent[p]) + 1 <= Half,
           r = None <=> x.reply_to = None, r # None => r = Num(x.reply_to),
           Moves(p, v, gs, lg, Append(sent[p], x), delivered[p],
                 {ToPacket(NewEntry(seq[p], 0, r, x.seq_cst, Len(sent[p]) + 1))}),
           repeated' = repeated, SameRecvSide(seq[p], v), gs \subseteq guards[p],
           Fills(seq[p], v, NewEntry(seq[p], 0, r, x.seq_cst, Len(sent[p]) + 1))
    PROVE  Order'
<1> DEFINE q == Other(p)
           sn == Append(sent[p], x)
           e == NewEntry(seq[p], 0, r, x.seq_cst, Len(sent[p]) + 1)
<1>1. /\ Numbered(sent[p], seq[p], net[q]) /\ Received(sent[p], seq[q], delivered[q])
      /\ InTurn(sent[p], delivered[q]) /\ Named(guards[p], delivered[p])
      /\ ~repeated => Once(delivered[p])
      /\ Received(sent[q], seq[p], delivered[p]) /\ InTurn(sent[q], delivered[p])
      /\ sent[p] \in Seq(Sent)
  BY OrderFacts
<1>2. seq[p] \in SeqExState /\ seq[q] \in SeqExState /\ x.seq_cst \in BOOLEAN
  BY BasicsFacts, OtherPeer DEF Order, Sent
<1>3. Numbered(sn, v, net[q] \cup {ToPacket(e)})
  <2> HIDE DEF q
  <2> QED
    BY <1>1, <1>2, NumberedFills
<1>4. Received(sn, seq[q], delivered[q])
  BY <1>1, <1>2, ReceivedAppend
<1>5. InTurn(sn, delivered[q])
  <2>1. SeenIn(delivered[q]) \subseteq 1 .. Len(sent[p])
    BY <1>1 DEF Received
  <2> QED
    BY <1>1, <2>1, InTurnSent
<1>6. Received(sent[q], v, delivered[p])
  BY <1>1, SameReceived
<1>7. Named(gs, delivered[p])
  BY <1>1 DEF Named
<1> HIDE DEF sn, e
<1> QED
  BY <1>1, <1>3, <1>4, <1>5, <1>6, <1>7, OrderMove DEF sn, e, q

LEMMA SendOrder ==
    ASSUME FewPackets, Order, Basics', NEW p \in Peer, NEW c \in SeqCstModes, Send(p, c)
    PROVE  Order'
<1> DEFINE d == Len(sent[p]) + 1
           x == [reply_to |-> None, seq_cst |-> c]
           v == TrySend(seq[p], 0, c, d)
<1>1. /\ Moves(p, v, guards[p], lock_guards[p], Append(sent[p], x), delivered[p],
               {ToPacket(NewEntry(seq[p], 0, None, c, d))})
      /\ repeated' = repeated /\ c \in BOOLEAN /\ d \in Data /\ x \in Sent
      /\ d \in 1 .. MaxPayloads[p] + MaxReplies[p]
  BY SendMoves DEF Order
<1>2. d <= Half
  <2>1. MaxPayloads[p] + MaxReplies[p] <= Half /\ MaxPayloads[p] \in Nat /\ MaxReplies[p] \in Nat
    BY BoundAssumption DEF FewPackets
  <2>2. d \in 1 .. MaxPayloads[p] + MaxReplies[p] /\ Half \in Nat
    BY <1>1, HalfFacts
  <2> QED
    BY ONLY <2>1, <2>2
<1>3. seq[p] \in SeqExState
  BY BasicsFacts DEF Order
<1>4. Fills(seq[p], v, NewEntry(seq[p], 0, None, c, d)) /\ SameRecvSide(seq[p], v)
  BY <1>1, <1>3, TrySendSides
<1>5. x.seq_cst = c /\ x.reply_to = None /\ None \in OptSeqNo /\ guards[p] \subseteq guards[p]
  BY DEF OptSeqNo
<1> HIDE DEF v, x
<1> QED
  BY <1>1, <1>2, <1>4, <1>5, OrderSends

LEMMA AnswerOrder ==
    ASSUME FewPackets, Order, Basics', NEW p \in Peer, NEW g, NEW u, NEW c, Answer(p, g, u, c)
    PROVE  Order'
<1> DEFINE d == Len(sent[p]) + 1
           r == g.reply_no
           x == [reply_to |-> delivered[p][g.ord].data, seq_cst |-> c]
           v == ReplyRaw(seq[p], 0, r, u, c, d)
           lg == lock_guards[p] + (IF g.is_holding_lock /\ ~u THEN 1 ELSE 0)
<1>1. /\ g \in guards[p] /\ g \in ReplyGuard /\ Reserved(seq[p], r)
      /\ g.ord \in 1 .. Len(delivered[p])
      /\ Moves(p, v, guards[p] \ {g}, lg, Append(sent[p], x), delivered[p],
               {ToPacket(NewEntry(seq[p], 0, r, c, d))})
      /\ repeated' = repeated /\ u \in BOOLEAN /\ c \in BOOLEAN /\ d \in Data
      /\ d \in 1 .. MaxPayloads[p] + MaxReplies[p]
  BY AnswerMoves DEF Order
<1>2. d <= Half
  <2>1. MaxPayloads[p] + MaxReplies[p] <= Half /\ MaxPayloads[p] \in Nat /\ MaxReplies[p] \in Nat
    BY BoundAssumption DEF FewPackets
  <2>2. d \in 1 .. MaxPayloads[p] + MaxReplies[p] /\ Half \in Nat
    BY <1>1, HalfFacts
  <2> QED
    BY ONLY <2>1, <2>2
<1>3. seq[p] \in SeqExState /\ r \in SeqNo
  BY <1>1, BasicsFacts DEF Order, ReplyGuard
<1>4. Fills(seq[p], v, NewEntry(seq[p], 0, r, c, d)) /\ SameRecvSide(seq[p], v)
  BY <1>1, <1>3, ReplyRawSides
<1>5. /\ delivered[p][g.ord].data \in Data
  <2>1. delivered[p] \in Seq(Delivered)
    BY BasicsFacts DEF Order
  <2>2. delivered[p][g.ord].data \in SeenIn(delivered[p])
    BY <1>1, <2>1, SeenFacts
  <2> QED
    BY <2>1, <2>2, SeenFacts
<1>6. /\ x \in Sent /\ x.seq_cst = c /\ x.reply_to = delivered[p][g.ord].data
      /\ x.reply_to # None /\ r # None /\ r \in OptSeqNo /\ guards[p] \ {g} \subseteq guards[p]
  BY <1>1, <1>3, <1>5, NoneAssumption DEF Sent, OptSeqNo
<1>7. r = Num(x.reply_to)
  <2>1. Named(guards[p], delivered[p])
    BY OrderFacts
  <2> QED
    BY <1>1, <1>6, <2>1 DEF Named
<1> HIDE DEF v, x, r, lg
<1> QED
  BY <1>1, <1>2, <1>4, <1>6, <1>7, OrderSends

LEMMA GiveUpOrder ==
    ASSUME FewPackets, Order, Basics', NEW p \in Peer, NEW g, NEW u, GiveUp(p, g, u)
    PROVE  Order'
<1> DEFINE r == g.reply_no
           v == AckRaw(seq[p], r, u)
           lg == lock_guards[p] + (IF g.is_holding_lock /\ ~u THEN 1 ELSE 0)
<1>1. /\ g \in guards[p] /\ g \in ReplyGuard /\ Reserved(seq[p], r)
      /\ Moves(p, v, guards[p] \ {g}, lg, sent[p], delivered[p], {Ack(r)})
      /\ repeated' = repeated /\ u \in BOOLEAN
  BY GiveUpMoves DEF Order
<1>2. seq[p] \in SeqExState /\ r \in SeqNo
  BY <1>1, BasicsFacts DEF Order, ReplyGuard
<1>3. SameSendSide(seq[p], v) /\ SameRecvSide(seq[p], v)
  BY <1>1, <1>2, AckRawSides
<1>4. Shrunk(seq[p].send_window, v.send_window) /\ v.next_send_seq_no = seq[p].next_send_seq_no
  BY <1>3 DEF Shrunk, SameSendSide
<1> HIDE DEF v, lg, r
<1>5. \A m \in {Ack(r)} : m.type = "Data" => Made(sent[p], m)
  BY DEF Ack
<1>6. Numbered(sent[p], v, net[Other(p)] \cup {Ack(r)})
  BY <1>4, <1>5, OrderFacts, NumberedShrunk
<1>7. Named(guards[p] \ {g}, delivered[p])
  BY OrderFacts DEF Named
<1> QED
  BY <1>1, <1>3, <1>6, <1>7, OrderStay

\* What p may hand over is a packet that the other peer sent.
LEMMA HandsMade ==
    ASSUME FewPackets, Order, NEW p \in Peer, NEW m, NEW is_next, Hands(p, m, is_next)
    PROVE  Made(sent[Other(p)], m)
<1>1. /\ Received(sent[Other(p)], seq[p], delivered[p])
      /\ \A n \in net[p] : n.type = "Data" => Made(sent[Other(p)], n)
  BY OrderFacts
<1>2. CASE m \in net[p] /\ m.type = "Data"
  BY <1>1, <1>2
<1>3. CASE m = NextEntry(seq[p]) /\ m.tag = "Occupied"
  <2>1. Idx(seq[p].next_recv_seq_no) \in 0 .. CAP - 1
    BY BasicsFacts, IdxType DEF Order, SeqExState
  <2> QED
    BY <1>1, <1>3, <2>1 DEF Received, NextEntry
<1> QED
  BY <1>2, <1>3 DEF Hands

LEMMA HandsOrder ==
    ASSUME FewPackets, Order, Basics', NEW p \in Peer, NEW m, NEW is_next, Hands(p, m, is_next)
    PROVE  Order'
<1> DEFINE q == Other(p)
           s == seq[p]
           v == Accept(s, m, is_next)
           x == [data |-> m.data, link |-> TakenData(s, m.reply_no)]
           gs == guards[p] \cup {Guard(m.seq_no, m.seq_cst, Len(delivered[p]) + 1)}
           dl == Append(delivered[p], x)
<1>1. /\ Handable(s, m, is_next)
      /\ Moves(p, v, gs, lock_guards[p], sent[p], dl, {})
      /\ repeated' = (repeated \/ IsRepeat(s, m))
  BY DEF Hands
<1>2. /\ s \in SeqExState /\ Windows(s) /\ delivered[p] \in Seq(Delivered)
      /\ Guarded(s, guards[p], lock_guards[p], delivered[p]) /\ repeated \in BOOLEAN
  BY BasicsFacts DEF Order
<1>3. m \in Acceptable /\ m.seq_no \in SeqNo /\ m.reply_no \in OptSeqNo /\ m.seq_cst \in BOOLEAN
      /\ m.data \in Data
  BY <1>1, AcceptableFacts DEF Handable, Acceptable, DataPacket, OccupiedEntry
<1>4. x \in Delivered /\ x.data = m.data
  BY <1>2, <1>3, TakenDataType DEF Delivered
<1>5. /\ Numbered(sent[p], s, net[q]) /\ Received(sent[p], seq[q], delivered[q])
      /\ InTurn(sent[p], delivered[q]) /\ Named(guards[p], delivered[p])
      /\ ~repeated => Once(delivered[p])
      /\ Received(sent[q], s, delivered[p]) /\ InTurn(sent[q], delivered[p])
      /\ Len(sent[q]) \in Nat /\ Len(sent[q]) <= Half
  BY OrderFacts
<1>6. Made(sent[q], m)
  BY HandsMade
<1>7. /\ is_next <=> m.data = Passed(s) + 1
      /\ is_next => m.data \notin SeenIn(delivered[p])
      /\ m.data \in SeenIn(delivered[p]) => IsRepeat(s, m)
      /\ Passed(s) \in 0 .. Half
  BY <1>1, <1>2, <1>5, <1>6, HandedNumber
<1>8. v.next_send_seq_no = s.next_send_seq_no /\ Shrunk(s.send_window, v.send_window)
  BY <1>1, <1>2, AcceptSides
<1>9. Received(sent[q], v, dl)
  BY <1>1, <1>2, <1>4, <1>5, <1>6, HandsReceived
<1> HIDE DEF v, x, s, q
<1>10. Numbered(sent[p], v, net[q] \cup {})
  BY <1>5, <1>8, NumberedShrunk
<1>11. InTurn(sent[q], dl)
  <2>1. ASSUME sent[q][x.data].seq_cst
        PROVE  1 .. x.data - 1 \subseteq SeenIn(delivered[p]) /\ x.data \notin SeenIn(delivered[p])
    <3>1. is_next
      BY <1>1, <1>4, <1>6, <2>1 DEF Made, Handable
    <3>2. x.data - 1 = Passed(s)
      BY <1>4, <1>7, <3>1, HalfFacts
    <3> QED
      BY <1>4, <1>5, <1>7, <3>1, <3>2 DEF Received
  <2> QED
    BY <1>2, <1>4, <1>5, <2>1, InTurnDelivered
<1>12. Named(gs, dl)
  <2>1. m.seq_no = Num(x.data)
    BY <1>4, <1>6 DEF Made
  <2> QED
    BY <1>2, <1>3, <1>4, <1>5, <2>1, NamedIssue
<1>13. ASSUME ~repeated' PROVE Once(dl)
  <2>1. ~repeated /\ ~IsRepeat(s, m)
    BY <1>1, <1>13
  <2> QED
    BY <1>2, <1>4, <1>5, <1>7, <2>1, OnceDelivered
<1>14. repeated => repeated'
  BY <1>1
<1> HIDE DEF gs, dl
<1> QED
  BY <1>1, <1>5, <1>9, <1>10, <1>11, <1>12, <1>13, <1>14, OrderMove DEF q

\* A packet that has to wait is saved: its slot was empty.
LEMMA SavesOrder ==
    ASSUME FewPackets, Order, Basics', NEW p \in Peer, NEW m, Saves(p, m)
    PROVE  Order'
<1> DEFINE q == Other(p)
           s == seq[p]
           k == Idx(m.seq_no)
           v == [s EXCEPT !.recv_window[k] = Occupied(m)]
<1>1. /\ m \in net[p] /\ m \in DataPacket /\ ~IsDuplicate(s, m.seq_no)
      /\ Moves(p, v, guards[p], lock_guards[p], sent[p], delivered[p], {})
      /\ repeated' = repeated
  BY DEF Saves
<1>2. /\ s \in SeqExState /\ m.seq_no \in SeqNo /\ k \in 0 .. CAP - 1
      /\ s.recv_window \in [0 .. CAP - 1 -> RecvEntry]
  BY <1>1, BasicsFacts, IdxType DEF Order, DataPacket, SeqExState
<1>3. /\ Numbered(sent[p], s, net[q]) /\ Received(sent[p], seq[q], delivered[q])
      /\ InTurn(sent[p], delivered[q]) /\ Named(guards[p], delivered[p])
      /\ ~repeated => Once(delivered[p])
      /\ Received(sent[q], s, delivered[p]) /\ InTurn(sent[q], delivered[p])
      /\ \A n \in net[p] : n.type = "Data" => Made(sent[q], n)
  BY OrderFacts
<1>4. /\ v.send_window = s.send_window /\ v.next_send_seq_no = s.next_send_seq_no
      /\ v.next_recv_seq_no = s.next_recv_seq_no
      /\ v.recv_window = [s.recv_window EXCEPT ![k] = Occupied(m)]
  BY <1>2 DEF SeqExState
<1>5. /\ Occupied(m).tag = "Occupied" /\ Occupied(m).seq_no = m.seq_no
      /\ Occupied(m).reply_no = m.reply_no /\ Occupied(m).seq_cst = m.seq_cst
      /\ Occupied(m).data = m.data
  BY DEF Occupied
<1>6. Made(sent[q], Occupied(m))
  <2>1. Made(sent[q], m)
    BY <1>1, <1>3 DEF DataPacket
  <2> QED
    BY <1>5, <2>1, MadeSame
<1>7. s.recv_window[k].tag # "Unlocked"
  BY <1>1 DEF IsDuplicate
<1> HIDE DEF v, k, s
<1>8. Numbered(sent[p], v, net[q] \cup {})
  BY <1>3, <1>4, NumberedShrunk DEF Shrunk
<1>9. Received(sent[q], v, delivered[p])
  <2>1. Passed(v) = Passed(s)
    BY <1>4 DEF Passed
  <2>2. \A i \in 0 .. CAP - 1 : v.recv_window[i] = IF i = k THEN Occupied(m) ELSE s.recv_window[i]
    BY <1>2, <1>4
  <2>3. ASSUME NEW d \in SeenIn(delivered[p]), d > Passed(s)
        PROVE  v.recv_window[Idx(Num(d))] = Unlocked(Num(d))
    <3>1. s.recv_window[Idx(Num(d))] = Unlocked(Num(d))
      BY <1>3, <2>3 DEF Received
    <3>2. Idx(Num(d)) # k
      BY <1>7, <3>1 DEF Unlocked
    <3>3. Idx(Num(d)) \in 0 .. CAP - 1
      <4>1. d \in 1 .. Len(sent[q]) /\ Len(sent[q]) \in Nat /\ Len(sent[q]) <= Half
        BY <1>3, OrderFacts DEF Received, q
      <4>2. d \in 1 .. Half + CAP
        BY <4>1, HalfFacts
      <4> QED
        BY <4>2, NumInjective, IdxType
    <3> QED
      BY <2>2, <3>1, <3>2, <3>3
  <2>4. ASSUME NEW i \in 0 .. CAP - 1
        PROVE  /\ v.recv_window[i].tag = "Occupied" => Made(sent[q], v.recv_window[i])
               /\ v.recv_window[i].tag = "Unlocked" =>
                    \E d \in SeenIn(delivered[p]) : v.recv_window[i].seq_no = Num(d)
    <3>1. CASE i = k
      BY <1>5, <1>6, <2>2, <3>1
    <3>2. CASE i # k
      <4>1. v.recv_window[i] = s.recv_window[i]
        BY <2>2, <3>2
      <4> QED
        BY <1>3, <4>1 DEF Received
    <3> QED
      BY <3>1, <3>2
  <2>5. NextEntry(v).tag # "Unlocked"
    <3>1. Idx(s.next_recv_seq_no) \in 0 .. CAP - 1
      BY <1>2, IdxType DEF SeqExState
    <3>2. NextEntry(s).tag # "Unlocked"
      BY <1>3 DEF Received
    <3> QED
      BY <1>4, <1>5, <2>2, <3>1, <3>2 DEF NextEntry
  <2> QED
    BY <1>3, <2>1, <2>3, <2>4, <2>5 DEF Received
<1>10. ~repeated' => Once(delivered[p])
  BY <1>1, <1>3
<1> QED
  BY <1>1, <1>3, <1>8, <1>9, <1>10, OrderMove DEF q

\* A call that changes neither what was sent nor what was received, nor the receive window, and
\* fills no slot.
LEMMA QuietOrder ==
    ASSUME FewPackets, Order, Basics', NEW p \in Peer, NEW v, NEW gs, NEW lg, NEW packets,
           Moves(p, v, gs, lg, sent[p], delivered[p], packets), repeated' = repeated,
           SameRecvSide(seq[p], v), v.next_send_seq_no = seq[p].next_send_seq_no,
           Shrunk(seq[p].send_window, v.send_window),
           \A m \in packets : m.type = "Data" => Made(sent[p], m), Named(gs, delivered[p])
    PROVE  Order'
<1>1. Numbered(sent[p], v, net[Other(p)] \cup packets)
  BY OrderFacts, NumberedShrunk
<1> QED
  BY <1>1, OrderStay

LEMMA AcksAgainOrder ==
    ASSUME FewPackets, Order, Basics', NEW p \in Peer, NEW m, AcksAgain(p, m)
    PROVE  Order'
<1>1. /\ Moves(p, seq[p], guards[p], lock_guards[p], sent[p], delivered[p], {Ack(m.seq_no)})
      /\ repeated' = repeated
  BY DEF AcksAgain
<1>2. /\ SameRecvSide(seq[p], seq[p]) /\ Shrunk(seq[p].send_window, seq[p].send_window)
      /\ Named(guards[p], delivered[p])
  BY OrderFacts DEF SameRecvSide, Shrunk
<1>3. \A n \in {Ack(m.seq_no)} : n.type = "Data" => Made(sent[p], n)
  BY DEF Ack
<1> QED
  BY <1>1, <1>2, <1>3, QuietOrder

LEMMA ReceiveAckOrder ==
    ASSUME FewPackets, Order, Basics', NEW p \in Peer, NEW m \in net[p], ReceiveAck(p, m)
    PROVE  Order'
<1> DEFINE v == TakeSend(seq[p], m.reply_no)
<1>1. /\ m.reply_no \in SeqNo /\ repeated' = repeated
      /\ Moves(p, v, guards[p], lock_guards[p], sent[p], delivered[p], {})
  BY ReceiveAckMoves DEF Order
<1>2. seq[p] \in SeqExState
  BY BasicsFacts DEF Order
<1>3. /\ SameRecvSide(seq[p], v) /\ v.next_send_seq_no = seq[p].next_send_seq_no
      /\ Shrunk(seq[p].send_window, v.send_window)
  BY <1>1, <1>2, TakeSendSides
<1>4. Named(guards[p], delivered[p]) /\ \A n \in {} : n.type = "Data" => Made(sent[p], n)
  BY OrderFacts
<1> HIDE DEF v
<1> QED
  BY <1>1, <1>3, <1>4, QuietOrder

LEMMA UnlockOrder ==
    ASSUME FewPackets, Order, Basics', NEW p \in Peer, NEW g \in guards[p], UnlockGuard(p, g)
    PROVE  Order'
<1> DEFINE v == UnlockRaw(seq[p])
           h == [g EXCEPT !.is_holding_lock = FALSE]
           gs == (guards[p] \ {g}) \cup {h}
<1>1. /\ Moves(p, v, gs, lock_guards[p], sent[p], delivered[p], {})
      /\ repeated' = repeated
  BY UnlockMoves DEF Order
<1>2. seq[p] \in SeqExState /\ g \in ReplyGuard
  BY BasicsFacts DEF Order
<1>3. SameSendSide(seq[p], v) /\ SameRecvSide(seq[p], v)
  BY <1>2, UnlockRawSides
<1>4. Shrunk(seq[p].send_window, v.send_window) /\ v.next_send_seq_no = seq[p].next_send_seq_no
  BY <1>3 DEF Shrunk, SameSendSide
<1>5. Named(gs, delivered[p])
  <2>1. h.reply_no = g.reply_no /\ h.ord = g.ord
    BY <1>2 DEF ReplyGuard
  <2>2. Named(guards[p], delivered[p])
    BY OrderFacts
  <2> HIDE DEF h
  <2> QED
    BY <2>1, <2>2 DEF Named
<1>6. \A n \in {} : n.type = "Data" => Made(sent[p], n)
  OBVIOUS
<1> HIDE DEF v, gs
<1> QED
  BY <1>1, <1>3, <1>4, <1>5, <1>6, QuietOrder

LEMMA DropLockOrder ==
    ASSUME FewPackets, Order, Basics', NEW p \in Peer, DropLockGuard(p)
    PROVE  Order'
<1> DEFINE v == UnlockRaw(seq[p])
           lg == lock_guards[p] - 1
<1>1. /\ Moves(p, v, guards[p], lg, sent[p], delivered[p], {})
      /\ repeated' = repeated
  BY DropLockMoves DEF Order
<1>2. seq[p] \in SeqExState
  BY BasicsFacts DEF Order
<1>3. SameSendSide(seq[p], v) /\ SameRecvSide(seq[p], v)
  BY <1>2, UnlockRawSides
<1>4. Shrunk(seq[p].send_window, v.send_window) /\ v.next_send_seq_no = seq[p].next_send_seq_no
  BY <1>3 DEF Shrunk, SameSendSide
<1>5. Named(guards[p], delivered[p]) /\ \A n \in {} : n.type = "Data" => Made(sent[p], n)
  BY OrderFacts
<1> HIDE DEF v, lg
<1> QED
  BY <1>1, <1>3, <1>4, <1>5, QuietOrder

LEMMA ResendOrder ==
    ASSUME FewPackets, Order, Basics', NEW p \in Peer, Resend(p)
    PROVE  Order'
<1> DEFINE s == seq[p]
           v == Service(s, 0)
           packets == Resent(s, 0)
<1>1. /\ Moves(p, v, guards[p], lock_guards[p], sent[p], delivered[p], packets)
      /\ repeated' = repeated
      /\ \A m \in packets : \E i \in 0 .. CAP - 1 :
            s.send_window[i] # None /\ m = ToPacket(s.send_window[i])
  BY ResendMoves DEF Order
<1>2. Windows(s)
  BY BasicsFacts DEF Order
<1>3. /\ SameRecvSide(s, v) /\ v.next_send_seq_no = s.next_send_seq_no
      /\ SameEntries(s.send_window, v.send_window)
  BY <1>2, ServiceSides
<1>4. Numbered(sent[p], s, net[Other(p)]) /\ Named(guards[p], delivered[p])
  BY OrderFacts
<1> HIDE DEF v, packets, s
<1>5. ASSUME NEW m \in packets PROVE Made(sent[p], m)
  <2>1. PICK i \in 0 .. CAP - 1 : s.send_window[i] # None /\ m = ToPacket(s.send_window[i])
    BY <1>1
  <2> DEFINE e == s.send_window[i]
  <2>2. Made(sent[p], e)
    BY <1>4, <2>1 DEF Numbered
  <2>3. /\ m.seq_no = e.seq_no /\ m.reply_no = e.reply_no /\ m.seq_cst = e.seq_cst
        /\ m.data = e.data
    BY <2>1 DEF ToPacket
  <2> HIDE DEF e
  <2> QED
    BY <2>2, <2>3, MadeSame
<1>6. ASSUME NEW i \in 0 .. CAP - 1, v.send_window[i] # None PROVE Made(sent[p], v.send_window[i])
  <2>1. s.send_window[i] # None /\ Made(sent[p], s.send_window[i])
    BY <1>3, <1>4, <1>6 DEF SameEntries, Numbered
  <2> QED
    BY <1>3, <2>1, MadeSame DEF SameEntries
<1>7. Numbered(sent[p], v, net[Other(p)] \cup packets)
  BY <1>3, <1>4, <1>5, <1>6 DEF Numbered
<1> QED
  BY <1>1, <1>3, <1>4, <1>7, OrderStay DEF s

LEMMA LoseOrder ==
    ASSUME FewPackets, Order, Basics', NEW p \in Peer, NEW m \in net[p], Lose(p, m)
    PROVE  Order'
<1>1. /\ seq' = seq /\ guards' = guards /\ sent' = sent /\ delivered' = delivered
      /\ repeated' = repeated /\ net' = [net EXCEPT ![p] = @ \ {m}]
  BY DEF Lose
<1>2. net \in [Peer -> SUBSET Packet]
  BY DEF Order, Basics, Typed
<1>3. ASSUME NEW r \in Peer PROVE Ordered(r)'
  <2>1. Ordered(r) /\ Other(r) \in Peer
    BY OtherPeer DEF Order
  <2>2. net'[Other(r)] \subseteq net[Other(r)]
    BY <1>1, <1>2, <2>1
  <2> QED
    BY <1>1, <2>1, <2>2 DEF Ordered, Numbered
<1> QED
  BY <1>3 DEF Order

LEMMA CallOrder ==
    ASSUME FewPackets, Order, Basics', NEW p \in Peer, Call(p)
    PROVE  Order'
BY SendOrder, HandsOrder, SavesOrder, AcksAgainOrder, ReceiveAckOrder, AnswerOrder,
   GiveUpOrder, UnlockOrder, DropLockOrder, ResendOrder, LoseOrder DEF Call

LEMMA UnchangedOrder == Order /\ Basics' /\ UNCHANGED vars => Order'
BY DEF Order, Ordered, vars

LEMMA InitOrder == Init => Order
<1> SUFFICES ASSUME Init PROVE Order
  OBVIOUS
<1>1. Basics
  BY InitBasics
<1>2. ASSUME NEW p \in Peer PROVE Ordered(p)
  <2>1. Other(p) \in Peer
    BY OtherPeer
  <2>2. /\ seq[p] = NewSeqEx /\ seq[Other(p)] = NewSeqEx /\ sent[p] = << >>
        /\ net[Other(p)] = {} /\ guards[p] = {} /\ delivered[p] = << >>
        /\ delivered[Other(p)] = << >>
    BY <2>1 DEF Init
  <2>3. SeenIn(<< >>) = {} /\ DOMAIN << >> = {} /\ Len(<< >>) = 0
    BY DEF SeenIn
  <2>4. InTurn(sent[p], << >>) /\ Once(<< >>) /\ Named({}, << >>)
    BY <2>3 DEF InTurn, Once, Named
  <2>5. Wrap(InitialSeqNo - InitialSeqNo) = 0 /\ Num(1) = InitialSeqNo
    <3>1. /\ Wrap(0) = 0 /\ InitialSeqNo + (1 - 1) = InitialSeqNo
          /\ InitialSeqNo - InitialSeqNo = 0 /\ Wrap(InitialSeqNo) = InitialSeqNo
      BY HalfFacts, WrapOnce
    <3> QED
      BY <3>1 DEF Num
  <2>6. /\ NewSeqEx.next_send_seq_no = InitialSeqNo /\ NewSeqEx.next_recv_seq_no = InitialSeqNo
        /\ \A i \in 0 .. CAP - 1 : NewSeqEx.send_window[i] = None
                                   /\ NewSeqEx.recv_window[i] = Empty
    BY DEF NewSeqEx
  <2>7. Numbered(<< >>, NewSeqEx, {})
    <3>1. 0 + 1 = 1
      OBVIOUS
    <3> QED
      BY <2>3, <2>5, <2>6, <3>1 DEF Numbered
  <2>8. Received(<< >>, NewSeqEx, << >>)
    <3>1. Passed(NewSeqEx) = 0 /\ 1 .. 0 = {}
      BY <2>5, <2>6 DEF Passed
    <3>2. NextEntry(NewSeqEx) = Empty
      <4>1. Idx(InitialSeqNo) \in 0 .. CAP - 1
        BY SeqNoAssumption, IdxType
      <4> QED
        BY <2>6, <4>1 DEF NextEntry
    <3>3. Empty.tag = "Empty"
      BY DEF Empty
    <3> QED
      BY <2>3, <2>6, <3>1, <3>2, <3>3 DEF Received
  <2> QED
    BY <2>2, <2>4, <2>7, <2>8 DEF Ordered
<1> QED
  BY <1>1, <1>2 DEF Order

LEMMA OrderInvariance ==
    ASSUME FewPackets
    PROVE  Spec => []Order
<1>1. Order /\ [Next]_vars => Order'
  <2> SUFFICES ASSUME Order, [Next]_vars PROVE Order'
    OBVIOUS
  <2>1. Basics
    BY DEF Order
  <2>2. UNCHANGED vars \/ \E p \in Peer : Call(p)
    BY <2>1, NextCalls
  <2>3. Basics'
    BY <2>1, <2>2, CallBasics, UnchangedBasics
  <2> QED
    BY <2>2, <2>3, CallOrder, UnchangedOrder
<1> QED
  BY <1>1, InitOrder, PTL DEF Spec

\* Whatever was sent before a SeqCst packet is handed to the application before it, and the
\* SeqCst packet itself once: receive and pump let it through only when it is next and the lock
\* is free.  Duplicates, reordering and losses of the transport do not change that.
THEOREM SeqCstDeliveredInOrder ==
    ASSUME FewPackets
    PROVE  Spec => []SeqCstInOrder
<1>1. Order => SeqCstInOrder
  <2>1. SUFFICES ASSUME Order, NEW p \in Peer
                 PROVE  InTurn(sent[Other(p)], delivered[p])
    BY DEF SeqCstInOrder, InTurn
  <2> QED
    BY <2>1, OrderFacts
<1> QED
  BY <1>1, OrderInvariance, PTL

\* The only packet that is handed over again is a second copy of one that was processed early,
\* which Unlocked marks: any other copy is below the range, or its slot has moved on.
THEOREM RepeatsOnlyEarlyPackets ==
    ASSUME FewPackets
    PROVE  Spec => []NoOtherRepeat
<1>1. Order => NoOtherRepeat
  <2>1. SUFFICES ASSUME Order, ~repeated, NEW p \in Peer
                 PROVE  Once(delivered[p])
    BY DEF NoOtherRepeat, ExactlyOnce, Once
  <2> QED
    BY <2>1, OrderFacts
<1> QED
  BY <1>1, OrderInvariance, PTL

----------------------------------------------------------------------------
(* Applications that only send SeqCst packets.                             *)

OnlySeqCst == FALSE \notin SeqCstModes

Strict ==
    /\ ~repeated
    /\ \A p \in Peer : \A d \in 1 .. Len(sent[p]) : sent[p][d].seq_cst

\* What is sent is SeqCst, so what is handed over is next in order, and new.
LEMMA StrictAppend ==
    ASSUME Order, Strict, NEW p \in Peer, NEW x \in Sent, x.seq_cst,
           sent' = [sent EXCEPT ![p] = Append(@, x)], repeated' = repeated
    PROVE  Strict'
<1>1. sent \in [Peer -> Seq(Sent)]
  BY DEF Order, Basics, Typed
<1>2. ASSUME NEW q \in Peer, NEW d \in 1 .. Len(sent'[q]) PROVE sent'[q][d].seq_cst
  <2>1. CASE q = p
    <3>1. sent'[p] = Append(sent[p], x) /\ sent[p] \in Seq(Sent)
      BY <1>1
    <3>2. d \in 1 .. Len(sent[p]) + 1 /\ Len(sent[p]) \in Nat
      BY <1>2, <2>1, <3>1, SentAppend
    <3>3. d \in 1 .. Len(sent[p]) \/ d = Len(sent[p]) + 1
      BY <3>2
    <3> QED
      BY <2>1, <3>1, <3>3, SentAppend DEF Strict
  <2>2. CASE q # p
    BY <1>1, <1>2, <2>2 DEF Strict
  <2> QED
    BY <2>1, <2>2
<1> QED
  BY <1>2 DEF Strict

LEMMA CallStrict ==
    ASSUME FewPackets, OnlySeqCst, Order, Strict, NEW p \in Peer, Call(p)
    PROVE  Strict'
<1>1. sent \in [Peer -> Seq(Sent)] /\ Basics
  BY DEF Order, Basics, Typed
<1>2. ASSUME sent' = sent, repeated' = repeated PROVE Strict'
  BY <1>2 DEF Strict
<1>3. \A c \in SeqCstModes : c = TRUE
  BY BoundAssumption DEF OnlySeqCst
<1>4. ASSUME NEW c \in SeqCstModes, Send(p, c) PROVE Strict'
  <2> DEFINE x == [reply_to |-> None, seq_cst |-> c]
  <2>1. x \in Sent /\ x.seq_cst /\ repeated' = repeated
        /\ sent' = [sent EXCEPT ![p] = Append(@, x)]
    BY <1>1, <1>3, <1>4, SendMoves DEF Send
  <2> HIDE DEF x
  <2> QED
    BY <2>1, StrictAppend
<1>5. ASSUME NEW g, NEW u, NEW c, Answer(p, g, u, c) PROVE Strict'
  <2> DEFINE y == delivered[p][g.ord].data
             x == [reply_to |-> y, seq_cst |-> c]
  <2>1. /\ g.ord \in 1 .. Len(delivered[p]) /\ repeated' = repeated /\ c \in SeqCstModes
        /\ c \in BOOLEAN
    BY <1>1, <1>5, AnswerMoves
  <2>2. sent' = [sent EXCEPT ![p] = Append(@, x)]
    BY <1>5 DEF Answer, ReplyTo
  <2>3. y \in Data
    <3>1. delivered[p] \in Seq(Delivered)
      BY <1>1, BasicsFacts
    <3> QED
      BY <2>1, <3>1, SeenFacts
  <2>4. c = TRUE
    BY <1>3, <2>1
  <2> HIDE DEF y
  <2>5. x \in Sent /\ x.seq_cst
    BY <2>1, <2>3, <2>4 DEF Sent
  <2> HIDE DEF x
  <2> QED
    BY <2>1, <2>2, <2>5, StrictAppend
<1>6. ASSUME NEW m, NEW is_next, Hands(p, m, is_next) PROVE Strict'
  <2>1. Made(sent[Other(p)], m) /\ Other(p) \in Peer
    BY <1>6, HandsMade, OtherPeer
  <2>2. m.seq_cst /\ Handable(seq[p], m, is_next)
    BY <1>6, <2>1 DEF Made, Strict, Hands
  <2>3. m.seq_no = seq[p].next_recv_seq_no
    BY <2>2 DEF Handable
  <2>4. NextEntry(seq[p]).tag # "Unlocked"
    <3>1. Received(sent[Other(p)], seq[p], delivered[p])
      BY OrderFacts
    <3> QED
      BY <3>1 DEF Received
  <2>5. ~IsRepeat(seq[p], m)
    BY <2>3, <2>4 DEF IsRepeat, NextEntry, Unlocked
  <2>6. repeated' = FALSE /\ sent' = [sent EXCEPT ![p] = sent[p]]
    BY <1>6, <2>5 DEF Hands, Moves, Strict
  <2>7. sent' = sent /\ ~repeated'
    BY <1>1, <2>6
  <2> QED
    BY <2>7 DEF Strict
<1>7. ASSUME \/ \E m : Saves(p, m)
             \/ \E m : AcksAgain(p, m)
             \/ \E m \in net[p] : ReceiveAck(p, m)
             \/ \E g, u : GiveUp(p, g, u)
             \/ \E g \in guards[p] : UnlockGuard(p, g)
             \/ DropLockGuard(p)
             \/ Resend(p)
             \/ \E m \in net[p] : Lose(p, m)
      PROVE  sent' = sent /\ repeated' = repeated
  <2>1. [sent EXCEPT ![p] = sent[p]] = sent
    BY <1>1
  <2> QED
    BY <1>7, <2>1 DEF Saves, AcksAgain, Moves, ReceiveAck, GiveUp, UnlockGuard, DropLockGuard,
       Resend, Lose
<1> QED
  BY <1>2, <1>4, <1>5, <1>6, <1>7 DEF Call

LEMMA StrictInvariance ==
    ASSUME FewPackets, OnlySeqCst
    PROVE  Spec => []Strict
<1>1. Init => Strict
  <2>1. Len(<< >>) = 0
    OBVIOUS
  <2>2. Init => \A p \in Peer : sent[p] = << >> /\ repeated = FALSE
    BY DEF Init
  <2>3. Init => ~repeated
    BY DEF Init
  <2> QED
    BY <2>1, <2>2, <2>3 DEF Strict
<1>2. Order /\ Strict /\ [Next]_vars => Strict'
  <2> SUFFICES ASSUME Order, Strict, [Next]_vars PROVE Strict'
    OBVIOUS
  <2>1. UNCHANGED vars \/ \E p \in Peer : Call(p)
    BY NextCalls DEF Order
  <2>2. UNCHANGED vars => Strict'
    BY DEF vars, Strict
  <2> QED
    BY <2>1, <2>2, CallStrict
<1> QED
  BY <1>1, <1>2, OrderInvariance, PTL DEF Spec

\* With SeqCst packets only, nothing is ever handed to an application twice.
THEOREM SeqCstExactlyOnce ==
    ASSUME FewPackets, OnlySeqCst
    PROVE  Spec => []ExactlyOnce
<1>1. NoOtherRepeat /\ Strict => ExactlyOnce
  BY DEF NoOtherRepeat, Strict
<1> QED
  BY <1>1, RepeatsOnlyEarlyPackets, StrictInvariance, PTL
=============================================================================
